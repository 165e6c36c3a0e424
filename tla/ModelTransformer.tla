--------------------------- MODULE ModelTransformer ---------------------------
(***************************************************************************)
(* The model-transformation framework of packages/js/api: property bags,   *)
(* the four transformation kinds and the ModelTransformer pipeline.        *)
(*                                                                         *)
(* Only ModelTransformerTransformation is among the sources; the pipeline  *)
(* (ModelTransformer), KeyChange, PropertyType and IgnoreProperty live in  *)
(* framework files that are not, and are modelled from the design notes:  *)
(* fromModel runs the transformations in declared order, toModel in        *)
(* reverse order and then constructs the model class from the bag; any     *)
(* failing step aborts the whole call.                                     *)
(*                                                                         *)
(* Values are abstracted to what coercion tells apart: a string or number  *)
(* is represented by its class (empty, non-numeric text, zero, a negative  *)
(* integer, a positive integer, a number with a fractional part).          *)
(***************************************************************************)
EXTENDS PropertyBag

CONSTANTS
    Transformers,   \* transformer name -> sequence of transformations
    Defaults        \* model class -> the bag its field initialisers produce

(***************************************************************************)
(* PropertyType coercion.  null is left alone (undefined is an absent key).*)
(* Integer keeps the integer part of a numeral; a value with no numeric    *)
(* reading cannot be converted.                                            *)
(***************************************************************************)
Coerce(type, v) ==
    CASE v = Null -> v
      [] type = "String" /\ v.t = "str" -> v
      [] type = "String" /\ v.t = "num" -> Str(v.c)
      [] type = "String" /\ v.t = "bool" -> Str("text")
      [] type = "Integer" /\ v.t \in {"str", "num"} /\ v.c \in {"zero", "neg", "int"} -> Num(v.c)
      [] type = "Integer" /\ v.t \in {"str", "num"} /\ v.c = "frac" -> Num("int")
      [] type = "Boolean" /\ v.t = "bool" -> v
      [] type = "Boolean" /\ v.t \in {"str", "num"} -> Bool(v.c \notin {"empty", "zero"})
      [] OTHER -> CoercionError

\* KeyChange: each configured key that is present moves to its new name.
RenameKeys(bag, changes) ==
    LET moved   == DOMAIN changes \cap DOMAIN bag
        targets == {changes[k] : k \in moved}
    IN  [w \in (DOMAIN bag \ moved) \cup targets |->
            IF w \in targets THEN bag[CHOOSE k \in moved : changes[k] = w]
                             ELSE bag[w]]

\* Mutant: toModel returns the plain bag, not an instance of the class.
ConstructPlainObject(class, bag) == bag

\* A model object built by `new modelClass( properties )`: the field
\* initialisers, then Object.assign of the given properties.
Construct(class, bag) ==
    [k \in DOMAIN Defaults[class] \cup DOMAIN bag |->
        IF k \in DOMAIN bag THEN bag[k] ELSE Defaults[class][k]]

\* Mutant: an element whose conversion failed is kept as it came.
MapResultsKeepFailed(results, s) ==
    Ok(List([i \in DOMAIN s |-> IF results[i].ok THEN Obj(results[i].bag) ELSE s[i]]))

\* Apply a per-element result to every element of a list, preserving order;
\* one failing element fails the whole call.
MapResults(results, s) ==
    IF \E i \in DOMAIN s : ~results[i].ok THEN Failed
    ELSE Ok(List([i \in DOMAIN s |-> Obj(results[i].bag)]))

RECURSIVE FromModel(_, _), ToModel(_, _, _), RunFrom(_, _, _), RunTo(_, _, _),
          ApplyFrom(_, _), ApplyTo(_, _)

\* ModelTransformerTransformation.fromModel / toModel on the whole bag.
NestedFrom(tr, bag) ==
    LET p == tr.property IN
    IF p \notin DOMAIN bag \/ ~Truthy(bag[p]) THEN Ok(bag)
    ELSE LET val == bag[p]
             res == IF val.t = "list"
                    THEN MapResults([i \in DOMAIN val.s |->
                                        FromModel(tr.transformer, val.s[i].f)], val.s)
                    ELSE LET r == FromModel(tr.transformer, val.f)
                         IN  IF r.ok THEN Ok(Obj(r.bag)) ELSE Failed
         IN  IF res.ok THEN Ok([bag EXCEPT ![p] = res.bag]) ELSE Failed

\* Mutant: the list branch of toModel maps the elements with fromModel.
NestedToListFromModel(tr, bag) ==
    LET p == tr.property IN
    IF p \notin DOMAIN bag \/ ~Truthy(bag[p]) THEN Ok(bag)
    ELSE LET val == bag[p]
             res == IF val.t = "list"
                    THEN MapResults([i \in DOMAIN val.s |->
                                        FromModel(tr.transformer, val.s[i].f)], val.s)
                    ELSE LET r == ToModel(tr.modelClass, tr.transformer, val.f)
                         IN  IF r.ok THEN Ok(Obj(r.bag)) ELSE Failed
         IN  IF res.ok THEN Ok([bag EXCEPT ![p] = res.bag]) ELSE Failed

NestedTo(tr, bag) ==
    LET p == tr.property IN
    IF p \notin DOMAIN bag \/ ~Truthy(bag[p]) THEN Ok(bag)
    ELSE LET val == bag[p]
             res == IF val.t = "list"
                    THEN MapResults([i \in DOMAIN val.s |->
                                        ToModel(tr.modelClass, tr.transformer, val.s[i].f)], val.s)
                    ELSE LET r == ToModel(tr.modelClass, tr.transformer, val.f)
                         IN  IF r.ok THEN Ok(Obj(r.bag)) ELSE Failed
         IN  IF res.ok THEN Ok([bag EXCEPT ![p] = res.bag]) ELSE Failed

CoerceAll(types, bag) ==
    LET out == [k \in DOMAIN bag |->
                  IF k \in DOMAIN types THEN Coerce(types[k], bag[k]) ELSE bag[k]]
    IN  IF \E k \in DOMAIN out : out[k] = CoercionError THEN Failed ELSE Ok(out)

\* One transformation's fromModel.
ApplyFrom(tr, bag) ==
    CASE tr.kind = "ignore" -> Ok(Restrict(bag, DOMAIN bag \ tr.props))
      [] tr.kind = "type"   -> CoerceAll(tr.types, bag)
      [] tr.kind = "key"    -> Ok(RenameKeys(bag, tr.changes))
      [] tr.kind = "nested" -> NestedFrom(tr, bag)

\* One transformation's toModel.
ApplyTo(tr, bag) ==
    CASE tr.kind = "ignore" -> Ok(bag)
      [] tr.kind = "type"   -> CoerceAll(tr.types, bag)
      [] tr.kind = "key"    -> Ok(RenameKeys(bag, AntiFunction(tr.changes)))
      [] tr.kind = "nested" -> NestedTo(tr, bag)

\* ModelTransformer.fromModel: declared order, first failure aborts.
RunFrom(seq, i, res) ==
    IF i > Len(seq) \/ ~res.ok THEN res
    ELSE RunFrom(seq, i + 1, ApplyFrom(seq[i], res.bag))

FromModel(name, bag) == RunFrom(Transformers[name], 1, Ok(bag))

\* ModelTransformer.toModel: reverse order, then the model class is built.
RunTo(seq, i, res) ==
    IF i < 1 \/ ~res.ok THEN res
    ELSE RunTo(seq, i - 1, ApplyTo(seq[i], res.bag))

ToModel(class, name, bag) ==
    LET seq == Transformers[name]
        res == RunTo(seq, Len(seq), Ok(bag))
    IN  IF res.ok THEN Ok(Construct(class, res.bag)) ELSE Failed

=============================================================================

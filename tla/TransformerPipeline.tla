-------------------------- MODULE TransformerPipeline --------------------------
(***************************************************************************)
(* One round trip through an order transformer, a transformation at a      *)
(* time: ModelTransformer.fromModel turns a model (or the Partial<Order>   *)
(* a repository is given) into the REST body; ModelTransformer.toModel     *)
(* turns a REST response body back into a model.  A run starts either from *)
(* a model ("model" mode: fromModel, then toModel of what it produced) or  *)
(* from a response body ("wire" mode: toModel only).  Nested models are    *)
(* converted inside the step of their ModelTransformerTransformation.      *)
(***************************************************************************)
EXTENDS OrderModels

CONSTANTS
    Classes,     \* the model classes whose transformers are exercised
    InStr,       \* string classes a field may hold
    InNum,       \* number classes a field may hold
    FractionalFields \* number fields whose values may have a fractional part

ASSUME Classes \subseteq DOMAIN TransformerOf \cup {"Order"}
ASSUME InStr \subseteq StrClasses /\ InNum \subseteq NumClasses

MT == INSTANCE ModelTransformer WITH Transformers <- OrderTransformers,
                                     Defaults <- ClassDefaults

VARIABLES
    cls,     \* the model class being converted
    mode,    \* "model": fromModel then toModel of a typed model; "untyped": the
             \* same for a bag from an untyped (JavaScript) caller; "wire":
             \* toModel of a response
    input,   \* the bag the run started from
    bag,     \* the bag threaded through the transformations
    step,    \* index of the next transformation
    phase,   \* "fromModel", "toModel", "done" or "failed"
    wire,    \* the REST body: fromModel's result, or the response given
    model    \* the model toModel built, Null before

vars == <<cls, mode, input, bag, step, phase, wire, model>>

TName(c) == IF c = "Order" THEN "order" ELSE TransformerOf[c]
Steps(c) == OrderTransformers[TName(c)]

(***************************************************************************)
(* Inputs.  A model is a class's initialised fields with at most one field *)
(* set to another value of its TypeScript type (a fractional number only  *)
(* in a field that holds an amount or a rate, FractionalFields); the      *)
(* transformations act on                                                  *)
(* each key separately, so one changed field at a time covers every key.   *)
(* A Partial<Order> holds one field.  A response body holds one field of   *)
(* any JSON kind under the name the REST API uses; a nested list in it     *)
(* holds an empty element and, after it, possibly one whose field fails.   *)
(***************************************************************************)
ValuesOf(k, type) ==
    CASE type = "string"            -> {Str(c) : c \in InStr}
      [] type = "number"            -> {Num(c) : c \in IF k \in FractionalFields THEN InNum
                                                       ELSE InNum \ {"frac"}}
      [] type = "boolean"           -> {Bool(b) : b \in BOOLEAN}
      [] type = "string|null"       -> {Str(c) : c \in InStr} \cup {Null}
      [] type = "list OrderItemTax" -> {NoItems, List(<<Obj(ClassDefaults["OrderItemTax"])>>)}
      [] type = "list MetaData"     -> {NoItems}

Scalars == {Str(c) : c \in InStr} \cup {Num(c) : c \in InNum}
           \cup {Bool(b) : b \in BOOLEAN} \cup {Null}

\* The transformations of a transformer, merged by kind.
TypesOf(t)   == LET trs == {OrderTransformers[t][i] : i \in DOMAIN OrderTransformers[t]} IN
                [k \in UNION {DOMAIN tr.types : tr \in {x \in trs : x.kind = "type"}} |->
                    (CHOOSE tr \in trs : tr.kind = "type" /\ k \in DOMAIN tr.types).types[k]]
RenamesOf(t) == LET trs == {OrderTransformers[t][i] : i \in DOMAIN OrderTransformers[t]} IN
                [k \in UNION {DOMAIN tr.changes : tr \in {x \in trs : x.kind = "key"}} |->
                    (CHOOSE tr \in trs : tr.kind = "key" /\ k \in DOMAIN tr.changes).changes[k]]
NestedOf(t)  == {OrderTransformers[t][i] : i \in {j \in DOMAIN OrderTransformers[t] :
                                               OrderTransformers[t][j].kind = "nested"}}
IgnoredOf(t) == UNION {OrderTransformers[t][i].props : i \in {j \in DOMAIN OrderTransformers[t] :
                                                     OrderTransformers[t][j].kind = "ignore"}}

\* Values of a PropertyType type.
TypedValues(type) ==
    CASE type = "String"  -> {Str(c) : c \in InStr}
      [] type = "Integer" -> {Num(c) : c \in InNum \ {"frac"}}
      [] type = "Boolean" -> {Bool(b) : b \in BOOLEAN}

\* Partial<Order>: one field the order transformer converts.
OrderInputs ==
    UNION {{(k :> v) : v \in TypedValues(TypesOf("order")[k])} : k \in DOMAIN TypesOf("order")}
    \cup {(tr.property :> List(<<Obj(ClassDefaults[tr.modelClass])>>)) :
             tr \in {x \in NestedOf("order") : x.modelClass # "MetaData"}}

ModelInputs(c) ==
    IF c = "Order" THEN OrderInputs
    ELSE LET d == ClassDefaults[c] IN
         {d} \cup UNION {{[d EXCEPT ![k] = v] : v \in ValuesOf(k, ClassFields[c][k].type)} :
                             k \in DOMAIN ClassFields[c]}
             \cup IF c \in DOMAIN OptionalFields
                  THEN UNION {{d @@ (k :> v) : v \in ValuesOf(k, OptionalFields[c][k].type)} :
                                  k \in DOMAIN OptionalFields[c]}
                  ELSE {}

WireName(t, k) == IF k \in DOMAIN RenamesOf(t) THEN RenamesOf(t)[k] ELSE k

\* An element of a nested list in a response: one field of its transformer
\* holding any JSON scalar, which may fail that transformer's coercion.
NestedElems(t, k) ==
    UNION {{Obj((WireName(tr.transformer, f) :> v)) : f \in DOMAIN TypesOf(tr.transformer), v \in Scalars} :
              tr \in {x \in NestedOf(t) : x.property = k}}

NestedValues(t, k) ==
    {NoItems, List(<<Obj(EmptyBag)>>), Null} \cup {List(<<Obj(EmptyBag), x>>) : x \in NestedElems(t, k)}

WireInputs(c) ==
    LET t    == TName(c)
        keys == IF c = "Order" THEN DOMAIN TypesOf("order") \cup {tr.property : tr \in NestedOf(t)}
                ELSE DOMAIN ClassFields[c] \cup
                     (IF c \in DOMAIN OptionalFields THEN DOMAIN OptionalFields[c] ELSE {})
        nested == {tr.property : tr \in NestedOf(t)}
    IN  {EmptyBag} \cup
        {(WireName(t, k) :> v) : k \in keys \ nested, v \in Scalars} \cup
        UNION {{(WireName(t, k) :> v) : v \in NestedValues(t, k)} : k \in keys \cap nested}

\* A bag from an untyped caller: one converted field holding any JSON scalar.
UntypedInputs(c) ==
    {(k :> v) : k \in DOMAIN TypesOf(TName(c)), v \in Scalars}

(***************************************************************************)
(* The state machine.                                                      *)
(***************************************************************************)
Init ==
    /\ cls \in Classes
    /\ model = Null
    /\ \/ /\ mode = "model"
          /\ input \in ModelInputs(cls)
          /\ bag = input /\ wire = EmptyBag
          /\ phase = "fromModel" /\ step = 1
       \/ /\ mode = "untyped"
          /\ input \in UntypedInputs(cls)
          /\ bag = input /\ wire = EmptyBag
          /\ phase = "fromModel" /\ step = 1
       \/ /\ mode = "wire"
          /\ input \in WireInputs(cls)
          /\ bag = input /\ wire = input
          /\ phase = "toModel" /\ step = Len(Steps(cls))

\* fromModel: the next transformation in declared order.
FromModelStep ==
    /\ phase = "fromModel" /\ step <= Len(Steps(cls))
    /\ LET r == MT!ApplyFrom(Steps(cls)[step], bag) IN
       /\ r.ok
       /\ bag' = r.bag /\ step' = step + 1
    /\ UNCHANGED <<cls, mode, input, phase, wire, model>>

\* A fromModel step throws: the call aborts.
FromModelAbort ==
    /\ phase = "fromModel" /\ step <= Len(Steps(cls))
    /\ ~MT!ApplyFrom(Steps(cls)[step], bag).ok
    /\ phase' = "failed"
    /\ UNCHANGED <<cls, mode, input, bag, step, wire, model>>

\* fromModel returns; its result is the REST body, which comes back and is
\* handed to toModel, starting from the last transformation.
FromModelReturn ==
    /\ phase = "fromModel" /\ step > Len(Steps(cls))
    /\ wire' = bag
    /\ phase' = "toModel" /\ step' = Len(Steps(cls))
    /\ UNCHANGED <<cls, mode, input, bag, model>>

\* toModel: the next transformation in reverse declared order.
ToModelStep ==
    /\ phase = "toModel" /\ step >= 1
    /\ LET r == MT!ApplyTo(Steps(cls)[step], bag) IN
       /\ r.ok
       /\ bag' = r.bag /\ step' = step - 1
    /\ UNCHANGED <<cls, mode, input, phase, wire, model>>

\* A toModel step throws: the call aborts.
ToModelAbort ==
    /\ phase = "toModel" /\ step >= 1
    /\ ~MT!ApplyTo(Steps(cls)[step], bag).ok
    /\ phase' = "failed"
    /\ UNCHANGED <<cls, mode, input, bag, step, wire, model>>

\* toModel returns `new modelClass( properties )`.
ToModelReturn ==
    /\ phase = "toModel" /\ step = 0
    /\ model' = MT!Construct(cls, bag)
    /\ phase' = "done"
    /\ UNCHANGED <<cls, mode, input, bag, step, wire>>

Next == \/ FromModelStep \/ FromModelAbort \/ FromModelReturn
        \/ ToModelStep \/ ToModelAbort \/ ToModelReturn

Spec == Init /\ [][Next]_vars

(***************************************************************************)
(* The contract each transformer is meant to implement, stated field by    *)
(* field instead of as a pipeline: fromModel gives every field its REST    *)
(* name, the value coerced to the field's declared type (a nested model    *)
(* converted by its own transformer, a list element by element, in order), *)
(* and drops the ignored fields; toModel does the inverse and builds the   *)
(* model class.  Which transformation runs first is not part of it.        *)
(***************************************************************************)
UIName(t, w) == IF w \in Range(RenamesOf(t)) THEN CHOOSE k \in DOMAIN RenamesOf(t) : RenamesOf(t)[k] = w
                ELSE w

NestedAt(t, k) == {tr \in NestedOf(t) : tr.property = k}

Collect(out) == IF \E k \in DOMAIN out : out[k] = CoercionError THEN Failed ELSE Ok(out)

AsValue(r) == IF r.ok THEN Obj(r.bag) ELSE CoercionError

ListValue(results) ==
    IF \E i \in DOMAIN results : ~results[i].ok THEN CoercionError
    ELSE List([i \in DOMAIN results |-> Obj(results[i].bag)])

RECURSIVE RefFrom(_, _), RefTo(_, _, _)

RefFromValue(t, k, v) ==
    IF NestedAt(t, k) # {} /\ Truthy(v)
    THEN LET tr == CHOOSE x \in NestedAt(t, k) : TRUE IN
         IF v.t = "list" THEN ListValue([i \in DOMAIN v.s |-> RefFrom(tr.transformer, v.s[i].f)])
                         ELSE AsValue(RefFrom(tr.transformer, v.f))
    ELSE IF k \in DOMAIN TypesOf(t) THEN MT!Coerce(TypesOf(t)[k], v) ELSE v

RefFrom(t, m) ==
    LET keys == {k \in DOMAIN m : WireName(t, k) \notin IgnoredOf(t)}
        src(w) == CHOOSE k \in keys : WireName(t, k) = w
    IN  Collect([w \in {WireName(t, k) : k \in keys} |-> RefFromValue(t, src(w), m[src(w)])])

RefToValue(t, k, v) ==
    IF NestedAt(t, k) # {} /\ Truthy(v)
    THEN LET tr == CHOOSE x \in NestedAt(t, k) : TRUE IN
         IF v.t = "list"
         THEN ListValue([i \in DOMAIN v.s |-> RefTo(tr.modelClass, tr.transformer, v.s[i].f)])
         ELSE AsValue(RefTo(tr.modelClass, tr.transformer, v.f))
    ELSE IF k \in DOMAIN TypesOf(t) THEN MT!Coerce(TypesOf(t)[k], v) ELSE v

RefTo(c, t, w) ==
    LET r == Collect([k \in {UIName(t, x) : x \in DOMAIN w} |->
                         RefToValue(t, k, w[CHOOSE x \in DOMAIN w : UIName(t, x) = k])])
    IN  IF r.ok THEN Ok(MT!Construct(c, r.bag)) ELSE Failed

\* Every key of a bag, nested bags included.
RECURSIVE KeysIn(_)
KeysIn(b) ==
    DOMAIN b \cup UNION {CASE b[k].t = "obj"  -> KeysIn(b[k].f)
                           [] b[k].t = "list" -> UNION {KeysIn(b[k].s[i].f) : i \in DOMAIN b[k].s}
                           [] OTHER           -> {} : k \in DOMAIN b}

\* Field names in the model's camelCase convention that the REST API spells
\* differently (snake_case).
UINamingKeys ==
    {"firstName", "lastName", "address1", "address2", "postCode", "metaData",
     "productId", "variationId", "taxClass", "subtotalTax", "totalTax", "parentName",
     "rateCode", "rateId", "compoundRate", "taxTotal", "shippingTaxTotal", "ratePercent",
     "methodTitle", "methodId", "instanceId", "taxStatus", "discountTax", "discountTotal",
     "shippingTotal", "shippingTax", "cartTax", "pricesIncludeTax", "customerId",
     "customerNote", "paymentMethod", "transactionId", "setPaid", "lineItems", "taxLines",
     "shippingLines", "feeLines", "couponLines"}

(***************************************************************************)
(* Properties                                                              *)
(***************************************************************************)
Tags == {"str", "num", "bool", "null", "obj", "list"}

TypeOK ==
    /\ cls \in Classes
    /\ mode \in {"model", "untyped", "wire"}
    /\ phase \in {"fromModel", "toModel", "done", "failed"}
    /\ step \in 0..(Len(Steps(cls)) + 1)
    /\ \A b \in {input, bag, wire} : \A k \in DOMAIN b : b[k].t \in Tags
    \* a built model is an instance of its class: every initialised field is there
    /\ \/ model = Null
       \/ /\ DOMAIN ClassDefaults[cls] \subseteq DOMAIN model
          /\ \A k \in DOMAIN model : model[k].t \in Tags

\* ModelTransformer.fromModel, run in declared order through every
\* transformer of transformer.ts (nested ones included), produces exactly
\* the field-by-field contract: each field under its REST name with its
\* declared type, or it fails exactly when the contract has no result.
FromModelContract ==
    mode \in {"model", "untyped"} /\ phase # "fromModel" =>
        LET ref == RefFrom(TName(cls), input) IN
        IF ref.ok THEN wire = ref.bag ELSE phase = "failed" /\ wire = EmptyBag

\* ModelTransformer.toModel, run in reverse declared order, builds exactly
\* the model the field-by-field contract describes from the REST body, and
\* throws exactly when the contract has no result.
ToModelContract ==
    /\ phase = "done" => RefTo(cls, TName(cls), wire) = Ok(model)
    /\ phase = "failed" /\ (mode = "wire" \/ wire # EmptyBag) =>
           ~RefTo(cls, TName(cls), wire).ok

\* Converting a model whose fields hold values of their TypeScript types
\* (classes.ts) never throws a TypeCoercionError, in either direction: the
\* PropertyType tables of transformer.ts agree with the classes.
ModelSideNeverFails == mode = "model" => phase # "failed"

\* Round trip (the design's "round-trip identity"): toModel of fromModel of
\* a model gives back the same model.
RoundTrip == mode = "model" /\ phase = "done" => model = input

\* The REST body fromModel produces uses the REST API's field names only:
\* no model-convention (camelCase) name is sent, at any nesting level.
WireKeysSnakeCase ==
    mode = "model" /\ phase \in {"toModel", "done"} => KeysIn(wire) \cap UINamingKeys = {}

\* The transformers are faithful to the REST API in both directions: the
\* body fromModel sends holds REST names only, and toModel of that body
\* gives the model back.
RestBodyFaithful == WireKeysSnakeCase /\ RoundTrip
=============================================================================

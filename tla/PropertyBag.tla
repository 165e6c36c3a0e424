----------------------------- MODULE PropertyBag -----------------------------
(***************************************************************************)
(* Property bags as the model transformation framework sees them: a bag is *)
(* a function from field names to values; a value is a tagged scalar, a    *)
(* nested bag or a list of bags.  Strings and numbers are represented by   *)
(* their class (empty, non-numeric text, zero, a negative integer, a       *)
(* positive integer, a number with a fractional part), which is all that   *)
(* PropertyType coercion and JavaScript truthiness tell apart.             *)
(***************************************************************************)
EXTENDS Integers, Sequences, FiniteSets, Functions, TLC

StrClasses == {"empty", "text", "zero", "neg", "int", "frac"}
NumClasses == {"neg", "zero", "int", "frac"}

Str(c)  == [t |-> "str", c |-> c]
Num(c)  == [t |-> "num", c |-> c]
Bool(b) == [t |-> "bool", b |-> b]
Null    == [t |-> "null"]
Obj(f)  == [t |-> "obj", f |-> f]
List(s) == [t |-> "list", s |-> s]
\* The value a failed coercion produces (TypeCoercionError).
CoercionError == [t |-> "error"]

EmptyBag == [k \in {} |-> Null]

\* The result of a transformation: the bag, or the error that aborts the call.
Ok(b)  == [ok |-> TRUE, bag |-> b]
Failed == [ok |-> FALSE]

\* JavaScript truthiness, as used by `if ( val )`.
Truthy(v) ==
    \/ v.t \in {"obj", "list"}
    \/ v.t = "str" /\ v.c # "empty"
    \/ v.t = "num" /\ v.c # "zero"
    \/ v.t = "bool" /\ v.b

\* The transformation constructors.
IgnorePropertyTransformation(props) == [kind |-> "ignore", props |-> props]
PropertyTypeTransformation(types)   == [kind |-> "type", types |-> types]
KeyChangeTransformation(changes)    == [kind |-> "key", changes |-> changes]
ModelTransformerTransformation(property, modelClass, transformer) ==
    [kind |-> "nested", property |-> property,
     modelClass |-> modelClass, transformer |-> transformer]
=============================================================================

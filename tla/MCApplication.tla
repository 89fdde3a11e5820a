---------------------------- MODULE MCApplication ----------------------------
(***************************************************************************)
(* Calls for Application: many types and cardinalities with one content,   *)
(* and a few operations with every content of up to two elements,          *)
(* three where the order of a sum matters.                                 *)
(***************************************************************************)
EXTENDS Application

CONSTANT MaxLength   (* bound on the length of a vector operand             *)

(* Binary64 at the smallest size that tells signs: its operations are left *)
(* open by the model, here they keep the sign of their first operand.      *)
MCToDouble(x) == IF x < 0 THEN -1 ELSE IF x > 0 THEN 1 ELSE 0
MCArithmetic64(name, xs) == IF name = "neg" THEN -xs[1] ELSE xs[1]
MCTest64(name, xs) ==
  CASE name = "is_positive" -> xs[1] > 0 [] name = "is_negative" -> xs[1] < 0
    [] name = "less_than" -> xs[1] < xs[2] [] name = "greater_than" -> xs[1] > xs[2]
    [] name = "equals" -> xs[1] = xs[2] [] name = "not_equals" -> xs[1] # xs[2]
MCRank64(x) == x

(***************************************************************************)
(* Operands.                                                               *)
(***************************************************************************)
Sample(type) == CASE type = "Bool" -> TRUE [] type = "Int" -> 0 [] OTHER -> 1

Known(value) == [value |-> value, card |-> IF value.vector THEN Length(value) ELSE AsScalar]
Unknown(value) == [value |-> value, card |-> Dynamic]

Samples(type, lengths) == {Vector(type, [k \in 1 .. n |-> Sample(type)]) : n \in lengths}

OperandsOf(type, lengths) ==
  {Known(Scalar(type, Sample(type)))}
    \union {Known(v) : v \in Samples(type, lengths)}
    \union {Unknown(v) : v \in Samples(type, lengths)}

AnyOperand == UNION {OperandsOf(type, 0 .. MaxLength) : type \in ScalarType}
ShortOperand == UNION {OperandsOf(type, 1 .. MaxLength) : type \in ScalarType}

VectorsOver(type, elements) ==
  {Vector(type, xs) : xs \in UNION {[1 .. n -> elements] : n \in 0 .. MaxLength}}
IntVectors == {Unknown(v) : v \in VectorsOver("Int", Ints)}
ThreeInts == {Unknown(Vector("Int", xs)) : xs \in [1 .. 3 -> Ints]}
BoolVectors == {Unknown(v) : v \in VectorsOver("Bool", BOOLEAN)}
IntScalars == {Known(Scalar("Int", x)) : x \in Ints}
BoolScalars == {Known(Scalar("Bool", x)) : x \in BOOLEAN}

(***************************************************************************)
(* Calls.                                                                  *)
(***************************************************************************)
CallsOf(names, firsts, seconds, references) ==
  {[name |-> name, operands |-> <<x, y>>, reference |-> r] :
     <<name, x, y, r>> \in names \X firsts \X seconds \X references}
UnaryCalls(names, operands, references) ==
  {[name |-> name, operands |-> <<x>>, reference |-> r] :
     <<name, x, r>> \in names \X operands \X references}

Plain == {None}
SomeReferences ==
  {"add", "div", "and", "equals", "less_than", "inc", "not", "odd", "is_positive",
   "sqrt", "sum", "iota", "missing"}

TypedCalls ==
  UnaryCalls({"inc", "not", "odd", "is_positive", "iota", "length", "sort", "sum",
              "all_of", "sqrt", "add", "missing"}, AnyOperand, Plain)
    \union CallsOf({"add", "equals", "and", "less_than"}, AnyOperand, AnyOperand, Plain)
    \union CallsOf({"foldl", "scanl"}, ShortOperand, ShortOperand, SomeReferences)
    \union UnaryCalls({"filter"}, ShortOperand, SomeReferences)

ValuedCalls ==
  UnaryCalls({"inc", "dec", "neg", "abs", "sum", "sort", "iota", "even", "is_negative"},
             IntVectors \union IntScalars, Plain)
    \union UnaryCalls({"sum"}, ThreeInts, Plain)
    \union UnaryCalls({"filter"}, IntVectors, {"odd", "is_positive"})
    \union UnaryCalls({"filter"}, BoolVectors, {"not"})
    \union UnaryCalls({"all_of", "any_of", "none_of", "sort"}, BoolVectors, Plain)
    \union CallsOf({"foldl", "scanl"}, IntScalars, IntVectors, {"add", "sub", "mul", "div"})
    \union CallsOf({"foldl", "scanl"}, BoolScalars, BoolVectors, {"or", "not_equals"})
    \union CallsOf({"add", "sub", "div", "mul", "greater_than"}, IntScalars, IntVectors, Plain)

MCCalls == TypedCalls \union ValuedCalls

(***************************************************************************)
(* Hand-made nodes: what lowering would build for some implementation, as  *)
(* it is or with one part of it altered.                                   *)
(***************************************************************************)
Altered(n) ==
  {n,
   [n EXCEPT !.identity.signature = 1], [n EXCEPT !.identity.implementation = 74],
   [n EXCEPT !.plan = 5],
   [n EXCEPT !.reference = None], [n EXCEPT !.reference = Identity(9)],
   [n EXCEPT !.element = "Int"], [n EXCEPT !.vector = ~@],
   [n EXCEPT !.card = 1], [n EXCEPT !.lift = "Scalar"], [n EXCEPT !.lift = "Vector"],
   [n EXCEPT !.anchor = None], [n EXCEPT !.checks = <<>>], [n EXCEPT !.edges = Front(@)],
   [n EXCEPT !.edges[1].conversion = "Identity"],
   [n EXCEPT !.edges[1].conversion = "PromoteIntToDouble"]}

MCRawNodes(c, k) ==
  IF c.reference \notin {None, "add", "odd"} THEN {}
  ELSE Altered(NodeOf(k, c.operands,
         IF c.reference = None THEN None ELSE FirstRow(c.reference)))

(***************************************************************************)
(* Ledgers.                                                                *)
(***************************************************************************)
Ledger(vector_bytes, work, fail) ==
  [profile |-> "BoundedV2", max_vector_bytes |-> vector_bytes,
   max_tuple_table_bytes |-> None, max_live_evaluation_bytes |-> None,
   max_work_units |-> work, fail_at_ordinal |-> fail]

MCConfigurations ==
  {Ledger(8, None, None), Ledger(2, None, None), Ledger(None, 1, None), Ledger(None, 9, 0)}

(* The output, and what the first and the second element need.             *)
MCReservations == {None, 1, 2, 3}
=============================================================================

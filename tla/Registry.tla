------------------------------- MODULE Registry -------------------------------
(***************************************************************************)
(* The built-in operations (src/src/semantic_registry.rs): SEMANTIC_REGISTRY*)
(* row by row.  Signature and implementation identifiers number the rows,  *)
(* primitive identifiers number the names in the order they first occur.   *)
(* A kernel is told by its row.                                            *)
(***************************************************************************)
EXTENDS Integers, Sequences, FiniteSets, SequencesExt

CONSTANT
  SemanticRegistry   (* the rows in use; ProductionRegistry is the program's *)

ScalarType == {"Bool", "Int", "Double", "String"}

(***************************************************************************)
(* Application plans: the result's cardinality, the work admitted and      *)
(* whether the result is admitted with it.  Positions count from 1.        *)
(***************************************************************************)
Plan(result, of, work, at, sequence) ==
  [result |-> result, of |-> of, work |-> work, at |-> at, sequence |-> sequence]

Combined(result, of, work, at) == Plan(result, of, work, at, "Combined")
Reduction == Combined("Scalar", 0, "OperandCardinality", 1)

ApplicationPlans ==
  <<Combined("Elementwise", 0, "ResultCardinality", 0),
    Combined("DynamicVector", 0, "ResultCardinality", 0),
    Combined("Scalar", 0, "Constant", 0),
    Combined("PreserveOperand", 1, "OperandCardinality", 1),
    Reduction, Reduction, Reduction, Reduction,
    Combined("Scalar", 0, "OperandCardinality", 2),
    Combined("OperandPlusOne", 2, "OperandCardinality", 2),
    Plan("SubsetOfOperand", 1, "OperandCardinality", 1, "WorkThenResult")>>

PlanOf(behavior) ==
  CASE behavior = "Elementwise" -> 1 [] behavior = "Iota" -> 2
    [] behavior = "VectorLength" -> 3 [] behavior = "VectorSort" -> 4
    [] behavior = "VectorSum" -> 5 [] behavior = "VectorAllOf" -> 6
    [] behavior = "VectorAnyOf" -> 7 [] behavior = "VectorNoneOf" -> 8
    [] behavior = "Foldl" -> 9 [] behavior = "Scanl" -> 10
    [] behavior = "VectorFilter" -> 11

(***************************************************************************)
(* The rows.                                                               *)
(***************************************************************************)
Operand(use, type) == [use |-> use, type |-> type]
Each(type) == Operand("Elementwise", type)
WholeOf(type) == Operand("WholeVector", type)

Row(name, parameters, result, behavior) ==
  [name |-> name, parameters |-> parameters, result |-> result,
   behavior |-> behavior, plan |-> PlanOf(behavior)]

Overloads(name, types, parameters(_), result(_), behavior) ==
  [k \in DOMAIN types |-> Row(name, parameters(types[k]), result(types[k]), behavior)]

Unary(type) == <<Each(type)>>
Binary(type) == <<Each(type), Each(type)>>
WholeVector(type) == <<WholeOf(type)>>
Seeded(type) == <<Each(type), WholeOf(type)>>
Same(type) == type
ToBool(type) == "Bool"
ToInt(type) == "Int"

Numeric == <<"Int", "Double">>
Plainly == <<"Bool", "Int", "Double">>

Maps(name, types, parameters(_), result(_)) ==
  Overloads(name, types, parameters, result, "Elementwise")

ArithmeticRows ==
  Maps("inc", Numeric, Unary, Same) \o Maps("dec", Numeric, Unary, Same)
    \o Maps("neg", Numeric, Unary, Same) \o Maps("abs", Numeric, Unary, Same)
    \o Maps("add", Numeric, Binary, Same) \o Maps("sub", Numeric, Binary, Same)
    \o Maps("mul", Numeric, Binary, Same)

TestRows ==
  Maps("equals", Plainly, Binary, ToBool) \o Maps("not_equals", Plainly, Binary, ToBool)
    \o Maps("not", <<"Bool">>, Unary, ToBool)
    \o Maps("and", <<"Bool">>, Binary, ToBool) \o Maps("or", <<"Bool">>, Binary, ToBool)
    \o Maps("odd", <<"Int">>, Unary, ToBool) \o Maps("even", <<"Int">>, Unary, ToBool)
    \o Maps("is_positive", Numeric, Unary, ToBool)

OrderRows ==
  Maps("is_negative", Numeric, Unary, ToBool) \o Maps("less_than", Numeric, Binary, ToBool)
    \o Maps("greater_than", Numeric, Binary, ToBool)
    \o Overloads("iota", <<"Int">>, Unary, Same, "Iota")
    \o Maps("div", Numeric, Binary, Same)
    \o Overloads("length", Plainly, WholeVector, ToInt, "VectorLength")
    \o Overloads("sort", Plainly, WholeVector, Same, "VectorSort")

ReductionRows ==
  Overloads("sum", Numeric, WholeVector, Same, "VectorSum")
    \o Overloads("all_of", <<"Bool">>, WholeVector, Same, "VectorAllOf")
    \o Overloads("any_of", <<"Bool">>, WholeVector, Same, "VectorAnyOf")
    \o Overloads("none_of", <<"Bool">>, WholeVector, Same, "VectorNoneOf")
    \o Overloads("foldl", Plainly, Seeded, Same, "Foldl")
    \o Overloads("scanl", Plainly, Seeded, Same, "Scanl")

BackendNativeNames ==
  <<"sqrt", "exp", "log", "log10", "sin", "cos", "tan", "floor", "ceil", "trunc">>

BackendNativeRows ==
  [k \in DOMAIN BackendNativeNames |->
     Row(BackendNativeNames[k], Unary("Double"), "Double", "Elementwise")]

LaterRows ==
  Overloads("filter", Plainly, WholeVector, Same, "VectorFilter")
    \o Maps("equals", <<"String">>, Binary, ToBool)
    \o Maps("not_equals", <<"String">>, Binary, ToBool)
    \o Maps("less_than", <<"String">>, Binary, ToBool)
    \o Maps("greater_than", <<"String">>, Binary, ToBool)
    \o <<Row("length", <<Operand("AtomicScalar", "String")>>, "Int", "VectorLength")>>
    \o Overloads("length", <<"String">>, WholeVector, ToInt, "VectorLength")
    \o Overloads("sort", <<"String">>, WholeVector, Same, "VectorSort")

ProductionRegistry ==
  ArithmeticRows \o TestRows \o OrderRows \o ReductionRows \o BackendNativeRows \o LaterRows

(***************************************************************************)
(* Identifiers and lookups.                                                *)
(***************************************************************************)
Implementations == DOMAIN SemanticRegistry
Descriptor(implementation) == SemanticRegistry[implementation]

Names == {Descriptor(k).name : k \in Implementations}
IsRegistered(name) == name \in Names

RowsOf == [name \in Names |-> {k \in Implementations : Descriptor(k).name = name}]
DescriptorsOf(name) == IF IsRegistered(name) THEN RowsOf[name] ELSE {}

FirstRow(name) == CHOOSE k \in DescriptorsOf(name) : \A j \in DescriptorsOf(name) : k <= j

PrimitiveIds ==
  [name \in Names |-> Cardinality({Descriptor(k).name : k \in 1 .. FirstRow(name)})]
PrimitiveId(name) == PrimitiveIds[name]

IsBackendNativeMath(name) == PrimitiveId(name) \in 29 .. 38

(***************************************************************************)
(* The conversions of an operand, and the predicates filter accepts.       *)
(***************************************************************************)
NoConversion == "None"

Conversion(actual, accepted) ==
  IF actual = accepted THEN "Identity"
  ELSE IF actual = "Int" /\ accepted = "Double" THEN "PromoteIntToDouble"
  ELSE NoConversion

IsTotalUnaryPredicate(d) ==
  /\ d.behavior = "Elementwise" /\ d.result = "Bool" /\ Len(d.parameters) = 1
  /\ d.name \in {"not", "odd", "even", "is_positive", "is_negative"}

(***************************************************************************)
(* validate_registry.                                                      *)
(***************************************************************************)
WholeVectorAt(d, position) ==
  position \in DOMAIN d.parameters /\ d.parameters[position].use = "WholeVector"

ValidApplicationPlan(d) ==
  LET plan == ApplicationPlans[d.plan]
      uses == {d.parameters[k].use : k \in DOMAIN d.parameters}
  IN /\ CASE plan.result = "Elementwise" -> uses \subseteq {"Elementwise"}
          [] plan.result = "DynamicVector" -> TRUE
          [] plan.result = "Scalar" -> uses \intersect {"WholeVector", "AtomicScalar"} # {}
          [] OTHER -> WholeVectorAt(d, plan.of)
     /\ plan.work = "OperandCardinality" => WholeVectorAt(d, plan.at)
     /\ (plan.sequence = "WorkThenResult") <=> (plan.result = "SubsetOfOperand")

ValidRegistry ==
  /\ Len(SemanticRegistry) = 73 /\ Len(ApplicationPlans) = 11
  /\ Cardinality(Names) = 39
  /\ \A k \in Implementations :
       /\ ValidApplicationPlan(Descriptor(k))
       /\ \A j \in DescriptorsOf(Descriptor(k).name) :
            Descriptor(j).behavior = Descriptor(k).behavior

(* Checked once by TLC, as the repository checks it in its tests.          *)
ASSUME RegistryAssumption == ValidRegistry
=============================================================================

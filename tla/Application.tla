----------------------------- MODULE Application -----------------------------
(***************************************************************************)
(* One application of a built-in operation, from the call the analyst of   *)
(* lowering.rs sees to the value primitive.rs answers:                     *)
(*   select_descriptor, resolve_operation_reference, lower_selected_call   *)
(*   (lowering.rs), verify_apply (typed_program.rs), validate_shape        *)
(*   (interpreter.rs) and the implementation (Kernels).                    *)
(* A hand-made program starts at verify_apply, with a node nobody lowered. *)
(***************************************************************************)
EXTENDS Kernels

CONSTANTS
  Calls,             (* the calls: [name, operands, reference]              *)
  Configurations,    (* the ledgers an application may run under            *)
  MaxU32,            (* u32::MAX, the longest static vector                 *)
  Reservations,      (* which reservation the host may refuse, None: none   *)
  RawNodes(_, _)     (* hand-made nodes for a call, given a lowered one     *)

(* An operand is [value, card]: its value when the application runs, and   *)
(* the cardinality known before: a static length or one of these.          *)
AsScalar == -2
Dynamic == -1

IsVector(operand) == operand.value.vector
TypeOfOperand(operand) == operand.value.type

VARIABLES
  call, phase,
  selected,     (* the chosen implementation                                *)
  reference,    (* the operation referred to: its implementation, or None   *)
  node,         (* the node built                                           *)
  raw,          (* whether it was made by hand                              *)
  configuration,   (* of the ledger it runs under, None before              *)
  usage,
  outcome

vars == <<call, phase, selected, reference, node, raw, configuration, usage, outcome>>

(***************************************************************************)
(* select_descriptor.                                                      *)
(***************************************************************************)
Candidates(name, arity) ==
  {k \in DescriptorsOf(name) : Len(Descriptor(k).parameters) = arity}

Accepts(accepted, operand) ==
  LET conversion == Conversion(TypeOfOperand(operand), accepted.type)
  IN /\ accepted.use = "WholeVector" => IsVector(operand)
     /\ accepted.use = "AtomicScalar" => ~IsVector(operand)
     /\ \/ conversion = "Identity"
        \/ conversion = "PromoteIntToDouble" /\ accepted.use = "Elementwise"

Fitting(name, operands) ==
  {k \in Candidates(name, Len(operands)) :
     \A i \in DOMAIN operands : Accepts(Descriptor(k).parameters[i], operands[i])}

Promotions(types, accepted) == Cardinality({i \in DOMAIN types : types[i] # accepted[i].type})

TypesOf(operands) == [i \in DOMAIN operands |-> TypeOfOperand(operands[i])]
Cost(k, operands) == Promotions(TypesOf(operands), Descriptor(k).parameters)

SelectFirst(name, operands) ==
  LET fitting == Fitting(name, operands) IN CHOOSE k \in fitting : \A j \in fitting : k >= j

(* min_by_key keeps the first of the cheapest.                             *)
SelectDescriptor(name, operands) ==
  LET fitting == Fitting(name, operands)
  IN CHOOSE k \in fitting :
       \A j \in fitting :
         \/ Cost(k, operands) < Cost(j, operands)
         \/ Cost(k, operands) = Cost(j, operands) /\ k <= j

SelectionError(name, operands) ==
  IF ~IsRegistered(name) THEN "UnknownPrimitive"
  ELSE IF Candidates(name, Len(operands)) = {} THEN "ArityError"
  ELSE IF \/ Descriptor(FirstRow(name)).behavior = "Iota" /\ IsVector(operands[1])
          \/ Fitting(name, operands) = {} THEN "TypeError"
  ELSE None

(***************************************************************************)
(* resolve_operation_reference: a reducer takes two operands of the result *)
(* type, promoting if it must; a predicate takes exactly the element type. *)
(***************************************************************************)
Constraint(d) ==
  IF d.behavior = "VectorFilter"
  THEN [types |-> <<d.result>>, result |-> "Bool", exact |-> TRUE, total |-> TRUE]
  ELSE [types |-> <<d.result, d.result>>, result |-> d.result, exact |-> FALSE, total |-> FALSE]

Referable(name, c) ==
  {k \in Candidates(name, Len(c.types)) : Descriptor(k).behavior = "Elementwise"}

Compatible(name, c) ==
  {k \in Referable(name, c) :
     LET d == Descriptor(k)
     IN /\ c.total => IsTotalUnaryPredicate(d)
        /\ d.result = c.result
        /\ \A i \in DOMAIN c.types :
             LET conversion == Conversion(c.types[i], d.parameters[i].type)
             IN \/ conversion = "Identity"
                \/ conversion = "PromoteIntToDouble" /\ ~c.exact}

CheapestReferences(name, c) ==
  {k \in Compatible(name, c) :
     \A j \in Compatible(name, c) :
       Promotions(c.types, Descriptor(k).parameters)
         <= Promotions(c.types, Descriptor(j).parameters)}

ReferenceError(name, c) ==
  IF ~IsRegistered(name) THEN "UnknownPrimitive"
  ELSE IF Candidates(name, Len(c.types)) = {} THEN "ArityError"
  ELSE IF Cardinality(CheapestReferences(name, c)) # 1 THEN "TypeError"
  ELSE None

ResolvedReference(name, c) == CHOOSE k \in CheapestReferences(name, c) : TRUE

(***************************************************************************)
(* lower_selected_call: the node of the selected implementation.           *)
(***************************************************************************)
MappedAt(d, operands) == {i \in DOMAIN operands : d.parameters[i].use = "Elementwise"}
StaticAt(d, operands) == {i \in MappedAt(d, operands) : operands[i].card >= 0}
DynamicAt(d, operands) == {i \in MappedAt(d, operands) : operands[i].card = Dynamic}

FirstOf(positions) == CHOOSE i \in positions : \A j \in positions : i <= j
InOrder(positions) == SetToSortSeq(positions, <)

StaticShapesDiffer(d, operands) ==
  \E i, j \in StaticAt(d, operands) : operands[i].card # operands[j].card

EdgeOf(accepted, operand) ==
  [type |-> TypeOfOperand(operand), vector |-> IsVector(operand), card |-> operand.card,
   conversion |-> Conversion(TypeOfOperand(operand), accepted.type)]

(* A faulty variant, for the mutation runs: one static length is enough.   *)
MappedCardOfAnchor(d, operands) ==
  IF StaticAt(d, operands) # {} THEN operands[FirstOf(StaticAt(d, operands))].card
  ELSE Dynamic

MappedCard(d, operands) ==
  IF DynamicAt(d, operands) # {} THEN Dynamic
  ELSE operands[FirstOf(StaticAt(d, operands))].card

(* The type, cardinality and lift of the result.                           *)
Result(vector, card, lift) == [vector |-> vector, card |-> card, lift |-> lift]

LoweredResult(d, operands) ==
  LET plan == ApplicationPlans[d.plan]
      of == operands[plan.of].card
  IN CASE plan.result = "DynamicVector" -> Result(TRUE, Dynamic, "DynamicVector")
       [] plan.result = "Elementwise" ->
            IF \E i \in MappedAt(d, operands) : IsVector(operands[i])
            THEN Result(TRUE, MappedCard(d, operands), "Vector")
            ELSE Result(FALSE, AsScalar, "Scalar")
       [] plan.result = "Scalar" -> Result(FALSE, AsScalar, "ContainerScalar")
       [] plan.result = "SubsetOfOperand" -> Result(TRUE, Dynamic, "ContainerVector")
       [] plan.result = "OperandPlusOne" ->
            Result(TRUE, IF of = Dynamic THEN Dynamic ELSE of + 1, "ContainerVector")
       [] plan.result = "PreserveOperand" -> Result(TRUE, of, "ContainerVector")

LengthOverflows(d, operands) ==
  LET plan == ApplicationPlans[d.plan]
  IN plan.result = "OperandPlusOne" /\ operands[plan.of].card = MaxU32

(* An operation is named by its primitive, its signature and its           *)
(* implementation; the last two number the same rows.                      *)
Identity(k) ==
  [primitive |-> PrimitiveId(Descriptor(k).name), signature |-> k, implementation |-> k]

NodeOf(k, operands, referred) ==
  LET d == Descriptor(k)
      static == StaticAt(d, operands)
      result == LoweredResult(d, operands)
  IN [identity  |-> Identity(k),
      plan      |-> d.plan,
      reference |-> IF referred = None THEN None ELSE Identity(referred),
      element   |-> d.result,
      vector    |-> result.vector,
      card      |-> result.card,
      lift      |-> result.lift,
      anchor    |-> IF static = {} THEN None ELSE FirstOf(static) - 1,
      checks    |-> InOrder(DynamicAt(d, operands)),
      edges     |-> [i \in DOMAIN operands |-> EdgeOf(d.parameters[i], operands[i])]]

(***************************************************************************)
(* verify_apply computes it all again from the node.                       *)
(***************************************************************************)
IdentityHolds(identity) ==
  /\ identity.implementation \in Implementations
  /\ identity = Identity(identity.implementation)

ReferenceFits(d, referred) ==
  IF d.behavior \in Consumers
  THEN /\ referred # None
       /\ IdentityHolds(referred)
       /\ LET r == Descriptor(referred.implementation)
          IN IF d.behavior = "VectorFilter" THEN PredicateFits(r, d.result)
             ELSE ReducerFits(r, d.result)
  ELSE referred = None

(* A faulty variant, for the mutation runs: a container is not asked for.  *)
EdgeFitsAnyContainer(accepted, edge) ==
  /\ \/ edge.conversion = "Identity" /\ edge.type = accepted.type
     \/ /\ edge.conversion = "PromoteIntToDouble" /\ accepted.use = "Elementwise"
        /\ edge.type = "Int" /\ accepted.type = "Double"
  /\ edge.vector => edge.card # AsScalar

EdgeFits(accepted, edge) ==
  /\ \/ edge.conversion = "Identity" /\ edge.type = accepted.type
     \/ /\ edge.conversion = "PromoteIntToDouble" /\ accepted.use = "Elementwise"
        /\ edge.type = "Int" /\ accepted.type = "Double"
  /\ accepted.use = "WholeVector" => edge.vector
  /\ accepted.use = "AtomicScalar" => ~edge.vector
  /\ edge.vector => edge.card # AsScalar

MappedEdges(d, n) ==
  {i \in DOMAIN n.edges : d.parameters[i].use = "Elementwise" /\ n.edges[i].vector}

ExpectedChecks(d, n) == InOrder({i \in MappedEdges(d, n) : n.edges[i].card = Dynamic})

(* A faulty variant, for the mutation runs: the seed is not counted.       *)
VerifiedResultWithoutSeed(d, n) ==
  LET plan == ApplicationPlans[n.plan]
      mapped == MappedEdges(d, n)
      static == {i \in mapped : n.edges[i].card # Dynamic}
      of == n.edges[plan.of].card
  IN CASE plan.result = "DynamicVector" -> Result(TRUE, Dynamic, "DynamicVector")
       [] plan.result = "Elementwise" /\ mapped # {} ->
            Result(TRUE, IF static # mapped THEN Dynamic
                         ELSE n.edges[FirstOf(static)].card, "Vector")
       [] plan.result = "Elementwise" /\ mapped = {} -> Result(FALSE, AsScalar, "Scalar")
       [] plan.result = "Scalar" -> Result(FALSE, AsScalar, "ContainerScalar")
       [] plan.result \in {"PreserveOperand", "OperandPlusOne"} ->
            Result(TRUE, of, "ContainerVector")
       [] plan.result = "SubsetOfOperand" -> Result(TRUE, Dynamic, "ContainerVector")

VerifiedResult(d, n) ==
  LET plan == ApplicationPlans[n.plan]
      mapped == MappedEdges(d, n)
      static == {i \in mapped : n.edges[i].card # Dynamic}
      of == n.edges[plan.of].card
  IN CASE plan.result = "DynamicVector" -> Result(TRUE, Dynamic, "DynamicVector")
       [] plan.result = "Elementwise" /\ mapped # {} ->
            Result(TRUE, IF static # mapped THEN Dynamic
                         ELSE n.edges[FirstOf(static)].card, "Vector")
       [] plan.result = "Elementwise" /\ mapped = {} -> Result(FALSE, AsScalar, "Scalar")
       [] plan.result = "Scalar" -> Result(FALSE, AsScalar, "ContainerScalar")
       [] plan.result = "PreserveOperand" -> Result(TRUE, of, "ContainerVector")
       [] plan.result = "OperandPlusOne" ->
            Result(TRUE, IF of = Dynamic THEN Dynamic ELSE of + 1, "ContainerVector")
       [] plan.result = "SubsetOfOperand" -> Result(TRUE, Dynamic, "ContainerVector")

ShapeFits(d, n) ==
  LET static == {i \in MappedEdges(d, n) : n.edges[i].card # Dynamic}
  IN /\ \A i, j \in static : n.edges[i].card = n.edges[j].card
     /\ n.anchor = IF static = {} THEN None ELSE FirstOf(static) - 1
     /\ n.checks = ExpectedChecks(d, n)

ResultFits(d, n) ==
  LET result == VerifiedResult(d, n)
  IN /\ result.card <= MaxU32
     /\ n.element = d.result /\ n.vector = result.vector
     /\ n.card = result.card /\ n.lift = result.lift

VerifyApply(n) ==
  /\ IdentityHolds(n.identity)
  /\ LET d == Descriptor(n.identity.implementation)
     IN /\ n.plan = d.plan
        /\ ReferenceFits(d, n.reference)
        /\ Len(n.edges) = Len(d.parameters)
        /\ \A i \in DOMAIN n.edges : EdgeFits(d.parameters[i], n.edges[i])
        /\ ShapeFits(d, n)
        /\ ResultFits(d, n)

(***************************************************************************)
(* validate_shape, at run time: the checked operands are as long as the    *)
(* anchor, or as the first vector there is.                                *)
(***************************************************************************)
ArgumentsOf(n, operands) ==
  [i \in DOMAIN operands |-> [value |-> operands[i].value, conversion |-> n.edges[i].conversion]]

(* A faulty variant, for the mutation runs: the anchor is not looked up.   *)
ExpectedLengthOfFirst(n, operands) == FirstVectorLength(ArgumentsOf(n, operands))

ExpectedLength(n, operands) ==
  IF n.anchor # None THEN Length(operands[n.anchor + 1].value)
  ELSE FirstVectorLength(ArgumentsOf(n, operands))

ShapeHolds(n, operands) ==
  \A k \in DOMAIN n.checks :
    Length(operands[n.checks[k]].value) = ExpectedLength(n, operands)

(***************************************************************************)
(* The states.                                                             *)
(***************************************************************************)
Init ==
  /\ call \in Calls
  /\ phase = "called"
  /\ selected = None /\ reference = None /\ node = None /\ raw = FALSE
  /\ configuration = None
  /\ usage = InitialUsage
  /\ outcome = None

Refuse(error) ==
  /\ phase' = "refused"
  /\ outcome' = Refused(error, None, usage)
  /\ UNCHANGED <<call, selected, reference, node, raw, configuration, usage>>

Select ==
  /\ phase = "called"
  /\ LET error == SelectionError(call.name, call.operands)
     IN \/ error # None /\ Refuse(error)
        \/ /\ error = None
           /\ selected' = SelectDescriptor(call.name, call.operands)
           /\ phase' = "selected"
           /\ UNCHANGED <<call, reference, node, raw, configuration, usage, outcome>>

Resolve ==
  /\ phase = "selected"
  /\ LET constraint == Constraint(Descriptor(selected))
         error == IF call.reference = None THEN None
                  ELSE ReferenceError(call.reference, constraint)
     IN \/ error # None /\ Refuse(error)
        \/ /\ error = None
           /\ reference' = IF call.reference = None THEN None
                           ELSE ResolvedReference(call.reference, constraint)
           /\ phase' = "resolved"
           /\ UNCHANGED <<call, selected, node, raw, configuration, usage, outcome>>

(* A static shape error is kept, and reported in place of the program.     *)
Lower ==
  /\ phase = "resolved"
  /\ LET d == Descriptor(selected)
     IN \/ LengthOverflows(d, call.operands) /\ Refuse("CountOverflow")
        \/ /\ ~LengthOverflows(d, call.operands)
           /\ StaticShapesDiffer(d, call.operands)
           /\ Refuse("ShapeMismatch")
        \/ /\ ~LengthOverflows(d, call.operands)
           /\ ~StaticShapesDiffer(d, call.operands)
           /\ node' = NodeOf(selected, call.operands, reference)
           /\ phase' = "built"
           /\ UNCHANGED <<call, selected, reference, raw, configuration, usage, outcome>>

(* The raw builder accepts any node; it is the verifier's to judge.        *)
Build ==
  /\ phase = "called"
  /\ \E k \in Candidates(call.name, Len(call.operands)) :
       /\ node' \in RawNodes(call, k)
       /\ selected' = k
  /\ raw' = TRUE
  /\ phase' = "built"
  /\ UNCHANGED <<call, reference, configuration, usage, outcome>>

Verify ==
  /\ phase = "built"
  /\ phase' = IF VerifyApply(node) THEN "verified" ELSE "rejected"
  /\ UNCHANGED <<call, selected, reference, node, raw, configuration, usage, outcome>>

ApplyOutcome(c, n, operands, u, refused) ==
  LET d == Descriptor(n.identity.implementation)
      arguments == ArgumentsOf(n, operands)
  IN IF n.reference # None
     THEN ApplyReferenceConsumer(c, u, d, n.plan, n.reference.implementation,
                                 arguments, n.lift, refused)
     ELSE ApplyImplementation(c, u, d, n.plan, arguments, n.lift, refused)

(* The ledger and the host's memory are asked here first.                  *)
Execute ==
  /\ phase = "verified"
  /\ configuration' \in Configurations
  /\ \E refused \in Reservations :
       outcome' = IF ShapeHolds(node, call.operands)
                  THEN ApplyOutcome(configuration', node, call.operands, usage, refused)
                  ELSE Refused("ShapeMismatch", None, usage)
  /\ usage' = outcome'.usage
  /\ phase' = "done"
  /\ UNCHANGED <<call, selected, reference, node, raw>>

Next == Select \/ Resolve \/ Lower \/ Build \/ Verify \/ Execute

Spec == Init /\ [][Next]_vars

(***************************************************************************)
(* Properties.                                                             *)
(***************************************************************************)
(* What lower_selected_call builds, verify_apply accepts: both compute     *)
(* conversions, shape plan, result cardinality and lift on their own, one  *)
(* from the operands and one from the finished node.                       *)
LoweredApplyVerifies == phase = "rejected" => raw

(* The selection does not depend on the order of the registry: every other *)
(* signature the operands fit needs more promotions than the selected one. *)
SelectionIsCanonical ==
  ~raw /\ selected # None =>
    \A k \in Fitting(call.name, call.operands) \ {selected} :
      Promotions(TypesOf(call.operands), Descriptor(k).parameters)
        > Promotions(TypesOf(call.operands), Descriptor(selected).parameters)

(* An answer is what its node declares: its element type, whether it is a  *)
(* vector, and its length when that was known statically; so every check   *)
(* a later application skips on a static length may be skipped.            *)
AnswerIsAsDeclared ==
  phase = "done" /\ outcome.error = None =>
    /\ outcome.value.type = node.element
    /\ outcome.value.vector = node.vector
    /\ node.card >= 0 => Length(outcome.value) = node.card

(* What the verifier accepts, the implementation does not refuse for its   *)
(* types.  Two applications are the exception: `iota` of a vector, which   *)
(* only a hand-made program holds, and a reducer seeded with a vector,     *)
(* which lowering selects too.                                             *)
IotaOfVector(n) ==
  Descriptor(n.identity.implementation).behavior = "Iota" /\ n.edges[1].vector
SeededByVector(n) ==
  /\ Descriptor(n.identity.implementation).behavior \in {"Foldl", "Scanl"}
  /\ n.edges[1].vector

NoLateTypeError ==
  phase = "done" /\ outcome.error = "TypeError" => IotaOfVector(node) \/ SeededByVector(node)

(* Vectors mapped together have the same length or the application is      *)
(* refused for it: nothing is cut short or filled up.                      *)
LengthsAgreeOrAreReported ==
  phase = "done" =>
    LET mapped == MappedEdges(Descriptor(node.identity.implementation), node)
        lengths == {Length(call.operands[i].value) : i \in mapped}
    IN outcome.error = "ShapeMismatch" <=> Cardinality(lengths) > 1

(* However an application ends, the ledger holds the bytes of the vector   *)
(* it answered and nothing else.                                           *)
BytesOf(value) ==
  Length(value) * ByteWidth(value.type)
    + IF value.type = "String" THEN FoldLeft(+, 0, value.elems) ELSE 0

HeldIsAnswered ==
  phase = "done" =>
    /\ usage.live = IF outcome.accounted THEN BytesOf(outcome.value) ELSE 0
    /\ outcome.error = None => outcome.accounted = outcome.value.vector

(* What an Int operation means, as a relation of operands and result.      *)
Satisfies(name, xs, z) ==
  CASE name = "inc" -> z - xs[1] = 1     [] name = "dec" -> xs[1] - z = 1
    [] name = "add" -> z - xs[1] = xs[2] [] name = "sub" -> z + xs[2] = xs[1]
    [] name = "neg" -> z + xs[1] = 0     [] name = "abs" -> z >= 0 /\ z \in {xs[1], -xs[1]}
    [] name = "mul" -> z = xs[1] * xs[2]
    [] name = "div" -> LET rest == xs[1] - z * xs[2]
                       IN AbsoluteOf(rest) < AbsoluteOf(xs[2]) /\ rest * xs[1] >= 0

(* Answer and error of an elementwise Int operation without promotions:    *)
(* every element answered is the operation's, an overflow is met where no  *)
(* Int is, and a division by zero where the divisor is zero.               *)
ElementsAreExact(d) ==
  LET operands(k) == [i \in DOMAIN call.operands |->
                        ElementAt(ArgumentsOf(node, call.operands)[i], k)]
      met == IF outcome.at = None THEN 1 ELSE outcome.at + 1
      possible == \E z \in Ints : Satisfies(d.name, operands(met), z)
  IN CASE outcome.error = None ->
            \A k \in DOMAIN outcome.value.elems :
              Satisfies(d.name, operands(k), outcome.value.elems[k])
       [] outcome.error = "IntegerOverflow" -> ~possible
       [] outcome.error = "DivisionByZero" -> operands(met)[2] = 0
       [] OTHER -> TRUE

(* `sum` is `foldl[@add 0]`, and `scanl` ends where `foldl` does: with the *)
(* same value, or the same error at the same element.                      *)
Resourceless(error) == error \notin RefusalReason

FoldOf(k, reducer, seed, vector) ==
  Accumulate(configuration, InitialUsage, Descriptor(k), Descriptor(reducer),
             <<[value |-> seed, conversion |-> "Identity"],
               [value |-> vector, conversion |-> "Identity"]>>, "ContainerScalar", None)

FoldRow(type) == CHOOSE k \in DescriptorsOf("foldl") : Descriptor(k).result = type
AddRow(type) == CHOOSE k \in DescriptorsOf("add") : Descriptor(k).result = type

EndsLike(fold) ==
  Resourceless(outcome.error) /\ Resourceless(fold.error) =>
    /\ outcome.error = fold.error /\ outcome.at = fold.at
    /\ fold.error = None => Last(outcome.value.elems) = fold.value.elems[1]

(* Integers are exact: an operation answers what it means whenever an Int  *)
(* holds that, at the ends of Int too, and reports an overflow exactly     *)
(* where none does; sum and scanl come to what the fold they stand for     *)
(* comes to, at the same element.                                          *)
IntegersAreExact ==
  phase = "done" /\ ~raw =>
    LET d == Descriptor(selected)
        value(i) == call.operands[i].value
    IN /\ d.behavior = "Elementwise" /\ d.result = "Int" => ElementsAreExact(d)
       /\ d.behavior = "VectorSum" /\ d.result = "Int" =>
            EndsLike(FoldOf(FoldRow("Int"), AddRow("Int"), Scalar("Int", 0), value(1)))
       /\ d.behavior = "Scanl" /\ value(1).type = d.result =>
            EndsLike(FoldOf(FoldRow(d.result), reference, value(1), value(2)))
=============================================================================

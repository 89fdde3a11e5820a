------------------------------- MODULE Features -------------------------------
(***************************************************************************)
(* The features a program declares, the semantic minor version they ask    *)
(* for, and how the verifier compares both with what the program uses      *)
(* (src/src/typed_program.rs).  Native mathematics is not among the        *)
(* modelled operations, so its feature is never used.                      *)
(***************************************************************************)
EXTENDS TypedProgram

(* The operations that take a whole vector, and those with a reference.    *)
CONSTANTS Container(_), Referring(_)

MinorFor ==
  [StableSemanticIds |-> 0, Tuples |-> 0, PrefixSpread |-> 0, FanOut |-> 0,
   ApplicationPlans |-> 1, OperationReferences |-> 1, BackendNativeMathV1 |-> 1,
   ConnectedApplicationBindings |-> 2, ImmutableBindings |-> 3, Strings |-> 4,
   ValueFormatting |-> 5]

Feature == DOMAIN MinorFor

(* A feature the program does not use is refused only if it is one of these.*)
ExactFeature ==
  {"ConnectedApplicationBindings", "ImmutableBindings", "Strings", "ValueFormatting"}

SomeKind(p, kinds) == \E i \in Indices(p) : KindOf(p, i) \in kinds
SomeAccess(p, accesses) == \E x \in EdgePlaces(p) : EdgeAt(p, x).access \in accesses
SomeOperation(p, test(_)) ==
  \E i \in Indices(p) : KindOf(p, i) = "SelectedApply" /\ test(p.nodes[i].op)

Uses(p) ==
  {f \in Feature :
     CASE f = "StableSemanticIds" -> SomeKind(p, {"SelectedApply"})
       [] f = "Tuples" -> UsesTuples(p)
       [] f = "PrefixSpread" ->
            \/ SomeKind(p, {"PrefixSpreadPrepare"})
            \/ SomeAccess(p, {"TupleElement", "BindingBorrowElement"})
       [] f = "FanOut" -> SomeKind(p, {"FanOut"}) \/ SomeAccess(p, {"FanOutOperandBorrow"})
       [] f = "ApplicationPlans" -> SomeOperation(p, Container)
       [] f = "OperationReferences" -> SomeOperation(p, Referring)
       [] f = "BackendNativeMathV1" -> FALSE
       [] f = "ConnectedApplicationBindings" ->
            SomeKind(p, {"ConnectedBinding"}) \/ SomeAccess(p, ConnectedAccess)
       [] f = "ImmutableBindings" ->
            \/ SomeKind(p, {"Binding", "BindingMove", "BindingBorrow"})
            \/ SomeAccess(p, BindingAccess)
       [] f = "Strings" -> \E i \in Indices(p) : TypeOf(p, i).tag = "string"
       [] f = "ValueFormatting" -> SomeKind(p, {"Format"})}

(* The head of verify_program: what is declared or used fits the version.  *)
VersionFits(p, minor, features) ==
  \A f \in features \union (Uses(p) \intersect ExactFeature) : minor >= MinorFor[f]

(* The tail of verify_roots_and_features.                                  *)
FeaturesFit(p, features) ==
  /\ Uses(p) \subseteq features
  /\ (features \ Uses(p)) \intersect ExactFeature = {}

(* lower_program: the versions are set in the order of the features.       *)
MinorOf(features) == Max({0} \union {MinorFor[f] : f \in features})
=============================================================================

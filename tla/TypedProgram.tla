----------------------------- MODULE TypedProgram -----------------------------
(***************************************************************************)
(* Typed programs and their verifier (src/src/typed_program.rs).  A        *)
(* program is a record                                                     *)
(*   nodes    : a sequence of nodes [kind, type, edges, branches] in       *)
(*              postorder, numbered from 1;                                *)
(*   roots    : the sequence of root nodes;                                *)
(*   releases : for each node, the sink that releases it; a parameter is   *)
(*              borrowed, has no owner and no release.                     *)
(* An edge is [producer, access, element, ownership]; a fan-out branch is  *)
(* [first, last, root].  Index ranges, origins, cardinalities, semantic    *)
(* identifiers and feature flags are left out.                             *)
(***************************************************************************)
EXTENDS Integers, Sequences, FiniteSets, FiniteSetsExt

EdgeRecords ==
  [producer  : Nat,
   access    : {"WholeValue", "TupleElement", "FanOutOperandBorrow", "ConnectedBindingWhole",
                "ConnectedBindingElement", "BindingBorrowWhole", "BindingBorrowElement",
                "BindingMove"},
   element   : Nat,
   ownership : {"OwnedInput", "ImmutableBorrow", "InfallibleTransfer"}]

BranchRecords == [first : Nat, last : Nat, root : Nat]

NodeKind ==
  {"Constant", "ParameterBorrow", "TupleConstruct", "PrefixSpreadPrepare",
   "ConnectedBinding", "Binding", "BindingMove", "BindingBorrow", "Format",
   "SelectedApply", "FanOut"}

(* A binding, move or spread hands its operand's value over unchanged.     *)
HandoverKind ==
  {"PrefixSpreadPrepare", "ConnectedBinding", "Binding", "BindingMove",
   "BindingBorrow"}

(* The tables are sequences of such records.                               *)
IsSequence(s) == s \in Seq({s[k] : k \in DOMAIN s})

IsNode(node) ==
  /\ node.kind \in NodeKind
  /\ node.edges \in Seq(EdgeRecords)
  /\ node.branches \in Seq(BranchRecords)
  /\ IsSequence(node.type.elems)

IsProgram(p) ==
  /\ IsSequence(p.nodes) /\ \A i \in DOMAIN p.nodes : IsNode(p.nodes[i])
  /\ p.roots \in Seq(Nat)

Indices(p) == DOMAIN p.nodes
KindOf(p, i) == p.nodes[i].kind
TypeOf(p, i) == p.nodes[i].type
EdgesOf(p, i) == p.nodes[i].edges
IsParameter(p, i) == KindOf(p, i) = "ParameterBorrow"

(* All edges of the program, as <<consumer, position>> pairs.              *)
EdgePlaces(p) == UNION {{i} \X DOMAIN EdgesOf(p, i) : i \in Indices(p)}
EdgeAt(p, place) == EdgesOf(p, place[1])[place[2]]
Precedes(x, y) == x[1] < y[1] \/ (x[1] = y[1] /\ x[2] < y[2])

ElementType(type, k) == type.elems[k + 1]

EdgeType(p, e) ==
  LET type == TypeOf(p, e.producer)
  IN IF \/ e.access \in {"TupleElement", "BindingBorrowElement"}
        \/ e.access = "ConnectedBindingElement" /\ type.tag = "tuple"
     THEN ElementType(type, e.element) ELSE type

ElementInRange(p, e) ==
  e.access \in {"TupleElement", "BindingBorrowElement", "ConnectedBindingElement"} =>
    LET type == TypeOf(p, e.producer)
    IN IF type.tag = "tuple" THEN e.element < Len(type.elems)
       ELSE e.access = "ConnectedBindingElement" /\ e.element = 0

(* tuple_element_cardinality, binding_element_cardinality: the cardinality *)
(* of an element is looked up where the tuple was made, behind any number  *)
(* of spreads but behind one binding only.                                 *)
TupleMaker == {"TupleConstruct", "FanOut"}

Handed(p, i) == EdgesOf(p, i)[1].producer

ElementMeasured(p, e) ==
  LET origin[i \in 1 .. e.producer] ==
        IF KindOf(p, i) = "PrefixSpreadPrepare" THEN origin[Handed(p, i)] ELSE i
  IN CASE e.access = "TupleElement" -> KindOf(p, origin[e.producer]) \in TupleMaker
       [] \/ e.access = "BindingBorrowElement"
          \/ e.access = "ConnectedBindingElement" /\ TypeOf(p, e.producer).tag = "tuple" ->
            KindOf(p, Handed(p, e.producer)) \in TupleMaker
       [] OTHER -> TRUE

(***************************************************************************)
(* verify_node: the edges each kind of node may have, and its result type. *)
(***************************************************************************)
HandsOver(p, i, accesses) ==
  /\ Len(EdgesOf(p, i)) = 1
  /\ EdgesOf(p, i)[1].access \in accesses
  /\ TypeOf(p, i) = TypeOf(p, EdgesOf(p, i)[1].producer)

OperandAccess == {"WholeValue", "FanOutOperandBorrow", "BindingBorrowWhole"}

NodeShape(p, i) ==
  LET edges == EdgesOf(p, i)
  IN CASE KindOf(p, i) \in {"Constant", "ParameterBorrow"} -> edges = <<>>
       [] KindOf(p, i) = "TupleConstruct" ->
            /\ \A k \in DOMAIN edges : edges[k].access \in {"WholeValue", "BindingMove"}
            /\ TypeOf(p, i).tag = "tuple"
            /\ TypeOf(p, i).elems = [k \in DOMAIN edges |-> EdgeType(p, edges[k])]
       [] KindOf(p, i) = "PrefixSpreadPrepare" ->
            HandsOver(p, i, OperandAccess) /\ TypeOf(p, i).tag = "tuple"
       [] KindOf(p, i) = "ConnectedBinding" -> HandsOver(p, i, OperandAccess)
       [] KindOf(p, i) = "Binding" -> HandsOver(p, i, {"WholeValue", "BindingMove"})
       [] KindOf(p, i) = "BindingMove" -> HandsOver(p, i, {"BindingMove"})
       [] KindOf(p, i) = "BindingBorrow" -> HandsOver(p, i, {"BindingBorrowWhole"})
       [] KindOf(p, i) = "Format" ->
            /\ TypeOf(p, i).tag = "string"
            /\ \A k \in DOMAIN edges :
                 /\ edges[k].access \in OperandAccess \union {"ConnectedBindingWhole"}
                 /\ edges[k].ownership \in {"OwnedInput", "ImmutableBorrow"}
       [] KindOf(p, i) = "SelectedApply" ->
            /\ edges # <<>>
            /\ \A k \in DOMAIN edges :
                 EdgeType(p, edges[k]).tag \in {"scalar", "vector", "string"}
       [] KindOf(p, i) = "FanOut" -> TypeOf(p, i).tag = "tuple"

(* verify_prefix_spread_group: a spread passes all its elements, in order. *)
SpreadGroup(p, i) ==
  LET edges == EdgesOf(p, i)
      spread == {k \in DOMAIN edges : edges[k].access = "TupleElement"}
  IN spread # {} =>
       LET prepare == edges[Min(spread)].producer
       IN /\ KindOf(p, prepare) = "PrefixSpreadPrepare"
          /\ Len(TypeOf(p, prepare).elems) = Len(edges)
          /\ \A k \in DOMAIN edges :
               /\ edges[k].producer = prepare
               /\ edges[k].access = "TupleElement"
               /\ edges[k].element = k - 1

(***************************************************************************)
(* Fan-out (verify_fan_out, verify_no_nested_fan_out).                     *)
(***************************************************************************)
Branches(p, i) == p.nodes[i].branches
RegionOf(branch) == branch.first .. branch.last
OperandOf(p, i) == EdgesOf(p, i)[1].producer

FanOuts(p) == {i \in Indices(p) : KindOf(p, i) = "FanOut"}

(* All branches of the program, as <<fan-out, position>> pairs.            *)
BranchPlaces(p) == UNION {{f} \X DOMAIN Branches(p, f) : f \in FanOuts(p)}
BranchAt(p, place) == Branches(p, place[1])[place[2]]
BranchNodes(p) == UNION {RegionOf(BranchAt(p, x)) : x \in BranchPlaces(p)}

IsPlaceholder(e) == e.access = "FanOutOperandBorrow"

(* A branch reads the operand at exactly one place, through an application *)
(* or a spread.                                                            *)
BranchShape(p, f, branch) ==
  LET holes == {x \in EdgePlaces(p) :
                  x[1] \in RegionOf(branch) /\ IsPlaceholder(EdgeAt(p, x))}
  IN /\ branch.root \in RegionOf(branch)
     /\ KindOf(p, branch.root) = "SelectedApply"
     /\ \A i \in RegionOf(branch) : KindOf(p, i) # "FanOut"
     /\ Cardinality(holes) = 1
     /\ \A x \in holes :
          /\ KindOf(p, x[1]) \in {"SelectedApply", "PrefixSpreadPrepare"}
          /\ EdgeAt(p, x).producer = OperandOf(p, f)
          /\ EdgeAt(p, x).ownership = "ImmutableBorrow"

(* The branches tile the nodes between the operand and the fan-out.        *)
FanOutShape(p, f) ==
  LET branches == Branches(p, f)
      before(b) == IF b = 1 THEN OperandOf(p, f) ELSE branches[b - 1].last
  IN /\ Len(EdgesOf(p, f)) = 1 /\ branches # <<>>
     /\ EdgesOf(p, f)[1].access = "WholeValue"
     /\ \A b \in DOMAIN branches :
          /\ branches[b].first = before(b) + 1
          /\ branches[b].first <= branches[b].last
          /\ BranchShape(p, f, branches[b])
     /\ branches[Len(branches)].last = f - 1
     /\ TypeOf(p, f).elems = [b \in DOMAIN branches |-> TypeOf(p, branches[b].root)]
     /\ \A i \in OperandOf(p, f) .. f - 1 : KindOf(p, i) # "FanOut"

(* build_fan_out_borrow_context: the edge lies in a branch of a fan-out    *)
(* over the node it borrows.                                               *)
InFanOutContext(p, i, e) ==
  \E f \in FanOuts(p) :
    /\ OperandOf(p, f) = e.producer
    /\ \E b \in DOMAIN Branches(p, f) : i \in RegionOf(Branches(p, f)[b])

(***************************************************************************)
(* verify_semantic_ownership: the one ownership mode an edge may carry.    *)
(***************************************************************************)
TransferUnlessParameter(p, e) ==
  IF IsParameter(p, e.producer) THEN "ImmutableBorrow" ELSE "InfallibleTransfer"

InputUnlessParameter(p, e) ==
  IF IsParameter(p, e.producer) THEN "ImmutableBorrow" ELSE "OwnedInput"

FromBinding(kind, e) ==
  \/ /\ kind = "SelectedApply"
     /\ e.access \in {"BindingBorrowWhole", "BindingBorrowElement"}
     /\ e.ownership = "ImmutableBorrow"
  \/ /\ kind \in {"Format", "PrefixSpreadPrepare", "ConnectedBinding",
                  "BindingBorrow", "FanOut"}
     /\ e.access = "BindingBorrowWhole"
     /\ e.ownership = "ImmutableBorrow"
  \/ /\ kind \in {"TupleConstruct", "Binding", "BindingMove"}
     /\ e.access = "BindingMove"
     /\ e.ownership = "InfallibleTransfer"

FromConnectedBinding(kind, e) ==
  /\ e.ownership = "ImmutableBorrow"
  /\ \/ /\ kind = "SelectedApply"
        /\ e.access \in {"ConnectedBindingWhole", "ConnectedBindingElement"}
     \/ kind = "Format" /\ e.access = "ConnectedBindingWhole"

FromSpread(kind, e) ==
  /\ kind = "SelectedApply"
  /\ e.access = "TupleElement"
  /\ e.ownership = "ImmutableBorrow"

FromOther(p, i, kind, e) ==
  \/ /\ kind \in {"TupleConstruct", "ConnectedBinding", "Binding"}
     /\ e.access = "WholeValue"
     /\ e.ownership = TransferUnlessParameter(p, e)
  \/ /\ kind = "PrefixSpreadPrepare"
     /\ e.access = "WholeValue"
     /\ e.ownership = "InfallibleTransfer"
  \/ /\ kind \in {"SelectedApply", "Format", "FanOut"}
     /\ e.access = "WholeValue"
     /\ e.ownership = InputUnlessParameter(p, e)
  \/ /\ kind \in {"PrefixSpreadPrepare", "ConnectedBinding", "Format", "SelectedApply"}
     /\ IsPlaceholder(e)
     /\ e.ownership = "ImmutableBorrow"
     /\ InFanOutContext(p, i, e)

SemanticOwnership(p, i, e) ==
  CASE KindOf(p, e.producer) = "Binding" -> FromBinding(KindOf(p, i), e)
    [] KindOf(p, e.producer) = "ConnectedBinding" -> FromConnectedBinding(KindOf(p, i), e)
    [] KindOf(p, e.producer) = "PrefixSpreadPrepare" -> FromSpread(KindOf(p, i), e)
    [] OTHER -> FromOther(p, i, KindOf(p, i), e)

(***************************************************************************)
(* verify_user_binding_uses and verify_connected_binding_owners.           *)
(***************************************************************************)
BindingAccess == {"BindingBorrowWhole", "BindingBorrowElement", "BindingMove"}
ConnectedAccess == {"ConnectedBindingWhole", "ConnectedBindingElement"}

UsesOf(p, i, accesses) ==
  {x \in EdgePlaces(p) : EdgeAt(p, x).producer = i /\ EdgeAt(p, x).access \in accesses}

(* A binding is used, and moved at most once, by its last use.             *)
UserBindingUses(p) ==
  /\ \A x \in EdgePlaces(p) :
       EdgeAt(p, x).access \in BindingAccess =>
         KindOf(p, EdgeAt(p, x).producer) = "Binding"
  /\ \A i \in Indices(p) :
       KindOf(p, i) = "Binding" =>
         LET uses == UsesOf(p, i, BindingAccess)
         IN /\ uses # {}
            /\ \A x, y \in uses : Precedes(x, y) => EdgeAt(p, x).access # "BindingMove"

(* A connected binding has one consumer.                                   *)
ConnectedBindingOwners(p) ==
  /\ \A x \in EdgePlaces(p) :
       EdgeAt(p, x).access \in ConnectedAccess =>
         /\ KindOf(p, EdgeAt(p, x).producer) = "ConnectedBinding"
         /\ KindOf(p, x[1]) \in {"SelectedApply", "Format"}
  /\ \A i \in Indices(p) :
       KindOf(p, i) = "ConnectedBinding" =>
         Cardinality({x[1] : x \in UsesOf(p, i, ConnectedAccess)}) = 1

(***************************************************************************)
(* verify_ownership: every node has one owner, and is released by the sink *)
(* the verifier computes for it.                                           *)
(***************************************************************************)
NoNode == 0

Consumers(p, i) == {x[1] : x \in {y \in EdgePlaces(p) : EdgeAt(p, y).producer = i}}

(* The fan-out that takes node i as the root of one of its branches.       *)
FanOutsRootedAt(p, i) ==
  {f \in FanOuts(p) : \E b \in DOMAIN Branches(p, f) : Branches(p, f)[b].root = i}

LastUse(p, i) ==
  IF FanOutsRootedAt(p, i) # {} THEN Max(FanOutsRootedAt(p, i))
  ELSE IF Consumers(p, i) = {} THEN NoNode ELSE Max(Consumers(p, i))

TransferringUses(p, i) ==
  {x \in EdgePlaces(p) :
     EdgeAt(p, x).producer = i /\ EdgeAt(p, x).ownership # "ImmutableBorrow"}

RootsAt(p, i) == {r \in DOMAIN p.roots : p.roots[r] = i}

BranchRootings(p, i) == {x \in BranchPlaces(p) : BranchAt(p, x).root = i}

Sinks(p, i) ==
  LET edges  == Cardinality(TransferringUses(p, i))
      roots  == IF IsParameter(p, i) THEN 0 ELSE Cardinality(RootsAt(p, i))
      bound  == CASE KindOf(p, i) = "ConnectedBinding" -> edges + 1
                  [] KindOf(p, i) = "Binding" /\ edges = 0 -> 1
                  [] OTHER -> edges
      total  == bound + Cardinality(BranchRootings(p, i)) + roots
  IN IF /\ KindOf(p, i) = "PrefixSpreadPrepare"
        /\ total = 0 /\ LastUse(p, i) # NoNode
     THEN 1 ELSE total

(* A binding outlives the borrows chained to its last use.                 *)
EndOfBorrows(p, i) ==
  LET end[j \in Indices(p)] ==
        IF KindOf(p, j) \in {"BindingBorrow", "ConnectedBinding"} /\ LastUse(p, j) # NoNode
        THEN end[LastUse(p, j)] ELSE j
  IN IF LastUse(p, i) = NoNode THEN NoNode ELSE end[LastUse(p, i)]

AtRoot(r) == [root |-> r, node |-> NoNode]
AtNode(i) == [root |-> NoNode, node |-> i]

ExpectedRelease(p, i) ==
  IF RootsAt(p, i) # {} /\ ~IsParameter(p, i) THEN AtRoot(Max(RootsAt(p, i)))
  ELSE IF KindOf(p, i) = "Binding" THEN AtNode(EndOfBorrows(p, i))
  ELSE AtNode(LastUse(p, i))

(* A spread's elements go to one application.                              *)
SpreadsOnce(p) ==
  \A x \in EdgePlaces(p) :
    /\ KindOf(p, EdgeAt(p, x).producer) = "PrefixSpreadPrepare"
    /\ EdgeAt(p, x).access = "TupleElement" /\ EdgeAt(p, x).element = 0
    => \A c \in Consumers(p, EdgeAt(p, x).producer) : c >= x[1]

Ownership(p) ==
  /\ SpreadsOnce(p)
  /\ \A i \in Indices(p) :
       /\ Sinks(p, i) = IF IsParameter(p, i) THEN 0 ELSE 1
       /\ IF IsParameter(p, i) THEN p.releases[i] = AtNode(NoNode)
          ELSE /\ p.releases[i] = ExpectedRelease(p, i)
               /\ p.releases[i] # AtNode(NoNode)

(* verify_reachability: every node leads to a root.                        *)
Reachable(p) ==
  LET reached[i \in Indices(p)] ==
        \/ RootsAt(p, i) # {}
        \/ \E j \in Consumers(p, i) \union FanOutsRootedAt(p, i) : reached[j]
  IN \A i \in Indices(p) : reached[i]

(***************************************************************************)
(* RawProgram::verify, for the records modelled here.                      *)
(***************************************************************************)
Postorder(p) ==
  /\ \A x \in EdgePlaces(p) : EdgeAt(p, x).producer \in 1 .. x[1] - 1
  /\ \A r \in DOMAIN p.roots : p.roots[r] \in Indices(p)

Verified(p) ==
  /\ Postorder(p)
  /\ \A x \in EdgePlaces(p) : ElementInRange(p, EdgeAt(p, x))
  /\ \A i \in Indices(p) : NodeShape(p, i) /\ SpreadGroup(p, i)
  /\ Reachable(p)
  /\ \A f \in FanOuts(p) : FanOutShape(p, f)
  /\ ConnectedBindingOwners(p)
  /\ UserBindingUses(p)
  /\ \A x \in EdgePlaces(p) : ElementMeasured(p, EdgeAt(p, x))
  /\ \A x \in EdgePlaces(p) : SemanticOwnership(p, x[1], EdgeAt(p, x))
  /\ Ownership(p)

(***************************************************************************)
(* What lowering makes of source (src/src/lowering.rs), beyond what the    *)
(* verifier asks of a program that was not lowered from source.            *)
(***************************************************************************)
NodesOf(p, kind) == {i \in Indices(p) : KindOf(p, i) = kind}

(* lower_fan_out is the only one to materialize a borrow of a binding.     *)
BorrowsForFanOutOnly(p) ==
  \A i \in NodesOf(p, "BindingBorrow") :
    /\ Consumers(p, i) # {}
    /\ \E f \in FanOuts(p) : OperandOf(p, f) = i

(* lower_prefix_call spreads a binding by its elements, without preparing. *)
SpreadsOnlyTemporaries(p) ==
  \A i \in NodesOf(p, "PrefixSpreadPrepare") :
    KindOf(p, EdgesOf(p, i)[1].producer) # "Binding"

(* Every reference records its consumer, in the order of the nodes, and    *)
(* the owner is released after the last one recorded: of its consumers,    *)
(* and of the consumers of what borrows it.                                *)
Borrower == {"BindingBorrow", "ConnectedBinding"}

RecordedConsumers(p, i) ==
  LET direct == Consumers(p, i)
  IN direct \union UNION {Consumers(p, j) : j \in {k \in direct : KindOf(p, k) \in Borrower}}

ReleasedByLastRecorded(p) ==
  \A i \in NodesOf(p, "Binding") :
    p.releases[i] = AtNode(Max(RecordedConsumers(p, i)))

(* lower_fan_out lowers each branch by itself, and keeps only its root.    *)
BranchesAreClosed(p) ==
  \A x \in BranchPlaces(p) : \A i \in RegionOf(BranchAt(p, x)) \ {BranchAt(p, x).root} :
    Consumers(p, i) \subseteq RegionOf(BranchAt(p, x)) /\ RootsAt(p, i) = {}

AsLowered(p) ==
  /\ BranchesAreClosed(p)
  /\ BorrowsForFanOutOnly(p)
  /\ SpreadsOnlyTemporaries(p)
  /\ ReleasedByLastRecorded(p)

(* Feature::Tuples, which the v1 profiles do not run.                      *)
UsesTuples(p) == \E i \in Indices(p) : TypeOf(p, i).tag = "tuple"
=============================================================================

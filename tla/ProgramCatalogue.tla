--------------------------- MODULE ProgramCatalogue ---------------------------
(***************************************************************************)
(* All small typed programs the verifier accepts, built node by node from  *)
(* a few beginnings.  A beginning is a sequence of nodes; Grown(b, n) adds *)
(* up to n nodes in every way whose edges could be legal; Programs are the *)
(* grown sequences the verifier accepts once roots and releases are put    *)
(* in the one way it would accept.                                         *)
(***************************************************************************)
EXTENDS TypedProgram, Values

Type(tag) == [tag |-> tag, elems |-> <<>>]
TupleType(elems) == [tag |-> "tuple", elems |-> elems]

MakeNode(kind, type, edges) ==
  [kind |-> kind, type |-> type, edges |-> edges, branches |-> <<>>,
   count |-> 0, plan |-> "none"]

ScalarNode == MakeNode("Constant", Type("scalar"), <<>>)
VectorNode(n) == [MakeNode("Constant", Type("vector"), <<>>) EXCEPT !.count = n]
StringNode(n) == [MakeNode("Constant", Type("string"), <<>>) EXCEPT !.count = n]
ParameterNode(k, tag) == [MakeNode("ParameterBorrow", Type(tag), <<>>) EXCEPT !.count = k]

(***************************************************************************)
(* Edges.                                                                  *)
(***************************************************************************)
Mode(nodes, kind, producer, access) ==
  CASE access = "BindingMove" -> "InfallibleTransfer"
    [] access # "WholeValue" \/ nodes[producer].kind = "ParameterBorrow" -> "ImmutableBorrow"
    [] kind \in {"TupleConstruct", "PrefixSpreadPrepare", "ConnectedBinding", "Binding"} ->
         "InfallibleTransfer"
    [] OTHER -> "OwnedInput"

EdgeTo(nodes, kind, producer, access, k) ==
  [producer |-> producer, access |-> access, element |-> k,
   ownership |-> Mode(nodes, kind, producer, access)]

Taken(nodes) ==
  {nodes[i].edges[k].producer : <<i, k>> \in
     {<<i, k>> \in (DOMAIN nodes) \X (1 .. 3) :
        /\ k \in DOMAIN nodes[i].edges
        /\ nodes[i].edges[k].access \in {"WholeValue", "BindingMove"}}}
  \union {nodes[f].branches[b].root : <<f, b>> \in
     {<<f, b>> \in (DOMAIN nodes) \X (1 .. 3) : b \in DOMAIN nodes[f].branches}}

Shared == {"Binding", "ConnectedBinding", "PrefixSpreadPrepare"}

FreeNodes(nodes) ==
  {i \in DOMAIN nodes : i \notin Taken(nodes) /\ nodes[i].kind \notin Shared}
Bindings(nodes) ==
  {i \in DOMAIN nodes : i \notin Taken(nodes) /\ nodes[i].kind = "Binding"}
Of(nodes, kind) == {i \in DOMAIN nodes : nodes[i].kind = kind}

WholeEdges(nodes, kind) ==
  {EdgeTo(nodes, kind, i, "WholeValue", 0) : i \in FreeNodes(nodes)}
MoveEdges(nodes, kind) ==
  {EdgeTo(nodes, kind, i, "BindingMove", 0) : i \in Bindings(nodes)}
BorrowEdges(nodes, kind) ==
  {EdgeTo(nodes, kind, i, "BindingBorrowWhole", 0) : i \in Bindings(nodes)}
HoleEdges(nodes, kind) ==
  {EdgeTo(nodes, kind, i, "FanOutOperandBorrow", 0) :
     i \in {j \in DOMAIN nodes : nodes[j].kind \notin Shared}}
ConnectedEdges(nodes, kind) ==
  {EdgeTo(nodes, kind, i, "ConnectedBindingWhole", 0) : i \in Of(nodes, "ConnectedBinding")}
ElementEdges(nodes, kind, of, access) ==
  {EdgeTo(nodes, kind, x[1], access, x[2]) : x \in
     {y \in Of(nodes, of) \X (0 .. 1) : y[2] < Len(nodes[y[1]].type.elems)}}

EdgeTypeIn(nodes, e) ==
  IF nodes[e.producer].type.tag = "tuple"
     /\ e.access \in {"TupleElement", "BindingBorrowElement", "ConnectedBindingElement"}
  THEN nodes[e.producer].type.elems[e.element + 1] ELSE nodes[e.producer].type

(***************************************************************************)
(* One more node.                                                          *)
(***************************************************************************)
Handovers(nodes, kind, edges) ==
  {MakeNode(kind, nodes[e.producer].type, <<e>>) : e \in edges}

Tuples(nodes) ==
  LET edges == WholeEdges(nodes, "TupleConstruct") \union MoveEdges(nodes, "TupleConstruct")
      lists == {<<e>> : e \in edges} \union
               {<<x[1], x[2]>> : x \in {y \in edges \X edges :
                                          y[1].producer # y[2].producer}}
  IN {MakeNode("TupleConstruct", TupleType([k \in DOMAIN l |-> EdgeTypeIn(nodes, l[k])]), l) :
        l \in lists}

ApplyEdges(nodes) ==
  LET kind == "SelectedApply"
      edges == WholeEdges(nodes, kind) \union BorrowEdges(nodes, kind)
                 \union HoleEdges(nodes, kind) \union ConnectedEdges(nodes, kind)
                 \union ElementEdges(nodes, kind, "Binding", "BindingBorrowElement")
                 \union ElementEdges(nodes, kind, "ConnectedBinding", "ConnectedBindingElement")
  IN {e \in edges : EdgeTypeIn(nodes, e).tag \in {"scalar", "vector"}}

SpreadEdges(nodes, i) ==
  [k \in DOMAIN nodes[i].type.elems |->
     EdgeTo(nodes, "SelectedApply", i, "TupleElement", k - 1)]

Applies(nodes) ==
  LET one == ApplyEdges(nodes)
      two == {<<x[1], x[2]>> : x \in {y \in one \X one : y[1].producer # y[2].producer}}
      lists == {<<e>> : e \in one} \union two
                 \union {SpreadEdges(nodes, i) : i \in Of(nodes, "PrefixSpreadPrepare")}
      plan(l) == IF \E k \in DOMAIN l : EdgeTypeIn(nodes, l[k]).tag = "vector"
                 THEN "vector" ELSE "scalar"
  IN {[MakeNode("SelectedApply", Type(plan(l)), l) EXCEPT !.plan = plan(l)] : l \in lists}

Formats(nodes) ==
  {MakeNode("Format", Type("string"), <<e>>) : e \in
     WholeEdges(nodes, "Format") \union BorrowEdges(nodes, "Format")
       \union ConnectedEdges(nodes, "Format")}

(* The branches tile what follows the operand; each ends with its root.    *)
Branch(first, last) == [first |-> first, last |-> last, root |-> last]

Tilings(first, last) ==
  {<<Branch(first, last)>>} \union
  {<<Branch(first, cut), Branch(cut + 1, last)>> : cut \in first .. last - 1}

FanOutNodes(nodes) ==
  LET last == Len(nodes)
  IN {[MakeNode("FanOut",
                TupleType([b \in DOMAIN x[2] |-> nodes[x[2][b].root].type]),
                <<EdgeTo(nodes, "FanOut", x[1], "WholeValue", 0)>>)
         EXCEPT !.branches = x[2]] :
        x \in UNION {{i} \X Tilings(i + 1, last) : i \in
                       FreeNodes(nodes) \ {last}}}

NextNodes(nodes) ==
  Tuples(nodes) \union Applies(nodes) \union Formats(nodes) \union FanOutNodes(nodes)
  \union Handovers(nodes, "Binding",
           WholeEdges(nodes, "Binding") \union MoveEdges(nodes, "Binding"))
  \union Handovers(nodes, "BindingMove", MoveEdges(nodes, "BindingMove"))
  \union Handovers(nodes, "BindingBorrow", BorrowEdges(nodes, "BindingBorrow"))
  \union Handovers(nodes, "ConnectedBinding",
           WholeEdges(nodes, "ConnectedBinding") \union BorrowEdges(nodes, "ConnectedBinding"))
  \union {n \in Handovers(nodes, "PrefixSpreadPrepare",
                  WholeEdges(nodes, "PrefixSpreadPrepare")
                    \union BorrowEdges(nodes, "PrefixSpreadPrepare")
                    \union HoleEdges(nodes, "PrefixSpreadPrepare")) :
            n.type.tag = "tuple"}

(***************************************************************************)
(* Programs.                                                               *)
(***************************************************************************)
(* Every node nobody consumes is a root, in order.                         *)
Complete(nodes, arguments) ==
  LET bare == [nodes |-> nodes, roots |-> <<>>, releases |-> <<>>, arguments |-> arguments]
      unused == {i \in DOMAIN nodes : LastUse(bare, i) = NoNode}
      rooted == [bare EXCEPT !.roots = SetToSortSeq(unused, <)]
  IN [rooted EXCEPT !.releases =
        [i \in DOMAIN nodes |-> IF IsParameter(bare, i) THEN AtNode(NoNode)
                                ELSE ExpectedRelease(rooted, i)]]

Grown(beginnings, n) ==
  LET layer[k \in 0 .. n] ==
        IF k = 0 THEN beginnings
        ELSE UNION {{Append(nodes, node) : node \in NextNodes(nodes)} :
                      nodes \in layer[k - 1]}
  IN UNION {layer[k] : k \in 0 .. n}

Accepted(sequences, arguments) ==
  {p \in {Complete(nodes, arguments) : nodes \in sequences} : Verified(p)}
=============================================================================

------------------------------- MODULE Lowering -------------------------------
(***************************************************************************)
(* From a parsed source to a verified program (src/src/lowering.rs): the   *)
(* checks of SourceForms in the order the compiler makes them, then one    *)
(* step per declaration and root, then the releases of the bindings, then  *)
(* the verifier.  Lowering threads a state                                 *)
(*   nodes, roots, releases : the program so far, as in TypedProgram;      *)
(*   bindings : for each declaration, the value it stands for;             *)
(*   last     : for each declaration, the last consumer recorded for it;   *)
(*   hole     : the operand a fan-out branch has still to take, if any;    *)
(*   features : the features needed so far;                                *)
(*   error    : the first refusal.                                         *)
(* Cardinalities are modelled in Shapes; origins are the paths of the      *)
(* expressions.  The parser's two short forms for deep chains and deep     *)
(* tuples are the calls and tuples they abbreviate.                        *)
(***************************************************************************)
EXTENDS SourceForms, TypedProgram

CONSTANT Sources

Versions == INSTANCE Features WITH Container <- TakesWholeVector, Referring <- TakesReference

VARIABLES source, stage, lowering

vars == <<source, stage, lowering>>

NoBinding == 0
ScalarType(tag) == [tag |-> tag, elems |-> <<>>]
TupleTypeOf(elems) == [tag |-> "tuple", elems |-> elems]

NewState(s) ==
  [nodes |-> <<>>, roots |-> <<>>, releases |-> <<>>, hole |-> <<>>, error |-> "none",
   parameters |-> Len(s.parameters), resolution |-> AllReferences(s),
   bindings |-> [i \in DOMAIN s.items |-> <<>>],
   last |-> [i \in DOMAIN s.items |-> NoNode], features |-> {}]

(***************************************************************************)
(* Lowered values.                                                         *)
(***************************************************************************)
Value(node, type) ==
  [node |-> node, type |-> type, borrowed |-> FALSE, access |-> "WholeValue",
   element |-> 0, binding |-> NoBinding]

(* A slot and an operation reference are arguments without a value.        *)
NoValue == Value(NoNode, ScalarType("none"))

ElementOf(value, access, k) ==
  [value EXCEPT !.type = value.type.elems[k], !.borrowed = TRUE,
                !.access = access, !.element = k - 1]

Elements(value, access) ==
  [k \in DOMAIN value.type.elems |-> ElementOf(value, access, k)]

Result(state, value) == [state |-> state, value |-> value]

Refused(state, reason) ==
  IF state.error = "none" THEN [state EXCEPT !.error = reason] ELSE state

Needing(state, features) == [state EXCEPT !.features = @ \union features]

(***************************************************************************)
(* Nodes and their releases.                                               *)
(***************************************************************************)
EdgeFor(value, owned) ==
  [producer |-> value.node, access |-> value.access, element |-> value.element,
   ownership |-> IF value.borrowed THEN "ImmutableBorrow" ELSE owned]

Pushed(state, node) ==
  [state EXCEPT !.nodes = Append(@, node), !.releases = Append(@, AtNode(NoNode))]

NodeFor(kind, type, edges, origin, op) ==
  [kind |-> kind, type |-> type, edges |-> edges, branches |-> <<>>,
   origin |-> origin, op |-> op]

Newest(state) == Len(state.nodes)
NewestValue(state) == Value(Newest(state), state.nodes[Newest(state)].type)

(* set_release: an owner has one release.                                  *)
WithRelease(state, owner, sink) ==
  IF state.releases[owner] # AtNode(NoNode) THEN Refused(state, "CountOverflow")
  ELSE [state EXCEPT !.releases[owner] = sink]

(* Mutant: the consumer to come.                                           *)
WithNextConsumer(state, binding, consumer) == [state EXCEPT !.last[binding] = consumer + 1]

WithConsumer(state, binding, consumer) == [state EXCEPT !.last[binding] = consumer]

(* The newest node takes the value: of a binding it is recorded as the     *)
(* consumer, a temporary is released after it.                             *)
Consumed(state, value) ==
  IF value.binding # NoBinding THEN WithConsumer(state, value.binding, Newest(state))
  ELSE IF ~value.borrowed THEN WithRelease(state, value.node, AtNode(Newest(state)))
  ELSE state

(* materialize_binding_borrow and lower_connected_binding: the carrier     *)
(* does not count as a consumer of the binding it borrows.                 *)
Carrier(state, kind, operand, origin) ==
  LET edges == <<EdgeFor(operand, "InfallibleTransfer")>>
      pushed == Pushed(state, NodeFor(kind, operand.type, edges, origin, "none"))
  IN IF operand.borrowed THEN pushed
     ELSE WithRelease(pushed, operand.node, AtNode(Newest(pushed)))

(* Mutant: the first binding an application reads is materialized, as it   *)
(* is for a fan-out.                                                       *)
BuiltOverCarrier(state, kind, type, operands, owned, origin, op) ==
  LET carries == kind = "SelectedApply" /\ operands # <<>>
                   /\ operands[1].access = "BindingBorrowWhole"
      carried == IF carries THEN Carrier(state, "BindingBorrow", operands[1], origin) ELSE state
      read == IF carries THEN <<NewestValue(carried)>> \o Tail(operands) ELSE operands
      edges == [k \in DOMAIN read |-> EdgeFor(read[k], owned)]
      built == FoldLeft(Consumed, Pushed(carried, NodeFor(kind, type, edges, origin, op)), read)
  IN IF carries THEN WithConsumer(built, operands[1].binding, Newest(built)) ELSE built

Built(state, kind, type, operands, owned, origin, op) ==
  LET edges == [k \in DOMAIN operands |-> EdgeFor(operands[k], owned)]
  IN FoldLeft(Consumed, Pushed(state, NodeFor(kind, type, edges, origin, op)), operands)

(***************************************************************************)
(* lower_resolved_reference.  A binding needs no node to be read.          *)
(***************************************************************************)
LowerName(s, path, state) ==
  LET ref == SelectSeq(state.resolution, LAMBDA r : r.path = path)[1]
      symbol == Symbol(s, ref)
      pushed == Pushed(state, [NodeFor("ParameterBorrow", ScalarType("scalar"), <<>>, path, "none")
                                 EXCEPT !.origin = <<-symbol.index>>])
  IN IF symbol.kind = "parameter"
     THEN Result(pushed, [NewestValue(pushed) EXCEPT !.borrowed = TRUE])
     ELSE Result(state,
            [state.bindings[symbol.index][1] EXCEPT
               !.borrowed = ref.mode = "Borrow",
               !.access = IF ref.mode = "Borrow" THEN "BindingBorrowWhole" ELSE "BindingMove"])

(***************************************************************************)
(* lower_selected_call.                                                    *)
(***************************************************************************)
Apply(state, op, operands, origin) ==
  LET tags == [k \in DOMAIN operands |-> operands[k].type.tag]
      checked == CASE Len(operands) # OperandCount(op) -> Refused(state, "ArityError")
                   [] ~Accepts(op, tags) -> Refused(state, "TypeError")
                   [] OTHER -> state
      built == Built(checked, "SelectedApply", ScalarType(ResultTag(op, tags)),
                     operands, "OwnedInput", origin, op)
      needed == {"StableSemanticIds"}
                  \union {f \in {"ApplicationPlans"} : TakesWholeVector(op)}
                  \union {f \in {"OperationReferences"} : TakesReference(op)}
  IN Result(Needing(built, needed), NewestValue(built))

(* lower_prefix_call: one tuple is spread, a temporary once prepared.      *)
SpreadApply(before, op, tuple, origin) ==
  LET state == Needing(before, {"PrefixSpread"})
      prepared == Carrier(state, "PrefixSpreadPrepare", tuple, origin)
      prepare == NewestValue(prepared)
      applied == Apply(prepared, op, Elements(prepare, "TupleElement"), origin)
  IN IF tuple.binding # NoBinding
     THEN Apply(state, op, Elements(tuple, "BindingBorrowElement"), origin)
     ELSE Result(WithRelease(applied.state, prepare.node, AtNode(applied.value.node)),
                 applied.value)

OperandsAmong(values) == SelectSeq(values, LAMBDA v : v # NoValue)

(* Mutant: slots counted from zero.                                        *)
FillingFromZero(slot, connected) ==
  IF slot.index = 0 /\ connected.type.elems # <<>>
  THEN Elements(connected, "ConnectedBindingElement")
  ELSE IF slot.index + 1 \in DOMAIN connected.type.elems
  THEN <<ElementOf(connected, "ConnectedBindingElement", slot.index + 1)>>
  ELSE <<[connected EXCEPT !.borrowed = TRUE, !.access = "ConnectedBindingWhole"]>>

(***************************************************************************)
(* expand_connected_placeholders: a slot reads the connected binding.      *)
(***************************************************************************)
Filling(slot, connected) ==
  LET whole == [connected EXCEPT !.borrowed = TRUE, !.access = "ConnectedBindingWhole"]
      elems == connected.type.elems
  IN CASE slot.index = 0 /\ elems # <<>> -> Elements(connected, "ConnectedBindingElement")
       [] slot.index = 0 -> <<whole>>
       [] elems = <<>> /\ slot.index = 1 ->
            <<[whole EXCEPT !.access = "ConnectedBindingElement"]>>
       [] slot.index \in DOMAIN elems ->
            <<ElementOf(connected, "ConnectedBindingElement", slot.index)>>
       [] OTHER -> <<>>

Expanded(template, values, connected) ==
  FlattenSeq([k \in DOMAIN template.parts |->
    IF IsSlot(template.parts[k]) THEN Filling(template.parts[k], connected)
    ELSE <<values[k]>>])

(* The templates from the last to the first, each over the result of the   *)
(* one after it.                                                           *)
RECURSIVE ApplyTemplates(_, _, _, _, _, _)
ApplyTemplates(state, templates, values, current, t, path) ==
  LET template == templates[t]
      origin == Append(path, t)
      carried == Needing(Carrier(state, "ConnectedBinding", current[1], origin),
                         {"ConnectedApplicationBindings"})
      connected == [NewestValue(carried) EXCEPT !.binding = current[1].binding]
      bound == Apply(carried, template.op,
                     OperandsAmong(Expanded(template, values[t], connected)), origin)
      applied ==
        IF HasSlots(template)
        THEN Result(WithRelease(bound.state, connected.node, AtNode(bound.value.node)),
                    bound.value)
        ELSE Apply(state, template.op, OperandsAmong(values[t] \o current), origin)
  IN IF t = 1 THEN applied
     ELSE ApplyTemplates(applied.state, templates, values, <<applied.value>>, t - 1, path)

(***************************************************************************)
(* lower_expr.                                                             *)
(***************************************************************************)
RECURSIVE LowerExpr(_, _, _, _)

Appending(so_far, lowered) ==
  [state |-> lowered.state, values |-> Append(so_far.values, lowered.value)]

LowerParts(s, parts, path, state) ==
  FoldLeftDomain(LAMBDA so_far, k :
      IF parts[k].form \in {"slot", "reference"}
      THEN [so_far EXCEPT !.values = Append(@, NoValue)]
      ELSE Appending(so_far, LowerExpr(s, parts[k], Append(path, k), so_far.state)),
    [state |-> state, values |-> <<>>], parts)

(* All the templates' arguments first, then the operand.                   *)
LowerTemplates(s, templates, path, state) ==
  LET appending(so_far, lowered) ==
        [state |-> lowered.state, values |-> Append(so_far.values, lowered.values)]
  IN FoldLeftDomain(LAMBDA so_far, t :
         appending(so_far, LowerParts(s, templates[t].parts, Append(path, t), so_far.state)),
       [state |-> state, values |-> <<>>], templates)

Completed(templates, arguments, operand, path) ==
  ApplyTemplates(operand.state, templates, arguments, operand.values, Len(templates), path)

CompletedBy(s, templates, arguments, operand, path) ==
  LET alone(lowered) == Appending([values |-> <<>>], lowered)
      at == Append(path, Len(templates) + 1)
      spliced == ~HasSlots(Last(templates)) /\ operand.form = "tuple"
  IN Completed(templates, arguments.values,
               IF spliced THEN LowerParts(s, operand.parts, at, arguments.state)
               ELSE alone(LowerExpr(s, operand, at, arguments.state)),
               path)

LowerConnected(s, e, path, state) ==
  CompletedBy(s, Front(e.parts), LowerTemplates(s, Front(e.parts), path, state),
              Last(e.parts), path)

LowerBranches(s, branches, path, operand, state) ==
  LET appending(so_far, branch) ==
        [state |-> [branch.state EXCEPT !.hole = <<>>],
         roots |-> Append(so_far.roots, branch.value),
         branches |-> Append(so_far.branches,
                        [first |-> Newest(so_far.state) + 1, last |-> Newest(branch.state),
                         root |-> branch.value.node])]
  IN FoldLeftDomain(LAMBDA so_far, b :
         appending(so_far, LowerExpr(s, branches[b], Append(path, b + 1),
                                     [so_far.state EXCEPT !.hole = <<operand>>])),
       [state |-> state, roots |-> <<>>, branches |-> <<>>], branches)

(* The operand is consumed before the branches' results.                   *)
FanOutNode(source_value, operand, branched, path) ==
  LET type == TupleTypeOf([b \in DOMAIN branched.roots |-> branched.roots[b].type])
      node == [NodeFor("FanOut", type, <<EdgeFor(operand, "OwnedInput")>>, path, "none")
                 EXCEPT !.branches = branched.branches]
      pushed == Pushed(branched.state, node)
      recorded == IF source_value.binding = NoBinding THEN pushed
                  ELSE WithConsumer(pushed, source_value.binding, Newest(pushed))
      released == FoldLeft(Consumed, Consumed(recorded, operand), branched.roots)
  IN Result(Needing(released, {"Tuples", "FanOut"}), NewestValue(released))

(* A binding is borrowed before the branches, and recorded after them.     *)
FanOutOver(s, branches, lowered, path) ==
  LET bound == lowered.value.binding # NoBinding
      start == IF bound THEN Carrier(lowered.state, "BindingBorrow", lowered.value, path)
               ELSE lowered.state
      operand == IF bound THEN NewestValue(start) ELSE lowered.value
  IN FanOutNode(lowered.value, operand, LowerBranches(s, branches, path, operand, start), path)

LowerFanOut(s, e, path, state) ==
  FanOutOver(s, Tail(e.parts), LowerExpr(s, Head(e.parts), Append(path, 1), state), path)

LowerLiteral(tag, path, state) ==
  LET pushed == Pushed(state, NodeFor("Constant", ScalarType(tag), <<>>, path, "none"))
  IN Result(Needing(pushed, {f \in {"Strings"} : tag = "string"}), NewestValue(pushed))

LowerTuple(elements, path, state) ==
  LET type == TupleTypeOf([k \in DOMAIN elements |-> elements[k].type])
      built == Built(state, "TupleConstruct", type, elements, "InfallibleTransfer", path, "none")
  IN Result(Needing(built, {"Tuples"}), NewestValue(built))

LowerFormat(arguments, path, state) ==
  LET built == Built(state, "Format", ScalarType("string"), arguments, "OwnedInput", path, "none")
  IN Result(Needing(built, {"Strings", "ValueFormatting"}), NewestValue(built))

(* The hole of a branch is taken once.                                     *)
TakeHole(state) ==
  Result([state EXCEPT !.hole = <<>>],
         [state.hole[1] EXCEPT !.borrowed = TRUE, !.access = "FanOutOperandBorrow"])

LowerWithParts(e, path, state, operands) ==
  CASE e.form = "tuple" -> LowerTuple(operands, path, state)
    [] e.form = "format" -> LowerFormat(operands, path, state)
    [] e.form = "call" ->
         IF e.prefix /\ operands[1].type.tag = "tuple"
         THEN SpreadApply(state, e.op, operands[1], path)
         ELSE Apply(state, e.op, operands, path)

LowerExpr(s, e, path, state) ==
  LET lowered(parts) == LowerWithParts(e, path, parts.state, OperandsAmong(parts.values))
  IN CASE e.form = "literal" -> LowerLiteral(e.tag, path, state)
       [] e.form = "name" -> LowerName(s, path, state)
       [] e.form = "hole" -> TakeHole(state)
       [] e.form \in {"tuple", "format", "call"} -> lowered(LowerParts(s, e.parts, path, state))
       [] e.form = "connected" -> LowerConnected(s, e, path, state)
       [] e.form = "fanout" -> LowerFanOut(s, e, path, state)

(***************************************************************************)
(* Declarations, roots, and the releases of the bindings.                  *)
(***************************************************************************)
Declared(i, lowered) ==
  LET built == Built(lowered.state, "Binding", lowered.value.type,
                     <<lowered.value>>, "InfallibleTransfer", <<i>>, "none")
  IN [Needing(built, {"ImmutableBindings"}) EXCEPT !.bindings[i] =
        <<[NewestValue(built) EXCEPT !.borrowed = TRUE,
             !.access = "BindingBorrowWhole", !.binding = i]>>]

(* A binding is moved out by a node of its own.                            *)
Rooted(i, lowered) ==
  LET moves == lowered.value.binding # NoBinding /\ lowered.value.access = "BindingMove"
      moved == Built(lowered.state, "BindingMove", lowered.value.type,
                     <<lowered.value>>, "InfallibleTransfer", <<i>>, "none")
      final == IF moves THEN moved ELSE lowered.state
      root == IF moves THEN NewestValue(moved) ELSE lowered.value
      index == Len(final.roots) + 1
      released == IF root.borrowed THEN final ELSE WithRelease(final, root.node, AtRoot(index))
  IN [released EXCEPT !.roots = Append(@, root.node)]

LowerItem(s, i, state) ==
  LET item == s.items[i]
      finished(lowered) == IF item.name # NoName THEN Declared(i, lowered) ELSE Rooted(i, lowered)
  IN finished(LowerExpr(s, item.body, <<i>>, state))

BindingsReleased(s, state) ==
  FoldLeftDomain(LAMBDA so_far, i :
      IF s.items[i].name = NoName THEN so_far
      ELSE WithRelease(so_far, so_far.bindings[i][1].node, AtNode(so_far.last[i])),
    state, s.items)

Lowered(s) ==
  BindingsReleased(s, FoldLeftDomain(LAMBDA state, i : LowerItem(s, i, state),
                                     NewState(s), s.items))

(***************************************************************************)
(* The compiler.                                                           *)
(***************************************************************************)
Program(state) == [nodes |-> state.nodes, roots |-> state.roots, releases |-> state.releases]

Stages ==
  {"formats", "bindings", "references", "arities", "items", "verify",
   "compiled", "refused", "invalid"}

Init ==
  /\ source \in Sources
  /\ Parsed(source)
  /\ stage = "formats"
  /\ lowering = NewState(source)

Check(here, fault, next) ==
  /\ stage = here
  /\ stage' = IF fault THEN "refused" ELSE next
  /\ UNCHANGED <<source, lowering>>

ValidateFormats == Check("formats", FormatFaults(source), "bindings")
AnalyzeBindings == Check("bindings", BindingFault(source) # "none", "references")
ValidateReferences == Check("references", MisplacedReferences(source), "arities")
ValidateArities == Check("arities", ArityFaults(source), "items")

(* One line of the source; the releases follow the last.                   *)
NextItem ==
  Len(lowering.roots)
    + Cardinality({i \in DOMAIN source.items : lowering.bindings[i] # <<>>}) + 1

LowerNextItem ==
  /\ stage = "items"
  /\ LET last == NextItem = Len(source.items)
         lowered == LowerItem(source, NextItem, lowering)
     IN /\ lowering' = IF last THEN BindingsReleased(source, lowered) ELSE lowered
        /\ stage' = CASE lowering'.error # "none" -> "refused"
                      [] last -> "verify"
                      [] OTHER -> "items"
  /\ UNCHANGED source

Accepted(state) ==
  LET p == Program(state)
      features == state.features
  IN /\ Versions!VersionFits(p, Versions!MinorOf(features), features)
     /\ Verified(p)
     /\ Versions!FeaturesFit(p, features)

Verify ==
  /\ stage = "verify"
  /\ stage' = IF Accepted(lowering) THEN "compiled" ELSE "invalid"
  /\ UNCHANGED <<source, lowering>>

Next ==
  \/ ValidateFormats \/ AnalyzeBindings \/ ValidateReferences \/ ValidateArities
  \/ LowerNextItem \/ Verify

Spec == Init /\ [][Next]_vars

(***************************************************************************)
(* What a source means: the value every reference of a binding stands for, *)
(* and every application over the values its text gives it.                *)
(***************************************************************************)
Meaning(tag, at, parts) == [tag |-> tag, at |-> at, parts |-> parts]

RECURSIVE Denoted(_, _, _, _)
Denoted(e, path, names, hole) ==
  LET part(k) == Denoted(e.parts[k], Append(path, k), names, hole)
      parts == [k \in {j \in DOMAIN e.parts : e.parts[j].form # "reference"} |-> part(k)]
      arguments == SetToSortSeq(DOMAIN parts, <)
      in_order == [k \in DOMAIN arguments |-> parts[arguments[k]]]
      n == Len(e.parts) - 1
      (* What template t receives, its slots filled from `given`.          *)
      received(t, given) ==
        LET template == e.parts[t]
            filled(k) ==
              LET argument == template.parts[k]
              IN CASE argument.form = "reference" -> <<>>
                   [] ~IsSlot(argument) ->
                        <<Denoted(argument, path \o <<t, k>>, names, hole)>>
                   [] argument.index = 0 ->
                        IF given[1].tag = "tuple" THEN given[1].parts ELSE <<given[1]>>
                   [] given[1].tag = "tuple" -> <<given[1].parts[argument.index]>>
                   [] OTHER -> <<given[1]>>
            written == FlattenSeq([k \in DOMAIN template.parts |-> filled(k)])
        IN Meaning(template.op, Append(path, t),
                   IF HasSlots(template) THEN written ELSE written \o given)
      operand == e.parts[n + 1]
      given == IF operand.form = "tuple" /\ ~HasSlots(e.parts[n])
               THEN part(n + 1).parts ELSE <<part(n + 1)>>
      result[t \in 1 .. n] ==
        received(t, IF t = n THEN given ELSE <<result[t + 1]>>)
  IN CASE e.form = "literal" -> Meaning("literal", path, <<>>)
       [] e.form = "name" -> names[e.name]
       [] e.form = "hole" -> hole
       [] e.form = "tuple" -> Meaning("tuple", <<>>, in_order)
       [] e.form = "format" -> Meaning("format", path, in_order)
       [] e.form = "call" ->
            Meaning(e.op, path,
                    IF e.prefix /\ in_order[1].tag = "tuple" THEN in_order[1].parts
                    ELSE in_order)
       [] e.form = "connected" -> result[1]
       [] e.form = "fanout" ->
            Meaning("tuple", <<>>,
                    [b \in 1 .. n |-> Denoted(e.parts[b + 1], Append(path, b + 1), names, part(1))])

(* Item by item, the names that came before.                               *)
SourceMeaning(s) ==
  LET names[i \in 0 .. Len(s.items)] ==
        IF i = 0
        THEN [x \in ToSet(s.parameters) |->
                Meaning("parameter", <<-(CHOOSE k \in DOMAIN s.parameters :
                                           s.parameters[k] = x)>>, <<>>)]
        ELSE LET name == s.items[i].name
             IN IF name = NoName THEN names[i - 1]
                ELSE [x \in DOMAIN names[i - 1] \union {name} |->
                        IF x = name
                        THEN Denoted(s.items[i].body, <<i>>, names[i - 1], <<>>)
                        ELSE names[i - 1][x]]
      roots == SetToSortSeq({i \in DOMAIN s.items : s.items[i].name = NoName}, <)
  IN [r \in DOMAIN roots |->
        Denoted(s.items[roots[r]].body, <<roots[r]>>, names[roots[r] - 1], <<>>)]

(* What the nodes of a program mean, each read through its edges.          *)
ProgramMeaning(p) ==
  LET meaning[i \in Indices(p)] ==
        LET node == p.nodes[i]
            read(e) ==
              IF /\ e.access \in {"TupleElement", "BindingBorrowElement",
                                  "ConnectedBindingElement"}
                 /\ TypeOf(p, e.producer).tag = "tuple"
              THEN meaning[e.producer].parts[e.element + 1] ELSE meaning[e.producer]
            operands == [k \in DOMAIN node.edges |-> read(node.edges[k])]
        IN CASE node.kind = "Constant" -> Meaning("literal", node.origin, <<>>)
             [] node.kind = "ParameterBorrow" -> Meaning("parameter", node.origin, <<>>)
             [] node.kind = "TupleConstruct" -> Meaning("tuple", <<>>, operands)
             [] node.kind = "Format" -> Meaning("format", node.origin, operands)
             [] node.kind = "SelectedApply" -> Meaning(node.op, node.origin, operands)
             [] node.kind = "FanOut" ->
                  Meaning("tuple", <<>>,
                          [b \in DOMAIN node.branches |-> meaning[node.branches[b].root]])
             [] OTHER -> operands[1]
  IN [r \in DOMAIN p.roots |-> meaning[p.roots[r]]]

(***************************************************************************)
(* Where lowering and the verifier are known to disagree (see README.md,   *)
(* "Findings"); `bound` are the names of the declarations.                 *)
(***************************************************************************)
Forms(s) == UNION {Within(s.items[i].body) : i \in DOMAIN s.items}
BoundNames(s) == {s.items[i].name : i \in Declarations(s)}
NamesWithin(e) == {y.name : y \in {x \in Within(e) : x.form = "name"}}
PartNames(e) == {e.parts[k].name : k \in {j \in DOMAIN e.parts : e.parts[j].form = "name"}}

(* A branch reads, beside its hole, the binding that is the operand.       *)
RereadsOperand(e, bound) ==
  /\ e.form = "fanout" /\ e.parts[1].form = "name" /\ e.parts[1].name \in bound
  /\ \E k \in 2 .. Len(e.parts) : e.parts[1].name \in NamesWithin(e.parts[k])

(* The hole is an argument of a format.                                    *)
FormatsHole(e) == e.form = "format" /\ \E k \in DOMAIN e.parts : e.parts[k].form = "hole"

(* The elements of a completing tuple are operands, though analyzed as     *)
(* moved into a tuple.                                                     *)
CompletesFromTuple(e, bound) ==
  /\ e.form = "connected" /\ ~HasSlots(e.parts[Len(e.parts) - 1])
  /\ LET operand == e.parts[Len(e.parts)]
     IN operand.form = "tuple" /\ PartNames(operand) \intersect bound # {}

(* An application borrows a binding that a tuple written after it moves:   *)
(* the tuple is built first.                                               *)
BorrowsBeforeMoved(e, bound) ==
  \E k, j \in DOMAIN e.parts :
    /\ k < j
    /\ \E t \in Within(e.parts[j]) :
         /\ t.form = "tuple"
         /\ PartNames(t) \intersect NamesWithin(e.parts[k]) \intersect bound # {}

(* Elements of a tuple are read behind two bindings, the second of them    *)
(* another name of it or the carrier of a slot.                            *)
TupleNames(s) ==
  LET names[i \in 0 .. Len(s.items)] ==
        IF i = 0 THEN {}
        ELSE LET item == s.items[i]
             IN IF \/ item.body.form \in {"tuple", "fanout"}
                   \/ item.body.form = "name" /\ item.body.name \in names[i - 1]
                THEN names[i - 1] \union {item.name} ELSE names[i - 1]
  IN names[Len(s.items)]

Renamed(s) == {s.items[i].name : i \in {j \in Declarations(s) : s.items[j].body.form = "name"}}

ReadsBehindTwo(e, s) ==
  \/ /\ e.form = "call" /\ e.prefix /\ e.parts[1].form = "name"
     /\ e.parts[1].name \in Renamed(s) \intersect TupleNames(s)
  \/ /\ e.form = "connected" /\ HasSlots(e.parts[Len(e.parts) - 1])
     /\ e.parts[Len(e.parts)].form = "name" /\ e.parts[Len(e.parts)].name \in TupleNames(s)

Contested(s) ==
  \E e \in Forms(s) :
    \/ RereadsOperand(e, BoundNames(s)) \/ FormatsHole(e) \/ ReadsBehindTwo(e, s)
    \/ CompletesFromTuple(e, BoundNames(s)) \/ BorrowsBeforeMoved(e, BoundNames(s))

(***************************************************************************)
(* Properties.                                                             *)
(***************************************************************************)

(* The stages come in order, and every node the state speaks of exists.    *)
TypeOK ==
  /\ stage \in Stages
  /\ Len(lowering.releases) = Len(lowering.nodes)
  /\ stage \in {"formats", "bindings", "references", "arities"} => lowering = NewState(source)
  /\ \A i \in DOMAIN source.items :
       /\ lowering.last[i] \in 0 .. Len(lowering.nodes)
       /\ lowering.bindings[i] = <<>> \/ lowering.bindings[i][1].node \in DOMAIN lowering.nodes

(* compile_parsed_source: what lowering makes of a source the checks let   *)
(* through is a program the verifier accepts, outside the contested forms. *)
LoweredVerifies == Contested(source) \/ stage # "invalid"

(* The value of every root, read back from the nodes, is the value the     *)
(* source gives it: operands, slots, spreads, holes and elements in the    *)
(* order written.                                                          *)
MeaningKept ==
  stage = "compiled" => ProgramMeaning(Program(lowering)) = SourceMeaning(source)

(* What the interpreter's runs assume of compiled programs: borrows are    *)
(* made for fan-outs only, spreads are of temporaries, and a binding goes  *)
(* with its last recorded consumer.                                        *)
LoweredAsAssumed == stage = "compiled" => AsLowered(Program(lowering))

(* validate_program_arities tells from the source what lowering finds out  *)
(* from the types, where no name stands for a tuple and no prefix call     *)
(* leaves the question open.                                               *)
Deferred(s) ==
  \/ \E e \in Forms(s) : e.form = "call" /\ e.prefix /\ e.parts[1].form = "name"
  \/ \E i \in Declarations(s) : s.items[i].body.form \in {"tuple", "fanout", "name"}

AritiesAgree ==
  (stage = "arities" /\ ~Deferred(source)) =>
    IF ArityFaults(source) THEN Lowered(source).error # "none"
    ELSE Lowered(source).error # "ArityError"

(* The contract of fan-out: its operand may be read again in a branch, and *)
(* the release of the binding is still the final consumer.                 *)
OperandMayBeReread ==
  (\E e \in Forms(source) : RereadsOperand(e, BoundNames(source))) => stage # "invalid"

(* Connected applications borrow a binding: so does an operand written as  *)
(* the tuple of what the call still lacks.                                 *)
CompletionBorrows ==
  (\E e \in Forms(source) : CompletesFromTuple(e, BoundNames(source))) => stage # "invalid"
=============================================================================

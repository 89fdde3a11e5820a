----------------------------- MODULE SourceForms -----------------------------
(***************************************************************************)
(* Parsed sources and the checks they pass before they are lowered         *)
(* (src/src/lowering.rs).  A source is a record [parameters, items]: the   *)
(* items are its declarations and roots in line order, [name, body] with   *)
(* name = NoName for a root.  An expression has a form and its parts; a    *)
(* path, the indices that lead to an expression, stands for its span.      *)
(***************************************************************************)
EXTENDS Integers, Sequences, FiniteSets, SequencesExt

NoName == "no name"

Literal(tag)          == [form |-> "literal", tag |-> tag, parts |-> <<>>]
Name(x)               == [form |-> "name", name |-> x, parts |-> <<>>]
Reference(op)         == [form |-> "reference", op |-> op, parts |-> <<>>]
Aggregate(parts)      == [form |-> "tuple", parts |-> parts]
Call(op, parts)       == [form |-> "call", op |-> op, prefix |-> FALSE, parts |-> parts]
Prefix(op, part)      == [form |-> "call", op |-> op, prefix |-> TRUE, parts |-> <<part>>]
(* A format or printf: its template has as many placeholders as `holes`.   *)
FormatOf(raw, holes, parts) ==
  [form |-> "format", raw |-> raw, holes |-> holes, parts |-> parts]
(* A connected application: its templates, then its operand.               *)
Template(op, parts)   == [form |-> "template", op |-> op, parts |-> parts]
Connected(templates, operand) ==
  [form |-> "connected", parts |-> Append(templates, operand)]
Slot(n)               == [form |-> "slot", index |-> n, parts |-> <<>>]   \* _ is 0, _n is n
(* A fan-out: its operand, then its branches, each with one hole.          *)
FanOutOf(operand, branches) == [form |-> "fanout", parts |-> <<operand>> \o branches]
Hole                  == [form |-> "hole", parts |-> <<>>]

(***************************************************************************)
(* parse_fanout, inspect_branch_placeholders: fan-outs do not nest; a      *)
(* branch is a call with one hole, that no tuple takes.                    *)
(***************************************************************************)
RECURSIVE Within(_)
Within(e) == {e} \union UNION {Within(e.parts[k]) : k \in DOMAIN e.parts}

(* For each hole, whether a tuple would own it.                            *)
RECURSIVE Holes(_, _)
Holes(e, owned) ==
  IF e.form = "hole" THEN <<owned>>
  ELSE FlattenSeq([k \in DOMAIN e.parts |-> Holes(e.parts[k], owned \/ e.form = "tuple")])

ParsedFanOut(e) ==
  /\ \A k \in DOMAIN e.parts : \A x \in Within(e.parts[k]) : x.form # "fanout"
  /\ \A k \in 2 .. Len(e.parts) :
       e.parts[k].form = "call" /\ Holes(e.parts[k], FALSE) = <<FALSE>>

Parsed(source) ==
  \A i \in DOMAIN source.items : \A e \in Within(source.items[i].body) :
    e.form = "fanout" => ParsedFanOut(e)

(***************************************************************************)
(* The operations, by what lowering asks of the semantic registry.         *)
(***************************************************************************)
TakesReference(op) == op \in {"foldl", "scanl", "filter"}

TakesWholeVector(op) == op \in {"foldl", "scanl", "filter", "sum"}

OperandCount(op) ==
  CASE op \in {"inc", "sum", "filter"} -> 1
    [] op \in {"add", "equals", "foldl", "scanl"} -> 2

(* With the operation reference, which is an argument but no operand.      *)
Arities(op) == {OperandCount(op) + (IF TakesReference(op) THEN 1 ELSE 0)}

Accepts(op, tags) ==
  /\ Len(tags) = OperandCount(op)
  /\ CASE op \in {"sum", "filter"} -> tags = <<"vector">>
       [] op \in {"foldl", "scanl"} -> tags = <<"scalar", "vector">>
       [] op = "equals" ->
            \/ \A k \in DOMAIN tags : tags[k] = "string"
            \/ \A k \in DOMAIN tags : tags[k] \in {"scalar", "vector"}
       [] OTHER -> \A k \in DOMAIN tags : tags[k] \in {"scalar", "vector"}

ResultTag(op, tags) ==
  CASE op \in {"sum", "foldl"} -> "scalar"
    [] op \in {"filter", "scanl"} -> "vector"
    [] OTHER -> IF \E k \in DOMAIN tags : tags[k] = "vector" THEN "vector" ELSE "scalar"

(***************************************************************************)
(* validate_format_forms: printf only as a root; every placeholder of a    *)
(* template has its argument.                                              *)
(***************************************************************************)
RECURSIVE FormatFault(_, _)
FormatFault(e, root) ==
  \/ /\ e.form = "format"
     /\ (e.raw /\ ~root) \/ e.holes # Len(e.parts)
  \/ \E k \in DOMAIN e.parts : FormatFault(e.parts[k], FALSE)

FormatFaults(source) ==
  \E i \in DOMAIN source.items :
    FormatFault(source.items[i].body, source.items[i].name = NoName)

(***************************************************************************)
(* validate_operation_reference_positions: a reference is the first        *)
(* argument of a consumer, be it written in a template or supplied by the  *)
(* operand of its completion.                                              *)
(***************************************************************************)
ReferencePosition(op, argument) == TakesReference(op) /\ argument = 1

RECURSIVE MisplacedReference(_, _)
MisplacedReference(e, accepted) ==
  CASE e.form = "reference" -> ~accepted
    [] e.form = "call" ->
         \E k \in DOMAIN e.parts :
           MisplacedReference(e.parts[k], ReferencePosition(e.op, k))
    [] e.form = "connected" ->
         LET n == Len(e.parts) - 1
             last == e.parts[n]
             written == Len(last.parts)
             operand == e.parts[n + 1]
         IN \/ \E t \in 1 .. n : \E k \in DOMAIN e.parts[t].parts :
                 MisplacedReference(e.parts[t].parts[k], ReferencePosition(e.parts[t].op, k))
            \/ IF operand.form = "tuple"
               THEN \E k \in DOMAIN operand.parts :
                      MisplacedReference(operand.parts[k],
                                         ReferencePosition(last.op, written + k))
               ELSE MisplacedReference(operand, ReferencePosition(last.op, written + 1))
    [] OTHER -> \E k \in DOMAIN e.parts : MisplacedReference(e.parts[k], FALSE)

MisplacedReferences(source) ==
  \E i \in DOMAIN source.items : MisplacedReference(source.items[i].body, FALSE)

(***************************************************************************)
(* analyze_bindings.  References in evaluation order, each with the mode   *)
(* its position gives it: an aggregate, a declaration and a root own what  *)
(* they name, everything else borrows it.                                  *)
(***************************************************************************)
(* Mutant: the arguments of a call are owned.                              *)
OwnsArgument(e, k) == e.form \in {"tuple", "call"} \/ (e.form = "fanout" /\ k > 1)

OwnsPart(e, k) == e.form = "tuple" \/ (e.form = "fanout" /\ k > 1)

RECURSIVE ReferencesIn(_, _, _)
ReferencesIn(e, path, owning) ==
  IF e.form = "name"
  THEN <<[name |-> e.name, path |-> path, mode |-> IF owning THEN "Move" ELSE "Borrow"]>>
  ELSE FlattenSeq([k \in DOMAIN e.parts |->
         ReferencesIn(e.parts[k], Append(path, k), OwnsPart(e, k))])

AllReferences(source) ==
  FlattenSeq([i \in DOMAIN source.items |->
    ReferencesIn(source.items[i].body, <<i>>, TRUE)])

Declarations(source) == {i \in DOMAIN source.items : source.items[i].name # NoName}

Declaring(source, x) == {i \in Declarations(source) : source.items[i].name = x}

(* A name means the declaration above it, else a parameter.  Declarations  *)
(* are numbered by their item.                                             *)
Symbol(source, ref) ==
  LET item == ref.path[1]
      above == {i \in Declaring(source, ref.name) : i < item}
      parameters == {k \in DOMAIN source.parameters : source.parameters[k] = ref.name}
  IN CASE above # {} -> [kind |-> "binding", index |-> CHOOSE i \in above : TRUE]
       [] parameters # {} -> [kind |-> "parameter", index |-> CHOOSE k \in parameters : TRUE]
       [] source.items[item].name = ref.name -> [kind |-> "SelfReference", index |-> item]
       [] Declaring(source, ref.name) # {} -> [kind |-> "ForwardReference", index |-> item]
       [] OTHER -> [kind |-> "UnknownReference", index |-> item]

UsesOfBinding(source, i) ==
  SelectSeq(AllReferences(source),
            LAMBDA ref : Symbol(source, ref) = [kind |-> "binding", index |-> i])

DeclarationFault(source) ==
  IF \E i, j \in Declarations(source) : i # j /\ source.items[i].name = source.items[j].name
  THEN "DuplicateName"
  ELSE IF \E i \in Declarations(source) : source.items[i].name \in ToSet(source.parameters)
  THEN "Shadowing"
  ELSE "none"

(* After its move a binding is gone.                                       *)
UseFault(uses) ==
  LET moves == {k \in DOMAIN uses : uses[k].mode = "Move"}
      first == CHOOSE k \in moves : \A j \in moves : k <= j
  IN CASE uses = <<>> -> "UnusedBinding"
       [] moves = {} \/ first = Len(uses) -> "none"
       [] uses[first + 1].mode = "Move" -> "MultipleOwnershipEscape"
       [] OTHER -> "UseAfterMove"

FirstFault(faults) ==
  IF \A k \in DOMAIN faults : faults[k] = "none" THEN "none"
  ELSE faults[CHOOSE k \in DOMAIN faults :
                faults[k] # "none" /\ \A j \in 1 .. k - 1 : faults[j] = "none"]

BindingFault(source) ==
  LET references == AllReferences(source)
      visible == [k \in DOMAIN references |->
                    LET kind == Symbol(source, references[k]).kind
                    IN IF kind \in {"binding", "parameter"} THEN "none" ELSE kind]
      used == [i \in DOMAIN source.items |->
                 IF i \in Declarations(source) THEN UseFault(UsesOfBinding(source, i))
                 ELSE "none"]
  IN FirstFault(<<DeclarationFault(source), FirstFault(visible), FirstFault(used)>>)

(***************************************************************************)
(* validate_program_arities: what every application will receive, told     *)
(* from the shape of the source alone.  A name is taken for no tuple; only *)
(* the prefix call of a name is left to lowering.                          *)
(***************************************************************************)
NonTuple == -1

(* Mutant: a fan-out taken for no tuple.                                   *)
StructuralTuple(e, hole) ==
  CASE e.form = "tuple" -> Len(e.parts)
    [] e.form = "hole" -> hole
    [] OTHER -> NonTuple

StructuralValue(e, hole) ==
  CASE e.form = "tuple" -> Len(e.parts)
    [] e.form = "fanout" -> Len(e.parts) - 1
    [] e.form = "hole" -> hole
    [] OTHER -> NonTuple

IsSlot(e) == e.form = "slot"
HasSlots(template) == \E k \in DOMAIN template.parts : IsSlot(template.parts[k])

(* A nested connected application answers for its own slots.               *)
RECURSIVE UnboundSlot(_)
UnboundSlot(e) ==
  \/ IsSlot(e)
  \/ e.form # "connected" /\ \E k \in DOMAIN e.parts : UnboundSlot(e.parts[k])

SlotsTake(template, operand) ==
  LET width == IF operand = NonTuple THEN 1 ELSE operand
      given(k) == CASE ~IsSlot(template.parts[k]) -> 1
                    [] template.parts[k].index = 0 -> width
                    [] OTHER -> 1
      total == FoldLeft(+, 0, [k \in DOMAIN template.parts |-> given(k)])
  IN /\ width > 0
     /\ \A k \in DOMAIN template.parts :
          IsSlot(template.parts[k]) => template.parts[k].index <= width
     /\ total \in Arities(template.op)

(* connected_completion_reason: the operand completes the call, exactly.   *)
Completes(template, supplied, runtime_tuple) ==
  LET written == Len(template.parts)
  IN /\ written \notin Arities(template.op)
     /\ supplied > 0
     /\ ~runtime_tuple
     /\ written + supplied \in Arities(template.op)

RECURSIVE ArityFault(_, _)
ArityFault(e, hole) ==
  CASE e.form = "slot" -> TRUE
    [] e.form = "call" ->
         \/ \E k \in DOMAIN e.parts : UnboundSlot(e.parts[k]) \/ ArityFault(e.parts[k], hole)
         \/ LET value == StructuralValue(e.parts[1], hole)
                actual == IF e.prefix /\ value # NonTuple THEN value ELSE Len(e.parts)
            IN /\ ~(e.prefix /\ e.parts[1].form = "name")
               /\ actual \notin Arities(e.op)
    [] e.form = "connected" ->
         LET n == Len(e.parts) - 1
             operand == e.parts[n + 1]
             value(t) == IF t = n THEN StructuralValue(operand, hole) ELSE NonTuple
             authored == operand.form = "tuple"
         IN \/ ArityFault(operand, hole)
            \/ \E t \in 1 .. n :
                 \/ \E k \in DOMAIN e.parts[t].parts :
                      LET argument == e.parts[t].parts[k]
                      IN ~IsSlot(argument) /\ (UnboundSlot(argument) \/ ArityFault(argument, hole))
                 \/ IF HasSlots(e.parts[t]) THEN ~SlotsTake(e.parts[t], value(t))
                    ELSE ~Completes(e.parts[t],
                                    IF t = n /\ authored THEN value(t) ELSE 1,
                                    t = n /\ ~authored /\ value(t) # NonTuple)
    [] e.form = "fanout" ->
         \/ ArityFault(e.parts[1], hole)
         \/ \E k \in 2 .. Len(e.parts) :
              ArityFault(e.parts[k], StructuralValue(e.parts[1], hole))
    [] OTHER -> \E k \in DOMAIN e.parts : ArityFault(e.parts[k], hole)

ArityFaults(source) ==
  \E i \in DOMAIN source.items : ArityFault(source.items[i].body, NonTuple)
=============================================================================

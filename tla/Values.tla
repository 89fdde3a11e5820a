-------------------------------- MODULE Values --------------------------------
(***************************************************************************)
(* Runtime values (src/src/value.rs), abstracted to what the ledger and    *)
(* the interpreter tell apart: the shape, the bytes a value is charged for *)
(* itself, its children, and a label that says where its content came      *)
(* from, so that two values of one shape remain two values.  What it and   *)
(* all beneath it are charged for (bytes), and how many values that are    *)
(* (nodes), it carries for the specification only: the code has to walk.   *)
(***************************************************************************)
EXTENDS Resources, Sequences, SequencesExt, FiniteSetsExt

(* f applied n times, each time to the result of the last.                 *)
Repeated(f(_), x, n) ==
  LET after[k \in 0 .. n] ==
        IF k = 0 THEN x ELSE CHOOSE y \in {f(w) : w \in {after[k - 1]}} : TRUE
  IN after[n]

Label(node, operands) == [node |-> node, operands |-> operands]

Plain(tag, own, label) ==
  [tag |-> tag, own |-> own, elems |-> <<>>, label |-> label,
   bytes |-> own, nodes |-> 1]

Total(measure, values) == FoldLeft(LAMBDA sum, v : sum + v[measure], 0, values)

(* A tuple is charged one slot for each child; it has no content itself.   *)
TupleValue(elems) ==
  [tag   |-> "tuple",
   own   |-> SlotBytes * Len(elems),
   elems |-> elems,
   label |-> Label(0, [k \in DOMAIN elems |-> elems[k].label]),
   bytes |-> SlotBytes * Len(elems) + Total("bytes", elems),
   nodes |-> 1 + Total("nodes", elems)]

IsCopied(value) == value.tag # "scalar"

(***************************************************************************)
(* Value::into_canonical_bytes takes a value apart without recursion: the  *)
(* last child becomes the current value, its elder siblings the pending    *)
(* stack, and the stack they displace is kept below them inside a tuple.   *)
(***************************************************************************)
WalkStart(value) == [total |-> 0, pending |-> <<>>, current |-> <<value>>]

Descend(walk, value, pending) ==
  LET kept == IF pending = <<>> THEN <<>> ELSE <<TupleValue(pending)>>
  IN [total   |-> walk.total + value.own,
      pending |-> Front(value.elems) \o kept,
      current |-> <<Last(value.elems)>>]

(* A faulty variant, for the mutation runs: the visited one stays pending. *)
VisitWithoutTaking(walk, value, pending) ==
  IF value.elems # <<>> THEN Descend(walk, value, pending)
  ELSE [total |-> walk.total + value.own, pending |-> walk.pending, current |-> <<>>]

Visit(walk, value, pending) ==
  IF value.elems # <<>> THEN Descend(walk, value, pending)
  ELSE [total |-> walk.total + value.own, pending |-> pending, current |-> <<>>]

WalkDone(walk) == walk.current = <<>> /\ walk.pending = <<>>

WalkStep(walk) ==
  IF walk.current # <<>> THEN Visit(walk, walk.current[1], walk.pending)
  ELSE IF walk.pending # <<>> THEN Visit(walk, Last(walk.pending), Front(walk.pending))
  ELSE walk

(* A value is visited in one turn, and so is a tuple of displaced siblings. *)
Walk(value) == Repeated(WalkStep, WalkStart(value), 2 * value.nodes)

CanonicalBytes(value) == Walk(value).total
=============================================================================

------------------------------ MODULE HeldBytes ------------------------------
(***************************************************************************)
(* Counting the bytes somebody holds.  A holding function gives each       *)
(* holder (a producer, a slot of the interpreter, ...) its bytes; the      *)
(* total is the number of <<holder, byte>> pairs, which is a sum the       *)
(* library's theorems on finite sets can reason about.                     *)
(***************************************************************************)
EXTENDS Resources, FiniteSets

BytesOf(holding) ==
  {c \in (DOMAIN holding) \X (1 .. MaxUsize) : c[2] <= holding[c[1]]}

TotalHeld(holding) == Cardinality(BytesOf(holding))
=============================================================================

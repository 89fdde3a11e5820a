--------------------------- MODULE InterpreterProofs ---------------------------
(***************************************************************************)
(* An evaluation of a verified program that was lowered from source never  *)
(* meets an execution invariant error, and no alias it leaves in a slot    *)
(* ever dangles, whatever is refused and whatever fails on the way.        *)
(*                                                                         *)
(* The argument: the agenda is the nodes in their order, the nodes of the  *)
(* branches included (ScheduleIsPostorder), so the state before a node     *)
(* runs is told by the program: a slot is filled exactly if its node has   *)
(* run and nothing has moved or released its value (Gone, of               *)
(* OwnershipProofs).  What a node reads or takes is then in place by the   *)
(* rules of ownership, and what is left fits its type.                     *)
(*                                                                         *)
(* The second part: whatever moves, borrows or copies a value, a slot      *)
(* holds what its node means, and what an evaluation delivers is what its  *)
(* roots mean.  The recursion that gives a node its meaning looks only at  *)
(* earlier nodes, so it has a solution, and the meaning of a node is told  *)
(* by those of its operands (MeaningIs).  Then, slot by slot, an owned     *)
(* value carries the label of its node, an element of an owned tuple the   *)
(* label its tuple records for it, and an alias stands for a node that     *)
(* means the same; taking a slot's value away disturbs no other slot.      *)
(***************************************************************************)
EXTENDS Interpreter, OwnershipProofs

(***************************************************************************)
(* The order of execution.                                                 *)
(***************************************************************************)
(* The numbers after a, up to b.                                           *)
UpTo(a, b) == [k \in 1 .. b - a |-> a + k]

(* A stretch is a sequence.                                                *)
LEMMA StretchIsSequence ==
  ASSUME NEW a \in Nat, NEW b \in Nat, a <= b
  PROVE  UpTo(a, b) \in Seq(Nat) /\ Len(UpTo(a, b)) = b - a
<1>1. b - a \in Nat
  OBVIOUS
<1>2. UpTo(a, b) \in [1 .. b - a -> Nat]
  BY DEF UpTo
<1> QED
  BY <1>1, <1>2

(* Stretches join.                                                         *)
LEMMA StretchesJoin ==
  ASSUME NEW a \in Nat, NEW b \in Nat, NEW d \in Nat, a <= b, b <= d
  PROVE  UpTo(a, b) \o UpTo(b, d) = UpTo(a, d)
<1> DEFINE u == UpTo(a, b)
           v == UpTo(b, d)
           w == UpTo(a, d)
<1>1. u \in Seq(Nat) /\ Len(u) = b - a /\ v \in Seq(Nat) /\ Len(v) = d - b
  BY StretchIsSequence
<1>2. w \in Seq(Nat) /\ Len(w) = d - a
  <2>1. a <= d
    OBVIOUS
  <2> QED
    BY <2>1, StretchIsSequence
<1>3. /\ \A k \in 1 .. b - a : u[k] = a + k
      /\ \A k \in 1 .. d - b : v[k] = b + k
      /\ \A k \in 1 .. d - a : w[k] = a + k
  BY DEF UpTo
<1> HIDE DEF u, v, w
<1>4. u \o v \in Seq(Nat) /\ Len(u \o v) = Len(u) + Len(v)
  BY <1>1, ConcatProperties
<1>5. Len(u \o v) = d - a
  BY <1>1, <1>4
<1>6. \A k \in 1 .. d - a : (u \o v)[k] = w[k]
  <2> TAKE k \in 1 .. d - a
  <2>0. (u \o v)[k] = IF k <= Len(u) THEN u[k] ELSE v[k - Len(u)]
    BY <1>1
  <2>1. CASE k <= b - a
    BY <1>1, <1>3, <2>0, <2>1
  <2>2. CASE k > b - a
    <3>1. k - (b - a) \in 1 .. d - b /\ b + (k - (b - a)) = a + k
      BY <2>2
    <3>2. v[k - (b - a)] = a + k
      BY <1>3, <3>1
    <3> QED
      BY <1>1, <1>3, <2>0, <2>2, <3>2
  <2>3. k <= b - a \/ k > b - a
    OBVIOUS
  <2> QED
    BY <2>1, <2>2, <2>3
<1>7. u \o v = w
  <2>1. \A k \in 1 .. Len(u \o v) : (u \o v)[k] = w[k]
    BY <1>5, <1>6
  <2>2. Len(u \o v) = Len(w)
    BY <1>2, <1>5
  <2> QED
    BY <1>2, <1>4, <2>1, <2>2, SeqEqual
<1> QED
  BY <1>7 DEF u, v, w

(* The stretches of none and of one.                                       *)
LEMMA ShortStretches ==
  ASSUME NEW a \in Nat
  PROVE  UpTo(a, a) = <<>> /\ UpTo(a, a + 1) = <<a + 1>>
<1>1. UpTo(a, a) = <<>>
  BY DEF UpTo
<1>2. UpTo(a, a + 1) \in Seq(Nat) /\ Len(UpTo(a, a + 1)) = 1
  <2>1. a + 1 \in Nat /\ a <= a + 1 /\ (a + 1) - a = 1
    OBVIOUS
  <2> QED
    BY <2>1, StretchIsSequence
<1>3. UpTo(a, a + 1)[1] = a + 1
  BY DEF UpTo
<1> QED
  BY <1>1, <1>2, <1>3

(* The branches of a fan-out, one after another, are the nodes between its *)
(* operand and it.                                                         *)
LEMMA BranchesInOrder ==
  ASSUME NEW p, IsProgram(p), Verified(p), NEW f \in FanOuts(p)
  PROVE  BranchSchedule(p, f) = UpTo(OperandOf(p, f), f - 1)
<1> DEFINE B == Branches(p, f)
           m == Len(B)
           o == OperandOf(p, f)
           s == [b \in DOMAIN B |-> InOrder(B[b])]
           F == [b \in 0 .. m |-> IF b = 0 THEN <<>> ELSE UpTo(o, B[b].last)]
<1>0. f \in Nat
  BY NumberedFromOne DEF FanOuts
<1>1. /\ o \in 1 .. f - 1 /\ m \in Nat \ {0} /\ DOMAIN B = 1 .. m
      /\ B[1].first = o + 1 /\ B[m].last = f - 1
      /\ \A b \in 1 .. m :
           /\ B[b] \in BranchRecords /\ o < B[b].first /\ B[b].first <= B[b].last
           /\ b > 1 => B[b].first = B[b - 1].last + 1
  BY BranchesTile
<1>2. \A b \in 1 .. m : B[b].first \in Nat /\ B[b].last \in Nat
  BY <1>1 DEF BranchRecords
<1>3. \A b \in 1 .. m : InOrder(B[b]) = UpTo(B[b].first - 1, B[b].last)
  <2> TAKE b \in 1 .. m
  <2>1. (B[b].last - B[b].first) + 1 = B[b].last - (B[b].first - 1)
    BY <1>2
  <2>2. \A k \in Nat : B[b].first + k - 1 = (B[b].first - 1) + k
    <3>1. B[b].first \in Nat
      BY <1>2
    <3> QED
      BY <3>1
  <2> QED
    BY <1>2, <2>1, <2>2 DEF InOrder, UpTo
<1>4. \A b \in 1 .. m : UpTo(o, B[b].last) \in Seq(Nat) /\ InOrder(B[b]) \in Seq(Nat)
  <2> TAKE b \in 1 .. m
  <2>1. o \in Nat /\ B[b].first - 1 \in Nat /\ o <= B[b].last /\ B[b].first - 1 <= B[b].last
    BY <1>0, <1>1, <1>2
  <2> QED
    BY <1>2, <1>3, <2>1, StretchIsSequence
<1>5. s \in Seq(Seq(Nat)) /\ Len(s) = m /\ \A b \in 1 .. m : s[b] = InOrder(B[b])
  <2>1. s \in [1 .. m -> Seq(Nat)]
    BY <1>1, <1>4
  <2> QED
    BY <1>1, <2>1
<1> HIDE DEF B, m, o, s
<1>6. \A b \in 1 .. m : F[b] \in Seq(Nat) /\ F[b] = F[b - 1] \o s[b]
  <2> TAKE b \in 1 .. m
  <2>1. F[b] = UpTo(o, B[b].last)
    BY <1>1
  <2>2. o \in Nat /\ B[b].first - 1 \in Nat /\ o <= B[b].first - 1 /\ B[b].first - 1 <= B[b].last
        /\ B[b].last \in Nat
    BY <1>0, <1>1, <1>2
  <2>3. F[b - 1] = UpTo(o, B[b].first - 1)
    <3>1. CASE b = 1
      <4>1. B[b].first - 1 = o
        BY <1>0, <1>1, <3>1
      <4>2. F[b - 1] = <<>>
        BY <1>1, <3>1
      <4> QED
        BY <2>2, <4>1, <4>2, ShortStretches
    <3>2. CASE b # 1
      <4>1. b > 1 /\ b - 1 \in 1 .. m
        BY <1>1, <3>2
      <4>2. B[b].first - 1 = B[b - 1].last
        BY <1>1, <1>2, <4>1
      <4>3. F[b - 1] = UpTo(o, B[b - 1].last)
        BY <1>1, <4>1
      <4> QED
        BY <4>2, <4>3
    <3> QED
      BY <3>1, <3>2
  <2>4. UpTo(o, B[b].first - 1) \o UpTo(B[b].first - 1, B[b].last) = UpTo(o, B[b].last)
    BY <2>2, StretchesJoin
  <2>5. s[b] = UpTo(B[b].first - 1, B[b].last)
    BY <1>3, <1>5
  <2>6. F[b] \in Seq(Nat)
    BY <1>4, <2>1
  <2> HIDE DEF F
  <2> QED
    BY <2>1, <2>3, <2>4, <2>5, <2>6
<1>7. F[0] = <<>> /\ F[m] = UpTo(o, f - 1)
  BY <1>1
<1> HIDE DEF F
<1>8. FlattenSeq(s) = F[m]
  BY <1>5, <1>6, <1>7, FlattenIs
<1> QED
  BY <1>7, <1>8 DEF BranchSchedule, s, B, o

(***************************************************************************)
(* Fan-outs do not nest, and every node between one and its operand is in  *)
(* a branch of it.                                                         *)
(***************************************************************************)
Covers(p, f, k) == f \in FanOuts(p) /\ OperandOf(p, f) < k /\ k < f

(* The nodes of branches are the nodes some fan-out covers.                *)
LEMMA CoveredIsBranchNode ==
  ASSUME NEW p, IsProgram(p), Verified(p), NEW k \in Nat
  PROVE  k \in BranchNodes(p) <=> \E f \in FanOuts(p) : Covers(p, f, k)
<1>1. ASSUME k \in BranchNodes(p) PROVE \E f \in FanOuts(p) : Covers(p, f, k)
  <2>1. PICK x \in BranchPlaces(p) : k \in RegionOf(BranchAt(p, x))
    BY <1>1 DEF BranchNodes
  <2>2. x[1] \in FanOuts(p) /\ x[2] \in DOMAIN Branches(p, x[1])
        /\ BranchAt(p, x) = Branches(p, x[1])[x[2]] /\ BranchAt(p, x) \in BranchRecords
    BY AtBranchPlace
  <2>3. OperandOf(p, x[1]) < BranchAt(p, x).first /\ BranchAt(p, x).last < x[1]
        /\ OperandOf(p, x[1]) \in 1 .. x[1] - 1
    BY <2>2, BranchesTile
  <2>4. x[1] \in Nat
    BY <2>2, NumberedFromOne DEF FanOuts
  <2>5. OperandOf(p, x[1]) < k /\ k < x[1]
    BY <2>1, <2>2, <2>3, <2>4 DEF RegionOf, BranchRecords
  <2> QED
    BY <2>2, <2>5 DEF Covers
<1>2. ASSUME NEW f \in FanOuts(p), Covers(p, f, k) PROVE k \in BranchNodes(p)
  <2> DEFINE B == Branches(p, f)
             m == Len(B)
             T == {b \in 1 .. m : k <= B[b].last}
  <2>0. f \in Nat
    BY NumberedFromOne DEF FanOuts
  <2>1. /\ m \in Nat \ {0} /\ DOMAIN B = 1 .. m
        /\ B[1].first = OperandOf(p, f) + 1 /\ B[m].last = f - 1
        /\ OperandOf(p, f) \in 1 .. f - 1
        /\ \A b \in 1 .. m :
             B[b] \in BranchRecords /\ (b > 1 => B[b].first = B[b - 1].last + 1)
    BY BranchesTile
  <2>2. OperandOf(p, f) < k /\ k < f
    BY <1>2 DEF Covers
  <2>3. m \in T
    BY <2>0, <2>1, <2>2
  <2>4. PICK b \in T : \A d \in T : b <= d
    <3>1. T \in SUBSET Nat /\ T # {}
      BY <2>3
    <3> HIDE DEF T
    <3> QED
      BY <3>1, LeastNumber
  <2> HIDE DEF B, m
  <2>5. B[b].first <= k
    <3>1. CASE b = 1
      BY <2>0, <2>1, <2>2, <3>1
    <3>2. CASE b # 1
      <4>1. b > 1 /\ b - 1 \in 1 .. m /\ b - 1 \notin T
        BY <2>1, <2>4, <3>2
      <4>0. B[b - 1].last \in Nat /\ B[b].first \in Nat
        BY <2>1, <4>1 DEF BranchRecords
      <4>2. B[b - 1].last < k
        BY <4>0, <4>1 DEF T
      <4>3. B[b].first = B[b - 1].last + 1
        BY <2>1, <4>1
      <4> QED
        BY <4>0, <4>2, <4>3
    <3> QED
      BY <3>1, <3>2
  <2>6. k \in RegionOf(B[b])
    BY <2>1, <2>5 DEF RegionOf, BranchRecords
  <2>7. <<f, b>> \in BranchPlaces(p) /\ BranchAt(p, <<f, b>>) = B[b]
    BY <2>1, BranchPlaceOf DEF B
  <2> QED
    BY <2>6, <2>7 DEF BranchNodes
<1> QED
  BY <1>1, <1>2

(* A node is covered once; a fan-out and its operand are not.              *)
LEMMA FanOutsAreApart ==
  ASSUME NEW p, IsProgram(p), Verified(p), NEW f \in FanOuts(p)
  PROVE  /\ \A g \in FanOuts(p) : ~Covers(p, g, f) /\ ~Covers(p, g, OperandOf(p, f))
         /\ \A k \in Nat : \A g \in FanOuts(p) : Covers(p, f, k) /\ Covers(p, g, k) => f = g
         /\ Covers(p, f, f - 1)
<1>1. \A g \in FanOuts(p) : g \in Nat /\ OperandOf(p, g) \in 1 .. g - 1
  <2> SUFFICES ASSUME NEW g \in FanOuts(p) PROVE g \in Nat /\ OperandOf(p, g) \in 1 .. g - 1
    OBVIOUS
  <2>1. g \in Indices(p)
    BY DEF FanOuts
  <2>2. g \in Nat
    BY <2>1, NumberedFromOne
  <2>3. OperandOf(p, g) \in 1 .. g - 1
    BY BranchesTile
  <2> QED
    BY <2>2, <2>3
<1>2. \A g, h \in FanOuts(p) : h \notin OperandOf(p, g) .. g - 1
  <2> SUFFICES ASSUME NEW g \in FanOuts(p), NEW h \in FanOuts(p), h \in OperandOf(p, g) .. g - 1
               PROVE  FALSE
    OBVIOUS
  <2>1. KindOf(p, h) # "FanOut"
    BY BranchesTile
  <2> QED
    BY <2>1 DEF FanOuts
<1>3. \A g, h \in FanOuts(p) : h < g => h < OperandOf(p, g)
  BY <1>1, <1>2
<1>4. ASSUME NEW g \in FanOuts(p)
      PROVE  ~Covers(p, g, f) /\ ~Covers(p, g, OperandOf(p, f))
  <2>1. ~Covers(p, g, f)
    BY <1>1, <1>3 DEF Covers
  <2>2. CASE f = g
    BY <1>1, <2>1, <2>2 DEF Covers
  <2>3. CASE f < g
    <3>1. f < OperandOf(p, g)
      BY <1>3, <2>3
    <3> QED
      BY <1>1, <2>1, <3>1 DEF Covers
  <2>4. CASE g < f
    <3>1. g < OperandOf(p, f)
      BY <1>3, <2>4
    <3> QED
      BY <1>1, <2>1, <3>1 DEF Covers
  <2> QED
    BY <1>1, <2>2, <2>3, <2>4
<1>5. ASSUME NEW k \in Nat, NEW g \in FanOuts(p), Covers(p, f, k), Covers(p, g, k)
      PROVE  f = g
  <2>1. ~(f < g) /\ ~(g < f)
    BY <1>1, <1>3, <1>5 DEF Covers
  <2> QED
    BY <1>1, <2>1
<1>6. Covers(p, f, f - 1)
  <2>1. 1 \in DOMAIN Branches(p, f)
    BY BranchesTile
  <2>2. /\ Branches(p, f)[1] \in BranchRecords /\ OperandOf(p, f) < Branches(p, f)[1].first
        /\ Branches(p, f)[1].first <= Branches(p, f)[1].last /\ Branches(p, f)[1].last < f
    BY <2>1, BranchesTile
  <2> QED
    BY <1>1, <2>2 DEF Covers, BranchRecords
<1> QED
  BY <1>4, <1>5, <1>6

(* Running the branches when their fan-out runs is running every node in   *)
(* its turn: evaluate_verified_program_observed skips the nodes of a       *)
(* branch, and execute_fan_out executes them, in the order of the nodes.   *)
THEOREM ScheduleIsPostorder ==
  ASSUME NEW p, IsProgram(p), Verified(p)
  PROVE  Schedule(p) = UpTo(0, Len(p.nodes))
<1> DEFINE n == Len(p.nodes)
           Part(i) == CASE i \in BranchNodes(p) -> <<>>
                        [] KindOf(p, i) = "FanOut" -> BranchSchedule(p, i) \o <<i>>
                        [] OTHER -> <<i>>
           s == [i \in Indices(p) |-> Part(i)]
           Around(k) == CHOOSE f \in FanOuts(p) : Covers(p, f, k)
           Reach(k) == IF \E f \in FanOuts(p) : Covers(p, f, k) THEN OperandOf(p, Around(k)) ELSE k
           F == [k \in 0 .. n |-> UpTo(0, Reach(k))]
<1>0. Indices(p) = 1 .. n /\ n \in Nat
  BY NumberedFromOne
<1>1. \A f \in FanOuts(p) : f \in 1 .. n /\ OperandOf(p, f) \in 1 .. f - 1
  BY <1>0, BranchesTile DEF FanOuts
<1>2. \A f \in FanOuts(p) : \A k \in Nat : Covers(p, f, k) => Reach(k) = OperandOf(p, f)
  <2> SUFFICES ASSUME NEW f \in FanOuts(p), NEW k \in Nat, Covers(p, f, k)
               PROVE  Reach(k) = OperandOf(p, f)
    OBVIOUS
  <2>1. Around(k) \in FanOuts(p) /\ Covers(p, Around(k), k)
    OBVIOUS
  <2> HIDE DEF Around
  <2>2. Around(k) = f
    BY <2>1, FanOutsAreApart
  <2> QED
    BY <2>2
<1>3. \A k \in Nat : (\A f \in FanOuts(p) : ~Covers(p, f, k)) => Reach(k) = k
  OBVIOUS
<1> HIDE DEF Reach, n
<1>4. \A k \in 0 .. n : Reach(k) \in 0 .. k
  <2> TAKE k \in 0 .. n
  <2>1. CASE \E f \in FanOuts(p) : Covers(p, f, k)
    BY <1>0, <1>1, <1>2, <2>1 DEF Covers
  <2>2. CASE \A f \in FanOuts(p) : ~Covers(p, f, k)
    BY <1>0, <1>3, <2>2
  <2> QED
    BY <2>1, <2>2
<1>5. ASSUME NEW k \in 1 .. n
      PROVE  UpTo(0, Reach(k)) = UpTo(0, Reach(k - 1)) \o Part(k) /\ Part(k) \in Seq(Nat)
  <2>0. k \in Nat /\ k - 1 \in Nat /\ k - 1 \in 0 .. n /\ k \in 0 .. n /\ Reach(k) \in Nat
        /\ Reach(k - 1) \in Nat
    BY <1>0, <1>4
  <2>1. CASE k \in BranchNodes(p)
    <3>1. PICK f \in FanOuts(p) : Covers(p, f, k)
      BY <2>0, <2>1, CoveredIsBranchNode
    <3>2. Reach(k) = OperandOf(p, f)
      BY <1>2, <2>0, <3>1
    <3>3. Reach(k - 1) = OperandOf(p, f)
      <4>1. CASE k - 1 = OperandOf(p, f)
        <5>1. \A g \in FanOuts(p) : ~Covers(p, g, k - 1)
          BY <4>1, FanOutsAreApart
        <5> QED
          BY <1>3, <2>0, <4>1, <5>1
      <4>2. CASE k - 1 # OperandOf(p, f)
        <5>1. Covers(p, f, k - 1)
          BY <1>0, <1>1, <2>0, <3>1, <4>2 DEF Covers
        <5> QED
          BY <1>2, <2>0, <5>1
      <4> QED
        BY <4>1, <4>2
    <3>4. Part(k) = <<>>
      <4>1. k \notin BranchNodes(p) \/ Part(k) = <<>>
        <5>1. k \in BranchNodes(p)
          BY <2>1
        <5>2. KindOf(p, k) # "FanOut"
          <6>1. SUFFICES ASSUME KindOf(p, k) = "FanOut" PROVE FALSE
            OBVIOUS
          <6>2. k \in FanOuts(p)
            BY <1>0, <6>1 DEF FanOuts
          <6> QED
            BY <3>1, <6>2, FanOutsAreApart
        <5> QED
          BY <5>1, <5>2
      <4> QED
        BY <2>1, <4>1
    <3>5. UpTo(0, Reach(k - 1)) \in Seq(Nat)
      BY <2>0, StretchIsSequence
    <3>6. UpTo(0, Reach(k - 1)) \o <<>> = UpTo(0, Reach(k - 1))
      BY <3>5
    <3>7. <<>> \in Seq(Nat)
      OBVIOUS
    <3> HIDE DEF Part
    <3> QED
      BY <3>2, <3>3, <3>4, <3>6, <3>7
  <2>2. CASE KindOf(p, k) = "FanOut"
    <3>1. k \in FanOuts(p)
      BY <1>0, <2>2 DEF FanOuts
    <3>2. \A g \in FanOuts(p) : ~Covers(p, g, k)
      BY <3>1, FanOutsAreApart
    <3>3. Reach(k) = k /\ k \notin BranchNodes(p)
      BY <1>3, <2>0, <3>2, CoveredIsBranchNode
    <3>4. Reach(k - 1) = OperandOf(p, k)
      <4>1. Covers(p, k, k - 1)
        BY <3>1, FanOutsAreApart
      <4> QED
        BY <1>2, <2>0, <3>1, <4>1
    <3>5. Part(k) = BranchSchedule(p, k) \o <<k>>
      BY <2>2, <3>3
    <3>6. OperandOf(p, k) \in Nat /\ OperandOf(p, k) <= k - 1 /\ k - 1 <= k /\ (k - 1) + 1 = k
      BY <1>0, <1>1, <3>1
    <3>7. BranchSchedule(p, k) = UpTo(OperandOf(p, k), k - 1) /\ <<k>> = UpTo(k - 1, k)
      BY <2>0, <3>1, <3>6, BranchesInOrder, ShortStretches
    <3>8. UpTo(OperandOf(p, k), k - 1) \o UpTo(k - 1, k) = UpTo(OperandOf(p, k), k)
      BY <2>0, <3>6, StretchesJoin
    <3>9. UpTo(0, OperandOf(p, k)) \o UpTo(OperandOf(p, k), k) = UpTo(0, k)
          /\ UpTo(OperandOf(p, k), k) \in Seq(Nat)
      <4>1. 0 \in Nat /\ 0 <= OperandOf(p, k) /\ OperandOf(p, k) <= k
        BY <2>0, <3>6
      <4>2. UpTo(OperandOf(p, k), k) \in Seq(Nat)
        BY <2>0, <3>6, <4>1, StretchIsSequence
      <4>3. UpTo(0, OperandOf(p, k)) \o UpTo(OperandOf(p, k), k) = UpTo(0, k)
        BY <2>0, <3>6, <4>1, StretchesJoin
      <4> QED
        BY <4>2, <4>3
    <3> HIDE DEF Part
    <3> QED
      BY <3>3, <3>4, <3>5, <3>7, <3>8, <3>9
  <2>3. CASE k \notin BranchNodes(p) /\ KindOf(p, k) # "FanOut"
    <3>1. \A f \in FanOuts(p) : ~Covers(p, f, k)
      BY <2>0, <2>3, CoveredIsBranchNode
    <3>2. \A f \in FanOuts(p) : ~Covers(p, f, k - 1)
      <4>1. SUFFICES ASSUME NEW f \in FanOuts(p), Covers(p, f, k - 1) PROVE FALSE
        OBVIOUS
      <4>2. f # k
        BY <2>3 DEF FanOuts
      <4>3. Covers(p, f, k)
        BY <1>0, <1>1, <2>0, <4>1, <4>2 DEF Covers
      <4> QED
        BY <3>1, <4>3
    <3>3. Reach(k) = k /\ Reach(k - 1) = k - 1
      BY <1>3, <2>0, <3>1, <3>2
    <3>4. Part(k) = <<k>>
      BY <2>3
    <3>5. (k - 1) + 1 = k /\ 0 <= k - 1 /\ k - 1 <= k
      BY <2>0
    <3>6. <<k>> = UpTo(k - 1, k)
      BY <2>0, <3>5, ShortStretches
    <3>7. UpTo(0, k - 1) \o UpTo(k - 1, k) = UpTo(0, k) /\ UpTo(k - 1, k) \in Seq(Nat)
      BY <2>0, <3>5, StretchesJoin, StretchIsSequence
    <3> HIDE DEF Part
    <3> QED
      BY <3>3, <3>4, <3>6, <3>7
  <2> QED
    BY <2>1, <2>2, <2>3
<1> HIDE DEF Part
<1>6. s \in Seq(Seq(Nat)) /\ Len(s) = n /\ \A k \in 1 .. n : s[k] = Part(k)
  <2>1. s \in [1 .. n -> Seq(Nat)]
    BY <1>0, <1>5
  <2> QED
    BY <1>0, <2>1
<1>7. \A k \in 1 .. n : F[k] \in Seq(Nat) /\ F[k] = F[k - 1] \o s[k]
  <2> TAKE k \in 1 .. n
  <2>1. k \in 0 .. n /\ k - 1 \in 0 .. n
    BY <1>0
  <2>2. F[k] = UpTo(0, Reach(k)) /\ F[k - 1] = UpTo(0, Reach(k - 1))
    BY <2>1
  <2>3. Reach(k) \in Nat
    BY <1>0, <1>4, <2>1
  <2>4. UpTo(0, Reach(k)) \in Seq(Nat)
    BY <2>3, StretchIsSequence
  <2> HIDE DEF F, s
  <2> QED
    BY <1>5, <1>6, <2>2, <2>4
<1>8. F[0] = <<>> /\ F[n] = UpTo(0, n)
  <2>1. \A f \in FanOuts(p) : ~Covers(p, f, 0) /\ ~Covers(p, f, n)
    BY <1>0, <1>1 DEF Covers
  <2>2. Reach(0) = 0 /\ Reach(n) = n
    BY <1>0, <1>3, <2>1
  <2> QED
    BY <1>0, <2>2, ShortStretches
<1> HIDE DEF F, s
<1>9. FlattenSeq(s) = F[n]
  BY <1>6, <1>7, <1>8, FlattenIs
<1>10. FlattenSeq(s) = Schedule(p)
  BY DEF Schedule, s, Part
<1> QED
  BY <1>8, <1>9, <1>10 DEF n

(***************************************************************************)
(* Slots.                                                                  *)
(***************************************************************************)
PointsBack(s, n) ==
  \A j \in 1 .. n : s[j].kind = "Alias" => s[j].node \in 1 .. j - 1

(* slot_value follows one alias at a time, to the end.                     *)
LEMMA ResolveStep ==
  ASSUME NEW n \in Nat, NEW s, DOMAIN s = 1 .. n, PointsBack(s, n), NEW i \in 1 .. n
  PROVE  Resolve(s, i) = IF s[i].kind = "Alias" THEN Resolve(s, s[i].node) ELSE i
<1> DEFINE P == {j \in 1 .. n : s[j].kind = "Alias"}
           next == [j \in 1 .. n |-> s[j].node]
           Ends(g) == g = [j \in DOMAIN s |-> IF s[j].kind = "Alias" THEN g[s[j].node] ELSE j]
           end == CHOOSE g : Ends(g)
<1>1. \A j \in 1 .. n : j \in P => next[j] \in 1 .. (j - 1)
  BY DEF PointsBack
<1>2. \E g : EndsOfChains(g, n, P, next)
  <2> HIDE DEF P, next
  <2> QED
    BY <1>1, ChainsEnd
<1>3. PICK h : EndsOfChains(h, n, P, next)
  BY <1>2
<1>4. h = [j \in 1 .. n |-> IF j \in P THEN h[next[j]] ELSE j]
  BY <1>3 DEF EndsOfChains
<1>5. Ends(h)
  <2>1. h = [j \in 1 .. n |-> h[j]]
    BY <1>4
  <2>2. \A j \in 1 .. n : h[j] = IF s[j].kind = "Alias" THEN h[s[j].node] ELSE j
    BY <1>4
  <2> QED
    BY <2>1, <2>2
<1>6. Ends(end)
  <2> HIDE DEF Ends
  <2> QED
    BY <1>5
<1>7. \A j \in 1 .. n : Resolve(s, j) = end[j]
  BY DEF Resolve
<1>8. \A j \in 1 .. n : end[j] = IF s[j].kind = "Alias" THEN end[s[j].node] ELSE j
  <2> HIDE DEF end
  <2> QED
    BY <1>6
<1> HIDE DEF end
<1>9. s[i].kind = "Alias" => s[i].node \in 1 .. n
  BY DEF PointsBack
<1> QED
  BY <1>7, <1>8, <1>9

(* A value has the form its type asks for.                                 *)
Conforms(value, type) ==
  /\ value.tag = "tuple" <=> type.tag = "tuple"
  /\ type.tag = "tuple" => Len(value.elems) = Len(type.elems)

(* What the slot of node i may hold.  An alias stands for a parameter, or  *)
(* for what its node borrows.                                              *)
SlotFits(p, i, slot) ==
  \/ slot = Empty
  \/ /\ slot.kind = "Borrowed"
     /\ IsParameter(p, i)
     /\ slot.parameter = p.nodes[i].count
  \/ /\ slot.kind = "Alias"
     /\ ~IsParameter(p, i) /\ KindOf(p, i) \in HandoverKind
     /\ slot.node \in 1 .. i - 1
     /\ TypeOf(p, i) = TypeOf(p, slot.node)
     /\ IsParameter(p, slot.node) \/ (Borrows(p, i) /\ slot.node = Handed(p, i))
  \/ /\ slot.kind = "Owned"
     /\ ~IsParameter(p, i)
     /\ Conforms(slot.value, TypeOf(p, i))

(* Every slot fits its node.                                               *)
AllFit(p, s) ==
  /\ s = [i \in Indices(p) |-> s[i]]
  /\ \A i \in Indices(p) : SlotFits(p, i, s[i])

(* Before node c runs, but for the values it has moved already.            *)
Holds(p, s, c, moved) ==
  /\ AllFit(p, s)
  /\ \A i \in Indices(p) : s[i] # Empty <=> i < c /\ ~Gone(p, i, c) /\ i \notin moved

(* The nodes whose values node c takes.                                    *)
TakenBy(p, c) == {i \in Indices(p) : Takes(p, c, i)}

(* Slots that fit point back.                                              *)
LEMMA FittingPointsBack ==
  ASSUME NEW p, IsProgram(p), NEW s, AllFit(p, s)
  PROVE  /\ Indices(p) = 1 .. Len(p.nodes) /\ Len(p.nodes) \in Nat
         /\ DOMAIN s = 1 .. Len(p.nodes)
         /\ PointsBack(s, Len(p.nodes))
<1>1. Indices(p) = 1 .. Len(p.nodes) /\ Len(p.nodes) \in Nat
  BY NumberedFromOne
<1>2. DOMAIN s = 1 .. Len(p.nodes)
  BY <1>1 DEF AllFit
<1>3. ASSUME NEW j \in 1 .. Len(p.nodes), s[j].kind = "Alias"
      PROVE  s[j].node \in 1 .. j - 1
  <2>1. SlotFits(p, j, s[j])
    BY <1>1 DEF AllFit
  <2>2. s[j] # Empty /\ s[j].kind # "Borrowed" /\ s[j].kind # "Owned"
    BY <1>3 DEF Empty
  <2> QED
    BY <2>1, <2>2 DEF SlotFits
<1> QED
  BY <1>1, <1>2, <1>3 DEF PointsBack

(* Taking values out leaves the rest in place.                             *)
LEMMA TakingKeeps ==
  ASSUME NEW p, NEW s, NEW c, NEW moved, NEW more, Holds(p, s, c, moved)
  PROVE  Holds(p, Without(s, more), c, moved \union more)
<1> DEFINE w == Without(s, more)
<1>1. DOMAIN s = Indices(p)
  BY DEF Holds, AllFit
<1>2. w = [i \in Indices(p) |-> IF i \in more THEN Empty ELSE s[i]]
  BY <1>1 DEF Without
<1>3. w = [i \in Indices(p) |-> w[i]]
  BY <1>2
<1>4. \A i \in Indices(p) : w[i] = IF i \in more THEN Empty ELSE s[i]
  BY <1>2
<1> HIDE DEF w
<1>5. \A i \in Indices(p) : SlotFits(p, i, w[i])
  BY <1>4 DEF Holds, AllFit, SlotFits
<1>6. \A i \in Indices(p) : w[i] # Empty <=> i < c /\ ~Gone(p, i, c) /\ i \notin moved \union more
  BY <1>4 DEF Holds
<1> QED
  BY <1>3, <1>5, <1>6 DEF Holds, AllFit, w

(* Taking one, or none.                                                    *)
LEMMA TakingOne ==
  ASSUME NEW p, NEW s, AllFit(p, s), NEW t \in Indices(p)
  PROVE  [s EXCEPT ![t] = Empty] = Without(s, {t}) /\ s = Without(s, {})
<1>1. DOMAIN s = Indices(p) /\ s = [i \in Indices(p) |-> s[i]]
  BY DEF AllFit
<1> QED
  BY <1>1 DEF Without

(* A node that has run has filled its slot, moved what it takes and        *)
(* released what it is the sink of: the next one finds its values.         *)
LEMMA NodeRuns ==
  ASSUME NEW p, IsProgram(p), Verified(p), AsLowered(p), NEW c \in Indices(p), NEW s, NEW slot,
         Holds(p, s, c, TakenBy(p, c)), SlotFits(p, c, slot), slot # Empty
  PROVE  Holds(p, Without([s EXCEPT ![c] = slot], {o \in Indices(p) : p.releases[o] = AtNode(c)}),
               c + 1, {})
<1> DEFINE released == {o \in Indices(p) : p.releases[o] = AtNode(c)}
           w == Without([s EXCEPT ![c] = slot], released)
<1>0. Indices(p) = 1 .. Len(p.nodes) /\ Len(p.nodes) \in Nat
  BY NumberedFromOne
<1>1. DOMAIN s = Indices(p) /\ \A i \in Indices(p) : SlotFits(p, i, s[i])
  BY DEF Holds, AllFit
<1>2. w = [i \in Indices(p) |-> IF i \in released THEN Empty ELSE IF i = c THEN slot ELSE s[i]]
  BY <1>1 DEF Without
<1>3. w = [i \in Indices(p) |-> w[i]]
  BY <1>2
<1>4. \A i \in Indices(p) : w[i] = IF i \in released THEN Empty ELSE IF i = c THEN slot ELSE s[i]
  BY <1>2
<1>5. \A i \in Indices(p) : i \in released => i < c
  BY ReleaserReads
<1>6. \A i \in Indices(p) : Takes(p, c, i) => i < c
  BY TakerIsOwner
<1> HIDE DEF w
<1>7. \A i \in Indices(p) : SlotFits(p, i, w[i])
  BY <1>1, <1>4 DEF SlotFits
<1>8. ASSUME NEW i \in Indices(p)
      PROVE  Gone(p, i, c + 1) <=> Gone(p, i, c) \/ Takes(p, c, i) \/ i \in released
  <2>1. 1 .. (c + 1) - 1 = (1 .. c - 1) \union {c}
    BY <1>0
  <2> QED
    BY <2>1 DEF Gone
<1>9. ~Gone(p, c, c)
  <2>1. SUFFICES ASSUME NEW j \in 1 .. c - 1, j \in Indices(p),
                        Takes(p, j, c) \/ p.releases[c] = AtNode(j)
                 PROVE  FALSE
    BY DEF Gone
  <2>2. c < j
    BY <2>1, TakerIsOwner, ReleaserReads
  <2> QED
    BY <1>0, <2>2
<1>10. ASSUME NEW i \in Indices(p)
       PROVE  w[i] # Empty <=> i < c + 1 /\ ~Gone(p, i, c + 1) /\ i \notin {}
  <2>1. CASE i = c
    <3>1. i \notin released /\ ~Takes(p, c, i)
      BY <1>0, <1>5, <1>6, <2>1
    <3>2. ~Gone(p, i, c + 1)
      BY <1>8, <1>9, <2>1, <3>1
    <3>3. w[i] = slot /\ i < c + 1
      BY <1>0, <1>4, <2>1, <3>1
    <3> QED
      BY <3>2, <3>3
  <2>2. CASE i # c
    <3>1. s[i] # Empty <=> i < c /\ ~Gone(p, i, c) /\ ~Takes(p, c, i)
      BY DEF Holds, TakenBy
    <3>2. w[i] # Empty <=> i \notin released /\ s[i] # Empty
      BY <1>4, <2>2
    <3>3. i < c <=> i < c + 1
      BY <1>0, <2>2
    <3> QED
      BY <1>8, <3>1, <3>2, <3>3
  <2> QED
    BY <2>1, <2>2
<1> QED
  BY <1>3, <1>7, <1>10 DEF Holds, AllFit, w

(* What a node moves, by its kind.                                         *)
LEMMA WhatIsTaken ==
  ASSUME NEW p, IsProgram(p), Verified(p), NEW c \in Indices(p)
  PROVE  /\ KindOf(p, c) \in {"Constant", "ParameterBorrow", "Format", "SelectedApply"} =>
              TakenBy(p, c) = {}
         /\ KindOf(p, c) = "FanOut" =>
              TakenBy(p, c) = {Branches(p, c)[b].root : b \in DOMAIN Branches(p, c)}
         /\ KindOf(p, c) = "TupleConstruct" =>
              TakenBy(p, c) = {i \in Indices(p) : \E k \in DOMAIN EdgesOf(p, c) :
                                 /\ EdgesOf(p, c)[k].producer = i
                                 /\ EdgesOf(p, c)[k].ownership = "InfallibleTransfer"}
<1>0. NodeShape(p, c)
  BY DEF Verified
<1>1. KindOf(p, c) # "FanOut" => \A i : c \notin FanOutsRootedAt(p, i)
  BY DEF FanOutsRootedAt, FanOuts
<1>2. ASSUME KindOf(p, c) \in {"Constant", "ParameterBorrow", "Format", "SelectedApply", "FanOut"},
             NEW k \in DOMAIN EdgesOf(p, c)
      PROVE  EdgesOf(p, c)[k].ownership # "InfallibleTransfer"
  <2> DEFINE e == EdgesOf(p, c)[k]
  <2>1. SemanticOwnership(p, c, e)
    BY EdgeIsVerified
  <2>2. CASE KindOf(p, c) \in {"Constant", "ParameterBorrow"}
    <3>1. EdgesOf(p, c) = <<>>
      BY <1>0, <2>2 DEF NodeShape
    <3> QED
      BY <3>1
  <2>3. CASE KindOf(p, c) = "Format"
    BY <1>0, <2>3 DEF NodeShape
  <2> HIDE DEF e
  <2>4. CASE KindOf(p, c) \in {"SelectedApply", "FanOut"}
    <3>1. \/ FromBinding(KindOf(p, c), e) \/ FromConnectedBinding(KindOf(p, c), e)
          \/ FromSpread(KindOf(p, c), e) \/ FromOther(p, c, KindOf(p, c), e)
      BY <2>1 DEF SemanticOwnership
    <3>2. e.ownership # "InfallibleTransfer"
      BY <2>4, <3>1 DEF FromBinding, FromConnectedBinding, FromSpread, FromOther, InputUnlessParameter
    <3> QED
      BY <3>2 DEF e
  <2> QED
    BY <1>2, <2>2, <2>3, <2>4
<1>3. KindOf(p, c) \in {"Constant", "ParameterBorrow", "Format", "SelectedApply"} => TakenBy(p, c) = {}
  BY <1>1, <1>2 DEF TakenBy, Takes
<1>4. ASSUME KindOf(p, c) = "FanOut"
      PROVE  TakenBy(p, c) = {Branches(p, c)[b].root : b \in DOMAIN Branches(p, c)}
  <2>1. c \in FanOuts(p)
    BY <1>4 DEF FanOuts
  <2>2. \A i \in Indices(p) : Takes(p, c, i) <=> \E b \in DOMAIN Branches(p, c) : Branches(p, c)[b].root = i
    BY <1>2, <1>4, <2>1 DEF Takes, FanOutsRootedAt
  <2>3. \A b \in DOMAIN Branches(p, c) : Branches(p, c)[b].root \in Indices(p)
    BY <2>1, RootedIsApplication
  <2> QED
    BY <2>2, <2>3 DEF TakenBy
<1>5. KindOf(p, c) = "TupleConstruct" =>
        TakenBy(p, c) = {i \in Indices(p) : \E k \in DOMAIN EdgesOf(p, c) :
                           /\ EdgesOf(p, c)[k].producer = i
                           /\ EdgesOf(p, c)[k].ownership = "InfallibleTransfer"}
  BY <1>1 DEF TakenBy, Takes
<1> QED
  BY <1>3, <1>4, <1>5

(* A table over 1 .. m is a sequence of m.                                 *)
LEMMA TableIsSequence ==
  ASSUME NEW m \in Nat, NEW E, E = [b \in 1 .. m |-> E[b]]
  PROVE  Len(E) = m /\ IsSequence(E)
<1>1. E \in [1 .. m -> {E[b] : b \in 1 .. m}]
  OBVIOUS
<1>2. E \in Seq({E[b] : b \in 1 .. m}) /\ DOMAIN E = 1 .. m
  BY <1>1
<1> QED
  BY <1>2 DEF IsSequence

(* One more member makes a sequence longer by one.                         *)
LEMMA AppendIsSequence ==
  ASSUME NEW s, IsSequence(s), NEW x
  PROVE  /\ IsSequence(Append(s, x)) /\ Len(s) \in Nat /\ Len(Append(s, x)) = Len(s) + 1
<1> DEFINE S == {s[k] : k \in DOMAIN s} \union {x}
           a == Append(s, x)
<1>1. s \in Seq(S) /\ x \in S /\ Len(s) \in Nat
  BY DEF IsSequence
<1> HIDE DEF S
<1>2. a \in Seq(S) /\ Len(a) = Len(s) + 1
  BY <1>1
<1> HIDE DEF a
<1>3. a \in [1 .. Len(a) -> S] /\ Len(a) \in Nat
  BY <1>2
<1>4. IsSequence(a)
  <2>1. a = [k \in 1 .. Len(a) |-> a[k]]
    BY <1>3
  <2> QED
    BY <1>3, <2>1, TableIsSequence
<1> QED
  BY <1>1, <1>2, <1>4 DEF a

(***************************************************************************)
(* What a node finds in the slots.                                         *)
(***************************************************************************)
(* The verified programs.                                                  *)
Given == program \in Programs /\ AsLowered(program)

(* What the configuration gives is a verified program.                     *)
LEMMA GivenIsVerified ==
  ASSUME Given
  PROVE  /\ IsProgram(program) /\ Verified(program) /\ IsRunnable(program) /\ AsLowered(program)
         /\ Indices(program) = 1 .. Len(program.nodes) /\ Len(program.nodes) \in Nat
         /\ \A i \in Indices(program) : NodeShape(program, i)
<1>1. IsProgram(program) /\ Verified(program) /\ IsRunnable(program) /\ AsLowered(program)
  BY ProgramsAssumption DEF Given
<1>2. Indices(program) = 1 .. Len(program.nodes) /\ Len(program.nodes) \in Nat
  BY <1>1, NumberedFromOne
<1>3. \A i \in Indices(program) : NodeShape(program, i)
  BY <1>1 DEF Verified
<1> QED
  BY <1>1, <1>2, <1>3

(* Every alias leads to a slot that is filled.                             *)
Grounded(s) ==
  \A i \in Indices(program) : s[i].kind = "Alias" => s[s[i].node] # Empty

(* An argument has the form of its parameter.                              *)
LEMMA ArgumentConforms ==
  ASSUME Given, NEW i \in Indices(program), IsParameter(program, i)
  PROVE  Conforms(program.arguments[Node(i).count], TypeOf(program, i))
<1>1. KindOf(program, i) = "ParameterBorrow"
  BY DEF IsParameter
<1>2. /\ TypeOf(program, i).tag = program.arguments[program.nodes[i].count].tag
      /\ TypeOf(program, i).tag # "tuple"
  BY <1>1, GivenIsVerified DEF IsRunnable
<1> QED
  BY <1>2 DEF Conforms, Node

(* A parameter's slot, once filled, is a loan of its argument.             *)
LEMMA ParameterIsBorrowed ==
  ASSUME Given, NEW s, AllFit(program, s), NEW i \in Indices(program), IsParameter(program, i),
         s[i] # Empty
  PROVE  /\ s[i].kind = "Borrowed" /\ Resolve(s, i) = i /\ HasValue(s, i)
         /\ SlotValue(s, i) = program.arguments[Node(i).count]
         /\ ValueIn(s[i]) = program.arguments[Node(i).count]
<1>1. s[i].kind = "Borrowed" /\ s[i].parameter = program.nodes[i].count
  BY DEF AllFit, SlotFits
<1>2. Resolve(s, i) = i
  <2>1. IsProgram(program)
    BY GivenIsVerified
  <2>2. /\ Indices(program) = 1 .. Len(program.nodes) /\ Len(program.nodes) \in Nat
        /\ DOMAIN s = 1 .. Len(program.nodes) /\ PointsBack(s, Len(program.nodes))
    BY <2>1, FittingPointsBack
  <2>3. Resolve(s, i) = IF s[i].kind = "Alias" THEN Resolve(s, s[i].node) ELSE i
    BY <2>2, ResolveStep
  <2> QED
    BY <1>1, <2>3
<1> QED
  BY <1>1, <1>2 DEF HasValue, SlotValue, ValueIn, Node

(* Behind every filled slot there is a value of its node's form.           *)
LEMMA ValueIsThere ==
  ASSUME Given, NEW s, AllFit(program, s), Grounded(s),
         NEW i \in Indices(program), s[i] # Empty
  PROVE  HasValue(s, i) /\ Conforms(SlotValue(s, i), TypeOf(program, i))
<1> DEFINE n == Len(program.nodes)
           Bad == {j \in Indices(program) :
                     s[j] # Empty /\ ~(HasValue(s, j) /\ Conforms(SlotValue(s, j), TypeOf(program, j)))}
<1>1. /\ Indices(program) = 1 .. n /\ n \in Nat /\ DOMAIN s = 1 .. n /\ PointsBack(s, n)
  BY GivenIsVerified, FittingPointsBack
<1>2. SUFFICES ASSUME Bad # {} PROVE FALSE
  OBVIOUS
<1>3. PICK j \in Bad : \A k \in Bad : j <= k
  <2>1. Bad \in SUBSET Nat
    BY <1>1
  <2> HIDE DEF Bad
  <2> QED
    BY <1>2, <2>1, LeastNumber
<1>4. j \in 1 .. n /\ j \in Indices(program) /\ s[j] # Empty /\ SlotFits(program, j, s[j])
  BY <1>1, <1>3 DEF AllFit
<1>5. Resolve(s, j) = IF s[j].kind = "Alias" THEN Resolve(s, s[j].node) ELSE j
  <2> HIDE DEF n
  <2> QED
    BY <1>1, <1>4, ResolveStep
<1>6. CASE s[j].kind = "Alias"
  <2>1. s[j].node \in 1 .. j - 1 /\ TypeOf(program, j) = TypeOf(program, s[j].node)
    BY <1>4, <1>6 DEF SlotFits
  <2>2. s[j].node \in Indices(program) /\ s[s[j].node] # Empty /\ ~(j <= s[j].node)
    BY <1>1, <1>4, <1>6, <2>1 DEF Grounded
  <2>3. HasValue(s, s[j].node) /\ Conforms(SlotValue(s, s[j].node), TypeOf(program, s[j].node))
    BY <1>3, <2>2
  <2>4. HasValue(s, j) /\ SlotValue(s, j) = SlotValue(s, s[j].node)
    BY <1>5, <1>6, <2>3 DEF HasValue, SlotValue
  <2> QED
    BY <1>3, <2>1, <2>3, <2>4
<1>7. CASE IsParameter(program, j)
  <2>1. HasValue(s, j) /\ SlotValue(s, j) = program.arguments[Node(j).count]
    BY <1>4, <1>7, ParameterIsBorrowed
  <2>2. Conforms(program.arguments[Node(j).count], TypeOf(program, j))
    BY <1>4, <1>7, ArgumentConforms
  <2> QED
    BY <1>3, <2>1, <2>2
<1>8. CASE s[j].kind = "Owned"
  <2>1. Conforms(s[j].value, TypeOf(program, j))
    BY <1>4, <1>8 DEF SlotFits
  <2>2. HasValue(s, j) /\ SlotValue(s, j) = s[j].value
    BY <1>5, <1>8 DEF HasValue, SlotValue, ValueIn
  <2> QED
    BY <1>3, <2>1, <2>2
<1> QED
  BY <1>4, <1>6, <1>7, <1>8 DEF SlotFits

(* Before a node runs no alias dangles.                                    *)
LEMMA AliasesStand ==
  ASSUME Given, NEW s, NEW c \in Nat, Holds(program, s, c, {})
  PROVE  Grounded(s)
<1>0. /\ IsProgram(program) /\ Verified(program) /\ AsLowered(program)
      /\ Indices(program) = 1 .. Len(program.nodes) /\ Len(program.nodes) \in Nat
  BY GivenIsVerified
<1>1. SUFFICES ASSUME NEW i \in Indices(program), s[i].kind = "Alias"
               PROVE  s[s[i].node] # Empty
  BY DEF Grounded
<1>2. SlotFits(program, i, s[i]) /\ s[i] # Empty
  BY <1>1 DEF Holds, AllFit, Empty
<1>3. /\ s[i].node \in 1 .. i - 1
      /\ IsParameter(program, s[i].node) \/ (Borrows(program, i) /\ s[i].node = Handed(program, i))
  BY <1>1, <1>2 DEF SlotFits
<1>4. i < c /\ ~Gone(program, i, c)
  BY <1>2 DEF Holds
<1>5. s[i].node \in Indices(program) /\ s[i].node < c
  BY <1>0, <1>3, <1>4
<1>6. ~Gone(program, s[i].node, c)
  <2>1. CASE IsParameter(program, s[i].node)
    BY <1>0, <1>5, <2>1, RootStays
  <2>2. CASE Borrows(program, i) /\ s[i].node = Handed(program, i)
    BY <1>0, <1>4, <2>2, BorrowerGoesFirst
  <2> QED
    BY <1>3, <2>1, <2>2
<1> QED
  BY <1>5, <1>6 DEF Holds

(* An edge finds its producer's slot filled.                               *)
LEMMA ProducerIsFilled ==
  ASSUME Given, NEW c \in Indices(program), NEW s, NEW moved, Holds(program, s, c, moved),
         NEW k \in DOMAIN EdgesOf(program, c), EdgesOf(program, c)[k].producer \notin moved
  PROVE  LET i == EdgesOf(program, c)[k].producer
         IN i \in Indices(program) /\ i < c /\ s[i] # Empty
<1> DEFINE i == EdgesOf(program, c)[k].producer
<1>0. /\ IsProgram(program) /\ Verified(program) /\ AsLowered(program)
      /\ Indices(program) = 1 .. Len(program.nodes) /\ Len(program.nodes) \in Nat
  BY GivenIsVerified
<1>1. i \in 1 .. c - 1 /\ i \in Indices(program) /\ c \in Consumers(program, i)
  BY <1>0, EdgeIsVerified
<1> HIDE DEF i
<1>2. i < c /\ ~Gone(program, i, c)
  BY <1>0, <1>1, ConsumerFindsValue
<1>3. i \notin moved
  BY DEF i
<1>4. s[i] # Empty
  BY <1>1, <1>2, <1>3 DEF Holds
<1> QED
  BY <1>1, <1>2, <1>4 DEF i

(* Every edge of the node that runs can be read.                           *)
LEMMA EdgeIsReadable ==
  ASSUME Given, NEW c \in Indices(program), Holds(program, slots, c, {}),
         NEW k \in DOMAIN EdgesOf(program, c)
  PROVE  Readable(EdgesOf(program, c)[k])
<1> DEFINE e == EdgesOf(program, c)[k]
           value == SlotValue(slots, e.producer)
           type == TypeOf(program, e.producer)
<1>0. IsProgram(program) /\ Verified(program) /\ c \in Nat
  BY GivenIsVerified
<1>1. ElementInRange(program, e)
  BY <1>0, EdgeIsVerified
<1>2. e.producer \in Indices(program) /\ slots[e.producer] # Empty
  BY ProducerIsFilled
<1>3. HasValue(slots, e.producer) /\ Conforms(value, type)
  <2>1. Grounded(slots) /\ AllFit(program, slots)
    BY <1>0, AliasesStand DEF Holds
  <2> HIDE DEF e
  <2> QED
    BY <1>2, <2>1, ValueIsThere
<1>4. /\ TakesElement(value, e) => value.tag = "tuple" /\ e.element < Len(value.elems)
      /\ ~TakesElement(value, e) /\ e.access = "ConnectedBindingElement" => e.element = 0
  <2> HIDE DEF e, value
  <2> QED
    BY <1>1, <1>3 DEF Conforms, ElementInRange, TakesElement
<1>5. Readable(e)
  <2> HIDE DEF e
  <2> QED
    BY <1>3, <1>4 DEF Readable
<1> QED
  BY <1>5

(* All edges of the node that runs.                                        *)
LEMMA EdgesAreReadable ==
  ASSUME Given, NEW c \in Indices(program), Holds(program, slots, c, {})
  PROVE  AllReadable(Node(c).edges)
<1>1. \A k \in DOMAIN EdgesOf(program, c) : Readable(EdgesOf(program, c)[k])
  BY EdgeIsReadable
<1> QED
  BY <1>1 DEF AllReadable, Node, EdgesOf

(* What a handover takes.                                                  *)
LEMMA HandoverTakes ==
  ASSUME Given, NEW c \in Indices(program), KindOf(program, c) \in HandoverKind
  PROVE  TakenBy(program, c) =
           IF EdgesOf(program, c)[1].ownership = "InfallibleTransfer"
           THEN {EdgesOf(program, c)[1].producer} ELSE {}
<1>0. IsProgram(program) /\ Verified(program) /\ AsLowered(program)
  BY GivenIsVerified
<1>1. /\ Len(EdgesOf(program, c)) = 1 /\ EdgesOf(program, c)[1].producer \in Indices(program)
  BY <1>0, HandoverMovesOrBorrows
<1>2. DOMAIN EdgesOf(program, c) = {1}
  <2>1. EdgesOf(program, c) \in Seq(EdgeRecords)
    BY <1>0, NumberedFromOne
  <2>2. DOMAIN EdgesOf(program, c) = 1 .. 1
    BY <1>1, <2>1
  <2> QED
    BY <2>2
<1>3. \A i : c \notin FanOutsRootedAt(program, i)
  BY DEF FanOutsRootedAt, FanOuts, HandoverKind
<1> QED
  BY <1>1, <1>2, <1>3 DEF TakenBy, Takes

(* What a node moves on fits the node that takes it over.                  *)
LEMMA MovedFits ==
  ASSUME Given, NEW c \in Indices(program), KindOf(program, c) \in HandoverKind,
         NEW i \in Indices(program), Takes(program, c, i), TypeOf(program, c) = TypeOf(program, i),
         NEW slot, SlotFits(program, i, slot), slot # Empty
  PROVE  SlotFits(program, c, slot)
<1>0. IsProgram(program) /\ Verified(program) /\ AsLowered(program)
      /\ Indices(program) = 1 .. Len(program.nodes) /\ Len(program.nodes) \in Nat
  BY GivenIsVerified
<1>1. ~IsParameter(program, i) /\ i < c
  BY <1>0, TakerIsOwner
<1>2. ~IsParameter(program, c)
  BY DEF IsParameter, HandoverKind
<1>3. KindOf(program, i) \notin BorrowingKind
  BY <1>0, BorrowIsNotMoved
<1>4. CASE slot.kind = "Alias"
  <2>1. /\ slot.node \in 1 .. i - 1 /\ TypeOf(program, i) = TypeOf(program, slot.node)
        /\ IsParameter(program, slot.node)
    BY <1>3, <1>4 DEF SlotFits, Borrows
  <2>2. slot.node \in 1 .. c - 1
    BY <1>0, <1>1, <2>1
  <2> QED
    BY <1>2, <1>4, <2>1, <2>2 DEF SlotFits
<1>5. CASE slot.kind = "Owned"
  <2>1. Conforms(slot.value, TypeOf(program, i))
    BY <1>5 DEF SlotFits
  <2> QED
    BY <1>2, <1>5, <2>1 DEF SlotFits
<1> QED
  BY <1>1, <1>4, <1>5 DEF SlotFits

(***************************************************************************)
(* The invariant.                                                          *)
(***************************************************************************)
NodeCount == Len(program.nodes)

(* The node that runs next.                                                *)
At == NodeCount + 1 - Len(agenda)

(* How many children or outputs have been taken: a copy in progress is of  *)
(* the last one taken.                                                     *)
TakenCount == Len(gathered) + (IF copy = NoCopy THEN 0 ELSE 1)

(* The nodes whose values the first m children of the tuple have moved.    *)
ChildrenTaken(m) ==
  {i \in Indices(program) : \E k \in 1 .. m :
     /\ EdgesOf(program, At)[k].producer = i
     /\ EdgesOf(program, At)[k].ownership = "InfallibleTransfer"}

(* A copy is of a child of a tuple, or of an output.                       *)
CopyInPlace ==
  \/ copy = NoCopy
  \/ /\ "kind" \in DOMAIN copy /\ copy.kind = "Copy"
     /\ stage \in {"Tuple", "Outputs"}

(* Before the first node nothing has been put anywhere.                    *)
Fresh ==
  stage \in {"Begin", "Arguments"} =>
    slots = [i \in Indices(program) |-> Empty] /\ gathered = <<>> /\ copy = NoCopy

(* What is left to run is the last nodes, in their order.                  *)
RunsInOrder ==
  stage \in {"Nodes", "Tuple"} =>
    Len(agenda) \in 0 .. NodeCount /\ agenda = UpTo(NodeCount - Len(agenda), NodeCount)

(* Between two nodes nothing but slots holds a value.                      *)
NodesInPlace ==
  stage = "Nodes" => Holds(program, slots, At, {}) /\ gathered = <<>> /\ copy = NoCopy

(* In a tuple, what its children so far have moved is gone.                *)
TupleInPlace ==
  stage = "Tuple" =>
    /\ agenda # <<>> /\ KindOf(program, At) = "TupleConstruct"
    /\ IsSequence(gathered) /\ TakenCount <= Len(EdgesOf(program, At))
    /\ Holds(program, slots, At, ChildrenTaken(TakenCount))

(* Among the outputs, every root yet to be taken is there.                 *)
OutputsInPlace ==
  stage = "Outputs" =>
    /\ IsSequence(gathered) /\ TakenCount <= Len(program.roots)
    /\ AllFit(program, slots)
    /\ \A i \in Indices(program) : IsParameter(program, i) => slots[i] # Empty
    /\ \A k \in DOMAIN program.roots : k > TakenCount => slots[program.roots[k]] # Empty

(* The inductive invariant.                                                *)
IInv ==
  /\ Given /\ NoInvariantFailure
  /\ CopyInPlace /\ Fresh /\ RunsInOrder
  /\ NodesInPlace /\ TupleInPlace /\ OutputsInPlace

(* The agenda begins with the node that runs next.                         *)
LEMMA AgendaHead ==
  ASSUME Given, RunsInOrder, stage \in {"Nodes", "Tuple"}, agenda # <<>>
  PROVE  /\ At \in Indices(program) /\ At \in Nat /\ Current = At
         /\ Len(Tail(agenda)) \in 0 .. NodeCount
         /\ Tail(agenda) = UpTo(NodeCount - Len(Tail(agenda)), NodeCount)
         /\ NodeCount + 1 - Len(Tail(agenda)) = At + 1
<1> DEFINE n == NodeCount
           m == Len(agenda)
           t == Tail(agenda)
<1>1. n \in Nat /\ Indices(program) = 1 .. n
  BY GivenIsVerified DEF NodeCount
<1>2. m \in 0 .. n /\ agenda = UpTo(n - m, n) /\ n - m \in Nat /\ n - m <= n
  BY <1>1 DEF RunsInOrder
<1>3. agenda \in Seq(Nat)
  BY <1>1, <1>2, StretchIsSequence
<1>4. m # 0
  BY <1>3
<1>5. \A k \in 1 .. m : agenda[k] = n - m + k
  <2> HIDE DEF m, n
  <2>1. \A k \in 1 .. m : UpTo(n - m, n)[k] = n - m + k
    BY <1>1, <1>2 DEF UpTo
  <2> QED
    BY <1>2, <2>1
<1>6. Current = At /\ At \in 1 .. n
  <2>1. Head(agenda) = agenda[1]
    BY <1>3, <1>4
  <2>2. agenda[1] = n - m + 1 /\ n - m + 1 = n + 1 - m /\ n + 1 - m \in 1 .. n
    BY <1>1, <1>2, <1>4, <1>5
  <2> QED
    BY <2>1, <2>2 DEF Current, At
<1>7. t \in Seq(Nat) /\ Len(t) = m - 1 /\ \A k \in 1 .. m - 1 : t[k] = agenda[k + 1]
  BY <1>3, <1>4
<1> HIDE DEF t, m, n
<1>8. m - 1 \in 0 .. n /\ n - (m - 1) \in Nat /\ n - (m - 1) <= n
  BY <1>1, <1>2, <1>4
<1>9. t = UpTo(n - (m - 1), n)
  <2> DEFINE u == UpTo(n - (m - 1), n)
  <2>0. n - (n - (m - 1)) = m - 1
    BY <1>1, <1>2
  <2>1. u \in Seq(Nat) /\ Len(u) = m - 1
    <3>1. UpTo(n - (m - 1), n) \in Seq(Nat) /\ Len(UpTo(n - (m - 1), n)) = n - (n - (m - 1))
      BY <1>1, <1>8, StretchIsSequence
    <3> QED
      BY <2>0, <3>1
  <2>2. \A k \in 1 .. m - 1 : u[k] = n - (m - 1) + k
    BY <1>1, <1>2, <2>1 DEF UpTo
  <2>3. \A k \in 1 .. m - 1 : t[k] = n - (m - 1) + k
    <3> TAKE k \in 1 .. m - 1
    <3>1. k + 1 \in 1 .. m /\ n - m + (k + 1) = n - (m - 1) + k
      BY <1>1, <1>2
    <3> QED
      BY <1>5, <1>7, <3>1
  <2> HIDE DEF u
  <2>4. Len(t) = Len(u) /\ \A k \in 1 .. Len(t) : t[k] = u[k]
    BY <1>7, <2>1, <2>2, <2>3
  <2>5. t = u
    BY <1>7, <2>1, <2>4, SeqEqual
  <2> QED
    BY <2>5 DEF u
<1>10. n + 1 - (m - 1) = n + 1 - m + 1
  BY <1>1, <1>2
<1> QED
  BY <1>1, <1>6, <1>7, <1>8, <1>9, <1>10 DEF n, m, t, At

(* Before node a runs, with nothing of it taken yet.                       *)
LEMMA NodesHold ==
  ASSUME IInv, stage = "Nodes", agenda # <<>>
  PROVE  /\ Given /\ At \in Indices(program) /\ At \in Nat /\ Current = At
         /\ Holds(program, slots, At, {}) /\ AllFit(program, slots)
         /\ gathered = <<>> /\ copy = NoCopy
BY AgendaHead DEF IInv, NodesInPlace, Holds

(* A failure for another reason than an invariant error.                   *)
LEMMA FailKeeps ==
  ASSUME IInv, copy = NoCopy, NEW reason, reason # "Invariant", NEW u, NEW s, Fail(reason, u, s)
  PROVE  IInv'
<1>1. /\ program' = program /\ error' # "Invariant" /\ copy' = NoCopy /\ stage' = "Cleanup"
  BY DEF Fail
<1>2. NoCopy' = NoCopy
  BY DEF NoCopy
<1> QED
  BY <1>1, <1>2 DEF IInv, Given, NoInvariantFailure, CopyInPlace, Fresh, RunsInOrder, NodesInPlace,
     TupleInPlace, OutputsInPlace

(* The same where something has been collected.                            *)
LEMMA GiveUpKeeps ==
  ASSUME IInv, NEW reason, reason # "Invariant", NEW u, NEW s, GiveUp(reason, u, s)
  PROVE  IInv'
<1>1. /\ program' = program /\ error' # "Invariant" /\ copy' = NoCopy /\ stage' = "Unwind"
  BY DEF GiveUp
<1> QED
  BY <1>1 DEF IInv, Given, NoInvariantFailure, CopyInPlace, Fresh, RunsInOrder, NodesInPlace,
     TupleInPlace, OutputsInPlace

(* After a node has run, the next one is to run.                           *)
LEMMA NodeDone ==
  ASSUME IInv, stage \in {"Nodes", "Tuple"}, agenda # <<>>, copy = NoCopy,
         NEW s, Holds(program, s, At, TakenBy(program, At)),
         NEW slot, SlotFits(program, At, slot), slot # Empty,
         program' = program, agenda' = Tail(agenda), stage' = "Nodes", gathered' = <<>>,
         copy' = copy, error' = error,
         slots' = Without([s EXCEPT ![At] = slot], OwnersReleasedBy(At))
  PROVE  IInv'
<1>0. Given /\ RunsInOrder
  BY DEF IInv
<1>1. /\ At \in Indices(program) /\ Len(Tail(agenda)) \in 0 .. NodeCount
      /\ Tail(agenda) = UpTo(NodeCount - Len(Tail(agenda)), NodeCount)
      /\ NodeCount + 1 - Len(Tail(agenda)) = At + 1
  BY <1>0, AgendaHead
<1>2. Holds(program, slots', At + 1, {})
  <2>1. IsProgram(program) /\ Verified(program) /\ AsLowered(program)
    BY <1>0, GivenIsVerified
  <2>2. OwnersReleasedBy(At) = {o \in Indices(program) : program.releases[o] = AtNode(At)}
    BY DEF OwnersReleasedBy
  <2> QED
    BY <1>1, <2>1, <2>2, NodeRuns
<1>3. NodeCount' = NodeCount /\ At' = At + 1
  BY <1>1 DEF NodeCount, At
<1>4. RunsInOrder'
  BY <1>1, <1>3 DEF RunsInOrder
<1>5. NodesInPlace'
  BY <1>2, <1>3 DEF NodesInPlace
<1> QED
  BY <1>4, <1>5 DEF IInv, Given, NoInvariantFailure, CopyInPlace, Fresh, TupleInPlace, OutputsInPlace

(* A node's slot is empty until it runs.                                   *)
LEMMA DestinationIsEmpty ==
  ASSUME Given, NEW c \in Indices(program), NEW s, NEW moved, Holds(program, s, c, moved)
  PROVE  s[c] = Empty
<1>1. ~(c < c)
  BY GivenIsVerified
<1> QED
  BY <1>1 DEF Holds

(* put_slot and release_after.                                             *)
LEMMA PutKeeps ==
  ASSUME IInv, stage = "Nodes", agenda # <<>>,
         NEW s, Holds(program, s, At, TakenBy(program, At)),
         NEW slot, SlotFits(program, At, slot), slot # Empty,
         NEW u, PutThenRelease(slot, u, s)
  PROVE  IInv'
<1>0. Given /\ At \in Indices(program) /\ Current = At /\ copy = NoCopy
  BY NodesHold
<1>1. s[Current] = Empty
  BY <1>0, DestinationIsEmpty
<1>2. Proceed(ReleaseAfter([s EXCEPT ![Current] = slot], u, Current).usage,
              ReleaseAfter([s EXCEPT ![Current] = slot], u, Current).slots)
  BY <1>1 DEF PutThenRelease
<1>3. /\ program' = program /\ agenda' = Tail(agenda) /\ stage' = "Nodes" /\ gathered' = <<>>
      /\ copy' = copy /\ error' = error
      /\ slots' = Without([s EXCEPT ![At] = slot], OwnersReleasedBy(At))
  BY <1>0, <1>2 DEF Proceed, ReleaseAfter
<1> QED
  BY <1>0, <1>3, NodeDone

(* put_slot alone: what reads nothing releases nothing.                    *)
LEMMA PutOnlyKeeps ==
  ASSUME IInv, stage = "Nodes", agenda # <<>>, KindOf(program, At) \in {"Constant", "ParameterBorrow"},
         NEW slot, SlotFits(program, At, slot), slot # Empty,
         NEW u, PutOnly(slot, u, slots)
  PROVE  IInv'
<1>0. /\ Given /\ At \in Indices(program) /\ Current = At /\ copy = NoCopy
      /\ Holds(program, slots, At, {}) /\ AllFit(program, slots)
  BY NodesHold
<1>1. IsProgram(program) /\ Verified(program) /\ AsLowered(program)
  BY <1>0, GivenIsVerified
<1>2. slots[Current] = Empty
  BY <1>0, DestinationIsEmpty
<1>3. Proceed(u, [slots EXCEPT ![At] = slot])
  BY <1>0, <1>2 DEF PutOnly
<1>4. OwnersReleasedBy(At) = {}
  BY <1>0, <1>1, ReleaserReads DEF OwnersReleasedBy
<1>5. [slots EXCEPT ![At] = slot] = Without([slots EXCEPT ![At] = slot], {})
  BY DEF Without
<1>6. TakenBy(program, At) = {}
  BY <1>0, <1>1, WhatIsTaken
<1>7. /\ program' = program /\ agenda' = Tail(agenda) /\ stage' = "Nodes" /\ gathered' = <<>>
      /\ copy' = copy /\ error' = error
      /\ slots' = Without([slots EXCEPT ![At] = slot], OwnersReleasedBy(At))
  BY <1>3, <1>4, <1>5 DEF Proceed
<1> QED
  BY <1>0, <1>6, <1>7, NodeDone

(***************************************************************************)
(* Every step keeps it.                                                    *)
(***************************************************************************)
(* Nothing has happened at the start.                                      *)
LEMMA InitIsInPlace ==
  ASSUME Init, AsLowered(program)
  PROVE  IInv
<1>1. stage = "Begin" /\ copy = NoCopy /\ error = None /\ gathered = <<>>
      /\ slots = [i \in Indices(program) |-> Empty] /\ program \in Programs
  BY DEF Init
<1>2. None # "Invariant"
  BY ReasonAssumption DEF Reason
<1> QED
  BY <1>1, <1>2 DEF IInv, Given, NoInvariantFailure, CopyInPlace, Fresh, RunsInOrder, NodesInPlace,
     TupleInPlace, OutputsInPlace

(* Begin: the profile and the arguments are looked at.                     *)
LEMMA BeginKeeps ==
  ASSUME IInv, Begin
  PROVE  IInv'
<1>1. /\ program' = program /\ slots' = slots /\ gathered' = gathered /\ copy' = copy
      /\ copy = NoCopy /\ Fresh
      /\ \/ stage' = "Done" /\ error' \in {"Profile", "ArgumentMismatch", "Host"}
         \/ stage' = "Arguments" /\ error' = error
  BY DEF Begin, IInv, Fresh
<1>2. Fresh'
  BY <1>1 DEF Fresh, Begin
<1>3. error' # "Invariant"
  BY <1>1 DEF IInv, NoInvariantFailure
<1> QED
  BY <1>1, <1>2, <1>3 DEF IInv, Given, NoInvariantFailure, CopyInPlace, RunsInOrder, NodesInPlace,
     TupleInPlace, OutputsInPlace

(* AdmitArgument: the ledger is asked for a string argument.               *)
LEMMA AdmitArgumentKeeps ==
  ASSUME IInv, AdmitArgument
  PROVE  IInv'
<1>1. /\ program' = program /\ slots' = slots /\ gathered' = gathered /\ copy' = copy
      /\ copy = NoCopy /\ slots = [i \in Indices(program) |-> Empty] /\ gathered = <<>>
      /\ \/ stage' = "Return" /\ error' = "Resource"
         \/ stage' = "Arguments" /\ error' = error
  BY DEF AdmitArgument, IInv, Fresh
<1>2. Fresh'
  BY <1>1 DEF Fresh
<1>3. error' # "Invariant"
  BY <1>1 DEF IInv, NoInvariantFailure
<1> QED
  BY <1>1, <1>2, <1>3 DEF IInv, Given, NoInvariantFailure, CopyInPlace, RunsInOrder, NodesInPlace,
     TupleInPlace, OutputsInPlace

(* EnterNodes: the agenda is the nodes in their order.                     *)
LEMMA EnterNodesKeeps ==
  ASSUME IInv, EnterNodes
  PROVE  IInv'
<1> DEFINE n == Len(program.nodes)
<1>1. /\ program' = program /\ slots' = slots /\ gathered' = <<>> /\ copy' = NoCopy
      /\ slots = [i \in Indices(program) |-> Empty]
      /\ stage' = "Nodes" /\ error' = error /\ agenda' = Schedule(program)
  BY DEF EnterNodes, IInv, Fresh
<1>2. /\ IsProgram(program) /\ Verified(program) /\ AsLowered(program)
      /\ Indices(program) = 1 .. n /\ n \in Nat
  BY GivenIsVerified DEF IInv
<1>3. agenda' = UpTo(0, n)
  BY <1>1, <1>2, ScheduleIsPostorder
<1>4. Len(agenda') = n /\ n - n = 0 /\ NodeCount' = n
  <2> HIDE DEF n
  <2>1. 0 \in Nat /\ 0 <= n /\ n - 0 = n
    BY <1>2
  <2>2. Len(UpTo(0, n)) = n - 0
    BY <1>2, <2>1, StretchIsSequence
  <2>3. NodeCount' = n
    BY <1>1 DEF NodeCount, n
  <2> QED
    BY <1>2, <1>3, <2>1, <2>2, <2>3
<1>5. RunsInOrder'
  <2> HIDE DEF n
  <2>1. n \in 0 .. n
    BY <1>2
  <2> QED
    BY <1>3, <1>4, <2>1 DEF RunsInOrder
<1>6. At' = 1
  <2>1. n + 1 - n = 1
    BY <1>2
  <2> QED
    BY <1>4, <2>1 DEF At
<1>7. Holds(program, slots, 1, {})
  <2>1. \A i \in Indices(program) : slots[i] = Empty
    BY <1>1
  <2>2. \A i \in Indices(program) : ~(i < 1)
    BY <1>2
  <2> QED
    BY <1>1, <2>1, <2>2 DEF Holds, AllFit, SlotFits
<1>8. NodesInPlace'
  BY <1>1, <1>6, <1>7 DEF NodesInPlace
<1> QED
  BY <1>1, <1>5, <1>8 DEF IInv, Given, NoInvariantFailure, CopyInPlace, Fresh, TupleInPlace, OutputsInPlace

(* ReserveFails: the host refuses a table.                                 *)
LEMMA ReserveFailsKeeps ==
  ASSUME IInv, ReserveFails
  PROVE  IInv'
<1>1. copy = NoCopy /\ Fail("Host", usage, slots)
  BY DEF ReserveFails, IInv, NodesInPlace
<1> QED
  BY <1>1, FailKeeps

(* ExecuteConstant.                                                        *)
LEMMA ExecuteConstantKeeps ==
  ASSUME IInv, ExecuteConstant
  PROVE  IInv'
<1> DEFINE node  == Node(Current)
           value == Plain(node.type.tag, node.count, Label(Current, <<>>))
           d     == ConstantDecision(node)
<1>1. stage = "Nodes" /\ agenda # <<>> /\ Node(Current).kind = "Constant"
  BY DEF ExecuteConstant, Executing
<1>2. Given /\ At \in Indices(program) /\ Current = At /\ copy = NoCopy
  BY <1>1, NodesHold
<1>3. KindOf(program, At) = "Constant" /\ TypeOf(program, At) = node.type
  BY <1>1, <1>2 DEF Node, KindOf, TypeOf
<1>4. node.type.tag # "tuple"
  BY <1>2, <1>3, GivenIsVerified DEF IsRunnable, IsCharge
<1>5. Conforms(value, TypeOf(program, At))
  BY <1>3, <1>4 DEF Conforms, Plain
<1>6. \A accounted : SlotFits(program, At, Owned(value, accounted)) /\ Owned(value, accounted) # Empty
  <2> HIDE DEF value
  <2> QED
    BY <1>3, <1>5 DEF SlotFits, Owned, Empty, IsParameter
<1>7. \/ PutOnly(Owned(value, FALSE), usage, slots)
      \/ PutOnly(Owned(value, node.count # 0), d.usage, slots)
      \/ HostRefuses(d)
      \/ Fail("Resource", d.usage, slots)
  BY DEF ExecuteConstant
<1> HIDE DEF value, d, node
<1>8. \A accounted, u : PutOnly(Owned(value, accounted), u, slots) => IInv'
  BY <1>1, <1>3, <1>6, PutOnlyKeeps
<1>9. \A u : Fail("Resource", u, slots) \/ Fail("Host", u, slots) => IInv'
  BY <1>2, FailKeeps
<1> QED
  BY <1>7, <1>8, <1>9 DEF HostRefuses

(* ExecuteParameter.                                                       *)
LEMMA ExecuteParameterKeeps ==
  ASSUME IInv, ExecuteParameter
  PROVE  IInv'
<1>1. /\ stage = "Nodes" /\ agenda # <<>> /\ Node(Current).kind = "ParameterBorrow"
      /\ PutOnly(Borrowed(Node(Current).count), usage, slots)
  BY DEF ExecuteParameter, Executing
<1>2. Given /\ At \in Indices(program) /\ Current = At
  BY <1>1, NodesHold
<1>3. KindOf(program, At) = "ParameterBorrow" /\ Node(Current).count = program.nodes[At].count
  BY <1>1, <1>2 DEF Node, KindOf
<1>4. SlotFits(program, At, Borrowed(Node(Current).count)) /\ Borrowed(Node(Current).count) # Empty
  BY <1>3 DEF SlotFits, Borrowed, Empty, IsParameter
<1> QED
  BY <1>1, <1>3, <1>4, PutOnlyKeeps

(* ExecuteHandover: what it moves is there, and what it borrows fits.      *)
LEMMA ExecuteHandoverKeeps ==
  ASSUME IInv, ExecuteHandover
  PROVE  IInv'
<1> DEFINE e == Node(Current).edges[1]
           i == e.producer
<1>1. stage = "Nodes" /\ agenda # <<>> /\ Node(Current).kind \in HandoverKind
  BY DEF ExecuteHandover, Executing
<1>2. /\ Given /\ At \in Indices(program) /\ Current = At /\ copy = NoCopy
      /\ Holds(program, slots, At, {}) /\ AllFit(program, slots)
  BY <1>1, NodesHold
<1>3. /\ KindOf(program, At) \in HandoverKind /\ e = EdgesOf(program, At)[1]
      /\ Node(Current).kind = KindOf(program, At)
  BY <1>1, <1>2 DEF Node, KindOf, EdgesOf
<1>4. IsProgram(program) /\ Verified(program) /\ AsLowered(program)
  BY <1>2, GivenIsVerified
<1>5. /\ 1 \in DOMAIN EdgesOf(program, At) /\ i = Handed(program, At)
      /\ i \in 1 .. At - 1 /\ i \in Indices(program)
      /\ TypeOf(program, At) = TypeOf(program, i)
      /\ \/ e.ownership = "InfallibleTransfer" /\ Takes(program, At, i)
         \/ /\ e.ownership = "ImmutableBorrow" /\ KindOf(program, At) # "BindingMove"
            /\ IsParameter(program, i) \/ Borrows(program, At)
  BY <1>2, <1>3, <1>4, HandoverMovesOrBorrows
<1>6. i < At /\ slots[i] # Empty
  BY <1>2, <1>3, <1>5, ProducerIsFilled
<1>7. TakenBy(program, At) = IF e.ownership = "InfallibleTransfer" THEN {i} ELSE {}
  BY <1>2, <1>3, HandoverTakes
<1>8. \/ /\ e.ownership = "InfallibleTransfer" /\ Takes(program, At, i)
         /\ PutThenRelease(slots[i], usage, [slots EXCEPT ![i] = Empty])
      \/ /\ e.ownership = "ImmutableBorrow" /\ (IsParameter(program, i) \/ Borrows(program, At))
         /\ PutThenRelease(Alias(i), usage, slots)
  <2>1. CASE e.ownership = "InfallibleTransfer" /\ Takes(program, At, i)
    BY <1>6, <2>1 DEF ExecuteHandover
  <2>2. CASE /\ e.ownership = "ImmutableBorrow" /\ KindOf(program, At) # "BindingMove"
             /\ IsParameter(program, i) \/ Borrows(program, At)
    BY <1>3, <2>2 DEF ExecuteHandover
  <2> QED
    BY <1>5, <2>1, <2>2
<1> HIDE DEF i, e
<1>9. CASE /\ e.ownership = "InfallibleTransfer" /\ Takes(program, At, i)
           /\ PutThenRelease(slots[i], usage, [slots EXCEPT ![i] = Empty])
  <2>1. Holds(program, [slots EXCEPT ![i] = Empty], At, TakenBy(program, At))
    <3>1. [slots EXCEPT ![i] = Empty] = Without(slots, {i})
      BY <1>2, <1>5, TakingOne
    <3>2. Holds(program, Without(slots, {i}), At, {} \union {i})
      BY <1>2, TakingKeeps
    <3>3. TakenBy(program, At) = {} \union {i}
      BY <1>7, <1>9
    <3> QED
      BY <3>1, <3>2, <3>3
  <2>2. SlotFits(program, i, slots[i])
    BY <1>2, <1>5 DEF AllFit
  <2>3. SlotFits(program, At, slots[i])
    BY <1>2, <1>3, <1>5, <1>6, <1>9, <2>2, MovedFits
  <2> QED
    BY <1>1, <1>6, <1>9, <2>1, <2>3, PutKeeps
<1>10. CASE /\ e.ownership = "ImmutableBorrow" /\ (IsParameter(program, i) \/ Borrows(program, At))
            /\ PutThenRelease(Alias(i), usage, slots)
  <2>1. Holds(program, slots, At, TakenBy(program, At))
    BY <1>2, <1>7, <1>10
  <2>2. SlotFits(program, At, Alias(i)) /\ Alias(i) # Empty
    <3>1. ~IsParameter(program, At)
      BY <1>3 DEF IsParameter, HandoverKind
    <3> QED
      BY <1>3, <1>5, <1>10, <3>1 DEF SlotFits, Alias, Empty
  <2> QED
    BY <1>1, <1>10, <2>1, <2>2, PutKeeps
<1> QED
  BY <1>8, <1>9, <1>10

(* ExecuteFormat: every operand can be read.                               *)
LEMMA ExecuteFormatKeeps ==
  ASSUME IInv, ExecuteFormat
  PROVE  IInv'
<1>1. stage = "Nodes" /\ agenda # <<>> /\ Node(Current).kind = "Format"
  BY DEF ExecuteFormat, Executing
<1>2. /\ Given /\ At \in Indices(program) /\ Current = At /\ copy = NoCopy
      /\ Holds(program, slots, At, {})
  BY <1>1, NodesHold
<1>3. KindOf(program, At) = "Format"
  BY <1>1, <1>2 DEF Node, KindOf
<1>4. AllReadable(Node(Current).edges)
  BY <1>2, EdgesAreReadable
<1>5. PICK required \in FormatLengths :
        LET d == AdmitString(configuration, usage, required, required)
            value == Plain("string", required, Label(Current, LabelsOf(Node(Current).edges)))
        IN \/ Fail("Resource", d.usage, slots)
           \/ PutThenRelease(Owned(value, required # 0), d.usage, slots)
           \/ HostRefuses(d)
  BY <1>4 DEF ExecuteFormat
<1> DEFINE d == AdmitString(configuration, usage, required, required)
           value == Plain("string", required, Label(Current, LabelsOf(Node(Current).edges)))
<1>6. SlotFits(program, At, Owned(value, required # 0)) /\ Owned(value, required # 0) # Empty
  <2>1. TypeOf(program, At).tag = "string"
    BY <1>2, <1>3, GivenIsVerified DEF NodeShape
  <2>2. Conforms(value, TypeOf(program, At))
    BY <2>1 DEF Conforms, Plain
  <2> HIDE DEF value
  <2> QED
    BY <1>3, <2>2 DEF SlotFits, Owned, Empty, IsParameter
<1>7. Holds(program, slots, At, TakenBy(program, At))
  BY <1>2, <1>3, GivenIsVerified, WhatIsTaken
<1>8. PutThenRelease(Owned(value, required # 0), d.usage, slots) => IInv'
  <2> HIDE DEF value, d
  <2> QED
    BY <1>1, <1>6, <1>7, PutKeeps
<1>9. \A u : Fail("Resource", u, slots) \/ Fail("Host", u, slots) => IInv'
  BY <1>2, FailKeeps
<1> QED
  BY <1>5, <1>8, <1>9 DEF HostRefuses

(* ExecuteApply: the same.                                                 *)
LEMMA ExecuteApplyKeeps ==
  ASSUME IInv, ExecuteApply
  PROVE  IInv'
<1> DEFINE edges == Node(Current).edges
           plan  == Node(Current).plan
<1>1. stage = "Nodes" /\ agenda # <<>> /\ Node(Current).kind = "SelectedApply"
  BY DEF ExecuteApply, Executing
<1>2. /\ Given /\ At \in Indices(program) /\ Current = At /\ copy = NoCopy
      /\ Holds(program, slots, At, {})
  BY <1>1, NodesHold
<1>3. KindOf(program, At) = "SelectedApply"
  BY <1>1, <1>2 DEF Node, KindOf
<1>4. AllReadable(Node(Current).edges)
  BY <1>2, EdgesAreReadable
<1>5. \/ Fail("ShapeMismatch", usage, slots)
      \/ \E n : LET d == ApplyDecision(plan, n, usage)
                    value == ApplyValue(plan, n, LabelsOf(edges))
                IN \/ Fail("Resource", d.usage, slots)
                   \/ PutThenRelease(Owned(value, plan # "scalar"), d.usage, slots)
                   \/ Fail("Fault", Refund(d.usage, d.bytes), slots)
  BY <1>4 DEF ExecuteApply
<1>6. \A u : /\ Fail("Resource", u, slots) => IInv'
             /\ Fail("Fault", u, slots) => IInv'
             /\ Fail("ShapeMismatch", u, slots) => IInv'
  BY <1>2, FailKeeps
<1>7. Holds(program, slots, At, TakenBy(program, At))
  BY <1>2, <1>3, GivenIsVerified, WhatIsTaken
<1>8. ASSUME NEW n, NEW u, NEW operands,
             PutThenRelease(Owned(ApplyValue(plan, n, operands), plan # "scalar"), u, slots)
      PROVE  IInv'
  <2> DEFINE value == ApplyValue(plan, n, operands)
  <2>1. TypeOf(program, At).tag # "tuple"
    BY <1>2, <1>3, GivenIsVerified DEF IsRunnable
  <2>2. Conforms(value, TypeOf(program, At))
    <3>1. value.tag \in {"scalar", "vector"}
      BY DEF ApplyValue, Plain
    <3> QED
      BY <2>1, <3>1 DEF Conforms
  <2> HIDE DEF value
  <2>3. SlotFits(program, At, Owned(value, plan # "scalar")) /\ Owned(value, plan # "scalar") # Empty
    BY <1>3, <2>2 DEF SlotFits, Owned, Empty, IsParameter
  <2>4. PutThenRelease(Owned(value, plan # "scalar"), u, slots)
    BY <1>8 DEF value
  <2> HIDE DEF plan
  <2> QED
    BY <1>1, <1>7, <2>3, <2>4, PutKeeps
<1> QED
  BY <1>5, <1>6, <1>8

(* ExecuteFanOut: the roots of its branches are applications' values.      *)
LEMMA ExecuteFanOutKeeps ==
  ASSUME IInv, ExecuteFanOut
  PROVE  IInv'
<1> DEFINE branches == Node(Current).branches
           taken    == {branches[b].root : b \in DOMAIN branches}
           d        == AdmitTuple(configuration, usage, Len(branches))
           rest     == Without(slots, taken)
           elems    == [b \in DOMAIN branches |-> slots[branches[b].root].value]
           value    == TupleValue(elems)
<1>1. stage = "Nodes" /\ agenda # <<>> /\ Node(Current).kind = "FanOut"
  BY DEF ExecuteFanOut, Executing
<1>2. /\ Given /\ At \in Indices(program) /\ At \in Nat /\ Current = At /\ copy = NoCopy
      /\ Holds(program, slots, At, {}) /\ AllFit(program, slots)
  BY <1>1, NodesHold
<1>3. /\ KindOf(program, At) = "FanOut" /\ branches = Branches(program, At)
      /\ At \in FanOuts(program)
  BY <1>1, <1>2 DEF Node, KindOf, Branches, FanOuts
<1>4. IsProgram(program) /\ Verified(program) /\ AsLowered(program)
  BY <1>2, GivenIsVerified
<1>5. ASSUME NEW b \in DOMAIN branches
      PROVE  slots[branches[b].root].kind = "Owned"
  <2> DEFINE r == branches[b].root
  <2>1. /\ r \in Indices(program) /\ KindOf(program, r) = "SelectedApply" /\ r < At
    BY <1>3, <1>4, RootedIsApplication
  <2>2. ~Gone(program, r, At)
    BY <1>3, <1>4, FanOutFindsRoots
  <2> HIDE DEF r
  <2>3. slots[r] # Empty /\ SlotFits(program, r, slots[r])
    BY <1>2, <2>1, <2>2 DEF Holds, AllFit
  <2>4. slots[r].kind = "Owned"
    BY <2>1, <2>3 DEF SlotFits, IsParameter, HandoverKind
  <2> QED
    BY <2>4 DEF r
<1>6. TakenBy(program, At) = taken
  BY <1>2, <1>3, <1>4, WhatIsTaken
<1>7. Holds(program, rest, At, TakenBy(program, At))
  <2>1. Holds(program, rest, At, {} \union taken)
    BY <1>2, TakingKeeps
  <2>2. {} \union taken = taken
    OBVIOUS
  <2> HIDE DEF taken, rest
  <2> QED
    BY <1>6, <2>1, <2>2
<1>8. Conforms(value, TypeOf(program, At))
  <2>1. /\ Len(branches) \in Nat /\ DOMAIN branches = 1 .. Len(branches)
    BY <1>3, <1>4, BranchesTile
  <2>2. /\ TypeOf(program, At).tag = "tuple"
    BY <1>2, <1>3, GivenIsVerified DEF NodeShape
  <2>3. TypeOf(program, At).elems = [b \in DOMAIN branches |-> TypeOf(program, branches[b].root)]
    BY <1>3, <1>4 DEF Verified, FanOutShape
  <2>4. Len(elems) = Len(branches)
    <3>1. elems = [b \in 1 .. Len(branches) |-> elems[b]]
      BY <2>1
    <3> HIDE DEF elems, branches
    <3> QED
      BY <2>1, <3>1, TableIsSequence
  <2>5. Len(TypeOf(program, At).elems) = Len(branches)
    <3> DEFINE types == TypeOf(program, At).elems
    <3>1. types = [b \in 1 .. Len(branches) |-> types[b]]
      BY <2>1, <2>3
    <3> HIDE DEF types, branches
    <3>2. Len(types) = Len(branches)
      BY <2>1, <3>1, TableIsSequence
    <3> QED
      BY <3>2 DEF types
  <2>6. value.tag = "tuple" /\ value.elems = elems
    BY DEF TupleValue
  <2> HIDE DEF value, elems, branches
  <2> QED
    BY <2>2, <2>4, <2>5, <2>6 DEF Conforms
<1>9. SlotFits(program, At, Owned(value, TRUE)) /\ Owned(value, TRUE) # Empty
  <2> HIDE DEF value
  <2> QED
    BY <1>3, <1>8 DEF SlotFits, Owned, Empty, IsParameter
<1>10. \/ Fail("Resource", d.usage, slots)
       \/ PutThenRelease(Owned(value, TRUE), d.usage, rest)
  <2>1. \A i \in taken : slots[i].kind = "Owned"
    BY <1>5
  <2> QED
    BY <2>1 DEF ExecuteFanOut
<1>11. Fail("Resource", d.usage, slots) => IInv'
  <2> HIDE DEF d
  <2> QED
    BY <1>2, FailKeeps
<1>12. PutThenRelease(Owned(value, TRUE), d.usage, rest) => IInv'
  <2> HIDE DEF d, value, rest
  <2> QED
    BY <1>1, <1>7, <1>9, PutKeeps
<1> QED
  BY <1>10, <1>11, <1>12

(* BeginTuple: nothing is taken yet.                                       *)
LEMMA BeginTupleKeeps ==
  ASSUME IInv, BeginTuple
  PROVE  IInv'
<1>1. stage = "Nodes" /\ agenda # <<>> /\ Node(Current).kind = "TupleConstruct"
  BY DEF BeginTuple, Executing
<1>2. /\ Given /\ At \in Indices(program) /\ Current = At /\ copy = NoCopy /\ gathered = <<>>
      /\ Holds(program, slots, At, {})
  BY <1>1, NodesHold
<1>3. KindOf(program, At) = "TupleConstruct"
  BY <1>1, <1>2 DEF Node, KindOf
<1>4. \/ \E u : Fail("Resource", u, slots)
      \/ /\ stage' = "Tuple" /\ program' = program /\ slots' = slots /\ agenda' = agenda
         /\ gathered' = gathered /\ copy' = copy /\ error' = error
  BY DEF BeginTuple
<1>5. ASSUME stage' = "Tuple", program' = program, slots' = slots, agenda' = agenda,
             gathered' = gathered, copy' = copy, error' = error
      PROVE  IInv'
  <2>1. At' = At /\ TakenCount' = 0 /\ NodeCount' = NodeCount
    BY <1>2, <1>5 DEF At, NodeCount, TakenCount, NoCopy
  <2>2. ChildrenTaken(TakenCount)' = {}
    BY <2>1 DEF ChildrenTaken
  <2>3. 0 <= Len(EdgesOf(program, At))
    <3>1. EdgesOf(program, At) \in Seq(EdgeRecords)
      BY <1>2, GivenIsVerified, NumberedFromOne
    <3> QED
      BY <3>1
  <2>4. IsSequence(gathered)
    BY <1>2 DEF IsSequence
  <2>5. Holds(program, slots, At, ChildrenTaken(TakenCount))'
    BY <1>2, <1>5, <2>1, <2>2
  <2>6. TupleInPlace'
    BY <1>1, <1>3, <1>5, <2>1, <2>3, <2>4, <2>5 DEF TupleInPlace, IsSequence, KindOf, EdgesOf
  <2>7. RunsInOrder'
    BY <1>1, <1>5, <2>1 DEF IInv, RunsInOrder
  <2>8. CopyInPlace'
    BY <1>2, <1>5 DEF CopyInPlace
  <2> QED
    BY <1>5, <2>6, <2>7, <2>8 DEF IInv, Given, NoInvariantFailure, Fresh, NodesInPlace, OutputsInPlace
<1> QED
  BY <1>2, <1>4, <1>5, FailKeeps

(* The tuple under construction.                                           *)
LEMMA TupleHolds ==
  ASSUME IInv, stage = "Tuple"
  PROVE  /\ Given /\ At \in Indices(program) /\ At \in Nat /\ Current = At /\ agenda # <<>>
         /\ KindOf(program, At) = "TupleConstruct"
         /\ Holds(program, slots, At, ChildrenTaken(TakenCount)) /\ AllFit(program, slots)
         /\ IsSequence(gathered) /\ Len(gathered) \in Nat
         /\ Node(Current).edges = EdgesOf(program, At)
         /\ DOMAIN EdgesOf(program, At) = 1 .. Len(EdgesOf(program, At))
         /\ Len(EdgesOf(program, At)) \in Nat
<1>1. /\ Given /\ agenda # <<>> /\ KindOf(program, At) = "TupleConstruct" /\ RunsInOrder
      /\ Holds(program, slots, At, ChildrenTaken(TakenCount)) /\ AllFit(program, slots)
      /\ IsSequence(gathered)
  BY DEF IInv, TupleInPlace, Holds
<1>2. At \in Indices(program) /\ At \in Nat /\ Current = At
  BY <1>1, AgendaHead
<1>3. EdgesOf(program, At) \in Seq(EdgeRecords)
  BY <1>1, <1>2, GivenIsVerified, NumberedFromOne
<1>4. Len(gathered) \in Nat
  BY <1>1 DEF IsSequence
<1>5. Node(Current).edges = EdgesOf(program, At)
  BY <1>2 DEF Node, EdgesOf
<1> QED
  BY <1>1, <1>2, <1>3, <1>4, <1>5

(* One child more has been taken, or is being copied.                      *)
LEMMA ChildKeeps ==
  ASSUME IInv, stage = "Tuple", copy = NoCopy,
         Len(gathered) + 1 <= Len(EdgesOf(program, At)),
         NEW s, Holds(program, s, At, ChildrenTaken(Len(gathered) + 1)),
         NEW value, Collect(value, s) \/ StartCopy(value, s)
  PROVE  IInv'
<1>0. /\ Given /\ IsSequence(gathered) /\ Len(gathered) \in Nat
      /\ agenda # <<>> /\ KindOf(program, At) = "TupleConstruct"
  BY TupleHolds
<1>1. /\ program' = program /\ stage' = "Tuple" /\ agenda' = agenda /\ error' = error /\ slots' = s
      /\ \/ gathered' = Append(gathered, value) /\ copy' = NoCopy
         \/ gathered' = gathered /\ copy' = Copying(value)
  BY DEF Collect, StartCopy
<1>2. At' = At /\ NodeCount' = NodeCount
  BY <1>1 DEF At, NodeCount
<1>3. Copying(value) # NoCopy
  BY DEF Copying, NoCopy
<1>4. IsSequence(gathered') /\ TakenCount' = Len(gathered) + 1
  <2>1. CASE gathered' = Append(gathered, value) /\ copy' = NoCopy
    <3>1. IsSequence(gathered') /\ Len(gathered') = Len(gathered) + 1
      BY <1>0, <2>1, AppendIsSequence
    <3> QED
      BY <1>0, <2>1, <3>1 DEF TakenCount
  <2>2. CASE gathered' = gathered /\ copy' = Copying(value)
    BY <1>0, <1>3, <2>2 DEF TakenCount
  <2> QED
    BY <1>1, <2>1, <2>2
<1>5. CopyInPlace'
  BY <1>1 DEF CopyInPlace, Copying
<1>6. ChildrenTaken(TakenCount)' = ChildrenTaken(Len(gathered) + 1)
  BY <1>1, <1>2, <1>4 DEF ChildrenTaken
<1>7. TupleInPlace'
  <2>1. IsSequence(gathered)'
    BY <1>4 DEF IsSequence
  <2>2. (TakenCount <= Len(EdgesOf(program, At)))'
    BY <1>1, <1>2, <1>4
  <2>3. Holds(program, slots, At, ChildrenTaken(TakenCount))'
    BY <1>1, <1>2, <1>6
  <2> QED
    BY <1>0, <1>1, <1>2, <2>1, <2>2, <2>3 DEF TupleInPlace
<1>8. RunsInOrder'
  BY <1>1, <1>2 DEF IInv, RunsInOrder
<1> QED
  BY <1>1, <1>5, <1>7, <1>8 DEF IInv, Given, NoInvariantFailure, Fresh, NodesInPlace, OutputsInPlace

(* The children taken so far are not parameters.                           *)
LEMMA ChildrenTakenAreTaken ==
  ASSUME Given, At \in Indices(program), KindOf(program, At) = "TupleConstruct",
         NEW m \in Nat, m <= Len(EdgesOf(program, At)), NEW i \in ChildrenTaken(m)
  PROVE  i \in Indices(program) /\ Takes(program, At, i) /\ ~IsParameter(program, i)
<1>0. /\ IsProgram(program) /\ Verified(program)
  BY GivenIsVerified
<1>1. EdgesOf(program, At) \in Seq(EdgeRecords)
  BY <1>0, NumberedFromOne
<1>2. Takes(program, At, i) /\ i \in Indices(program)
  BY <1>1 DEF ChildrenTaken, Takes
<1> QED
  BY <1>0, <1>2, TakerIsOwner

(* TakeChild: a child that moves is there, once, and is a value of its own *)
(* or stands for a parameter; any other child is a parameter.              *)
LEMMA TakeChildKeeps ==
  ASSUME IInv, TakeChild
  PROVE  IInv'
<1> DEFINE k == Len(gathered) + 1
           e == EdgesOf(program, At)[k]
           i == e.producer
           rest == [slots EXCEPT ![i] = Empty]
<1>1. stage = "Tuple" /\ copy = NoCopy /\ Len(gathered) < Len(Node(Current).edges)
  BY DEF TakeChild
<1>2. /\ Given /\ At \in Indices(program) /\ At \in Nat /\ Current = At
      /\ KindOf(program, At) = "TupleConstruct"
      /\ Holds(program, slots, At, ChildrenTaken(TakenCount)) /\ AllFit(program, slots)
      /\ IsSequence(gathered) /\ Len(gathered) \in Nat
      /\ Node(Current).edges = EdgesOf(program, At)
      /\ DOMAIN EdgesOf(program, At) = 1 .. Len(EdgesOf(program, At))
      /\ Len(EdgesOf(program, At)) \in Nat
  BY <1>1, TupleHolds
<1>3. TakenCount = Len(gathered)
  BY <1>1, <1>2 DEF TakenCount
<1>4. /\ k \in DOMAIN EdgesOf(program, At) /\ k <= Len(EdgesOf(program, At)) /\ k \in Nat
      /\ 1 .. k = (1 .. Len(gathered)) \union {k} /\ k \notin 1 .. Len(gathered)
      /\ 1 .. Len(gathered) \subseteq DOMAIN EdgesOf(program, At)
  BY <1>1, <1>2
<1>5. IsProgram(program) /\ Verified(program) /\ AsLowered(program)
  BY <1>2, GivenIsVerified
<1> HIDE DEF k
<1>6. /\ e.access \in {"WholeValue", "BindingMove"}
      /\ \/ /\ e.ownership = "InfallibleTransfer"
            /\ Takes(program, At, i)
            /\ \A l \in DOMAIN EdgesOf(program, At) : EdgesOf(program, At)[l].producer = i => l = k
         \/ /\ e.ownership = "ImmutableBorrow"
            /\ IsParameter(program, i)
            /\ e.access = "WholeValue"
  BY <1>2, <1>4, <1>5, ChildrenMove
<1>7. i \in Indices(program)
  BY <1>2, <1>4, <1>5, EdgeIsVerified
<1> DEFINE taken == ChildrenTaken(Len(gathered))
<1>8. i \notin taken
  <2>1. CASE IsParameter(program, i)
    BY <1>1, <1>2, <2>1, ChildrenTakenAreTaken
  <2>2. CASE \A l \in DOMAIN EdgesOf(program, At) : EdgesOf(program, At)[l].producer = i => l = k
    <3> HIDE DEF i
    <3> QED
      BY <1>4, <2>2 DEF ChildrenTaken
  <2> QED
    BY <1>6, <2>1, <2>2
<1>9. slots[i] # Empty
  <2>1. EdgesOf(program, At)[k].producer \notin ChildrenTaken(TakenCount)
    BY <1>3, <1>8
  <2> QED
    BY <1>2, <1>4, <2>1, ProducerIsFilled
<1>10. SlotFits(program, i, slots[i])
  BY <1>2, <1>7 DEF AllFit
<1>11. IF e.ownership = "InfallibleTransfer" THEN TakeTransfer(i)
       ELSE IF e.ownership = "ImmutableBorrow" /\ Readable(e) THEN StartCopy(EdgeValue(e), slots)
       ELSE GiveUp("Invariant", usage, slots)
  BY <1>2 DEF TakeChild, k
<1>12. ChildrenTaken(k) = IF e.ownership = "InfallibleTransfer" THEN taken \union {i} ELSE taken
  BY <1>4, <1>7 DEF ChildrenTaken
<1>13. Len(gathered) + 1 <= Len(EdgesOf(program, At)) /\ k = Len(gathered) + 1
  BY <1>4 DEF k
<1> HIDE DEF i, e, taken
<1>14. CASE e.ownership = "InfallibleTransfer" /\ Takes(program, At, i)
  <2>1. rest = Without(slots, {i})
    BY <1>2, <1>7, TakingOne
  <2>2. Holds(program, rest, At, ChildrenTaken(k))
    <3>1. Holds(program, Without(slots, {i}), At, taken \union {i})
      BY <1>2, <1>3, TakingKeeps DEF taken
    <3> QED
      BY <1>12, <1>14, <2>1, <3>1
  <2>3. ~IsParameter(program, i) /\ i < At /\ KindOf(program, i) \notin BorrowingKind
    <3>1. ~IsParameter(program, i) /\ i < At
      BY <1>2, <1>5, <1>7, <1>14, TakerIsOwner
    <3>2. KindOf(program, i) \notin BorrowingKind
      BY <1>2, <1>5, <1>7, <1>14, BorrowIsNotMoved
    <3> QED
      BY <3>1, <3>2
  <2>4. ASSUME slots[i].kind = "Alias"
        PROVE  HasValue(rest, slots[i].node)
    <3> DEFINE t == slots[i].node
    <3>1. t \in 1 .. i - 1 /\ IsParameter(program, t)
      <4>1. \/ /\ slots[i].node \in 1 .. i - 1
               /\ IsParameter(program, slots[i].node) \/ Borrows(program, i)
        BY <1>9, <1>10, <2>4 DEF SlotFits
      <4>2. ~Borrows(program, i)
        BY <2>3 DEF Borrows
      <4> QED
        BY <4>1, <4>2
    <3>2. t \in Indices(program) /\ t < At
      BY <1>2, <1>7, <2>3, <3>1, GivenIsVerified
    <3> HIDE DEF t
    <3>3. ~Gone(program, t, At)
      BY <1>2, <1>5, <3>1, <3>2, RootStays
    <3>4. t \notin ChildrenTaken(k)
      BY <1>2, <1>4, <3>1, ChildrenTakenAreTaken
    <3>5. rest[t] # Empty /\ AllFit(program, rest)
      <4> HIDE DEF rest
      <4> QED
        BY <2>2, <3>2, <3>3, <3>4 DEF Holds
    <3>6. HasValue(rest, t)
      <4> HIDE DEF rest
      <4> QED
        BY <1>2, <3>1, <3>2, <3>5, ParameterIsBorrowed
    <3> QED
      BY <3>6 DEF t
  <2>5. \E v : Collect(v, rest) \/ StartCopy(v, rest)
    BY <1>9, <1>11, <1>14, <2>4 DEF TakeTransfer
  <2> HIDE DEF rest
  <2>6. PICK v : Collect(v, rest) \/ StartCopy(v, rest)
    BY <2>5
  <2> QED
    BY <1>1, <1>13, <2>2, <2>6, ChildKeeps
<1>15. CASE e.ownership = "ImmutableBorrow" /\ IsParameter(program, i) /\ e.access = "WholeValue"
  <2>1. HasValue(slots, e.producer)
    BY <1>2, <1>7, <1>9, <1>15, ParameterIsBorrowed DEF i
  <2>2. Readable(e)
    BY <1>15, <2>1 DEF Readable, TakesElement
  <2>3. StartCopy(EdgeValue(e), slots)
    BY <1>11, <1>15, <2>2
  <2>4. Holds(program, slots, At, ChildrenTaken(Len(gathered) + 1))
    BY <1>2, <1>3, <1>12, <1>13, <1>15 DEF taken
  <2> QED
    BY <1>1, <1>13, <2>3, <2>4, ChildKeeps
<1> QED
  BY <1>6, <1>14, <1>15 DEF i, e

(* EndTuple: all that the tuple takes has been taken.                      *)
LEMMA EndTupleKeeps ==
  ASSUME IInv, EndTuple
  PROVE  IInv'
<1> DEFINE value == TupleValue(gathered)
           slot == Owned(value, gathered # <<>>)
<1>1. stage = "Tuple" /\ copy = NoCopy /\ Len(gathered) = Len(Node(Current).edges)
  BY DEF EndTuple
<1>2. /\ Given /\ At \in Indices(program) /\ Current = At /\ agenda # <<>>
      /\ KindOf(program, At) = "TupleConstruct"
      /\ Holds(program, slots, At, ChildrenTaken(TakenCount)) /\ AllFit(program, slots)
      /\ Node(Current).edges = EdgesOf(program, At)
      /\ DOMAIN EdgesOf(program, At) = 1 .. Len(EdgesOf(program, At))
      /\ Len(EdgesOf(program, At)) \in Nat
  BY <1>1, TupleHolds
<1>3. TakenCount = Len(EdgesOf(program, At))
  BY <1>1, <1>2 DEF TakenCount
<1>4. ChildrenTaken(TakenCount) = TakenBy(program, At)
  <2>1. TakenBy(program, At) = {i \in Indices(program) : \E k \in DOMAIN EdgesOf(program, At) :
                                   /\ EdgesOf(program, At)[k].producer = i
                                   /\ EdgesOf(program, At)[k].ownership = "InfallibleTransfer"}
    BY <1>2, GivenIsVerified, WhatIsTaken
  <2> QED
    BY <1>2, <1>3, <2>1 DEF ChildrenTaken
<1>5. slots[Current] = Empty
  BY <1>2, DestinationIsEmpty
<1>6. SlotFits(program, At, slot) /\ slot # Empty
  <2>1. NodeShape(program, At)
    BY <1>2, GivenIsVerified
  <2>2. /\ TypeOf(program, At).tag = "tuple"
        /\ TypeOf(program, At).elems =
             [k \in DOMAIN EdgesOf(program, At) |-> EdgeType(program, EdgesOf(program, At)[k])]
    BY <1>2, <2>1 DEF NodeShape
  <2>3. Len(TypeOf(program, At).elems) = Len(EdgesOf(program, At))
    <3> DEFINE types == TypeOf(program, At).elems
    <3>1. types = [k \in 1 .. Len(EdgesOf(program, At)) |-> types[k]]
      BY <1>2, <2>2
    <3> HIDE DEF types
    <3>2. Len(types) = Len(EdgesOf(program, At))
      BY <1>2, <3>1, TableIsSequence
    <3> QED
      BY <3>2 DEF types
  <2>4. value.tag = "tuple" /\ value.elems = gathered
    BY DEF TupleValue
  <2>5. Conforms(value, TypeOf(program, At))
    <3> HIDE DEF value
    <3> QED
      BY <1>1, <1>2, <2>2, <2>3, <2>4 DEF Conforms
  <2> HIDE DEF value
  <2> QED
    BY <1>2, <2>5 DEF SlotFits, Owned, Empty, IsParameter
<1>7. /\ program' = program /\ agenda' = Tail(agenda) /\ stage' = "Nodes" /\ gathered' = <<>>
      /\ copy' = copy /\ error' = error
      /\ slots' = Without([slots EXCEPT ![At] = slot], OwnersReleasedBy(At))
  BY <1>2, <1>5 DEF EndTuple, ReleaseAfter
<1> HIDE DEF slot
<1> QED
  BY <1>1, <1>2, <1>4, <1>6, <1>7, NodeDone

(* The copy goes on: nothing else changes.                                 *)
LEMMA CopyNextKeeps ==
  ASSUME IInv, CopyNext
  PROVE  IInv'
<1>1. copy # NoCopy /\ stage \in {"Tuple", "Outputs"}
      /\ "kind" \in DOMAIN copy /\ copy.kind = "Copy"
  BY DEF CopyNext, IInv, CopyInPlace
<1>2. \/ \E u : GiveUp("Resource", u, slots)
      \/ /\ \E q, a : copy' = [copy EXCEPT !.pending = q, !.admitted = a]
         /\ UNCHANGED <<program, slots, stage, agenda, gathered, error>>
  BY DEF CopyNext
<1>3. ASSUME NEW q, NEW a, copy' = [copy EXCEPT !.pending = q, !.admitted = a],
             UNCHANGED <<program, slots, stage, agenda, gathered, error>>
      PROVE  IInv'
  <2>1. "kind" \in DOMAIN copy' /\ copy'.kind = "Copy"
    BY <1>1, <1>3
  <2>2. copy' # NoCopy
    BY <2>1 DEF NoCopy
  <2>3. CopyInPlace'
    BY <1>1, <1>3, <2>1 DEF CopyInPlace
  <2>4. TakenCount' = TakenCount /\ At' = At /\ NodeCount' = NodeCount
    BY <1>1, <1>3, <2>2 DEF TakenCount, At, NodeCount
  <2>5. \A m : ChildrenTaken(m)' = ChildrenTaken(m)
    BY <1>3, <2>4 DEF ChildrenTaken
  <2>6. ChildrenTaken(TakenCount)' = ChildrenTaken(TakenCount)
    BY <1>3, <2>4 DEF ChildrenTaken
  <2>7. TupleInPlace'
    BY <1>3, <2>4, <2>6 DEF IInv, TupleInPlace
  <2>8. OutputsInPlace'
    BY <1>3, <2>4 DEF IInv, OutputsInPlace
  <2>9. RunsInOrder'
    BY <1>3, <2>4 DEF IInv, RunsInOrder
  <2> QED
    BY <1>1, <1>3, <2>3, <2>7, <2>8, <2>9 DEF IInv, Given, NoInvariantFailure, Fresh, NodesInPlace
<1> QED
  BY <1>2, <1>3, GiveUpKeeps

(* The copy fails for want of memory.                                      *)
LEMMA CopyReserveFailsKeeps ==
  ASSUME IInv, CopyReserveFails
  PROVE  IInv'
<1>1. \E u : GiveUp("Host", u, slots)
  BY DEF CopyReserveFails
<1> QED
  BY <1>1, GiveUpKeeps

(* The copy is complete: it counts as taken already.                       *)
LEMMA CopyDoneKeeps ==
  ASSUME IInv, CopyDone
  PROVE  IInv'
<1>1. copy # NoCopy /\ stage \in {"Tuple", "Outputs"}
  BY DEF CopyDone, IInv, CopyInPlace
<1>2. \/ \E u : GiveUp("Host", u, slots)
      \/ /\ gathered' = Append(gathered, copy.value) /\ copy' = NoCopy
         /\ UNCHANGED <<program, slots, stage, agenda, error>>
  BY DEF CopyDone
<1>3. ASSUME gathered' = Append(gathered, copy.value), copy' = NoCopy,
             UNCHANGED <<program, slots, stage, agenda, error>>
      PROVE  IInv'
  <2>1. IsSequence(gathered)
    BY <1>1 DEF IInv, TupleInPlace, OutputsInPlace
  <2>2. IsSequence(gathered') /\ Len(gathered) \in Nat /\ Len(gathered') = Len(gathered) + 1
    BY <1>3, <2>1, AppendIsSequence
  <2>3. TakenCount' = TakenCount /\ At' = At /\ NodeCount' = NodeCount
    BY <1>1, <1>3, <2>2 DEF TakenCount, At, NodeCount
  <2>4. ChildrenTaken(TakenCount)' = ChildrenTaken(TakenCount)
    BY <1>3, <2>3 DEF ChildrenTaken
  <2>5. IsSequence(gathered)'
    BY <2>2 DEF IsSequence
  <2>6. TupleInPlace'
    BY <1>3, <2>3, <2>4, <2>5 DEF IInv, TupleInPlace
  <2>7. OutputsInPlace'
    BY <1>3, <2>3, <2>5 DEF IInv, OutputsInPlace
  <2>8. RunsInOrder'
    BY <1>3, <2>3 DEF IInv, RunsInOrder
  <2>9. CopyInPlace'
    BY <1>3 DEF CopyInPlace
  <2> QED
    BY <1>1, <1>3, <2>6, <2>7, <2>8, <2>9 DEF IInv, Given, NoInvariantFailure, Fresh, NodesInPlace
<1> QED
  BY <1>2, <1>3, GiveUpKeeps

(* EnterOutputs: what the roots deliver has stayed.                        *)
LEMMA EnterOutputsKeeps ==
  ASSUME IInv, EnterOutputs
  PROVE  IInv'
<1>1. /\ stage = "Nodes" /\ agenda = <<>> /\ stage' = "Outputs"
      /\ UNCHANGED <<program, slots, agenda, gathered, copy, error>>
  BY DEF EnterOutputs
<1>2. /\ Given /\ Holds(program, slots, At, {}) /\ AllFit(program, slots)
      /\ gathered = <<>> /\ copy = NoCopy
  BY <1>1 DEF IInv, NodesInPlace, Holds
<1>3. /\ IsProgram(program) /\ Verified(program) /\ AsLowered(program)
      /\ Indices(program) = 1 .. NodeCount /\ NodeCount \in Nat
  BY <1>2, GivenIsVerified DEF NodeCount
<1>4. At = NodeCount + 1
  BY <1>1, <1>3 DEF At
<1>5. ASSUME NEW i \in Indices(program), IsParameter(program, i) \/ RootsAt(program, i) # {}
      PROVE  slots[i] # Empty
  <2>1. i < At /\ At \in Nat
    BY <1>3, <1>4
  <2>2. ~Gone(program, i, At)
    BY <1>3, <1>5, <2>1, RootStays
  <2> QED
    BY <1>2, <2>1, <2>2 DEF Holds
<1>6. ASSUME NEW k \in DOMAIN program.roots
      PROVE  slots[program.roots[k]] # Empty
  <2>1. program.roots[k] \in Indices(program)
    BY <1>3 DEF Verified, Postorder
  <2>2. k \in RootsAt(program, program.roots[k])
    BY DEF RootsAt
  <2> QED
    BY <1>5, <2>1, <2>2
<1>7. TakenCount' = 0
  BY <1>1, <1>2 DEF TakenCount, NoCopy
<1>8. 0 <= Len(program.roots)
  <2>1. program.roots \in Seq(Nat)
    BY <1>3 DEF IsProgram
  <2> QED
    BY <2>1
<1>9. IsSequence(gathered)'
  BY <1>1, <1>2 DEF IsSequence
<1>10. OutputsInPlace'
  BY <1>1, <1>2, <1>5, <1>6, <1>7, <1>8, <1>9 DEF OutputsInPlace
<1>11. CopyInPlace'
  BY <1>1, <1>2 DEF CopyInPlace
<1> QED
  BY <1>1, <1>10, <1>11 DEF IInv, Given, NoInvariantFailure, Fresh, RunsInOrder, NodesInPlace, TupleInPlace

(* One output more has been taken, or is being copied.                     *)
LEMMA OutputKeeps ==
  ASSUME IInv, stage = "Outputs", copy = NoCopy, Len(gathered) + 1 <= Len(program.roots),
         NEW s, AllFit(program, s),
         \A i \in Indices(program) : IsParameter(program, i) => s[i] # Empty,
         \A k \in DOMAIN program.roots : k > Len(gathered) + 1 => s[program.roots[k]] # Empty,
         NEW value, Collect(value, s) \/ StartCopy(value, s)
  PROVE  IInv'
<1>0. IsSequence(gathered) /\ Len(gathered) \in Nat
  BY DEF IInv, OutputsInPlace, IsSequence
<1>1. /\ program' = program /\ stage' = "Outputs" /\ error' = error /\ slots' = s
      /\ \/ gathered' = Append(gathered, value) /\ copy' = NoCopy
         \/ gathered' = gathered /\ copy' = Copying(value)
  BY DEF Collect, StartCopy
<1>3. Copying(value) # NoCopy
  BY DEF Copying, NoCopy
<1>4. IsSequence(gathered') /\ TakenCount' = Len(gathered) + 1
  <2>1. CASE gathered' = Append(gathered, value) /\ copy' = NoCopy
    <3>1. IsSequence(gathered') /\ Len(gathered') = Len(gathered) + 1
      BY <1>0, <2>1, AppendIsSequence
    <3> QED
      BY <1>0, <2>1, <3>1 DEF TakenCount
  <2>2. CASE gathered' = gathered /\ copy' = Copying(value)
    BY <1>0, <1>3, <2>2 DEF TakenCount
  <2> QED
    BY <1>1, <2>1, <2>2
<1>5. CopyInPlace'
  BY <1>1 DEF CopyInPlace, Copying
<1>6. IsSequence(gathered)'
  BY <1>4 DEF IsSequence
<1>7. OutputsInPlace'
  BY <1>1, <1>4, <1>6 DEF OutputsInPlace
<1> QED
  BY <1>1, <1>5, <1>7 DEF IInv, Given, NoInvariantFailure, Fresh, RunsInOrder, NodesInPlace, TupleInPlace

(* TakeOutput: a root delivers a value of its own, or a copy of an         *)
(* argument.                                                               *)
LEMMA OutputIsTaken ==
  ASSUME IInv, TakeOutput
  PROVE  LET r == program.roots[Len(gathered) + 1]
         IN /\ r \in Indices(program) /\ Len(gathered) + 1 \in DOMAIN program.roots
            /\ \/ /\ slots[r].kind = "Owned" /\ SlotFits(program, r, slots[r])
                  /\ Collect(slots[r].value, [slots EXCEPT ![r] = Empty])
               \/ /\ slots[r].kind # "Owned"
                  /\ \E t \in Indices(program) :
                       IsParameter(program, t) /\ StartCopy(program.arguments[Node(t).count], slots)
<1> DEFINE k == Len(gathered) + 1
           r == program.roots[k]
<1>1. stage = "Outputs" /\ copy = NoCopy /\ Len(gathered) < Len(program.roots)
  BY DEF TakeOutput
<1>2. /\ Given /\ IsSequence(gathered) /\ AllFit(program, slots)
      /\ \A i \in Indices(program) : IsParameter(program, i) => slots[i] # Empty
      /\ \A l \in DOMAIN program.roots : l > TakenCount => slots[program.roots[l]] # Empty
      /\ Len(gathered) \in Nat
  BY <1>1 DEF IInv, OutputsInPlace, IsSequence
<1>3. TakenCount = Len(gathered)
  BY <1>1, <1>2 DEF TakenCount
<1>4. IsProgram(program) /\ Verified(program) /\ AsLowered(program) /\ Ownership(program)
  BY <1>2, GivenIsVerified DEF Verified
<1>5. k \in DOMAIN program.roots /\ k > Len(gathered) /\ k \in Nat
  <2>1. program.roots \in Seq(Nat)
    BY <1>4 DEF IsProgram
  <2> QED
    BY <1>1, <1>2, <2>1
<1>6. r \in Indices(program) /\ slots[r] # Empty
  BY <1>2, <1>3, <1>4, <1>5 DEF Verified, Postorder
<1>7. k \in RootsAt(program, r)
  BY <1>5 DEF RootsAt
<1>8. SlotFits(program, r, slots[r])
  BY <1>2, <1>6 DEF AllFit
<1> DEFINE at == Resolve(slots, r)
<1>9. /\ slots[at].kind = "Owned" => Collect(slots[at].value, [slots EXCEPT ![at] = Empty])
      /\ slots[at].kind = "Borrowed" => StartCopy(ValueIn(slots[at]), slots)
  BY DEF TakeOutput
<1> HIDE DEF r, k
<1>10. at = IF slots[r].kind = "Alias" THEN Resolve(slots, slots[r].node) ELSE r
  <2>1. /\ Indices(program) = 1 .. Len(program.nodes) /\ Len(program.nodes) \in Nat
        /\ DOMAIN slots = 1 .. Len(program.nodes) /\ PointsBack(slots, Len(program.nodes))
    BY <1>2, <1>4, FittingPointsBack
  <2>2. r \in 1 .. Len(program.nodes)
    BY <1>6, <2>1
  <2> QED
    BY <2>1, <2>2, ResolveStep
<1>11. ~Borrows(program, r)
  <2>1. SUFFICES ASSUME Borrows(program, r) PROVE FALSE
    OBVIOUS
  <2>2. PICK j \in Consumers(program, r) : program.releases[r] = AtNode(j)
    BY <1>4, <1>6, <2>1, BorrowIsReleased
  <2>3. j \in Indices(program)
    BY <1>4, ConsumerHasEdge
  <2>4. RootsAt(program, r) = {}
    BY <1>4, <1>6, <2>2, <2>3, ReleaseIsLate
  <2> QED
    BY <1>7, <2>4
<1> HIDE DEF at
<1>12. CASE slots[r].kind = "Owned"
  <2>1. Collect(slots[r].value, [slots EXCEPT ![r] = Empty])
    BY <1>9, <1>10, <1>12
  <2> QED
    BY <1>5, <1>6, <1>8, <1>12, <2>1 DEF r, k
<1>13. ASSUME NEW t \in Indices(program), IsParameter(program, t), slots[t] # Empty, at = t,
              slots[r].kind # "Owned"
       PROVE  StartCopy(program.arguments[Node(t).count], slots)
  <2>1. slots[at].kind = "Borrowed" /\ ValueIn(slots[at]) = program.arguments[Node(t).count]
    BY <1>2, <1>13, ParameterIsBorrowed
  <2> QED
    BY <1>9, <2>1
<1>14. CASE IsParameter(program, r)
  <2>1. slots[r].kind = "Borrowed"
    BY <1>2, <1>6, <1>14, ParameterIsBorrowed
  <2>2. at = r
    BY <1>10, <2>1
  <2>3. StartCopy(program.arguments[Node(r).count], slots)
    BY <1>6, <1>13, <1>14, <2>1, <2>2
  <2> QED
    BY <1>5, <1>6, <1>14, <2>1, <2>3 DEF r, k
<1>15. CASE slots[r].kind = "Alias" /\ ~IsParameter(program, r)
  <2> DEFINE t == slots[r].node
  <2>1. t \in 1 .. r - 1 /\ IsParameter(program, t)
    BY <1>6, <1>8, <1>11, <1>15 DEF SlotFits
  <2>2. t \in Indices(program)
    BY <1>2, <1>6, <2>1, GivenIsVerified
  <2> HIDE DEF t
  <2>3. slots[t] # Empty /\ Resolve(slots, t) = t
    BY <1>2, <2>1, <2>2, ParameterIsBorrowed
  <2>4. at = t
    BY <1>10, <1>15, <2>3 DEF t
  <2>5. StartCopy(program.arguments[Node(t).count], slots)
    BY <1>13, <1>15, <2>1, <2>2, <2>3, <2>4
  <2> QED
    BY <1>5, <1>6, <1>15, <2>1, <2>2, <2>5 DEF r, k
<1> QED
  BY <1>6, <1>8, <1>12, <1>14, <1>15 DEF SlotFits

(* It is in place afterwards: no root is delivered twice.                  *)
LEMMA TakeOutputKeeps ==
  ASSUME IInv, TakeOutput
  PROVE  IInv'
<1> DEFINE k == Len(gathered) + 1
           r == program.roots[k]
           s == [slots EXCEPT ![r] = Empty]
<1>1. stage = "Outputs" /\ copy = NoCopy /\ Len(gathered) < Len(program.roots)
  BY DEF TakeOutput
<1>2. /\ Given /\ IsSequence(gathered) /\ AllFit(program, slots)
      /\ \A i \in Indices(program) : IsParameter(program, i) => slots[i] # Empty
      /\ \A l \in DOMAIN program.roots : l > TakenCount => slots[program.roots[l]] # Empty
      /\ Len(gathered) \in Nat
  BY <1>1 DEF IInv, OutputsInPlace, IsSequence
<1>3. TakenCount = Len(gathered)
  BY <1>1, <1>2 DEF TakenCount
<1>4. IsProgram(program) /\ Verified(program) /\ AsLowered(program) /\ Ownership(program)
  BY <1>2, GivenIsVerified DEF Verified
<1>5. k \in DOMAIN program.roots /\ k > Len(gathered) /\ k \in Nat /\ Len(gathered) + 1 <= Len(program.roots)
      /\ DOMAIN program.roots \subseteq Nat
  <2>1. program.roots \in Seq(Nat)
    BY <1>4 DEF IsProgram
  <2> QED
    BY <1>1, <1>2, <2>1
<1>6. /\ r \in Indices(program)
      /\ \/ /\ slots[r].kind = "Owned" /\ SlotFits(program, r, slots[r])
            /\ Collect(slots[r].value, s)
         \/ \E t \in Indices(program) : StartCopy(program.arguments[Node(t).count], slots)
  BY OutputIsTaken
<1>7. k \in RootsAt(program, r)
  BY <1>5 DEF RootsAt
<1>8. \A l \in DOMAIN program.roots : l > Len(gathered) + 1 => slots[program.roots[l]] # Empty
  BY <1>2, <1>3, <1>5
<1> HIDE DEF r, k
<1>9. CASE slots[r].kind = "Owned" /\ SlotFits(program, r, slots[r]) /\ Collect(slots[r].value, s)
  <2>1. DOMAIN slots = Indices(program)
    BY <1>2 DEF AllFit
  <2>2. s = [i \in Indices(program) |-> s[i]] /\ \A i \in Indices(program) : s[i] = IF i = r THEN Empty ELSE slots[i]
    BY <2>1
  <2> HIDE DEF s
  <2>3. AllFit(program, s)
    <3>1. \A i \in Indices(program) : SlotFits(program, i, Empty)
      BY DEF SlotFits
    <3> QED
      BY <1>2, <2>2, <3>1 DEF AllFit
  <2>4. ~IsParameter(program, r)
    BY <1>9 DEF SlotFits, Empty
  <2>5. \A i \in Indices(program) : IsParameter(program, i) => s[i] # Empty
    BY <1>2, <2>2, <2>4
  <2>6. ASSUME NEW l \in DOMAIN program.roots, l > Len(gathered) + 1
        PROVE  s[program.roots[l]] # Empty
    <3>1. l > TakenCount /\ l # k
      BY <1>2, <1>3, <1>5, <2>6 DEF k
    <3>2. program.roots[l] # r
      <4>1. \A a, b \in RootsAt(program, r) : a = b
        BY <1>4, <1>6, <2>4, OneSink
      <4> QED
        BY <1>7, <3>1, <4>1 DEF RootsAt
    <3>3. program.roots[l] \in Indices(program)
      BY <1>4 DEF Verified, Postorder
    <3> QED
      BY <1>2, <2>2, <3>1, <3>2, <3>3
  <2> QED
    BY <1>1, <1>5, <1>9, <2>3, <2>5, <2>6, OutputKeeps
<1>10. CASE \E t \in Indices(program) : StartCopy(program.arguments[Node(t).count], slots)
  BY <1>1, <1>2, <1>5, <1>8, <1>10, OutputKeeps
<1> QED
  BY <1>6, <1>9, <1>10

(* Once the outputs are taken, or the evaluation has failed.               *)
LEMMA EndKeeps ==
  ASSUME IInv, Deliver \/ Unwind \/ CleanupSlot \/ CleanupDone \/ ReturnArgument \/ Finish
  PROVE  IInv'
<1>1. copy = NoCopy
  BY DEF IInv, CopyInPlace, Deliver, Unwind, CleanupSlot, CleanupDone, ReturnArgument, Finish
<1>2. /\ program' = program /\ error' = error /\ copy' = copy
      /\ stage' \in {"Return", "Unwind", "Cleanup", "Done"}
  BY DEF Deliver, Unwind, CleanupSlot, CleanupDone, ReturnArgument, Finish
<1> QED
  BY <1>1, <1>2 DEF IInv, Given, NoInvariantFailure, CopyInPlace, Fresh, RunsInOrder, NodesInPlace,
     TupleInPlace, OutputsInPlace

(* A step of the evaluation, or none.                                      *)
LEMMA NextKeepsInPlace ==
  ASSUME IInv, [Next]_vars
  PROVE  IInv'
<1>1. CASE UNCHANGED vars
  BY <1>1 DEF vars, IInv, Given, NoInvariantFailure, CopyInPlace, Fresh, RunsInOrder, NodesInPlace,
     TupleInPlace, OutputsInPlace, TakenCount, ChildrenTaken, At, NodeCount
<1>2. CASE Next
  <2>1. Begin \/ AdmitArgument \/ EnterNodes => IInv'
    BY BeginKeeps, AdmitArgumentKeeps, EnterNodesKeeps
  <2>2. ReserveFails \/ ExecuteConstant \/ ExecuteParameter \/ ExecuteHandover => IInv'
    BY ReserveFailsKeeps, ExecuteConstantKeeps, ExecuteParameterKeeps, ExecuteHandoverKeeps
  <2>3. ExecuteFormat \/ ExecuteApply \/ ExecuteFanOut => IInv'
    BY ExecuteFormatKeeps, ExecuteApplyKeeps, ExecuteFanOutKeeps
  <2>4. BeginTuple \/ TakeChild \/ CopyNext \/ CopyReserveFails \/ CopyDone \/ EndTuple => IInv'
    BY BeginTupleKeeps, TakeChildKeeps, CopyNextKeeps, CopyReserveFailsKeeps, CopyDoneKeeps, EndTupleKeeps
  <2>5. EnterOutputs \/ TakeOutput => IInv'
    BY EnterOutputsKeeps, TakeOutputKeeps
  <2>6. Deliver \/ Unwind \/ CleanupSlot \/ CleanupDone \/ ReturnArgument \/ Finish => IInv'
    BY EndKeeps
  <2> QED
    BY <1>2, <2>1, <2>2, <2>3, <2>4, <2>5, <2>6 DEF Next
<1> QED
  BY <1>1, <1>2

(* The state before every node is told by the program.                     *)
THEOREM StateIsInPlace ==
  Spec /\ AsLowered(program) => []IInv
<1>1. Init /\ AsLowered(program) => IInv
  BY InitIsInPlace
<1>2. IInv /\ [Next]_vars => IInv'
  BY NextKeepsInPlace
<1> QED
  BY <1>1, <1>2, PTL DEF Spec

(* An evaluation of a program lowered from source never ends with an       *)
(* execution invariant error: no slot is read or taken after its value was *)
(* moved or released, and none is filled twice (execution_invariant_error, *)
(* all through the interpreter).                                           *)
THEOREM NeverAnInvariantFailure ==
  Spec /\ AsLowered(program) => []NoInvariantFailure
<1>1. IInv => NoInvariantFailure
  BY DEF IInv
<1> QED
  BY <1>1, StateIsInPlace, PTL

(* Between two nodes, every alias in a slot leads to a value (slot_value). *)
THEOREM NeverADanglingAlias ==
  Spec /\ AsLowered(program) => []NoDanglingAlias
<1>1. ASSUME IInv
      PROVE  NoDanglingAlias
  <2>1. SUFFICES ASSUME stage \in {"Nodes", "Tuple"}, copy = NoCopy, gathered = <<>>,
                        NEW i \in Indices(program), slots[i].kind = "Alias"
                 PROVE  HasValue(slots, i)
    BY DEF NoDanglingAlias
  <2>2. Given
    BY <1>1 DEF IInv
  <2>3. Holds(program, slots, At, {}) /\ At \in Nat
    <3>1. CASE stage = "Nodes"
      <4>1. Len(agenda) \in 0 .. NodeCount /\ NodeCount \in Nat
        BY <1>1, <2>2, <3>1, GivenIsVerified DEF IInv, RunsInOrder, NodeCount
      <4>2. At \in Nat
        BY <4>1 DEF At
      <4> QED
        BY <1>1, <3>1, <4>2 DEF IInv, NodesInPlace
    <3>2. CASE stage = "Tuple"
      <4>1. Holds(program, slots, At, ChildrenTaken(TakenCount)) /\ At \in Nat
        BY <1>1, <3>2, TupleHolds
      <4>2. TakenCount = 0
        BY <2>1 DEF TakenCount
      <4>3. ChildrenTaken(0) = {}
        BY DEF ChildrenTaken
      <4> QED
        BY <4>1, <4>2, <4>3
    <3> QED
      BY <2>1, <3>1, <3>2
  <2>4. Grounded(slots) /\ AllFit(program, slots)
    BY <2>2, <2>3, AliasesStand DEF Holds
  <2>5. slots[i] # Empty
    BY <2>1 DEF Empty
  <2> QED
    BY <2>2, <2>4, <2>5, ValueIsThere
<1> QED
  BY <1>1, StateIsInPlace, PTL

(***************************************************************************)
(* What nodes mean.                                                        *)
(***************************************************************************)
MeaningOf(p) == Abstract!MeaningOfNodes(p)

(* What an edge reads, if g is what the nodes mean.                        *)
ReadIn(p, g, e) ==
  LET m == g[e.producer]
      type == TypeOf(p, e.producer)
  IN IF /\ e.access \in {"TupleElement", "BindingBorrowElement", "ConnectedBindingElement"}
        /\ type.tag = "tuple"
     THEN m.operands[e.element + 1] ELSE m

(* What the edges of node i read.                                          *)
OperandsIn(p, g, i) == [k \in DOMAIN EdgesOf(p, i) |-> ReadIn(p, g, EdgesOf(p, i)[k])]

(* What node i means, if g is what the earlier ones mean.                  *)
MeaningIn(p, g, i) ==
  CASE KindOf(p, i) = "ParameterBorrow" -> p.arguments[p.nodes[i].count].label
    [] KindOf(p, i) \in HandoverKind -> OperandsIn(p, g, i)[1]
    [] KindOf(p, i) = "TupleConstruct" -> Label(0, OperandsIn(p, g, i))
    [] KindOf(p, i) = "FanOut" ->
         Label(0, [b \in DOMAIN Branches(p, i) |-> g[Branches(p, i)[b].root]])
    [] OTHER -> Label(i, OperandsIn(p, g, i))

(* The equation of the recursion, for the first m nodes.                   *)
Solves(p, g, m) == g = [i \in 1 .. m |-> MeaningIn(p, g, i)]

(* MeaningOfNodes is this recursion.                                       *)
LEMMA MeaningIsChosen ==
  ASSUME NEW p
  PROVE  MeaningOf(p) = CHOOSE g : g = [i \in Indices(p) |-> MeaningIn(p, g, i)]
BY DEF MeaningOf, Abstract!MeaningOfNodes, Abstract!Indices, Abstract!TypeOf, Abstract!HandoverKind,
   Abstract!Label, MeaningIn, OperandsIn, ReadIn, Indices, TypeOf, KindOf, EdgesOf, Branches,
   HandoverKind, Label

(* It looks at earlier nodes only.                                         *)
LEMMA MeaningLooksBack ==
  ASSUME NEW p, IsProgram(p), Verified(p), NEW i \in Indices(p), NEW g, NEW h,
         \A j \in 1 .. i - 1 : g[j] = h[j]
  PROVE  MeaningIn(p, g, i) = MeaningIn(p, h, i)
<1>1. \A k \in DOMAIN EdgesOf(p, i) : EdgesOf(p, i)[k].producer \in 1 .. i - 1
  BY EdgeIsVerified
<1>2. \A k \in DOMAIN EdgesOf(p, i) : ReadIn(p, g, EdgesOf(p, i)[k]) = ReadIn(p, h, EdgesOf(p, i)[k])
  BY <1>1 DEF ReadIn
<1>3. OperandsIn(p, g, i) = OperandsIn(p, h, i)
  BY <1>2 DEF OperandsIn
<1>4. CASE KindOf(p, i) = "FanOut"
  <2>1. i \in FanOuts(p) /\ i \in Nat
    BY <1>4, NumberedFromOne DEF FanOuts
  <2>2. \A b \in DOMAIN Branches(p, i) : Branches(p, i)[b].root \in 1 .. i - 1
    <3> TAKE b \in DOMAIN Branches(p, i)
    <3>1. Branches(p, i)[b].root \in Indices(p) /\ Branches(p, i)[b].root < i
      BY <2>1, RootedIsApplication
    <3> QED
      BY <2>1, <3>1, NumberedFromOne
  <2>3. \A b \in DOMAIN Branches(p, i) : g[Branches(p, i)[b].root] = h[Branches(p, i)[b].root]
    BY <2>2
  <2> QED
    BY <1>4, <2>3 DEF MeaningIn, HandoverKind
<1>5. CASE KindOf(p, i) # "FanOut"
  BY <1>3, <1>5 DEF MeaningIn
<1> QED
  BY <1>4, <1>5

(* So it has a solution, and MeaningOfNodes is one.                        *)
LEMMA MeaningSolves ==
  ASSUME NEW p, IsProgram(p), Verified(p)
  PROVE  \A i \in Indices(p) : MeaningOf(p)[i] = MeaningIn(p, MeaningOf(p), i)
<1> DEFINE n == Len(p.nodes)
           T == {m \in 0 .. n : \E g : Solves(p, g, m)}
<1>0. n \in Nat /\ Indices(p) = 1 .. n
  BY NumberedFromOne
<1> HIDE DEF n
<1>1. 0 \in T
  <2>1. Solves(p, [i \in 1 .. 0 |-> 0], 0)
    BY DEF Solves
  <2> QED
    BY <1>0, <2>1
<1>2. ASSUME NEW m \in 0 .. n - 1, m \in T PROVE m + 1 \in T
  <2>1. PICK g : Solves(p, g, m)
    BY <1>2
  <2> DEFINE h == [i \in 1 .. m + 1 |-> IF i = m + 1 THEN MeaningIn(p, g, i) ELSE g[i]]
  <2>2. g = [i \in 1 .. m |-> MeaningIn(p, g, i)]
    BY <2>1 DEF Solves
  <2>3. \A i \in 1 .. m : g[i] = MeaningIn(p, g, i)
    BY <2>2
  <2>4. \A j \in 1 .. m : h[j] = g[j]
    BY <1>0
  <2>5. \A i \in 1 .. m + 1 : h[i] = MeaningIn(p, g, i)
    BY <1>0, <2>3
  <2>6. h = [i \in 1 .. m + 1 |-> h[i]]
    OBVIOUS
  <2> HIDE DEF h
  <2>7. \A i \in 1 .. m + 1 : MeaningIn(p, g, i) = MeaningIn(p, h, i)
    <3> TAKE i \in 1 .. m + 1
    <3>1. i \in Indices(p) /\ \A j \in 1 .. i - 1 : j \in 1 .. m
      BY <1>0
    <3>2. \A j \in 1 .. i - 1 : g[j] = h[j]
      BY <2>4, <3>1
    <3> QED
      BY <3>1, <3>2, MeaningLooksBack
  <2>8. Solves(p, h, m + 1)
    BY <2>5, <2>6, <2>7 DEF Solves
  <2>9. m + 1 \in 0 .. n
    BY <1>0
  <2> QED
    BY <2>8, <2>9
<1>3. n \in T
  <2> HIDE DEF T
  <2>1. 0 .. n \subseteq T
    BY <1>0, <1>1, <1>2, InductionUpTo
  <2> QED
    BY <1>0, <2>1
<1>4. \E g : g = [i \in Indices(p) |-> MeaningIn(p, g, i)]
  BY <1>0, <1>3 DEF Solves
<1>5. MeaningOf(p) = [i \in Indices(p) |-> MeaningIn(p, MeaningOf(p), i)]
  BY <1>4, MeaningIsChosen
<1> QED
  BY <1>5

(* The meaning of a node, told by those of its operands.                   *)
LEMMA MeaningIs ==
  ASSUME NEW p, IsProgram(p), Verified(p), NEW i \in Indices(p)
  PROVE  LET M == MeaningOf(p)
             edges == EdgesOf(p, i)
         IN /\ KindOf(p, i) = "ParameterBorrow" => M[i] = p.arguments[p.nodes[i].count].label
            /\ KindOf(p, i) \in HandoverKind => M[i] = M[Handed(p, i)]
            /\ KindOf(p, i) = "TupleConstruct" =>
                 M[i] = Label(0, [k \in DOMAIN edges |-> M[edges[k].producer]])
            /\ KindOf(p, i) = "FanOut" =>
                 M[i] = Label(0, [b \in DOMAIN Branches(p, i) |-> M[Branches(p, i)[b].root]])
            /\ KindOf(p, i) = "Constant" => M[i] = Label(i, <<>>)
            /\ KindOf(p, i) \in {"Format", "SelectedApply"} =>
                 M[i] = Label(i, OperandsIn(p, M, i))
<1> DEFINE M == MeaningOf(p)
           edges == EdgesOf(p, i)
<1>1. M[i] = MeaningIn(p, M, i)
  BY MeaningSolves
<1>2. NodeShape(p, i)
  BY DEF Verified
<1> HIDE DEF M
<1>3. KindOf(p, i) = "ParameterBorrow" => M[i] = p.arguments[p.nodes[i].count].label
  BY <1>1 DEF MeaningIn, HandoverKind
<1>4. ASSUME KindOf(p, i) \in HandoverKind
      PROVE  M[i] = M[Handed(p, i)]
  <2>1. Len(edges) = 1
        /\ edges[1].access \in {"WholeValue", "FanOutOperandBorrow", "BindingBorrowWhole", "BindingMove"}
    BY <1>2, <1>4 DEF NodeShape, HandsOver, HandoverKind, OperandAccess
  <2>2. 1 \in DOMAIN edges
    <3>1. edges \in Seq(EdgeRecords)
      BY NumberedFromOne
    <3> QED
      BY <2>1, <3>1
  <2>3. OperandsIn(p, M, i)[1] = ReadIn(p, M, edges[1])
    BY <2>2 DEF OperandsIn
  <2>4. ReadIn(p, M, edges[1]) = M[Handed(p, i)]
    BY <2>1 DEF ReadIn, Handed
  <2>5. M[i] = OperandsIn(p, M, i)[1]
    BY <1>1, <1>4 DEF MeaningIn, HandoverKind
  <2> QED
    BY <2>3, <2>4, <2>5
<1>5. ASSUME KindOf(p, i) = "TupleConstruct"
      PROVE  M[i] = Label(0, [k \in DOMAIN edges |-> M[edges[k].producer]])
  <2>1. \A k \in DOMAIN edges : edges[k].access \in {"WholeValue", "BindingMove"}
    BY <1>2, <1>5 DEF NodeShape
  <2>2. \A k \in DOMAIN edges : ReadIn(p, M, edges[k]) = M[edges[k].producer]
    BY <2>1 DEF ReadIn
  <2>3. OperandsIn(p, M, i) = [k \in DOMAIN edges |-> M[edges[k].producer]]
    BY <2>2 DEF OperandsIn
  <2>4. M[i] = Label(0, OperandsIn(p, M, i))
    BY <1>1, <1>5 DEF MeaningIn, HandoverKind
  <2> QED
    BY <2>3, <2>4
<1>6. KindOf(p, i) = "FanOut" =>
        M[i] = Label(0, [b \in DOMAIN Branches(p, i) |-> M[Branches(p, i)[b].root]])
  BY <1>1 DEF MeaningIn, HandoverKind
<1>7. KindOf(p, i) \in {"Constant", "Format", "SelectedApply"} => M[i] = Label(i, OperandsIn(p, M, i))
  BY <1>1 DEF MeaningIn, HandoverKind
<1>8. KindOf(p, i) = "Constant" => OperandsIn(p, M, i) = <<>>
  <2>1. KindOf(p, i) = "Constant" => edges = <<>>
    BY <1>2 DEF NodeShape
  <2> QED
    BY <2>1 DEF OperandsIn
<1> QED
  BY <1>3, <1>4, <1>5, <1>6, <1>7, <1>8 DEF M

(***************************************************************************)
(* What slots hold.                                                        *)
(***************************************************************************)
(* A value means what a label says; the elements of a tuple, what the      *)
(* label says of its operands.                                             *)
Means(value, label) ==
  /\ value.label = label
  /\ value.tag = "tuple" =>
       \A k \in 1 .. Len(value.elems) : value.elems[k].label = label.operands[k]

(* A slot means what its node means,                                       *)
SlotMeans(p, i, slot) ==
  /\ slot.kind = "Alias" => MeaningOf(p)[slot.node] = MeaningOf(p)[i]
  /\ slot.kind = "Owned" => Means(slot.value, MeaningOf(p)[i])

(* and so do all.                                                          *)
AllMean(p, s) ==
  /\ AllFit(p, s)
  /\ \A i \in Indices(p) : SlotMeans(p, i, s[i])

(* An emptied slot means nothing, so nothing wrong.                        *)
LEMMA EmptyMeans ==
  ASSUME NEW p, NEW i
  PROVE  SlotFits(p, i, Empty) /\ SlotMeans(p, i, Empty)
BY DEF SlotFits, SlotMeans, Empty

(* What is taken from slots that mean what they should leaves such slots.  *)
LEMMA RemovingKeepsMeaning ==
  ASSUME NEW p, NEW s, AllMean(p, s), NEW w, w = [i \in Indices(p) |-> w[i]],
         \A i \in Indices(p) : w[i] = s[i] \/ w[i] = Empty
  PROVE  AllMean(p, w)
BY EmptyMeans DEF AllMean, AllFit

(* Without, and the release of one slot, only take away.                   *)
LEMMA WithoutMeans ==
  ASSUME NEW p, NEW s, AllMean(p, s)
  PROVE  /\ \A X : AllMean(p, Without(s, X))
         /\ \A i : AllMean(p, [s EXCEPT ![i] = Empty])
<1>1. DOMAIN s = Indices(p) /\ s = [i \in Indices(p) |-> s[i]]
  BY DEF AllMean, AllFit
<1>2. ASSUME NEW X PROVE AllMean(p, Without(s, X))
  <2> DEFINE w == Without(s, X)
  <2>1. w = [i \in Indices(p) |-> IF i \in X THEN Empty ELSE s[i]]
    BY <1>1 DEF Without
  <2>2. w = [i \in Indices(p) |-> w[i]] /\ \A i \in Indices(p) : w[i] = s[i] \/ w[i] = Empty
    BY <2>1
  <2> HIDE DEF w
  <2> QED
    BY <2>2, RemovingKeepsMeaning DEF w
<1>3. ASSUME NEW i PROVE AllMean(p, [s EXCEPT ![i] = Empty])
  <2> DEFINE w == [s EXCEPT ![i] = Empty]
  <2>1. w = [j \in Indices(p) |-> w[j]] /\ \A j \in Indices(p) : w[j] = s[j] \/ w[j] = Empty
    BY <1>1
  <2> HIDE DEF w
  <2> QED
    BY <2>1, RemovingKeepsMeaning DEF w
<1> QED
  BY <1>2, <1>3

(* Putting a slot that means what its node does.                           *)
LEMMA PuttingKeepsMeaning ==
  ASSUME NEW p, NEW s, AllMean(p, s), NEW c \in Indices(p), NEW slot, SlotMeans(p, c, slot),
         NEW X, NEW w, w = Without([s EXCEPT ![c] = slot], X), AllFit(p, w)
  PROVE  AllMean(p, w)
<1>1. DOMAIN s = Indices(p)
  BY DEF AllMean, AllFit
<1>2. w = [i \in Indices(p) |-> IF i \in X THEN Empty ELSE IF i = c THEN slot ELSE s[i]]
  BY <1>1 DEF Without
<1>3. \A i \in Indices(p) : w[i] = IF i \in X THEN Empty ELSE IF i = c THEN slot ELSE s[i]
  BY <1>2
<1>4. \A i \in Indices(p) : SlotMeans(p, i, s[i])
  BY DEF AllMean
<1>5. \A i \in Indices(p) : SlotMeans(p, i, w[i])
  BY <1>3, <1>4, EmptyMeans
<1> QED
  BY <1>5 DEF AllMean

(* An argument means what its parameter does.                              *)
LEMMA ArgumentMeans ==
  ASSUME Given, NEW i \in Indices(program), IsParameter(program, i)
  PROVE  Means(program.arguments[Node(i).count], MeaningOf(program)[i])
<1>1. KindOf(program, i) = "ParameterBorrow"
  BY DEF IsParameter
<1>2. program.arguments[program.nodes[i].count].tag # "tuple"
  BY <1>1, GivenIsVerified DEF IsRunnable
<1>3. MeaningOf(program)[i] = program.arguments[program.nodes[i].count].label
  BY <1>1, GivenIsVerified, MeaningIs
<1> QED
  BY <1>2, <1>3 DEF Means, Node

(* Where there is a value behind a slot, it is what the node means.        *)
LEMMA ValueMeans ==
  ASSUME Given, NEW s, AllMean(program, s), NEW i \in Indices(program), HasValue(s, i)
  PROVE  Means(SlotValue(s, i), MeaningOf(program)[i])
<1> DEFINE n == Len(program.nodes)
           Bad == {j \in Indices(program) :
                     HasValue(s, j) /\ ~Means(SlotValue(s, j), MeaningOf(program)[j])}
<1>0. AllFit(program, s)
  BY DEF AllMean
<1>1. /\ Indices(program) = 1 .. n /\ n \in Nat /\ DOMAIN s = 1 .. n /\ PointsBack(s, n)
  BY <1>0, GivenIsVerified, FittingPointsBack
<1>2. SUFFICES ASSUME Bad # {} PROVE FALSE
  OBVIOUS
<1>3. PICK j \in Bad : \A k \in Bad : j <= k
  <2>1. Bad \in SUBSET Nat
    BY <1>1
  <2> HIDE DEF Bad
  <2> QED
    BY <1>2, <2>1, LeastNumber
<1>4. /\ j \in 1 .. n /\ j \in Indices(program) /\ HasValue(s, j)
      /\ ~Means(SlotValue(s, j), MeaningOf(program)[j])
      /\ SlotFits(program, j, s[j]) /\ SlotMeans(program, j, s[j])
  BY <1>1, <1>3 DEF AllMean, AllFit
<1>5. Resolve(s, j) = IF s[j].kind = "Alias" THEN Resolve(s, s[j].node) ELSE j
  <2> HIDE DEF n
  <2> QED
    BY <1>1, <1>4, ResolveStep
<1>6. CASE s[j].kind = "Alias"
  <2>1. s[j].node \in 1 .. j - 1
    BY <1>1, <1>4, <1>6 DEF PointsBack
  <2>2. s[j].node \in Indices(program) /\ ~(j <= s[j].node)
    BY <1>1, <1>4, <2>1
  <2>3. HasValue(s, s[j].node) /\ SlotValue(s, j) = SlotValue(s, s[j].node)
    BY <1>4, <1>5, <1>6 DEF HasValue, SlotValue
  <2>4. Means(SlotValue(s, s[j].node), MeaningOf(program)[s[j].node])
    BY <1>3, <2>2, <2>3
  <2>5. MeaningOf(program)[s[j].node] = MeaningOf(program)[j]
    BY <1>4, <1>6 DEF SlotMeans
  <2> QED
    BY <1>4, <2>3, <2>4, <2>5
<1>7. CASE s[j].kind = "Borrowed"
  <2>1. IsParameter(program, j) /\ s[j] # Empty
    BY <1>4, <1>7 DEF SlotFits, Empty
  <2>2. SlotValue(s, j) = program.arguments[Node(j).count]
    BY <1>0, <1>4, <2>1, ParameterIsBorrowed
  <2> QED
    BY <1>4, <2>1, <2>2, ArgumentMeans
<1>8. CASE s[j].kind = "Owned"
  <2>1. SlotValue(s, j) = s[j].value
    BY <1>5, <1>8 DEF SlotValue, ValueIn
  <2> QED
    BY <1>4, <1>8, <2>1 DEF SlotMeans
<1>9. s[j].kind \in {"Alias", "Borrowed", "Owned"}
  BY <1>4, <1>5 DEF HasValue
<1> QED
  BY <1>6, <1>7, <1>8, <1>9

(* What an edge of the node that runs reads is what it means.              *)
LEMMA EdgeMeans ==
  ASSUME Given, NEW c \in Indices(program), Holds(program, slots, c, {}), AllMean(program, slots),
         NEW k \in DOMAIN EdgesOf(program, c)
  PROVE  EdgeValue(EdgesOf(program, c)[k]).label
           = ReadIn(program, MeaningOf(program), EdgesOf(program, c)[k])
<1> DEFINE e == EdgesOf(program, c)[k]
           value == SlotValue(slots, e.producer)
           type == TypeOf(program, e.producer)
           m == MeaningOf(program)[e.producer]
<1>0. IsProgram(program) /\ Verified(program) /\ c \in Nat
  BY GivenIsVerified
<1>1. e \in EdgeRecords /\ e.producer \in Indices(program)
  BY <1>0, EdgeIsVerified
<1>2. Readable(e)
  BY EdgeIsReadable
<1>3. slots[e.producer] # Empty
  BY ProducerIsFilled
<1>4. Grounded(slots) /\ AllFit(program, slots)
  BY <1>0, AliasesStand DEF Holds
<1>5. e.element \in Nat
  BY <1>1, EdgeFields
<1>6. IsSequence(type.elems)
  BY <1>0, <1>1, NumberedFromOne DEF IsNode, TypeOf
<1>7. HasValue(slots, e.producer) /\ Conforms(value, type)
  <2> HIDE DEF e
  <2> QED
    BY <1>1, <1>3, <1>4, ValueIsThere
<1>8. Means(value, m)
  <2> HIDE DEF e
  <2> QED
    BY <1>1, <1>7, ValueMeans
<1>9. TakesElement(value, e) => value.tag = "tuple" /\ e.element < Len(value.elems)
  <2> HIDE DEF e
  <2> QED
    BY <1>2 DEF Readable
<1>10. EdgeValue(e) = IF TakesElement(value, e) THEN value.elems[e.element + 1] ELSE value
  BY DEF EdgeValue
<1>11. ReadIn(program, MeaningOf(program), e)
         = IF /\ e.access \in {"TupleElement", "BindingBorrowElement", "ConnectedBindingElement"}
              /\ type.tag = "tuple"
           THEN m.operands[e.element + 1] ELSE m
  BY DEF ReadIn
<1> HIDE DEF e, value, type, m
<1>12. CASE TakesElement(value, e)
  <2>1. value.tag = "tuple" /\ type.tag = "tuple" /\ Len(value.elems) = Len(type.elems)
    BY <1>7, <1>9, <1>12 DEF Conforms
  <2>2. Len(type.elems) \in Nat
    BY <1>6 DEF IsSequence
  <2>3. e.element + 1 \in 1 .. Len(value.elems)
    BY <1>5, <1>9, <1>12, <2>1, <2>2
  <2>4. value.elems[e.element + 1].label = m.operands[e.element + 1]
    BY <1>8, <2>1, <2>3 DEF Means
  <2>5. e.access \in {"TupleElement", "BindingBorrowElement", "ConnectedBindingElement"}
    BY <1>12 DEF TakesElement
  <2> QED
    BY <1>10, <1>11, <1>12, <2>1, <2>4, <2>5 DEF e
<1>13. CASE ~TakesElement(value, e)
  <2>1. /\ e.access \in {"TupleElement", "BindingBorrowElement", "ConnectedBindingElement"} =>
             e.access = "ConnectedBindingElement" /\ value.tag # "tuple"
    BY <1>13 DEF TakesElement
  <2>2. value.tag # "tuple" => type.tag # "tuple"
    BY <1>7 DEF Conforms
  <2>3. value.label = m
    BY <1>8 DEF Means
  <2> QED
    BY <1>10, <1>11, <1>13, <2>1, <2>2, <2>3 DEF e
<1> QED
  BY <1>12, <1>13

(* All edges of the node that runs.                                        *)
LEMMA OperandsMean ==
  ASSUME Given, NEW c \in Indices(program), Holds(program, slots, c, {}), AllMean(program, slots)
  PROVE  LabelsOf(Node(c).edges) = OperandsIn(program, MeaningOf(program), c)
<1>1. Node(c).edges = EdgesOf(program, c)
  BY DEF Node, EdgesOf
<1>2. \A k \in DOMAIN EdgesOf(program, c) :
        EdgeValue(EdgesOf(program, c)[k]).label
          = ReadIn(program, MeaningOf(program), EdgesOf(program, c)[k])
  BY EdgeMeans
<1> QED
  BY <1>1, <1>2 DEF LabelsOf, OperandsIn

(***************************************************************************)
(* The invariant.                                                          *)
(***************************************************************************)
(* The node whose value is collected k-th.                                 *)
Target(k) ==
  IF stage = "Outputs" THEN program.roots[k] ELSE EdgesOf(program, At)[k].producer

(* What was collected means what its nodes mean.                           *)
CollectedMean ==
  stage \in {"Tuple", "Outputs"} =>
    \A k \in 1 .. Len(gathered) : gathered[k].label = MeaningOf(program)[Target(k)]

(* A copy is of what the next node means.                                  *)
CopyMeans ==
  copy # NoCopy =>
    /\ "value" \in DOMAIN copy
    /\ copy.value.label = MeaningOf(program)[Target(Len(gathered) + 1)]

(* Who unwinds has an error to report.                                     *)
FailureIsTold == stage \in {"Unwind", "Cleanup"} => error # None

(* The results mean what was promised.                                     *)
ResultsMean ==
  stage \in {"Return", "Done"} /\ error = None =>
    Abstract!LabelsIn(results) = Abstract!Promised(program)

(* The inductive invariant.                                                *)
MInv ==
  /\ IInv
  /\ AllMean(program, slots)
  /\ CollectedMean /\ CopyMeans
  /\ FailureIsTold /\ ResultsMean

(* Failing tells why.                                                      *)
LEMMA ReasonsTell ==
  \A reason \in Reason : reason # None
BY ReasonAssumption

(* A failure leaves the slots, or takes something out of them.             *)
LEMMA FailMeans ==
  ASSUME MInv, IInv', copy = NoCopy, NEW s, AllMean(program, s),
         NEW reason \in Reason, NEW u, Fail(reason, u, s)
  PROVE  MInv'
<1>1. /\ program' = program /\ slots' = s /\ error' = reason /\ copy' = NoCopy
      /\ stage' = "Cleanup"
  BY DEF Fail
<1>2. reason # None
  BY ReasonsTell
<1>3. AllMean(program, slots)'
  BY <1>1
<1>4. CopyMeans'
  BY <1>1 DEF CopyMeans, NoCopy
<1> QED
  BY <1>1, <1>2, <1>3, <1>4 DEF MInv, CollectedMean, FailureIsTold, ResultsMean

(* The same where something has been collected.                            *)
LEMMA GiveUpMeans ==
  ASSUME MInv, IInv', NEW s, AllMean(program, s),
         NEW reason \in Reason, NEW u, GiveUp(reason, u, s)
  PROVE  MInv'
<1>1. /\ program' = program /\ slots' = s /\ error' = reason /\ copy' = NoCopy
      /\ stage' = "Unwind"
  BY DEF GiveUp
<1>2. reason # None
  BY ReasonsTell
<1>3. AllMean(program, slots)'
  BY <1>1
<1>4. CopyMeans'
  BY <1>1 DEF CopyMeans, NoCopy
<1> QED
  BY <1>1, <1>2, <1>3, <1>4 DEF MInv, CollectedMean, FailureIsTold, ResultsMean

(* Where a node is done, its slot means what it should.                    *)
LEMMA DoneMeans ==
  ASSUME MInv, IInv', stage \in {"Nodes", "Tuple"}, agenda # <<>>, copy = NoCopy,
         NEW s, AllMean(program, s), NEW slot, SlotMeans(program, At, slot), NEW X,
         program' = program, slots' = Without([s EXCEPT ![At] = slot], X),
         stage' = "Nodes", copy' = copy
  PROVE  MInv'
<1>1. Given /\ RunsInOrder
  BY DEF MInv, IInv
<1>2. At \in Indices(program)
  BY <1>1, AgendaHead
<1>3. AllFit(program, slots')
  BY DEF IInv, NodesInPlace, Holds
<1>4. AllMean(program, slots')
  BY <1>2, <1>3, PuttingKeepsMeaning
<1>5. AllMean(program, slots)'
  BY <1>4
<1>6. CopyMeans'
  BY DEF CopyMeans, NoCopy
<1> QED
  BY <1>5, <1>6 DEF MInv, CollectedMean, FailureIsTold, ResultsMean

(* put_slot, with or without release_after.                                *)
LEMMA PutMeans ==
  ASSUME MInv, IInv', stage = "Nodes", agenda # <<>>,
         NEW s, AllMean(program, s), NEW slot, SlotMeans(program, At, slot),
         NEW u, PutThenRelease(slot, u, s) \/ PutOnly(slot, u, s)
  PROVE  MInv'
<1>0. Given /\ At \in Indices(program) /\ Current = At /\ copy = NoCopy
  BY NodesHold DEF MInv
<1>1. CASE Fail("Invariant", u, s)
  BY <1>0, <1>1, FailMeans DEF Reason
<1>2. CASE \E v, X : Proceed(v, Without([s EXCEPT ![At] = slot], X))
  <2>1. PICK v, X : Proceed(v, Without([s EXCEPT ![At] = slot], X))
    BY <1>2
  <2>2. /\ program' = program /\ slots' = Without([s EXCEPT ![At] = slot], X)
        /\ stage' = "Nodes" /\ copy' = copy
    BY <2>1 DEF Proceed
  <2> QED
    BY <1>0, <2>2, DoneMeans
<1>3. [s EXCEPT ![At] = slot] = Without([s EXCEPT ![At] = slot], {})
  BY DEF Without
<1>4. PutThenRelease(slot, u, s) =>
        \/ Fail("Invariant", u, s)
        \/ \E v, X : Proceed(v, Without([s EXCEPT ![At] = slot], X))
  BY <1>0 DEF PutThenRelease, ReleaseAfter
<1>5. PutOnly(slot, u, s) =>
        \/ Fail("Invariant", u, s)
        \/ \E v, X : Proceed(v, Without([s EXCEPT ![At] = slot], X))
  BY <1>0, <1>3 DEF PutOnly
<1> QED
  BY <1>1, <1>2, <1>4, <1>5

(* Before node At runs.                                                    *)
LEMMA NodeMeans ==
  ASSUME MInv, stage = "Nodes", agenda # <<>>
  PROVE  /\ Given /\ At \in Indices(program) /\ Current = At
         /\ Holds(program, slots, At, {}) /\ AllFit(program, slots) /\ AllMean(program, slots)
         /\ copy = NoCopy
         /\ \A reason \in Reason : \A u : Fail(reason, u, slots) /\ IInv' => MInv'
<1>1. /\ Given /\ At \in Indices(program) /\ Current = At
      /\ Holds(program, slots, At, {}) /\ AllFit(program, slots) /\ copy = NoCopy
  BY NodesHold DEF MInv
<1>2. AllMean(program, slots)
  BY DEF MInv
<1> QED
  BY <1>1, <1>2, FailMeans

(* An owned value of no tuple means what its label says.                   *)
LEMMA PlainMeans ==
  ASSUME NEW p, NEW i, NEW tag, tag # "tuple", NEW own, NEW label, label = MeaningOf(p)[i],
         NEW accounted
  PROVE  SlotMeans(p, i, Owned(Plain(tag, own, label), accounted))
BY DEF SlotMeans, Owned, Plain, Means

(* An owned tuple means what its elements say.                             *)
LEMMA TupleMeans ==
  ASSUME NEW p, NEW i, NEW elems, DOMAIN elems = 1 .. Len(elems),
         MeaningOf(p)[i] = Label(0, [k \in DOMAIN elems |-> elems[k].label]), NEW accounted
  PROVE  SlotMeans(p, i, Owned(TupleValue(elems), accounted))
<1>1. TupleValue(elems).elems = elems /\ TupleValue(elems).label = MeaningOf(p)[i]
  BY DEF TupleValue
<1>2. MeaningOf(p)[i].operands = [k \in DOMAIN elems |-> elems[k].label]
  BY DEF Label
<1>3. \A k \in 1 .. Len(elems) : elems[k].label = MeaningOf(p)[i].operands[k]
  BY <1>2
<1>4. Means(TupleValue(elems), MeaningOf(p)[i])
  BY <1>1, <1>3 DEF Means
<1> QED
  BY <1>4 DEF SlotMeans, Owned

(* ExecuteConstant.                                                        *)
LEMMA ConstantMeans ==
  ASSUME MInv, IInv', ExecuteConstant
  PROVE  MInv'
<1> DEFINE node  == Node(Current)
           value == Plain(node.type.tag, node.count, Label(Current, <<>>))
           d     == ConstantDecision(node)
<1>1. stage = "Nodes" /\ agenda # <<>> /\ Node(Current).kind = "Constant"
  BY DEF ExecuteConstant, Executing
<1>2. /\ Given /\ At \in Indices(program) /\ Current = At /\ AllMean(program, slots)
      /\ \A reason \in Reason : \A u : Fail(reason, u, slots) /\ IInv' => MInv'
  BY <1>1, NodeMeans
<1>3. KindOf(program, At) = "Constant" /\ TypeOf(program, At) = node.type
  BY <1>1, <1>2 DEF Node, KindOf, TypeOf
<1>4. node.type.tag # "tuple"
  BY <1>2, <1>3, GivenIsVerified DEF IsRunnable, IsCharge
<1>5. MeaningOf(program)[At] = Label(At, <<>>)
  BY <1>2, <1>3, GivenIsVerified, MeaningIs
<1>6. \A accounted : SlotMeans(program, At, Owned(value, accounted))
  BY <1>2, <1>4, <1>5, PlainMeans
<1>7. \/ PutOnly(Owned(value, FALSE), usage, slots)
      \/ PutOnly(Owned(value, node.count # 0), d.usage, slots)
      \/ Fail("Host", Refund(d.usage, d.bytes), slots)
      \/ Fail("Resource", d.usage, slots)
  BY DEF ExecuteConstant, HostRefuses
<1> HIDE DEF value, d, node
<1>8. \A accounted, u : PutOnly(Owned(value, accounted), u, slots) => MInv'
  BY <1>1, <1>2, <1>6, PutMeans
<1> QED
  BY <1>2, <1>7, <1>8 DEF Reason

(* ExecuteParameter: a loan means what is lent.                            *)
LEMMA ParameterMeans ==
  ASSUME MInv, IInv', ExecuteParameter
  PROVE  MInv'
<1>1. /\ stage = "Nodes" /\ agenda # <<>>
      /\ PutOnly(Borrowed(Node(Current).count), usage, slots)
  BY DEF ExecuteParameter, Executing
<1>2. SlotMeans(program, At, Borrowed(Node(Current).count))
  BY DEF SlotMeans, Borrowed
<1> QED
  BY <1>1, <1>2, PutMeans DEF MInv

(* ExecuteHandover: what moves on, or is stood for, means the same.        *)
LEMMA HandoverMeans ==
  ASSUME MInv, IInv', ExecuteHandover
  PROVE  MInv'
<1> DEFINE e == Node(Current).edges[1]
           i == e.producer
<1>1. stage = "Nodes" /\ agenda # <<>> /\ Node(Current).kind \in HandoverKind
  BY DEF ExecuteHandover, Executing
<1>2. /\ Given /\ At \in Indices(program) /\ Current = At /\ AllMean(program, slots)
      /\ \A reason \in Reason : \A u : Fail(reason, u, slots) /\ IInv' => MInv'
  BY <1>1, NodeMeans
<1>3. KindOf(program, At) \in HandoverKind /\ i = Handed(program, At)
  BY <1>1, <1>2 DEF Node, KindOf, EdgesOf, Handed
<1>4. IsProgram(program) /\ Verified(program) /\ AsLowered(program)
  BY <1>2, GivenIsVerified
<1>5. i \in Indices(program)
  BY <1>2, <1>3, <1>4, HandoverMovesOrBorrows
<1>6. MeaningOf(program)[At] = MeaningOf(program)[i]
  <2>1. MeaningOf(program)[At] = MeaningOf(program)[Handed(program, At)]
    BY <1>2, <1>3, <1>4, MeaningIs
  <2> HIDE DEF i
  <2> QED
    BY <1>3, <2>1
<1>7. \/ PutThenRelease(slots[i], usage, [slots EXCEPT ![i] = Empty])
      \/ PutThenRelease(Alias(i), usage, slots)
      \/ Fail("Invariant", usage, slots)
  BY DEF ExecuteHandover
<1> HIDE DEF i, e
<1>8. SlotMeans(program, At, slots[i])
  <2>1. SlotMeans(program, i, slots[i])
    BY <1>2, <1>5 DEF AllMean
  <2> QED
    BY <1>6, <2>1 DEF SlotMeans
<1>9. SlotMeans(program, At, Alias(i))
  BY <1>6 DEF SlotMeans, Alias
<1>10. AllMean(program, [slots EXCEPT ![i] = Empty])
  BY <1>2, WithoutMeans
<1>11. PutThenRelease(slots[i], usage, [slots EXCEPT ![i] = Empty]) => MInv'
  BY <1>1, <1>8, <1>10, PutMeans
<1>12. PutThenRelease(Alias(i), usage, slots) => MInv'
  BY <1>1, <1>2, <1>9, PutMeans
<1> QED
  BY <1>2, <1>7, <1>11, <1>12 DEF Reason

(* ExecuteFormat: the text is that of its operands.                        *)
LEMMA FormatMeans ==
  ASSUME MInv, IInv', ExecuteFormat
  PROVE  MInv'
<1> DEFINE value(required) == Plain("string", required, Label(Current, LabelsOf(Node(Current).edges)))
<1>1. stage = "Nodes" /\ agenda # <<>> /\ Node(Current).kind = "Format"
  BY DEF ExecuteFormat, Executing
<1>2. /\ Given /\ At \in Indices(program) /\ Current = At /\ AllMean(program, slots)
      /\ Holds(program, slots, At, {})
      /\ \A reason \in Reason : \A u : Fail(reason, u, slots) /\ IInv' => MInv'
  BY <1>1, NodeMeans
<1>3. KindOf(program, At) = "Format"
  BY <1>1, <1>2 DEF Node, KindOf
<1>4. LabelsOf(Node(Current).edges) = OperandsIn(program, MeaningOf(program), At)
  BY <1>2, OperandsMean
<1>5. MeaningOf(program)[At] = Label(At, OperandsIn(program, MeaningOf(program), At))
  BY <1>2, <1>3, GivenIsVerified, MeaningIs
<1>6. \A required, accounted : SlotMeans(program, At, Owned(value(required), accounted))
  BY <1>2, <1>4, <1>5, PlainMeans
<1>7. \/ \E reason \in {"Invariant", "Resource", "Host"} : \E u : Fail(reason, u, slots)
      \/ \E required, u : PutThenRelease(Owned(value(required), required # 0), u, slots)
  BY DEF ExecuteFormat, HostRefuses
<1> HIDE DEF value
<1>8. \A required, u : PutThenRelease(Owned(value(required), required # 0), u, slots) => MInv'
  BY <1>1, <1>2, <1>6, PutMeans
<1> QED
  BY <1>2, <1>7, <1>8 DEF Reason

(* ExecuteApply: the result is that of its operands.                       *)
LEMMA ApplyMeans ==
  ASSUME MInv, IInv', ExecuteApply
  PROVE  MInv'
<1> DEFINE plan == Node(Current).plan
           value(n) == ApplyValue(plan, n, LabelsOf(Node(Current).edges))
<1>1. stage = "Nodes" /\ agenda # <<>> /\ Node(Current).kind = "SelectedApply"
  BY DEF ExecuteApply, Executing
<1>2. /\ Given /\ At \in Indices(program) /\ Current = At /\ AllMean(program, slots)
      /\ Holds(program, slots, At, {})
      /\ \A reason \in Reason : \A u : Fail(reason, u, slots) /\ IInv' => MInv'
  BY <1>1, NodeMeans
<1>3. KindOf(program, At) = "SelectedApply"
  BY <1>1, <1>2 DEF Node, KindOf
<1>4. LabelsOf(Node(Current).edges) = OperandsIn(program, MeaningOf(program), At)
  BY <1>2, OperandsMean
<1>5. MeaningOf(program)[At] = Label(At, OperandsIn(program, MeaningOf(program), At))
  BY <1>2, <1>3, GivenIsVerified, MeaningIs
<1>6. \A n, accounted : SlotMeans(program, At, Owned(value(n), accounted))
  <2>1. Label(Current, LabelsOf(Node(Current).edges)) = MeaningOf(program)[At]
    BY <1>2, <1>4, <1>5
  <2> QED
    BY <2>1, PlainMeans DEF ApplyValue
<1>7. \/ \E reason \in {"Invariant", "ShapeMismatch", "Resource", "Fault"} : \E u : Fail(reason, u, slots)
      \/ \E n, u : PutThenRelease(Owned(value(n), plan # "scalar"), u, slots)
  BY DEF ExecuteApply
<1> HIDE DEF value, plan
<1>8. \A n, u : PutThenRelease(Owned(value(n), plan # "scalar"), u, slots) => MInv'
  BY <1>1, <1>2, <1>6, PutMeans
<1> QED
  BY <1>2, <1>7, <1>8 DEF Reason

(* ExecuteFanOut: the result is the tuple of its branches' values.         *)
LEMMA FanOutMeans ==
  ASSUME MInv, IInv', ExecuteFanOut
  PROVE  MInv'
<1> DEFINE branches == Node(Current).branches
           taken    == {branches[b].root : b \in DOMAIN branches}
           d        == AdmitTuple(configuration, usage, Len(branches))
           rest     == Without(slots, taken)
           elems    == [b \in DOMAIN branches |-> slots[branches[b].root].value]
<1>1. stage = "Nodes" /\ agenda # <<>> /\ Node(Current).kind = "FanOut"
  BY DEF ExecuteFanOut, Executing
<1>2. /\ Given /\ At \in Indices(program) /\ Current = At /\ AllMean(program, slots)
      /\ copy = NoCopy
      /\ \A reason \in Reason : \A u : Fail(reason, u, slots) /\ IInv' => MInv'
  BY <1>1, NodeMeans
<1>3. /\ KindOf(program, At) = "FanOut" /\ branches = Branches(program, At)
      /\ At \in FanOuts(program)
  BY <1>1, <1>2 DEF Node, KindOf, Branches, FanOuts
<1>4. IsProgram(program) /\ Verified(program)
  BY <1>2, GivenIsVerified
<1>5. Len(branches) \in Nat /\ DOMAIN branches = 1 .. Len(branches)
  BY <1>3, <1>4, BranchesTile
<1>6. \A b \in DOMAIN branches : branches[b].root \in Indices(program)
  BY <1>3, <1>4, RootedIsApplication
<1>7. MeaningOf(program)[At]
        = Label(0, [b \in DOMAIN branches |-> MeaningOf(program)[branches[b].root]])
  <2>1. MeaningOf(program)[At]
          = Label(0, [b \in DOMAIN Branches(program, At) |->
                        MeaningOf(program)[Branches(program, At)[b].root]])
    BY <1>2, <1>3, <1>4, MeaningIs
  <2> HIDE DEF branches
  <2> QED
    BY <1>3, <2>1
<1>8. AllMean(program, rest)
  BY <1>2, WithoutMeans
<1>9. \/ Fail("Resource", d.usage, slots)
      \/ Fail("Invariant", d.usage, rest)
      \/ /\ \A i \in taken : slots[i].kind = "Owned"
         /\ PutThenRelease(Owned(TupleValue(elems), TRUE), d.usage, rest)
  BY DEF ExecuteFanOut
<1> HIDE DEF d, rest
<1>10. Fail("Invariant", d.usage, rest) => MInv'
  BY <1>2, <1>8, FailMeans DEF Reason
<1>11. ASSUME \A i \in taken : slots[i].kind = "Owned",
              PutThenRelease(Owned(TupleValue(elems), TRUE), d.usage, rest)
       PROVE  MInv'
  <2>1. \A b \in DOMAIN branches :
          slots[branches[b].root].value.label = MeaningOf(program)[branches[b].root]
    <3> TAKE b \in DOMAIN branches
    <3>1. slots[branches[b].root].kind = "Owned"
      BY <1>11
    <3>2. SlotMeans(program, branches[b].root, slots[branches[b].root])
      BY <1>2, <1>6 DEF AllMean
    <3> QED
      BY <3>1, <3>2 DEF SlotMeans, Means
  <2>2. DOMAIN elems = DOMAIN branches /\ \A b \in DOMAIN branches :
          elems[b].label = MeaningOf(program)[branches[b].root]
    BY <2>1
  <2>3. elems = [b \in 1 .. Len(branches) |-> elems[b]]
    BY <1>5
  <2> HIDE DEF elems, branches
  <2>4. Len(elems) = Len(branches)
    BY <1>5, <2>3, TableIsSequence
  <2>5. MeaningOf(program)[At] = Label(0, [b \in DOMAIN elems |-> elems[b].label])
    BY <1>7, <2>2
  <2>6. SlotMeans(program, At, Owned(TupleValue(elems), TRUE))
    BY <1>5, <2>2, <2>4, <2>5, TupleMeans
  <2> QED
    BY <1>1, <1>8, <1>11, <2>6, PutMeans
<1> QED
  BY <1>2, <1>9, <1>10, <1>11 DEF Reason

(* BeginTuple: nothing is collected yet.                                   *)
LEMMA BeginTupleMeans ==
  ASSUME MInv, IInv', BeginTuple
  PROVE  MInv'
<1>1. stage = "Nodes" /\ agenda # <<>>
  BY DEF BeginTuple, Executing
<1>2. /\ copy = NoCopy /\ gathered = <<>> /\ AllMean(program, slots)
      /\ \A reason \in Reason : \A u : Fail(reason, u, slots) /\ IInv' => MInv'
  BY <1>1, NodeMeans DEF MInv, IInv, NodesInPlace
<1>3. \/ \E u : Fail("Resource", u, slots)
      \/ /\ stage' = "Tuple" /\ program' = program /\ slots' = slots
         /\ gathered' = gathered /\ copy' = copy
  BY DEF BeginTuple
<1>4. ASSUME stage' = "Tuple", program' = program, slots' = slots,
             gathered' = gathered, copy' = copy
      PROVE  MInv'
  <2>1. CollectedMean'
    BY <1>2, <1>4 DEF CollectedMean
  <2>2. CopyMeans'
    BY <1>2, <1>4 DEF CopyMeans, NoCopy
  <2>3. AllMean(program, slots)'
    BY <1>2, <1>4
  <2> QED
    BY <1>4, <2>1, <2>2, <2>3 DEF MInv, FailureIsTold, ResultsMean
<1> QED
  BY <1>2, <1>3, <1>4 DEF Reason

(***************************************************************************)
(* What is collected.                                                      *)
(***************************************************************************)
(* The members of a sequence with one more.                                *)
LEMMA AppendAt ==
  ASSUME NEW s, IsSequence(s), NEW x
  PROVE  /\ \A k \in 1 .. Len(s) : Append(s, x)[k] = s[k]
         /\ Append(s, x)[Len(s) + 1] = x
<1> DEFINE S == {s[k] : k \in DOMAIN s} \union {x}
<1>1. s \in Seq(S) /\ x \in S
  BY DEF IsSequence
<1> HIDE DEF S
<1> QED
  BY <1>1

(* What is collected, or copied to be collected, means what it should.     *)
LEMMA CollectMeans ==
  ASSUME MInv, IInv', stage \in {"Tuple", "Outputs"}, copy = NoCopy,
         NEW s, AllMean(program, s),
         NEW value, value.label = MeaningOf(program)[Target(Len(gathered) + 1)],
         Collect(value, s) \/ StartCopy(value, s)
  PROVE  MInv'
<1>1. /\ program' = program /\ stage' = stage /\ agenda' = agenda /\ slots' = s
      /\ \/ gathered' = Append(gathered, value) /\ copy' = NoCopy
         \/ gathered' = gathered /\ copy' = Copying(value)
  BY DEF Collect, StartCopy
<1>2. IsSequence(gathered)
  BY DEF MInv, IInv, TupleInPlace, OutputsInPlace
<1>3. \A k : Target(k)' = Target(k)
  BY <1>1 DEF Target, At, NodeCount
<1>4. \A k \in 1 .. Len(gathered) : gathered[k].label = MeaningOf(program)[Target(k)]
  BY DEF MInv, CollectedMean
<1>5. AllMean(program, slots)'
  BY <1>1
<1>6. CASE gathered' = Append(gathered, value) /\ copy' = NoCopy
  <2>1. /\ Len(gathered) \in Nat /\ Len(gathered') = Len(gathered) + 1
        /\ \A k \in 1 .. Len(gathered) : gathered'[k] = gathered[k]
        /\ gathered'[Len(gathered) + 1] = value
    BY <1>2, <1>6, AppendIsSequence, AppendAt
  <2>2. \A k \in 1 .. Len(gathered') : k \in 1 .. Len(gathered) \/ k = Len(gathered) + 1
    BY <2>1
  <2>3. \A k \in 1 .. Len(gathered') : gathered'[k].label = MeaningOf(program)[Target(k)]
    BY <1>4, <2>1, <2>2
  <2>4. CollectedMean'
    BY <1>1, <1>3, <2>3 DEF CollectedMean
  <2>5. CopyMeans'
    BY <1>6 DEF CopyMeans, NoCopy
  <2> QED
    BY <1>1, <1>5, <2>4, <2>5 DEF MInv, FailureIsTold, ResultsMean
<1>7. CASE gathered' = gathered /\ copy' = Copying(value)
  <2>1. CollectedMean'
    BY <1>1, <1>3, <1>4, <1>7 DEF CollectedMean
  <2>2. "value" \in DOMAIN copy' /\ copy'.value = value
    BY <1>7 DEF Copying
  <2>3. CopyMeans'
    BY <1>1, <1>3, <1>7, <2>2 DEF CopyMeans
  <2> QED
    BY <1>1, <1>5, <2>1, <2>3 DEF MInv, FailureIsTold, ResultsMean
<1> QED
  BY <1>1, <1>6, <1>7

(* TakeChild: a child means what its node does, moved or copied.           *)
LEMMA TakeChildMeans ==
  ASSUME MInv, IInv', TakeChild
  PROVE  MInv'
<1> DEFINE k == Len(gathered) + 1
           e == EdgesOf(program, At)[k]
           i == e.producer
           rest == [slots EXCEPT ![i] = Empty]
<1>1. stage = "Tuple" /\ copy = NoCopy /\ Len(gathered) < Len(Node(Current).edges)
  BY DEF TakeChild
<1>2. /\ Given /\ At \in Indices(program) /\ Current = At
      /\ KindOf(program, At) = "TupleConstruct"
      /\ Len(gathered) \in Nat
      /\ Node(Current).edges = EdgesOf(program, At)
      /\ DOMAIN EdgesOf(program, At) = 1 .. Len(EdgesOf(program, At))
      /\ Len(EdgesOf(program, At)) \in Nat
  BY <1>1, TupleHolds DEF MInv
<1>3. AllMean(program, slots)
  BY DEF MInv
<1>4. k \in DOMAIN EdgesOf(program, At)
  BY <1>1, <1>2
<1>5. IsProgram(program) /\ Verified(program) /\ NodeShape(program, At)
  BY <1>2, GivenIsVerified
<1>6. e.access \in {"WholeValue", "BindingMove"}
  BY <1>2, <1>4, <1>5 DEF NodeShape
<1>7. i \in Indices(program)
  BY <1>2, <1>4, <1>5, EdgeIsVerified
<1>8. Target(Len(gathered) + 1) = i
  BY <1>1 DEF Target
<1>9. \/ TakeTransfer(i)
      \/ Readable(e) /\ StartCopy(EdgeValue(e), slots)
      \/ GiveUp("Invariant", usage, slots)
  BY <1>2 DEF TakeChild
<1>10. AllMean(program, rest)
  BY <1>3, WithoutMeans
<1>11. SlotFits(program, i, slots[i]) /\ SlotMeans(program, i, slots[i])
  BY <1>3, <1>7 DEF AllMean, AllFit
<1> HIDE DEF k, i
<1>12. ASSUME NEW s, AllMean(program, s), NEW value, value.label = MeaningOf(program)[i],
              Collect(value, s) \/ StartCopy(value, s)
       PROVE  MInv'
  BY <1>1, <1>8, <1>12, CollectMeans
<1>13. ASSUME TakeTransfer(i)
       PROVE  MInv'
  <2> DEFINE readable == CASE slots[i].kind = "Alias" -> HasValue(rest, slots[i].node)
                           [] OTHER -> slots[i] # Empty
             value == IF slots[i].kind = "Alias" THEN SlotValue(rest, slots[i].node)
                      ELSE ValueIn(slots[i])
  <2>1. \/ GiveUp("Invariant", usage, rest)
        \/ readable /\ (Collect(value, rest) \/ StartCopy(value, rest))
    BY <1>13 DEF TakeTransfer
  <2>2. ASSUME slots[i].kind = "Alias", HasValue(rest, slots[i].node)
        PROVE  value.label = MeaningOf(program)[i]
    <3>1. slots[i].node \in 1 .. i - 1
      BY <1>11, <2>2 DEF SlotFits, Empty
    <3>2. slots[i].node \in Indices(program)
      BY <1>2, <1>7, <3>1, GivenIsVerified
    <3> HIDE DEF rest
    <3>3. Means(SlotValue(rest, slots[i].node), MeaningOf(program)[slots[i].node])
      BY <1>2, <1>10, <2>2, <3>2, ValueMeans
    <3>4. MeaningOf(program)[slots[i].node] = MeaningOf(program)[i]
      BY <1>11, <2>2 DEF SlotMeans
    <3> QED
      BY <2>2, <3>3, <3>4 DEF Means
  <2>3. ASSUME slots[i].kind # "Alias", slots[i] # Empty
        PROVE  value.label = MeaningOf(program)[i]
    <3>1. CASE slots[i].kind = "Owned"
      <4>1. value = slots[i].value
        BY <2>3, <3>1 DEF ValueIn
      <4> HIDE DEF value
      <4> QED
        BY <1>11, <3>1, <4>1 DEF SlotMeans, Means
    <3>2. CASE IsParameter(program, i)
      <4>1. value = program.arguments[Node(i).count]
        <5>1. ValueIn(slots[i]) = program.arguments[Node(i).count]
          BY <1>2, <1>3, <1>7, <2>3, <3>2, ParameterIsBorrowed DEF AllMean
        <5> QED
          BY <2>3, <5>1
      <4> HIDE DEF value
      <4> QED
        BY <1>2, <1>7, <3>2, <4>1, ArgumentMeans DEF Means
    <3> QED
      BY <1>11, <2>3, <3>1, <3>2 DEF SlotFits
  <2>4. readable => value.label = MeaningOf(program)[i]
    <3> HIDE DEF value, rest
    <3> QED
      BY <2>2, <2>3
  <2>5. GiveUp("Invariant", usage, rest) => MInv'
    <3> HIDE DEF rest
    <3> QED
      BY <1>10, GiveUpMeans DEF Reason
  <2> HIDE DEF value, rest, readable
  <2> QED
    BY <1>10, <1>12, <2>1, <2>4, <2>5
<1>14. ASSUME Readable(e), StartCopy(EdgeValue(e), slots)
       PROVE  MInv'
  <2>1. HasValue(slots, i)
    BY <1>14 DEF Readable, i
  <2>2. EdgeValue(e) = SlotValue(slots, i)
    BY <1>6 DEF EdgeValue, TakesElement, i
  <2>3. EdgeValue(e).label = MeaningOf(program)[i]
    BY <1>2, <1>3, <1>7, <2>1, <2>2, ValueMeans DEF Means
  <2> HIDE DEF e
  <2> QED
    BY <1>3, <1>12, <1>14, <2>3
<1>15. GiveUp("Invariant", usage, slots) => MInv'
  BY <1>3, GiveUpMeans DEF Reason
<1> QED
  BY <1>9, <1>13, <1>14, <1>15

(* CopyNext: what is copied stays what it is.                              *)
LEMMA CopyNextMeans ==
  ASSUME MInv, IInv', CopyNext
  PROVE  MInv'
<1>1. copy # NoCopy /\ AllMean(program, slots)
  BY DEF CopyNext, MInv
<1>2. "value" \in DOMAIN copy /\ copy.value.label = MeaningOf(program)[Target(Len(gathered) + 1)]
  BY <1>1 DEF MInv, CopyMeans
<1>3. \/ \E u : GiveUp("Resource", u, slots)
      \/ /\ \E q, a : copy' = [copy EXCEPT !.pending = q, !.admitted = a]
         /\ UNCHANGED <<program, slots, stage, agenda, gathered, error, results>>
  BY DEF CopyNext
<1>4. ASSUME NEW q, NEW a, copy' = [copy EXCEPT !.pending = q, !.admitted = a],
             UNCHANGED <<program, slots, stage, agenda, gathered, error, results>>
      PROVE  MInv'
  <2>1. "value" \in DOMAIN copy' /\ copy'.value = copy.value
    BY <1>2, <1>4
  <2>2. \A k : Target(k)' = Target(k)
    BY <1>4 DEF Target, At, NodeCount
  <2>3. CopyMeans'
    BY <1>2, <1>4, <2>1, <2>2 DEF CopyMeans
  <2>4. CollectedMean'
    BY <1>4, <2>2 DEF MInv, CollectedMean
  <2>5. AllMean(program, slots)'
    BY <1>1, <1>4
  <2>6. FailureIsTold' /\ ResultsMean'
    BY <1>4 DEF MInv, FailureIsTold, ResultsMean
  <2> QED
    BY <2>3, <2>4, <2>5, <2>6 DEF MInv
<1>5. \A u : GiveUp("Resource", u, slots) => MInv'
  BY <1>1, GiveUpMeans DEF Reason
<1> QED
  BY <1>3, <1>4, <1>5

(* CopyReserveFails.                                                       *)
LEMMA CopyReserveFailsMeans ==
  ASSUME MInv, IInv', CopyReserveFails
  PROVE  MInv'
<1>1. \E u : GiveUp("Host", u, slots)
  BY DEF CopyReserveFails
<1> QED
  BY <1>1, GiveUpMeans DEF Reason, MInv

(* CopyDone: what was copied is collected.                                 *)
LEMMA CopyDoneMeans ==
  ASSUME MInv, IInv', CopyDone
  PROVE  MInv'
<1>1. copy # NoCopy /\ stage \in {"Tuple", "Outputs"} /\ AllMean(program, slots)
  BY DEF CopyDone, MInv, IInv, CopyInPlace
<1>2. copy.value.label = MeaningOf(program)[Target(Len(gathered) + 1)]
  BY <1>1 DEF MInv, CopyMeans
<1>3. \/ \E u : GiveUp("Host", u, slots)
      \/ /\ gathered' = Append(gathered, copy.value) /\ copy' = NoCopy
         /\ UNCHANGED <<program, slots, stage, agenda, error, results>>
  BY DEF CopyDone
<1>4. IsSequence(gathered)
  BY <1>1 DEF MInv, IInv, TupleInPlace, OutputsInPlace
<1>5. \A k \in 1 .. Len(gathered) : gathered[k].label = MeaningOf(program)[Target(k)]
  BY <1>1 DEF MInv, CollectedMean
<1>6. ASSUME gathered' = Append(gathered, copy.value), copy' = NoCopy,
             UNCHANGED <<program, slots, stage, agenda, error, results>>
      PROVE  MInv'
  <2>1. /\ Len(gathered) \in Nat /\ Len(gathered') = Len(gathered) + 1
        /\ \A k \in 1 .. Len(gathered) : gathered'[k] = gathered[k]
        /\ gathered'[Len(gathered) + 1] = copy.value
    BY <1>4, <1>6, AppendIsSequence, AppendAt
  <2>2. \A k : Target(k)' = Target(k)
    BY <1>6 DEF Target, At, NodeCount
  <2>3. \A k \in 1 .. Len(gathered') : k \in 1 .. Len(gathered) \/ k = Len(gathered) + 1
    BY <2>1
  <2>4. \A k \in 1 .. Len(gathered') : gathered'[k].label = MeaningOf(program)[Target(k)]
    BY <1>2, <1>5, <2>1, <2>3
  <2>5. CollectedMean'
    BY <1>6, <2>2, <2>4 DEF CollectedMean
  <2>6. CopyMeans'
    BY <1>6 DEF CopyMeans, NoCopy
  <2>7. AllMean(program, slots)'
    BY <1>1, <1>6
  <2>8. FailureIsTold' /\ ResultsMean'
    BY <1>6 DEF MInv, FailureIsTold, ResultsMean
  <2> QED
    BY <2>5, <2>6, <2>7, <2>8 DEF MInv
<1>7. \A u : GiveUp("Host", u, slots) => MInv'
  BY <1>1, GiveUpMeans DEF Reason
<1> QED
  BY <1>3, <1>6, <1>7

(* EndTuple: the tuple is what its children are.                           *)
LEMMA EndTupleMeans ==
  ASSUME MInv, IInv', EndTuple
  PROVE  MInv'
<1> DEFINE slot == Owned(TupleValue(gathered), gathered # <<>>)
<1>1. stage = "Tuple" /\ copy = NoCopy /\ Len(gathered) = Len(Node(Current).edges)
  BY DEF EndTuple
<1>2. /\ Given /\ At \in Indices(program) /\ Current = At /\ agenda # <<>>
      /\ KindOf(program, At) = "TupleConstruct" /\ IsSequence(gathered)
      /\ Node(Current).edges = EdgesOf(program, At)
      /\ DOMAIN EdgesOf(program, At) = 1 .. Len(EdgesOf(program, At))
  BY <1>1, TupleHolds DEF MInv
<1>3. AllMean(program, slots)
  BY DEF MInv
<1>4. DOMAIN gathered = 1 .. Len(gathered) /\ Len(gathered) = Len(EdgesOf(program, At))
  BY <1>1, <1>2 DEF IsSequence
<1>5. \A k \in DOMAIN gathered :
        gathered[k].label = MeaningOf(program)[EdgesOf(program, At)[k].producer]
  BY <1>1, <1>4 DEF MInv, CollectedMean, Target
<1>6. MeaningOf(program)[At]
        = Label(0, [k \in DOMAIN EdgesOf(program, At) |->
                      MeaningOf(program)[EdgesOf(program, At)[k].producer]])
  BY <1>2, GivenIsVerified, MeaningIs
<1>7. MeaningOf(program)[At] = Label(0, [k \in DOMAIN gathered |-> gathered[k].label])
  BY <1>2, <1>4, <1>5, <1>6
<1>8. SlotMeans(program, At, slot)
  BY <1>4, <1>7, TupleMeans
<1>9. \/ Fail("Invariant", usage, slots)
      \/ /\ program' = program /\ slots' = Without([slots EXCEPT ![At] = slot], OwnersReleasedBy(At))
         /\ stage' = "Nodes" /\ copy' = copy
  BY <1>2 DEF EndTuple, ReleaseAfter
<1> HIDE DEF slot
<1>10. Fail("Invariant", usage, slots) => MInv'
  BY <1>1, <1>3, FailMeans DEF Reason
<1> QED
  BY <1>1, <1>2, <1>3, <1>8, <1>9, <1>10, DoneMeans

(***************************************************************************)
(* What is delivered.                                                      *)
(***************************************************************************)
(* TakeOutput: an output means what its root does, moved or copied.        *)
LEMMA TakeOutputMeans ==
  ASSUME MInv, IInv', TakeOutput
  PROVE  MInv'
<1> DEFINE r  == program.roots[Len(gathered) + 1]
           at == Resolve(slots, r)
<1>1. stage = "Outputs" /\ copy = NoCopy /\ Len(gathered) < Len(program.roots)
  BY DEF TakeOutput
<1>2. Given /\ AllMean(program, slots) /\ Len(gathered) \in Nat
  BY <1>1 DEF MInv, IInv, OutputsInPlace, IsSequence
<1>3. r \in Indices(program)
  <2>1. Verified(program) /\ program.roots \in Seq(Nat)
    BY <1>2, GivenIsVerified DEF IsProgram
  <2>2. Len(gathered) + 1 \in DOMAIN program.roots
    BY <1>1, <1>2, <2>1
  <2> QED
    BY <2>1, <2>2 DEF Verified, Postorder
<1>4. Target(Len(gathered) + 1) = r
  BY <1>1 DEF Target
<1>5. \/ slots[at].kind = "Owned" /\ Collect(slots[at].value, [slots EXCEPT ![at] = Empty])
      \/ slots[at].kind = "Borrowed" /\ StartCopy(ValueIn(slots[at]), slots)
      \/ GiveUp("Invariant", usage, slots)
  BY DEF TakeOutput
<1> HIDE DEF r
<1>6. ASSUME slots[at].kind \in {"Owned", "Borrowed"}
      PROVE  ValueIn(slots[at]).label = MeaningOf(program)[r]
  <2>1. HasValue(slots, r) /\ SlotValue(slots, r) = ValueIn(slots[at])
    BY <1>6 DEF HasValue, SlotValue
  <2> QED
    BY <1>2, <1>3, <2>1, ValueMeans DEF Means
<1> HIDE DEF at
<1>7. CASE slots[at].kind = "Owned" /\ Collect(slots[at].value, [slots EXCEPT ![at] = Empty])
  <2>1. ValueIn(slots[at]) = slots[at].value
    BY <1>7 DEF ValueIn
  <2>2. slots[at].value.label = MeaningOf(program)[r]
    BY <1>6, <1>7, <2>1
  <2>3. AllMean(program, [slots EXCEPT ![at] = Empty])
    BY <1>2, WithoutMeans
  <2> QED
    BY <1>1, <1>4, <1>7, <2>2, <2>3, CollectMeans
<1>8. CASE slots[at].kind = "Borrowed" /\ StartCopy(ValueIn(slots[at]), slots)
  <2>1. ValueIn(slots[at]).label = MeaningOf(program)[r]
    BY <1>6, <1>8
  <2> QED
    BY <1>1, <1>2, <1>4, <1>8, <2>1, CollectMeans
<1>9. GiveUp("Invariant", usage, slots) => MInv'
  BY <1>2, GiveUpMeans DEF Reason
<1> QED
  BY <1>5, <1>7, <1>8, <1>9

(* Deliver: the results mean what was promised.                            *)
LEMMA DeliverMeans ==
  ASSUME MInv, IInv', Deliver
  PROVE  MInv'
<1>1. /\ stage = "Outputs" /\ copy = NoCopy /\ Len(gathered) = Len(program.roots)
      /\ stage' = "Return" /\ results' = gathered
      /\ program' = program /\ slots' = slots /\ copy' = copy
  BY DEF Deliver
<1>2. Given /\ AllMean(program, slots) /\ IsSequence(gathered)
  BY <1>1 DEF MInv, IInv, OutputsInPlace
<1>3. DOMAIN gathered = DOMAIN program.roots /\ DOMAIN gathered = 1 .. Len(gathered)
  <2>1. program.roots \in Seq(Nat)
    BY <1>2, GivenIsVerified DEF IsProgram
  <2> QED
    BY <1>1, <1>2, <2>1 DEF IsSequence
<1>4. \A k \in DOMAIN gathered : gathered[k].label = MeaningOf(program)[program.roots[k]]
  BY <1>1, <1>3 DEF MInv, CollectedMean, Target
<1>5. Abstract!LabelsIn(gathered) = Abstract!Promised(program)
  <2>1. Abstract!LabelsIn(gathered) = [k \in DOMAIN gathered |-> gathered[k].label]
    BY DEF Abstract!LabelsIn
  <2>2. Abstract!Promised(program) = [k \in DOMAIN program.roots |-> MeaningOf(program)[program.roots[k]]]
    BY DEF Abstract!Promised, MeaningOf
  <2> QED
    BY <1>3, <1>4, <2>1, <2>2
<1>6. ResultsMean'
  BY <1>1, <1>5 DEF ResultsMean
<1>7. AllMean(program, slots)'
  BY <1>1, <1>2
<1>8. CopyMeans'
  BY <1>1 DEF CopyMeans, NoCopy
<1> QED
  BY <1>1, <1>6, <1>7, <1>8 DEF MInv, CollectedMean, FailureIsTold

(***************************************************************************)
(* The other steps.                                                        *)
(***************************************************************************)
(* Before the first node, and between the last and the outputs.            *)
LEMMA EnterMeans ==
  ASSUME MInv, IInv', Begin \/ AdmitArgument \/ EnterNodes \/ EnterOutputs
  PROVE  MInv'
<1>1. /\ program' = program /\ slots' = slots /\ gathered' = gathered /\ copy' = copy
      /\ \/ stage' \in {"Arguments", "Nodes", "Outputs"}
         \/ stage' \in {"Return", "Done"} /\ error' \in Reason
  BY DEF Begin, AdmitArgument, EnterNodes, EnterOutputs, Reason
<1>2. copy = NoCopy /\ gathered = <<>> /\ AllMean(program, slots)
  BY DEF MInv, IInv, Fresh, NodesInPlace, Begin, AdmitArgument, EnterNodes, EnterOutputs
<1>3. AllMean(program, slots)'
  BY <1>1, <1>2
<1>4. CopyMeans'
  BY <1>1, <1>2 DEF CopyMeans, NoCopy
<1>5. CollectedMean'
  BY <1>1, <1>2 DEF CollectedMean
<1>6. FailureIsTold' /\ ResultsMean'
  BY <1>1, ReasonsTell DEF FailureIsTold, ResultsMean
<1> QED
  BY <1>3, <1>4, <1>5, <1>6 DEF MInv

(* ReserveFails: the host refuses a table.                                 *)
LEMMA ReserveFailsMeans ==
  ASSUME MInv, IInv', ReserveFails
  PROVE  MInv'
<1>1. copy = NoCopy /\ AllMean(program, slots) /\ Fail("Host", usage, slots)
  BY DEF ReserveFails, MInv, IInv, NodesInPlace
<1> QED
  BY <1>1, FailMeans DEF Reason

(* After the outputs, or after a failure.                                  *)
LEMMA EndMeans ==
  ASSUME MInv, IInv', Unwind \/ CleanupSlot \/ CleanupDone \/ ReturnArgument \/ Finish
  PROVE  MInv'
<1>1. /\ program' = program /\ error' = error /\ results' = results /\ copy' = copy
      /\ slots' = slots \/ \E X : slots' = Without(slots, X)
      /\ \/ stage \in {"Unwind", "Cleanup"} /\ stage' \in {"Unwind", "Cleanup", "Return"}
         \/ stage = "Return" /\ stage' \in {"Return", "Done"}
  BY DEF Unwind, CleanupSlot, CleanupDone, ReturnArgument, Finish
<1>2. copy = NoCopy /\ AllMean(program, slots)
  BY <1>1 DEF MInv, IInv, CopyInPlace
<1>3. AllMean(program, slots')
  BY <1>1, <1>2, WithoutMeans
<1>4. AllMean(program, slots)'
  BY <1>1, <1>3
<1>5. CopyMeans'
  BY <1>1, <1>2 DEF CopyMeans, NoCopy
<1>6. CollectedMean'
  BY <1>1 DEF CollectedMean
<1>7. FailureIsTold' /\ ResultsMean'
  BY <1>1 DEF MInv, FailureIsTold, ResultsMean
<1> QED
  BY <1>4, <1>5, <1>6, <1>7 DEF MInv

(* A step of the evaluation, or none.                                      *)
LEMMA NextKeepsMeaning ==
  ASSUME MInv, [Next]_vars
  PROVE  MInv'
<1>0. IInv'
  BY NextKeepsInPlace DEF MInv
<1>1. CASE UNCHANGED vars
  <2>1. UNCHANGED <<program, slots, stage, agenda, gathered, copy, error, results>>
    BY <1>1 DEF vars
  <2>2. \A k : Target(k)' = Target(k)
    BY <2>1 DEF Target, At, NodeCount
  <2>3. AllMean(program, slots)'
    BY <2>1 DEF MInv
  <2>4. CollectedMean' /\ CopyMeans'
    BY <2>1, <2>2 DEF MInv, CollectedMean, CopyMeans, NoCopy
  <2>5. FailureIsTold' /\ ResultsMean'
    BY <2>1 DEF MInv, FailureIsTold, ResultsMean
  <2> QED
    BY <1>0, <2>3, <2>4, <2>5 DEF MInv
<1>2. CASE Next
  <2>1. Begin \/ AdmitArgument \/ EnterNodes \/ EnterOutputs => MInv'
    BY <1>0, EnterMeans
  <2>2. ReserveFails \/ ExecuteConstant \/ ExecuteParameter \/ ExecuteHandover => MInv'
    BY <1>0, ReserveFailsMeans, ConstantMeans, ParameterMeans, HandoverMeans
  <2>3. ExecuteFormat \/ ExecuteApply \/ ExecuteFanOut => MInv'
    BY <1>0, FormatMeans, ApplyMeans, FanOutMeans
  <2>4. BeginTuple \/ TakeChild \/ CopyNext \/ CopyReserveFails \/ CopyDone \/ EndTuple => MInv'
    BY <1>0, BeginTupleMeans, TakeChildMeans, CopyNextMeans, CopyReserveFailsMeans, CopyDoneMeans,
       EndTupleMeans
  <2>5. TakeOutput \/ Deliver => MInv'
    BY <1>0, TakeOutputMeans, DeliverMeans
  <2>6. Unwind \/ CleanupSlot \/ CleanupDone \/ ReturnArgument \/ Finish => MInv'
    BY <1>0, EndMeans
  <2> QED
    BY <1>2, <2>1, <2>2, <2>3, <2>4, <2>5, <2>6 DEF Next
<1> QED
  BY <1>1, <1>2

(* Nothing is in the slots at the start.                                   *)
LEMMA InitMeans ==
  ASSUME Init, AsLowered(program)
  PROVE  MInv
<1>1. IInv
  BY InitIsInPlace
<1>2. /\ stage = "Begin" /\ copy = NoCopy
      /\ slots = [i \in Indices(program) |-> Empty]
  BY DEF Init
<1>3. slots = [i \in Indices(program) |-> slots[i]] /\ \A i \in Indices(program) : slots[i] = Empty
  BY <1>2
<1>4. AllMean(program, slots)
  BY <1>3, EmptyMeans DEF AllMean, AllFit
<1> QED
  BY <1>1, <1>2, <1>4 DEF MInv, CollectedMean, CopyMeans, FailureIsTold, ResultsMean

(* The slots, and what is collected, mean what the program says.           *)
THEOREM MeaningIsKept ==
  Spec /\ AsLowered(program) => []MInv
<1>1. Init /\ AsLowered(program) => MInv
  BY InitMeans
<1>2. MInv /\ [Next]_vars => MInv'
  BY NextKeepsMeaning
<1> QED
  BY <1>1, <1>2, PTL DEF Spec

(* Wherever slot_value finds a value, however it came there (moved from    *)
(* node to node, collected into a tuple or a call, aliased, copied from an  *)
(* argument), it is the value its node means.                              *)
THEOREM SlotsAlwaysHoldMeaning ==
  Spec /\ AsLowered(program) => []SlotsHoldMeaning
<1>1. ASSUME MInv
      PROVE  SlotsHoldMeaning
  <2>1. Given /\ AllMean(program, slots)
    BY <1>1 DEF MInv, IInv
  <2>2. \A i \in Indices(program) :
          HasValue(slots, i) => SlotValue(slots, i).label = MeaningOf(program)[i]
    BY <2>1, ValueMeans DEF Means
  <2> QED
    BY <2>2 DEF SlotsHoldMeaning, MeaningOf
<1> QED
  BY <1>1, MeaningIsKept, PTL

(* A successful evaluation delivers one value for each root, in their      *)
(* order, and each is what its root means: the values Evaluation promises. *)
THEOREM DeliversWhatWasPromised ==
  Spec /\ AsLowered(program) =>
    [](stage = "Done" /\ error = None => Abstract!LabelsIn(results) = Abstract!Promised(program))
<1>1. MInv => (stage = "Done" /\ error = None => Abstract!LabelsIn(results) = Abstract!Promised(program))
  BY DEF MInv, ResultsMean
<1> QED
  BY <1>1, MeaningIsKept, PTL
=============================================================================

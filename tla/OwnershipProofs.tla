--------------------------- MODULE OwnershipProofs ----------------------------
(***************************************************************************)
(* What the verifier's rules of ownership amount to, for a program that    *)
(* was lowered from source: every edge finds its producer's value in       *)
(* place, whatever was moved and released before, and whatever borrows a   *)
(* value is itself gone before the value is.                               *)
(***************************************************************************)
EXTENDS TypedProgram, NumberInduction

(* Node j moves the value of node i out of its slot.                       *)
Takes(p, j, i) ==
  \/ \E k \in DOMAIN EdgesOf(p, j) :
       /\ EdgesOf(p, j)[k].producer = i
       /\ EdgesOf(p, j)[k].ownership = "InfallibleTransfer"
  \/ j \in FanOutsRootedAt(p, i)

(* Before node c runs, the value of node i has been moved or released.     *)
Gone(p, i, c) ==
  \E j \in 1 .. c - 1 : j \in Indices(p) /\ (Takes(p, j, i) \/ p.releases[i] = AtNode(j))

(***************************************************************************)
(* Places.                                                                 *)
(***************************************************************************)
(* Nodes are numbered from 1, and so are the edges of a node.              *)
LEMMA NumberedFromOne ==
  ASSUME NEW p, IsProgram(p)
  PROVE  /\ Len(p.nodes) \in Nat
         /\ Indices(p) = 1 .. Len(p.nodes)
         /\ \A i \in Indices(p) : IsNode(p.nodes[i])
         /\ \A i \in Indices(p) : EdgesOf(p, i) \in Seq(EdgeRecords)
         /\ \A i \in Indices(p) : Branches(p, i) \in Seq(BranchRecords)
<1>1. p.nodes \in Seq({p.nodes[k] : k \in DOMAIN p.nodes})
  BY DEF IsProgram, IsSequence
<1>2. Len(p.nodes) \in Nat /\ Indices(p) = 1 .. Len(p.nodes)
  BY <1>1 DEF Indices
<1>3. \A i \in Indices(p) : IsNode(p.nodes[i])
  BY DEF IsProgram, Indices
<1> QED
  BY <1>2, <1>3 DEF IsNode, EdgesOf, Branches

(* An edge is what its record says.                                        *)
LEMMA EdgeFields ==
  ASSUME NEW e \in EdgeRecords
  PROVE  e.producer \in Nat /\ e.element \in Nat
BY DEF EdgeRecords

(* Every edge has a place.                                                 *)
LEMMA PlaceOf ==
  ASSUME NEW p, IsProgram(p), NEW i \in Indices(p), NEW k \in DOMAIN EdgesOf(p, i)
  PROVE  /\ <<i, k>> \in EdgePlaces(p)
         /\ EdgeAt(p, <<i, k>>) = EdgesOf(p, i)[k]
         /\ <<i, k>>[1] = i /\ <<i, k>>[2] = k
BY DEF EdgePlaces, EdgeAt

(* And every place has an edge.                                            *)
LEMMA AtPlace ==
  ASSUME NEW p, IsProgram(p), NEW x \in EdgePlaces(p)
  PROVE  /\ x[1] \in Indices(p) /\ x[2] \in DOMAIN EdgesOf(p, x[1])
         /\ x = <<x[1], x[2]>>
         /\ EdgeAt(p, x) = EdgesOf(p, x[1])[x[2]]
         /\ EdgeAt(p, x) \in EdgeRecords
<1>1. PICK i \in Indices(p) : x \in {i} \X DOMAIN EdgesOf(p, i)
  BY DEF EdgePlaces
<1>2. x[1] = i /\ x[2] \in DOMAIN EdgesOf(p, i) /\ x = <<x[1], x[2]>>
  BY <1>1
<1>3. EdgesOf(p, i) \in Seq(EdgeRecords)
  BY NumberedFromOne
<1>4. EdgesOf(p, i)[x[2]] \in EdgeRecords
  BY <1>2, <1>3
<1> QED
  BY <1>1, <1>2, <1>4 DEF EdgeAt

(* The same of branches.                                                   *)
LEMMA BranchPlaceOf ==
  ASSUME NEW p, NEW f \in FanOuts(p), NEW b \in DOMAIN Branches(p, f)
  PROVE  <<f, b>> \in BranchPlaces(p) /\ BranchAt(p, <<f, b>>) = Branches(p, f)[b]
BY DEF BranchPlaces, BranchAt

(* A place among the branches is a fan-out and a number of one of its branches. *)
LEMMA AtBranchPlace ==
  ASSUME NEW p, IsProgram(p), NEW x \in BranchPlaces(p)
  PROVE  /\ x[1] \in FanOuts(p) /\ x[2] \in DOMAIN Branches(p, x[1])
         /\ x = <<x[1], x[2]>>
         /\ BranchAt(p, x) = Branches(p, x[1])[x[2]]
         /\ BranchAt(p, x) \in BranchRecords
<1>1. PICK f \in FanOuts(p) : x \in {f} \X DOMAIN Branches(p, f)
  BY DEF BranchPlaces
<1>2. x[1] = f /\ x[2] \in DOMAIN Branches(p, f) /\ x = <<x[1], x[2]>>
  BY <1>1
<1>3. Branches(p, f) \in Seq(BranchRecords)
  BY NumberedFromOne DEF FanOuts
<1>4. Branches(p, f)[x[2]] \in BranchRecords
  BY <1>2, <1>3
<1> QED
  BY <1>1, <1>2, <1>4 DEF BranchAt

(* The union of finitely many finite sets is finite.                       *)
LEMMA FiniteFamily ==
  ASSUME NEW n \in Nat, NEW F, \A i \in 1 .. n : IsFiniteSet(F[i])
  PROVE  IsFiniteSet(UNION {F[i] : i \in 1 .. n})
<1> DEFINE U(m) == UNION {F[i] : i \in 1 .. m}
           T == {m \in 0 .. n : IsFiniteSet(U(m))}
<1>1. 0 \in T
  <2>1. U(0) = {}
    OBVIOUS
  <2> HIDE DEF U
  <2> QED
    BY <2>1, FS_EmptySet
<1>2. ASSUME NEW m \in 0 .. n - 1, m \in T PROVE m + 1 \in T
  <2>1. U(m + 1) = U(m) \union F[m + 1]
    <3>1. 1 .. m + 1 = (1 .. m) \union {m + 1}
      OBVIOUS
    <3> QED
      BY <3>1
  <2>2. m + 1 \in 1 .. n /\ m + 1 \in 0 .. n
    OBVIOUS
  <2> HIDE DEF U
  <2>3. IsFiniteSet(U(m + 1))
    <3>1. IsFiniteSet(U(m)) /\ IsFiniteSet(F[m + 1])
      BY <1>2, <2>2
    <3>2. IsFiniteSet(U(m) \union F[m + 1])
      BY <3>1, FS_Union
    <3> QED
      BY <3>2, <2>1
  <2> QED
    BY <2>2, <2>3
<1> HIDE DEF T
<1>3. n \in T
  BY <1>1, <1>2, InductionUpTo
<1> QED
  BY <1>3 DEF T

(* There are finitely many edges, branches and roots.                      *)
LEMMA PlacesAreFinite ==
  ASSUME NEW p, IsProgram(p)
  PROVE  /\ IsFiniteSet(EdgePlaces(p)) /\ IsFiniteSet(BranchPlaces(p))
         /\ IsFiniteSet(DOMAIN p.roots)
<1> DEFINE n == Len(p.nodes)
<1>1. n \in Nat /\ Indices(p) = 1 .. n
  BY NumberedFromOne
<1>2. \A i \in 1 .. n : IsFiniteSet({i} \X DOMAIN EdgesOf(p, i))
  <2> TAKE i \in 1 .. n
  <2>1. DOMAIN EdgesOf(p, i) = 1 .. Len(EdgesOf(p, i)) /\ Len(EdgesOf(p, i)) \in Nat
    BY <1>1, NumberedFromOne
  <2>2. IsFiniteSet(DOMAIN EdgesOf(p, i))
    BY <2>1, FS_Interval
  <2> QED
    BY <2>2, FS_Singleton, FS_Product
<1>3. \A i \in 1 .. n : IsFiniteSet({i} \X DOMAIN Branches(p, i))
  <2> TAKE i \in 1 .. n
  <2>1. DOMAIN Branches(p, i) = 1 .. Len(Branches(p, i)) /\ Len(Branches(p, i)) \in Nat
    BY <1>1, NumberedFromOne
  <2>2. IsFiniteSet(DOMAIN Branches(p, i))
    BY <2>1, FS_Interval
  <2> QED
    BY <2>2, FS_Singleton, FS_Product
<1>4. IsFiniteSet(EdgePlaces(p))
  <2> DEFINE F == [i \in 1 .. n |-> {i} \X DOMAIN EdgesOf(p, i)]
  <2>1. \A i \in 1 .. n : IsFiniteSet(F[i])
    BY <1>2
  <2>2. EdgePlaces(p) = UNION {F[i] : i \in 1 .. n}
    BY <1>1 DEF EdgePlaces
  <2> HIDE DEF F, n
  <2> QED
    BY <1>1, <2>1, <2>2, FiniteFamily
<1>5. IsFiniteSet(BranchPlaces(p))
  <2> DEFINE F == [i \in 1 .. n |-> {i} \X DOMAIN Branches(p, i)]
  <2>1. \A i \in 1 .. n : IsFiniteSet(F[i])
    BY <1>3
  <2>2. BranchPlaces(p) \subseteq UNION {F[i] : i \in 1 .. n}
    <3> SUFFICES ASSUME NEW x \in BranchPlaces(p) PROVE \E i \in 1 .. n : x \in F[i]
      OBVIOUS
    <3>1. PICK f \in FanOuts(p) : x \in {f} \X DOMAIN Branches(p, f)
      BY DEF BranchPlaces
    <3> QED
      BY <3>1, <1>1 DEF FanOuts
  <2> HIDE DEF F, n
  <2>3. IsFiniteSet(UNION {F[i] : i \in 1 .. n})
    BY <1>1, <2>1, FiniteFamily
  <2> QED
    BY <2>2, <2>3, FS_Subset
<1>6. IsFiniteSet(DOMAIN p.roots)
  BY FS_Interval DEF IsProgram
<1> QED
  BY <1>4, <1>5, <1>6

(***************************************************************************)
(* Sinks.                                                                  *)
(***************************************************************************)
(* A finite set with at most one member has no two.                        *)
LEMMA AtMostOne ==
  ASSUME NEW S, IsFiniteSet(S), Cardinality(S) <= 1
  PROVE  \A x, y \in S : x = y
<1>1. Cardinality(S) \in Nat
  BY FS_CardinalityType
<1>2. CASE Cardinality(S) = 0
  BY <1>2, FS_EmptySet
<1>3. CASE Cardinality(S) = 1
  <2>1. PICK x : S = {x}
    BY <1>3, FS_Singleton
  <2> QED
    BY <2>1
<1> QED
  BY <1>1, <1>2, <1>3

(* One owner: a node's value is moved to one consumer, taken by one        *)
(* branch or delivered by one root.                                        *)
LEMMA OneSink ==
  ASSUME NEW p, IsProgram(p), Ownership(p), NEW i \in Indices(p)
  PROVE  /\ IsParameter(p, i) => TransferringUses(p, i) = {} /\ BranchRootings(p, i) = {}
         /\ ~IsParameter(p, i) =>
              /\ \A x, y \in TransferringUses(p, i) : x = y
              /\ \A x, y \in BranchRootings(p, i) : x = y
              /\ \A r, s \in RootsAt(p, i) : r = s
              /\ TransferringUses(p, i) = {} \/ BranchRootings(p, i) = {}
              /\ TransferringUses(p, i) = {} \/ RootsAt(p, i) = {}
              /\ BranchRootings(p, i) = {} \/ RootsAt(p, i) = {}
         /\ KindOf(p, i) \in {"Binding", "ConnectedBinding"} =>
              RootsAt(p, i) = {} /\ BranchRootings(p, i) = {}
         /\ KindOf(p, i) = "ConnectedBinding" => TransferringUses(p, i) = {}
<1> DEFINE edges == Cardinality(TransferringUses(p, i))
           rootings == Cardinality(BranchRootings(p, i))
           roots == Cardinality(RootsAt(p, i))
<1>1. /\ IsFiniteSet(TransferringUses(p, i)) /\ IsFiniteSet(BranchRootings(p, i))
      /\ IsFiniteSet(RootsAt(p, i))
  BY PlacesAreFinite, FS_Subset DEF TransferringUses, BranchRootings, RootsAt
<1>2. edges \in Nat /\ rootings \in Nat /\ roots \in Nat
  BY <1>1, FS_CardinalityType
<1>3. /\ edges = 0 => TransferringUses(p, i) = {}
      /\ rootings = 0 => BranchRootings(p, i) = {}
      /\ roots = 0 => RootsAt(p, i) = {}
  BY <1>1, FS_EmptySet
<1>4. Sinks(p, i) = IF IsParameter(p, i) THEN 0 ELSE 1
  BY DEF Ownership
<1> DEFINE bound == CASE KindOf(p, i) = "ConnectedBinding" -> edges + 1
                      [] KindOf(p, i) = "Binding" /\ edges = 0 -> 1
                      [] OTHER -> edges
           total == bound + rootings + (IF IsParameter(p, i) THEN 0 ELSE roots)
<1>5. bound \in Nat /\ total \in Nat
  BY <1>2
<1>6. Sinks(p, i) = total \/ (total = 0 /\ Sinks(p, i) = 1)
  BY DEF Sinks
<1>7. total <= 1 /\ (IsParameter(p, i) => total = 0)
  BY <1>4, <1>5, <1>6
<1>8. edges <= bound
  BY <1>2
<1>9. CASE IsParameter(p, i)
  <2>1. edges = 0 /\ rootings = 0
    BY <1>2, <1>5, <1>7, <1>8, <1>9
  <2>2. KindOf(p, i) \notin {"Binding", "ConnectedBinding"}
    BY <1>9 DEF IsParameter
  <2> QED
    BY <1>3, <1>9, <2>1, <2>2
<1>10. CASE ~IsParameter(p, i)
  <2>1. bound + rootings + roots <= 1
    BY <1>7, <1>10
  <2> HIDE DEF bound, total
  <2>2. edges + rootings + roots <= 1
    BY <1>2, <1>5, <1>8, <2>1
  <2>3. edges <= 1 /\ rootings <= 1 /\ roots <= 1
    BY <1>2, <2>2
  <2>4. /\ edges = 0 \/ rootings = 0
        /\ edges = 0 \/ roots = 0
        /\ rootings = 0 \/ roots = 0
    BY <1>2, <2>2
  <2>5. KindOf(p, i) \in {"Binding", "ConnectedBinding"} => roots = 0 /\ rootings = 0
    <3>1. KindOf(p, i) \in {"Binding", "ConnectedBinding"} => bound >= 1
      BY <1>2 DEF bound
    <3> QED
      BY <1>2, <1>5, <2>1, <3>1
  <2>6. KindOf(p, i) = "ConnectedBinding" => edges = 0
    <3>1. KindOf(p, i) = "ConnectedBinding" => bound = edges + 1
      BY DEF bound
    <3> QED
      BY <1>2, <2>1, <3>1
  <2> HIDE DEF edges, rootings, roots
  <2>7. /\ \A x, y \in TransferringUses(p, i) : x = y
        /\ \A x, y \in BranchRootings(p, i) : x = y
        /\ \A r, s \in RootsAt(p, i) : r = s
    BY <1>1, <2>3, AtMostOne DEF edges, rootings, roots
  <2> QED
    BY <1>3, <1>10, <2>4, <2>5, <2>6, <2>7
<1> QED
  BY <1>9, <1>10
(***************************************************************************)
(* Last uses.                                                              *)
(***************************************************************************)
(* A consumer is a later node with such an edge.                           *)
LEMMA ConsumerHasEdge ==
  ASSUME NEW p, IsProgram(p), NEW i
  PROVE  /\ Consumers(p, i) \subseteq Indices(p)
         /\ \A c \in Indices(p) :
              c \in Consumers(p, i) <=>
                \E k \in DOMAIN EdgesOf(p, c) : EdgesOf(p, c)[k].producer = i
<1>1. Consumers(p, i) \subseteq Indices(p)
  BY AtPlace DEF Consumers
<1>2. ASSUME NEW c \in Indices(p), c \in Consumers(p, i)
      PROVE  \E k \in DOMAIN EdgesOf(p, c) : EdgesOf(p, c)[k].producer = i
  <2>1. PICK x \in EdgePlaces(p) : EdgeAt(p, x).producer = i /\ x[1] = c
    BY <1>2 DEF Consumers
  <2>2. x[2] \in DOMAIN EdgesOf(p, c) /\ EdgeAt(p, x) = EdgesOf(p, c)[x[2]]
    BY <2>1, AtPlace
  <2> QED
    BY <2>1, <2>2
<1>3. ASSUME NEW c \in Indices(p), NEW k \in DOMAIN EdgesOf(p, c),
             EdgesOf(p, c)[k].producer = i
      PROVE  c \in Consumers(p, i)
  <2>1. <<c, k>> \in EdgePlaces(p) /\ EdgeAt(p, <<c, k>>).producer = i /\ <<c, k>>[1] = c
    BY <1>3, PlaceOf
  <2> QED
    BY <2>1 DEF Consumers
<1> QED
  BY <1>1, <1>2, <1>3

(* An edge points back, and its ownership is one the verifier allows.      *)
LEMMA EdgeIsVerified ==
  ASSUME NEW p, IsProgram(p), Verified(p), NEW i \in Indices(p), NEW k \in DOMAIN EdgesOf(p, i)
  PROVE  LET e == EdgesOf(p, i)[k]
         IN /\ e \in EdgeRecords
            /\ e.producer \in 1 .. i - 1 /\ e.producer \in Indices(p)
            /\ SemanticOwnership(p, i, e)
            /\ ElementInRange(p, e)
            /\ i \in Consumers(p, e.producer)
<1> DEFINE e == EdgesOf(p, i)[k]
<1>1. <<i, k>> \in EdgePlaces(p) /\ EdgeAt(p, <<i, k>>) = e /\ <<i, k>>[1] = i
  BY PlaceOf
<1>2. e \in EdgeRecords
  BY <1>1, AtPlace
<1>3. e.producer \in 1 .. i - 1
  BY <1>1 DEF Verified, Postorder
<1>4. e.producer \in Indices(p)
  BY <1>3, NumberedFromOne
<1>5. SemanticOwnership(p, i, e)
  BY <1>1 DEF Verified
<1>6. ElementInRange(p, e)
  BY <1>1 DEF Verified
<1> HIDE DEF e
<1>7. i \in Consumers(p, e.producer)
  BY ConsumerHasEdge DEF e
<1> QED
  BY <1>2, <1>3, <1>4, <1>5, <1>6, <1>7 DEF e

(* A fan-out that takes a branch has a place for it.                       *)
LEMMA RootingHasPlace ==
  ASSUME NEW p, IsProgram(p), NEW i
  PROVE  /\ FanOutsRootedAt(p, i) \subseteq FanOuts(p)
         /\ \A f \in FanOutsRootedAt(p, i) : \E x \in BranchRootings(p, i) : x[1] = f
         /\ \A x \in BranchRootings(p, i) : x[1] \in FanOutsRootedAt(p, i)
<1>1. ASSUME NEW f \in FanOutsRootedAt(p, i)
      PROVE  \E x \in BranchRootings(p, i) : x[1] = f
  <2>1. f \in FanOuts(p)
    BY DEF FanOutsRootedAt
  <2>2. PICK b \in DOMAIN Branches(p, f) : Branches(p, f)[b].root = i
    BY DEF FanOutsRootedAt
  <2>3. <<f, b>> \in BranchRootings(p, i) /\ <<f, b>>[1] = f
    BY <2>1, <2>2, BranchPlaceOf DEF BranchRootings
  <2> QED
    BY <2>3
<1>2. ASSUME NEW x \in BranchRootings(p, i)
      PROVE  x[1] \in FanOutsRootedAt(p, i)
  BY AtBranchPlace DEF BranchRootings, FanOutsRootedAt
<1> QED
  BY <1>1, <1>2 DEF FanOutsRootedAt

(* The branches of a fan-out follow each other, from its operand to it.    *)
LEMMA BranchesTile ==
  ASSUME NEW p, IsProgram(p), Verified(p), NEW f \in FanOuts(p)
  PROVE  /\ Len(EdgesOf(p, f)) = 1 /\ OperandOf(p, f) \in 1 .. f - 1
         /\ EdgesOf(p, f)[1].access = "WholeValue"
         /\ Len(Branches(p, f)) \in Nat \ {0} /\ DOMAIN Branches(p, f) = 1 .. Len(Branches(p, f))
         /\ Branches(p, f)[1].first = OperandOf(p, f) + 1
         /\ Branches(p, f)[Len(Branches(p, f))].last = f - 1
         /\ \A b \in DOMAIN Branches(p, f) :
              /\ Branches(p, f)[b] \in BranchRecords
              /\ OperandOf(p, f) < Branches(p, f)[b].first
              /\ Branches(p, f)[b].first <= Branches(p, f)[b].last
              /\ Branches(p, f)[b].last < f
              /\ b > 1 => Branches(p, f)[b].first = Branches(p, f)[b - 1].last + 1
              /\ BranchShape(p, f, Branches(p, f)[b])
         /\ \A i \in OperandOf(p, f) .. f - 1 : KindOf(p, i) # "FanOut"
<1> DEFINE B == Branches(p, f)
           n == Len(B)
           o == OperandOf(p, f)
<1>1. f \in Indices(p) /\ f \in Nat /\ FanOutShape(p, f)
  BY NumberedFromOne DEF FanOuts, Verified
<1>2. Len(EdgesOf(p, f)) = 1 /\ B # <<>> /\ EdgesOf(p, f)[1].access = "WholeValue"
  BY <1>1 DEF FanOutShape
<1>3. B \in Seq(BranchRecords) /\ EdgesOf(p, f) \in Seq(EdgeRecords)
  BY <1>1, NumberedFromOne
<1>4. n \in Nat \ {0} /\ DOMAIN B = 1 .. n /\ \A b \in 1 .. n : B[b] \in BranchRecords
  BY <1>2, <1>3
<1>5. \A b \in 1 .. n : B[b].first \in Nat /\ B[b].last \in Nat
  BY <1>4 DEF BranchRecords
<1>6. o \in 1 .. f - 1
  <2>1. 1 \in DOMAIN EdgesOf(p, f)
    BY <1>2, <1>3
  <2> QED
    BY <1>1, <2>1, EdgeIsVerified DEF OperandOf
<1>7. \A b \in 1 .. n :
        /\ B[b].first = (IF b = 1 THEN o ELSE B[b - 1].last) + 1
        /\ B[b].first <= B[b].last
        /\ BranchShape(p, f, B[b])
  BY <1>1, <1>4 DEF FanOutShape
<1>8. B[n].last = f - 1 /\ \A i \in o .. f - 1 : KindOf(p, i) # "FanOut"
  BY <1>1 DEF FanOutShape
<1> HIDE DEF B, n, o
<1>9. \A b \in 1 .. n : o < B[b].first
  <2> DEFINE T == {k \in 0 .. n - 1 : o < B[k + 1].first}
  <2>1. 0 \in T
    BY <1>4, <1>5, <1>6, <1>7
  <2>2. ASSUME NEW k \in 0 .. (n - 1) - 1, k \in T PROVE k + 1 \in T
    <3>1. k + 1 \in 1 .. n /\ (k + 1) + 1 \in 1 .. n /\ k + 1 \in 0 .. n - 1
          /\ ((k + 1) + 1) - 1 = k + 1 /\ (k + 1) + 1 # 1
      BY <1>4
    <3>2. B[(k + 1) + 1].first = B[k + 1].last + 1
      BY <3>1, <1>7
    <3>3. o < B[k + 1].first /\ B[k + 1].first <= B[k + 1].last
      BY <2>2, <3>1, <1>7
    <3> QED
      BY <3>1, <3>2, <3>3, <1>5, <1>6
  <2> HIDE DEF T
  <2>3. 0 .. n - 1 \subseteq T
    BY <2>1, <2>2, <1>4, InductionUpTo
  <2>4. ASSUME NEW b \in 1 .. n PROVE o < B[b].first
    <3>1. b - 1 \in T /\ (b - 1) + 1 = b
      BY <2>3, <1>4
    <3> QED
      BY <3>1 DEF T
  <2> QED
    BY <2>4
<1>10. \A b \in 1 .. n : B[b].last < f
  <2> DEFINE T == {k \in 0 .. n - 1 : B[n - k].last < f}
  <2>1. 0 \in T
    BY <1>1, <1>4, <1>5, <1>8
  <2>2. ASSUME NEW k \in 0 .. (n - 1) - 1, k \in T PROVE k + 1 \in T
    <3>1. n - k \in 1 .. n /\ n - (k + 1) \in 1 .. n /\ k + 1 \in 0 .. n - 1
          /\ (n - k) - 1 = n - (k + 1) /\ n - k # 1
      BY <1>4
    <3>2. B[n - k].first = B[n - (k + 1)].last + 1
      BY <3>1, <1>7
    <3>3. B[n - k].last < f /\ B[n - k].first <= B[n - k].last
      BY <2>2, <3>1, <1>7
    <3> QED
      BY <3>1, <3>2, <3>3, <1>1, <1>5
  <2> HIDE DEF T
  <2>3. 0 .. n - 1 \subseteq T
    BY <2>1, <2>2, <1>4, InductionUpTo
  <2>4. ASSUME NEW b \in 1 .. n PROVE B[b].last < f
    <3>1. n - b \in T /\ n - (n - b) = b
      BY <2>3, <1>4
    <3> QED
      BY <3>1 DEF T
  <2> QED
    BY <2>4
<1>11. \A b \in 1 .. n : b > 1 => B[b].first = B[b - 1].last + 1
  BY <1>4, <1>7
<1>12. B[1].first = o + 1
  BY <1>4, <1>7
<1> QED
  BY <1>2, <1>4, <1>6, <1>7, <1>8, <1>9, <1>10, <1>11, <1>12 DEF B, n, o

(* The root of a branch is an application, older than the fan-out.         *)
LEMMA RootedIsApplication ==
  ASSUME NEW p, IsProgram(p), Verified(p), NEW f \in FanOuts(p), NEW b \in DOMAIN Branches(p, f)
  PROVE  LET r == Branches(p, f)[b].root
         IN /\ r \in Indices(p) /\ KindOf(p, r) = "SelectedApply"
            /\ r \in RegionOf(Branches(p, f)[b]) /\ r < f /\ OperandOf(p, f) < r
<1> DEFINE branch == Branches(p, f)[b]
<1>1. /\ branch \in BranchRecords /\ OperandOf(p, f) < branch.first /\ branch.last < f
      /\ BranchShape(p, f, branch) /\ OperandOf(p, f) \in 1 .. f - 1
  BY BranchesTile
<1>2. branch.root \in branch.first .. branch.last /\ KindOf(p, branch.root) = "SelectedApply"
  BY <1>1 DEF BranchShape, RegionOf
<1>3. branch.first \in Nat /\ branch.last \in Nat
  BY <1>1 DEF BranchRecords
<1>4. f \in Indices(p)
  BY DEF FanOuts
<1>5. branch.root \in Indices(p)
  BY <1>1, <1>2, <1>3, <1>4, NumberedFromOne
<1>6. f \in Nat
  BY <1>4, NumberedFromOne
<1>7. branch.root < f /\ OperandOf(p, f) < branch.root
  BY <1>1, <1>2, <1>3, <1>6
<1> QED
  BY <1>2, <1>5, <1>7 DEF RegionOf

(***************************************************************************)
(* Borrows of temporaries.  Only a fan-out lends its operand: to the places *)
(* in its branches, and it takes it over itself.                           *)
(***************************************************************************)
Special == {"Binding", "ConnectedBinding", "PrefixSpreadPrepare"}

(* The operand of a fan-out is no binding, and the fan-out takes it over.  *)
LEMMA OperandIsTakenOver ==
  ASSUME NEW p, IsProgram(p), Verified(p), NEW f \in FanOuts(p)
  PROVE  LET o == OperandOf(p, f)
         IN /\ o \in Indices(p) /\ o < f /\ f \in Consumers(p, o)
            /\ KindOf(p, o) \notin Special
            /\ EdgesOf(p, f)[1].access = "WholeValue"
            /\ ~IsParameter(p, o) =>
                 /\ EdgesOf(p, f)[1].ownership = "OwnedInput"
                 /\ <<f, 1>> \in TransferringUses(p, o)
            /\ IsParameter(p, o) => EdgesOf(p, f)[1].ownership = "ImmutableBorrow"
<1> DEFINE e == EdgesOf(p, f)[1]
<1>1. f \in Indices(p) /\ KindOf(p, f) = "FanOut"
  BY DEF FanOuts
<1>2. 1 \in DOMAIN EdgesOf(p, f)
  BY <1>1, BranchesTile, NumberedFromOne
<1>3. e.access = "WholeValue" /\ e.producer = OperandOf(p, f)
  BY BranchesTile DEF OperandOf
<1>4. /\ e.producer \in Indices(p) /\ e.producer \in 1 .. f - 1
      /\ SemanticOwnership(p, f, e) /\ f \in Consumers(p, e.producer)
  BY <1>1, <1>2, EdgeIsVerified
<1>5. f \in Nat
  BY <1>1, NumberedFromOne
<1> HIDE DEF e
<1>6. KindOf(p, e.producer) \notin Special
  BY <1>1, <1>3, <1>4 DEF SemanticOwnership, FromBinding, FromConnectedBinding, FromSpread, Special
<1>7. FromOther(p, f, "FanOut", e)
  BY <1>1, <1>4, <1>6 DEF SemanticOwnership, Special
<1>8. e.ownership = InputUnlessParameter(p, e)
  BY <1>3, <1>7 DEF FromOther, IsPlaceholder
<1>9. <<f, 1>> \in EdgePlaces(p) /\ EdgeAt(p, <<f, 1>>) = e
  BY <1>1, <1>2, PlaceOf DEF e
<1>10. ~IsParameter(p, e.producer) => e.ownership = "OwnedInput" /\ <<f, 1>> \in TransferringUses(p, e.producer)
  BY <1>8, <1>9 DEF InputUnlessParameter, TransferringUses
<1>11. IsParameter(p, e.producer) => e.ownership = "ImmutableBorrow"
  BY <1>8 DEF InputUnlessParameter
<1> QED
  BY <1>3, <1>4, <1>5, <1>6, <1>10, <1>11 DEF e

(* What borrows a temporary is a place in a branch of a fan-out over it.   *)
LEMMA TemporaryIsLentByFanOut ==
  ASSUME NEW p, IsProgram(p), Verified(p), NEW c \in Indices(p), NEW k \in DOMAIN EdgesOf(p, c),
         EdgesOf(p, c)[k].ownership = "ImmutableBorrow",
         ~IsParameter(p, EdgesOf(p, c)[k].producer),
         KindOf(p, EdgesOf(p, c)[k].producer) \notin Special
  PROVE  /\ IsPlaceholder(EdgesOf(p, c)[k])
         /\ KindOf(p, c) \in {"SelectedApply", "PrefixSpreadPrepare"}
         /\ \E f \in FanOuts(p) : \E b \in DOMAIN Branches(p, f) :
              /\ OperandOf(p, f) = EdgesOf(p, c)[k].producer
              /\ c \in RegionOf(Branches(p, f)[b]) /\ c < f
<1> DEFINE e == EdgesOf(p, c)[k]
<1>1. SemanticOwnership(p, c, e) /\ e.producer \in Indices(p)
  BY EdgeIsVerified
<1>2. e.ownership = "ImmutableBorrow" /\ ~IsParameter(p, e.producer) /\ KindOf(p, e.producer) \notin Special
  OBVIOUS
<1>3. <<c, k>> \in EdgePlaces(p) /\ EdgeAt(p, <<c, k>>) = e /\ <<c, k>>[1] = c
  BY PlaceOf
<1> HIDE DEF e
<1>4. FromOther(p, c, KindOf(p, c), e)
  BY <1>1, <1>2 DEF SemanticOwnership, Special
<1>5. IsPlaceholder(e) /\ InFanOutContext(p, c, e)
  BY <1>2, <1>4 DEF FromOther, TransferUnlessParameter, InputUnlessParameter
<1>6. PICK f \in FanOuts(p) :
        OperandOf(p, f) = e.producer /\ \E b \in DOMAIN Branches(p, f) : c \in RegionOf(Branches(p, f)[b])
  BY <1>5 DEF InFanOutContext
<1>7. PICK b \in DOMAIN Branches(p, f) : c \in RegionOf(Branches(p, f)[b])
  BY <1>6
<1>8. /\ Branches(p, f)[b] \in BranchRecords /\ Branches(p, f)[b].last < f
      /\ BranchShape(p, f, Branches(p, f)[b])
  BY BranchesTile
<1>9. c < f
  <2>1. f \in Nat
    BY NumberedFromOne DEF FanOuts
  <2> QED
    BY <1>7, <1>8, <2>1 DEF RegionOf, BranchRecords
<1>10. KindOf(p, c) \in {"SelectedApply", "PrefixSpreadPrepare"}
  BY <1>3, <1>5, <1>7, <1>8 DEF BranchShape
<1> QED
  BY <1>5, <1>6, <1>7, <1>9, <1>10 DEF e
(* Whoever takes a value has the one transferring use of it, or its root.  *)
LEMMA TakerIsOwner ==
  ASSUME NEW p, IsProgram(p), Verified(p), NEW i \in Indices(p), NEW j \in Indices(p), Takes(p, j, i)
  PROVE  /\ ~IsParameter(p, i)
         /\ \/ \E k \in DOMAIN EdgesOf(p, j) :
                 /\ EdgesOf(p, j)[k].producer = i
                 /\ EdgesOf(p, j)[k].ownership = "InfallibleTransfer"
                 /\ <<j, k>> \in TransferringUses(p, i)
            \/ j \in FanOutsRootedAt(p, i) /\ BranchRootings(p, i) # {}
         /\ i < j
<1>0. j \in Nat /\ Ownership(p)
  BY NumberedFromOne DEF Verified
<1>1. CASE \E k \in DOMAIN EdgesOf(p, j) :
             /\ EdgesOf(p, j)[k].producer = i
             /\ EdgesOf(p, j)[k].ownership = "InfallibleTransfer"
  <2>1. PICK k \in DOMAIN EdgesOf(p, j) :
               /\ EdgesOf(p, j)[k].producer = i
               /\ EdgesOf(p, j)[k].ownership = "InfallibleTransfer"
    BY <1>1
  <2>2. <<j, k>> \in TransferringUses(p, i)
    BY <2>1, PlaceOf DEF TransferringUses
  <2>3. i \in 1 .. j - 1
    BY <2>1, EdgeIsVerified
  <2> QED
    BY <1>0, <2>1, <2>2, <2>3, OneSink
<1>2. CASE j \in FanOutsRootedAt(p, i)
  <2>1. PICK x \in BranchRootings(p, i) : x[1] = j
    BY <1>2, RootingHasPlace
  <2>2. j \in FanOuts(p) /\ \E b \in DOMAIN Branches(p, j) : Branches(p, j)[b].root = i
    BY <1>2 DEF FanOutsRootedAt
  <2>3. i < j
    BY <2>2, RootedIsApplication
  <2> QED
    BY <1>0, <1>2, <2>1, <2>3, OneSink
<1> QED
  BY <1>1, <1>2 DEF Takes

(* The root of a branch has no consumer but its fan-out.                   *)
LEMMA RootedHasNoConsumer ==
  ASSUME NEW p, IsProgram(p), Verified(p), NEW i \in Indices(p), FanOutsRootedAt(p, i) # {}
  PROVE  Consumers(p, i) = {}
<1>0. Ownership(p)
  BY DEF Verified
<1>1. PICK f \in FanOutsRootedAt(p, i) : TRUE
  OBVIOUS
<1>2. f \in FanOuts(p) /\ \E b \in DOMAIN Branches(p, f) : Branches(p, f)[b].root = i
  BY DEF FanOutsRootedAt
<1>3. KindOf(p, i) = "SelectedApply"
  BY <1>2, RootedIsApplication
<1>4. BranchRootings(p, i) # {}
  BY RootingHasPlace
<1>5. TransferringUses(p, i) = {}
  BY <1>0, <1>4, OneSink
<1>6. ~IsParameter(p, i) /\ KindOf(p, i) \notin Special
  BY <1>3 DEF IsParameter, Special
<1>7. SUFFICES ASSUME NEW c \in Consumers(p, i) PROVE FALSE
  OBVIOUS
<1>8. PICK k \in DOMAIN EdgesOf(p, c) : EdgesOf(p, c)[k].producer = i
  BY ConsumerHasEdge
<1>9. c \in Indices(p)
  BY ConsumerHasEdge
<1>10. EdgesOf(p, c)[k].ownership = "ImmutableBorrow"
  <2>1. <<c, k>> \in EdgePlaces(p) /\ EdgeAt(p, <<c, k>>) = EdgesOf(p, c)[k]
    BY <1>8, <1>9, PlaceOf
  <2>2. <<c, k>> \notin TransferringUses(p, i)
    BY <1>5
  <2> QED
    BY <1>8, <2>1, <2>2 DEF TransferringUses
<1>11. PICK g \in FanOuts(p) : OperandOf(p, g) = i
  BY <1>6, <1>8, <1>9, <1>10, TemporaryIsLentByFanOut
<1>12. <<g, 1>> \in TransferringUses(p, i)
  BY <1>6, <1>11, OperandIsTakenOver
<1> QED
  BY <1>5, <1>12

(* A value that is released by a node is released after its last consumer. *)
LEMMA ReleaseIsLate ==
  ASSUME NEW p, IsProgram(p), Verified(p), AsLowered(p), NEW i \in Indices(p), NEW j \in Indices(p),
         p.releases[i] = AtNode(j)
  PROVE  /\ \A c \in Consumers(p, i) : c <= j
         /\ \A f \in FanOutsRootedAt(p, i) : f <= j
         /\ ~IsParameter(p, i)
         /\ RootsAt(p, i) = {}
         /\ KindOf(p, i) # "Binding" => j \in Consumers(p, i) \union FanOutsRootedAt(p, i)
<1> DEFINE n == Len(p.nodes)
<1>1. n \in Nat /\ Indices(p) = 1 .. n /\ j # NoNode
  BY NumberedFromOne DEF NoNode
<1>2. Ownership(p)
  BY DEF Verified
<1>3. ~IsParameter(p, i)
  <2>1. p.releases[i] # AtNode(NoNode)
    BY <1>1 DEF AtNode
  <2> QED
    BY <1>2, <2>1 DEF Ownership
<1>4. AtNode(j) = ExpectedRelease(p, i)
  BY <1>2, <1>3 DEF Ownership
<1>5. RootsAt(p, i) = {}
  BY <1>1, <1>3, <1>4 DEF ExpectedRelease, AtRoot, AtNode
<1>6. Consumers(p, i) \subseteq 1 .. n
  BY <1>1, ConsumerHasEdge
<1>7. FanOutsRootedAt(p, i) \subseteq 1 .. n
  BY <1>1, RootingHasPlace DEF FanOuts
<1>8. CASE KindOf(p, i) = "Binding"
  <2>1. AtNode(j) = AtNode(Max(RecordedConsumers(p, i)))
    BY <1>8 DEF AsLowered, ReleasedByLastRecorded, NodesOf
  <2>2. j = Max(RecordedConsumers(p, i))
    BY <2>1 DEF AtNode
  <2>3. RecordedConsumers(p, i) \subseteq 1 .. n /\ Consumers(p, i) \subseteq RecordedConsumers(p, i)
    BY <1>1, <1>6, ConsumerHasEdge DEF RecordedConsumers
  <2>4. \A c \in Consumers(p, i) : c <= j
    BY <1>1, <2>2, <2>3, GreatestOf
  <2>5. FanOutsRootedAt(p, i) = {}
    <3>1. BranchRootings(p, i) = {}
      BY <1>2, <1>8, OneSink
    <3> QED
      BY <3>1, RootingHasPlace
  <2> QED
    BY <1>3, <1>5, <1>8, <2>4, <2>5
<1>9. CASE KindOf(p, i) # "Binding"
  <2>1. j = LastUse(p, i)
    BY <1>4, <1>5, <1>9 DEF ExpectedRelease, AtNode
  <2>2. CASE FanOutsRootedAt(p, i) # {}
    <3>1. j = Max(FanOutsRootedAt(p, i)) /\ Consumers(p, i) = {}
      BY <2>1, <2>2, RootedHasNoConsumer DEF LastUse
    <3> QED
      BY <1>1, <1>3, <1>5, <1>7, <2>2, <3>1, GreatestOf
  <2>3. CASE FanOutsRootedAt(p, i) = {}
    <3>1. Consumers(p, i) # {} /\ j = Max(Consumers(p, i))
      BY <1>1, <2>1, <2>3 DEF LastUse
    <3> QED
      BY <1>1, <1>3, <1>5, <1>6, <2>3, <3>1, GreatestOf
  <2> QED
    BY <2>2, <2>3
<1> QED
  BY <1>8, <1>9

(***************************************************************************)
(* What a consumer finds.                                                  *)
(***************************************************************************)
(* No node takes a value before another has read it.                       *)
LEMMA NobodyTakesBefore ==
  ASSUME NEW p, IsProgram(p), Verified(p), NEW i \in Indices(p),
         NEW c \in Consumers(p, i), NEW j \in Indices(p), Takes(p, j, i)
  PROVE  c <= j
<1>0. Ownership(p) /\ c \in Indices(p) /\ c \in Nat /\ j \in Nat /\ UserBindingUses(p)
  <2>1. Ownership(p) /\ UserBindingUses(p)
    BY DEF Verified
  <2>2. c \in Indices(p)
    BY ConsumerHasEdge
  <2>3. Indices(p) = 1 .. Len(p.nodes) /\ Len(p.nodes) \in Nat
    BY NumberedFromOne
  <2>4. c \in Nat /\ j \in Nat
    BY <2>2, <2>3
  <2> QED
    BY <2>1, <2>2, <2>4
<1>1. SUFFICES ASSUME j < c PROVE FALSE
  BY <1>0
<1>2. PICK k \in DOMAIN EdgesOf(p, c) : EdgesOf(p, c)[k].producer = i
  BY <1>0, ConsumerHasEdge
<1>3. FanOutsRootedAt(p, i) = {} /\ ~IsParameter(p, i)
  BY RootedHasNoConsumer, TakerIsOwner
<1>4. PICK m \in DOMAIN EdgesOf(p, j) :
        /\ EdgesOf(p, j)[m].producer = i
        /\ EdgesOf(p, j)[m].ownership = "InfallibleTransfer"
        /\ <<j, m>> \in TransferringUses(p, i)
  BY <1>3, TakerIsOwner
<1>5. \A x \in TransferringUses(p, i) : x = <<j, m>>
  BY <1>0, <1>3, <1>4, OneSink
<1>6. <<c, k>> \in EdgePlaces(p) /\ EdgeAt(p, <<c, k>>) = EdgesOf(p, c)[k] /\ <<c, k>>[1] = c
  BY <1>0, <1>2, PlaceOf
<1>7. EdgesOf(p, c)[k].ownership = "ImmutableBorrow"
  <2>1. <<c, k>> # <<j, m>>
    BY <1>0, <1>1
  <2>2. <<c, k>> \notin TransferringUses(p, i)
    BY <1>5, <2>1
  <2> QED
    BY <1>2, <1>6, <2>2 DEF TransferringUses
<1>8. SemanticOwnership(p, c, EdgesOf(p, c)[k]) /\ SemanticOwnership(p, j, EdgesOf(p, j)[m])
  BY <1>0, EdgeIsVerified
<1>9. KindOf(p, i) # "ConnectedBinding"
  BY <1>0, <1>4, OneSink
<1>10. KindOf(p, i) # "PrefixSpreadPrepare"
  <2> DEFINE e == EdgesOf(p, j)[m]
  <2>1. e.producer = i /\ e.ownership = "InfallibleTransfer" /\ SemanticOwnership(p, j, e)
    BY <1>4, <1>8
  <2> HIDE DEF e
  <2> QED
    BY <2>1 DEF SemanticOwnership, FromSpread
<1>11. CASE KindOf(p, i) = "Binding"
  <2> DEFINE e == EdgesOf(p, c)[k]
             d == EdgesOf(p, j)[m]
  <2>1. e.producer = i /\ SemanticOwnership(p, c, e) /\ d.producer = i /\ SemanticOwnership(p, j, d)
        /\ d.ownership = "InfallibleTransfer"
    BY <1>2, <1>4, <1>8
  <2>2. EdgeAt(p, <<c, k>>) = e /\ EdgeAt(p, <<j, m>>) = d /\ <<j, m>> \in EdgePlaces(p)
        /\ <<j, m>>[1] = j
    BY <1>0, <1>4, <1>6, PlaceOf
  <2> HIDE DEF e, d
  <2>3. e.access \in BindingAccess /\ d.access = "BindingMove"
    BY <1>11, <2>1 DEF SemanticOwnership, FromBinding, BindingAccess
  <2>4. <<c, k>> \in UsesOf(p, i, BindingAccess) /\ <<j, m>> \in UsesOf(p, i, BindingAccess)
    BY <1>6, <2>1, <2>2, <2>3 DEF UsesOf, BindingAccess
  <2>5. Precedes(<<j, m>>, <<c, k>>)
    BY <1>1, <1>6, <2>2 DEF Precedes
  <2>6. EdgeAt(p, <<j, m>>).access # "BindingMove"
    BY <1>0, <1>11, <2>4, <2>5 DEF UserBindingUses
  <2> QED
    BY <2>2, <2>3, <2>6
<1>12. CASE KindOf(p, i) \notin Special
  <2>1. PICK f \in FanOuts(p) : \E b \in DOMAIN Branches(p, f) :
          OperandOf(p, f) = EdgesOf(p, c)[k].producer /\ c < f
    BY <1>0, <1>2, <1>3, <1>7, <1>12, TemporaryIsLentByFanOut
  <2>2. <<f, 1>> \in TransferringUses(p, i)
    BY <1>2, <1>3, <2>1, OperandIsTakenOver
  <2>3. f = j
    BY <1>5, <2>2
  <2> QED
    BY <1>0, <1>1, <2>1, <2>3
<1> QED
  BY <1>9, <1>10, <1>11, <1>12 DEF Special

(* Every edge finds the value of its producer.                             *)
THEOREM ConsumerFindsValue ==
  ASSUME NEW p, IsProgram(p), Verified(p), AsLowered(p), NEW i \in Indices(p), NEW c \in Consumers(p, i)
  PROVE  ~Gone(p, i, c)
<1>1. c \in Indices(p) /\ c \in Nat
  BY NumberedFromOne, ConsumerHasEdge
<1>2. SUFFICES ASSUME NEW j \in 1 .. c - 1, j \in Indices(p),
                      Takes(p, j, i) \/ p.releases[i] = AtNode(j)
               PROVE FALSE
  BY DEF Gone
<1>3. CASE Takes(p, j, i)
  <2>1. c <= j
    BY <1>2, <1>3, NobodyTakesBefore
  <2> QED
    BY <1>1, <2>1
<1>4. CASE p.releases[i] = AtNode(j)
  <2>1. c <= j
    BY <1>2, <1>4, ReleaseIsLate
  <2> QED
    BY <1>1, <2>1
<1> QED
  BY <1>2, <1>3, <1>4

(* A fan-out finds the roots of its branches, each its own.                *)
LEMMA FanOutFindsRoots ==
  ASSUME NEW p, IsProgram(p), Verified(p), AsLowered(p), NEW f \in FanOuts(p), NEW b \in DOMAIN Branches(p, f)
  PROVE  LET r == Branches(p, f)[b].root
         IN /\ ~Gone(p, r, f)
            /\ \A d \in DOMAIN Branches(p, f) : Branches(p, f)[d].root = r => d = b
<1> DEFINE r == Branches(p, f)[b].root
<1>1. r \in Indices(p) /\ f \in Indices(p) /\ f \in Nat /\ Ownership(p)
  BY RootedIsApplication, NumberedFromOne DEF FanOuts, Verified
<1>2. f \in FanOutsRootedAt(p, r) /\ <<f, b>> \in BranchRootings(p, r)
  BY BranchPlaceOf DEF FanOutsRootedAt, BranchRootings
<1>3. ~IsParameter(p, r)
  BY RootedIsApplication DEF IsParameter
<1> HIDE DEF r
<1>4. /\ \A x \in BranchRootings(p, r) : x = <<f, b>>
      /\ TransferringUses(p, r) = {}
  BY <1>1, <1>2, <1>3, OneSink
<1>5. \A d \in DOMAIN Branches(p, f) : Branches(p, f)[d].root = r => d = b
  BY <1>4, BranchPlaceOf DEF BranchRootings
<1>6. ASSUME NEW j \in 1 .. f - 1, j \in Indices(p), Takes(p, j, r)
      PROVE FALSE
  <2>1. j \in FanOutsRootedAt(p, r)
    BY <1>1, <1>4, <1>6, TakerIsOwner
  <2>2. PICK x \in BranchRootings(p, r) : x[1] = j
    BY <2>1, RootingHasPlace
  <2>3. j = f
    BY <1>4, <2>2
  <2> QED
    BY <1>1, <2>3
<1>7. ASSUME NEW j \in 1 .. f - 1, j \in Indices(p), p.releases[r] = AtNode(j)
      PROVE FALSE
  <2>1. f <= j
    BY <1>1, <1>2, <1>7, ReleaseIsLate
  <2> QED
    BY <1>1, <2>1
<1>8. ~Gone(p, r, f)
  BY <1>6, <1>7 DEF Gone
<1> QED
  BY <1>5, <1>8 DEF r

(* Nothing takes or releases what a root delivers, and parameters stay.    *)
LEMMA RootStays ==
  ASSUME NEW p, IsProgram(p), Verified(p), AsLowered(p), NEW i \in Indices(p),
         RootsAt(p, i) # {} \/ IsParameter(p, i), NEW c \in Nat
  PROVE  ~Gone(p, i, c)
<1>0. Ownership(p)
  BY DEF Verified
<1>1. SUFFICES ASSUME NEW j \in Indices(p), Takes(p, j, i) \/ p.releases[i] = AtNode(j)
               PROVE FALSE
  BY DEF Gone
<1>2. ~(p.releases[i] = AtNode(j))
  BY ReleaseIsLate
<1>3. CASE Takes(p, j, i)
  <2>1. ~IsParameter(p, i) /\ (TransferringUses(p, i) # {} \/ BranchRootings(p, i) # {})
    BY <1>3, TakerIsOwner
  <2> QED
    BY <1>0, <2>1, OneSink
<1> QED
  BY <1>1, <1>2, <1>3

(***************************************************************************)
(* Who releases, who hands over, who borrows.                              *)
(***************************************************************************)
(* A node is released by a younger one, which reads something.             *)
LEMMA ReleaserReads ==
  ASSUME NEW p, IsProgram(p), Verified(p), AsLowered(p), NEW i \in Indices(p), NEW j \in Indices(p),
         p.releases[i] = AtNode(j)
  PROVE  i < j /\ KindOf(p, j) \notin {"Constant", "ParameterBorrow"}
<1> DEFINE n == Len(p.nodes)
<1>0. Indices(p) = 1 .. n /\ n \in Nat
  BY NumberedFromOne
<1>1. ASSUME NEW k \in Indices(p), NEW c \in Consumers(p, k)
      PROVE  c \in Indices(p) /\ k < c /\ KindOf(p, c) \notin {"Constant", "ParameterBorrow"}
  <2>1. c \in Indices(p)
    BY ConsumerHasEdge
  <2>2. PICK l \in DOMAIN EdgesOf(p, c) : EdgesOf(p, c)[l].producer = k
    BY <2>1, ConsumerHasEdge
  <2>3. k \in 1 .. c - 1
    BY <2>1, <2>2, EdgeIsVerified
  <2>4. EdgesOf(p, c) # <<>>
    BY <2>2
  <2>5. NodeShape(p, c)
    BY <2>1 DEF Verified
  <2>6. KindOf(p, c) \notin {"Constant", "ParameterBorrow"}
    BY <2>4, <2>5 DEF NodeShape
  <2> QED
    BY <1>0, <2>1, <2>3, <2>6
<1>2. CASE KindOf(p, i) # "Binding"
  <2>1. j \in Consumers(p, i) \union FanOutsRootedAt(p, i)
    BY <1>2, ReleaseIsLate
  <2>2. CASE j \in Consumers(p, i)
    BY <1>1, <2>2
  <2>3. CASE j \in FanOutsRootedAt(p, i)
    <3>1. j \in FanOuts(p) /\ \E b \in DOMAIN Branches(p, j) : Branches(p, j)[b].root = i
      BY <2>3 DEF FanOutsRootedAt
    <3>2. i < j
      BY <3>1, RootedIsApplication
    <3> QED
      BY <3>1, <3>2 DEF FanOuts
  <2> QED
    BY <2>1, <2>2, <2>3
<1>3. CASE KindOf(p, i) = "Binding"
  <2>1. AtNode(j) = AtNode(Max(RecordedConsumers(p, i)))
    BY <1>3 DEF AsLowered, ReleasedByLastRecorded, NodesOf
  <2>2. j = Max(RecordedConsumers(p, i))
    BY <2>1 DEF AtNode
  <2>3. UsesOf(p, i, BindingAccess) # {}
    BY <1>3 DEF Verified, UserBindingUses
  <2>4. Consumers(p, i) # {}
    BY <2>3 DEF UsesOf, Consumers
  <2>5. RecordedConsumers(p, i) \subseteq 1 .. n /\ RecordedConsumers(p, i) # {}
    BY <1>0, <2>4, ConsumerHasEdge DEF RecordedConsumers
  <2>6. j \in RecordedConsumers(p, i)
    BY <1>0, <2>2, <2>5, GreatestOf
  <2>7. CASE j \in Consumers(p, i)
    BY <1>1, <2>7
  <2>8. CASE \E k \in Consumers(p, i) : j \in Consumers(p, k)
    <3>1. PICK k \in Consumers(p, i) : j \in Consumers(p, k)
      BY <2>8
    <3>2. k \in Indices(p) /\ i < k
      BY <1>1
    <3>3. k < j /\ KindOf(p, j) \notin {"Constant", "ParameterBorrow"}
      BY <1>1, <3>1, <3>2
    <3> QED
      BY <1>0, <3>2, <3>3
  <2> QED
    BY <2>6, <2>7, <2>8 DEF RecordedConsumers
<1> QED
  BY <1>2, <1>3

(* The nodes that may stand for another node's value without owning it.    *)
BorrowingKind == {"BindingBorrow", "ConnectedBinding", "PrefixSpreadPrepare"}

(* Node i does: what it hands over is not its own, nor a parameter.        *)
Borrows(p, i) ==
  /\ KindOf(p, i) \in BorrowingKind
  /\ EdgesOf(p, i)[1].ownership = "ImmutableBorrow"
  /\ ~IsParameter(p, Handed(p, i))

(* What only borrows cannot be moved on.                                   *)
LEMMA BorrowIsNotMoved ==
  ASSUME NEW p, IsProgram(p), Verified(p), AsLowered(p), NEW i \in Indices(p), NEW j \in Indices(p),
         Takes(p, j, i)
  PROVE  KindOf(p, i) \notin BorrowingKind
<1>0. Ownership(p)
  BY DEF Verified
<1>1. CASE j \in FanOutsRootedAt(p, i)
  <2>1. j \in FanOuts(p) /\ \E b \in DOMAIN Branches(p, j) : Branches(p, j)[b].root = i
    BY <1>1 DEF FanOutsRootedAt
  <2>2. KindOf(p, i) = "SelectedApply"
    BY <2>1, RootedIsApplication
  <2> QED
    BY <2>2 DEF BorrowingKind
<1>2. CASE j \notin FanOutsRootedAt(p, i)
  <2>1. ~IsParameter(p, i)
    BY TakerIsOwner
  <2>2. PICK k \in DOMAIN EdgesOf(p, j) :
          /\ EdgesOf(p, j)[k].producer = i
          /\ EdgesOf(p, j)[k].ownership = "InfallibleTransfer"
          /\ <<j, k>> \in TransferringUses(p, i)
    BY <1>2, TakerIsOwner
  <2>3. KindOf(p, i) # "ConnectedBinding"
    BY <1>0, <2>2, OneSink
  <2> DEFINE e == EdgesOf(p, j)[k]
  <2>4. e.producer = i /\ e.ownership = "InfallibleTransfer" /\ SemanticOwnership(p, j, e)
    BY <2>2, EdgeIsVerified
  <2>5. KindOf(p, i) # "PrefixSpreadPrepare"
    <3> HIDE DEF e
    <3> QED
      BY <2>4 DEF SemanticOwnership, FromSpread
  <2>6. ASSUME KindOf(p, i) = "BindingBorrow" PROVE FALSE
    <3>1. PICK f \in FanOuts(p) : OperandOf(p, f) = i
      BY <2>6 DEF AsLowered, BorrowsForFanOutOnly, NodesOf
    <3>2. <<f, 1>> \in TransferringUses(p, i) /\ EdgesOf(p, f)[1].ownership = "OwnedInput"
      BY <2>1, <3>1, OperandIsTakenOver
    <3>3. <<j, k>> = <<f, 1>>
      BY <1>0, <2>1, <2>2, <3>2, OneSink
    <3>4. j = f /\ k = 1
      BY <3>3
    <3> QED
      BY <2>4, <3>2, <3>4
  <2> QED
    BY <2>3, <2>5, <2>6 DEF BorrowingKind
<1> QED
  BY <1>1, <1>2

(* A handover moves its operand, or borrows it; a move never moves a       *)
(* borrow, and what is not a parameter is borrowed by few.                 *)
LEMMA HandoverMovesOrBorrows ==
  ASSUME NEW p, IsProgram(p), Verified(p), AsLowered(p), NEW i \in Indices(p),
         KindOf(p, i) \in HandoverKind
  PROVE  LET e == EdgesOf(p, i)[1]
         IN /\ 1 \in DOMAIN EdgesOf(p, i) /\ Len(EdgesOf(p, i)) = 1
            /\ e.producer = Handed(p, i)
            /\ Handed(p, i) \in 1 .. i - 1 /\ Handed(p, i) \in Indices(p)
            /\ i \in Consumers(p, Handed(p, i))
            /\ TypeOf(p, i) = TypeOf(p, Handed(p, i))
            /\ \/ /\ e.ownership = "InfallibleTransfer"
                  /\ Takes(p, i, Handed(p, i))
               \/ /\ e.ownership = "ImmutableBorrow"
                  /\ KindOf(p, i) # "BindingMove"
                  /\ IsParameter(p, Handed(p, i)) \/ Borrows(p, i)
<1> DEFINE e == EdgesOf(p, i)[1]
           t == Handed(p, i)
<1>1. NodeShape(p, i) /\ UserBindingUses(p)
  BY DEF Verified
<1>2. Len(EdgesOf(p, i)) = 1 /\ TypeOf(p, i) = TypeOf(p, t)
  BY <1>1 DEF NodeShape, HandsOver, HandoverKind, Handed
<1>3. 1 \in DOMAIN EdgesOf(p, i)
  BY <1>2, NumberedFromOne
<1>4. e.producer = t
  BY DEF Handed
<1>5. /\ t \in 1 .. i - 1 /\ t \in Indices(p) /\ i \in Consumers(p, t)
      /\ SemanticOwnership(p, i, e)
  BY <1>3, <1>4, EdgeIsVerified
<1>6. <<i, 1>> \in EdgePlaces(p) /\ EdgeAt(p, <<i, 1>>) = e
  BY <1>3, PlaceOf
<1>7. e.ownership = "InfallibleTransfer" => Takes(p, i, t)
  BY <1>3, <1>4 DEF Takes
<1>8. /\ KindOf(p, i) \in {"PrefixSpreadPrepare", "ConnectedBinding"} => e.access \in OperandAccess
      /\ KindOf(p, i) = "Binding" => e.access \in {"WholeValue", "BindingMove"}
      /\ KindOf(p, i) = "BindingMove" => e.access = "BindingMove"
      /\ KindOf(p, i) = "BindingBorrow" => e.access = "BindingBorrowWhole"
  BY <1>1 DEF NodeShape, HandsOver
<1>9. e.access \in BindingAccess => KindOf(p, t) = "Binding"
  BY <1>1, <1>4, <1>6 DEF UserBindingUses
<1> HIDE DEF e, t
<1>10. \/ e.ownership = "InfallibleTransfer"
       \/ /\ e.ownership = "ImmutableBorrow"
          /\ KindOf(p, i) # "BindingMove"
          /\ IsParameter(p, t) \/ KindOf(p, i) \in BorrowingKind
  <2>1. CASE KindOf(p, t) = "Binding"
    <3>1. FromBinding(KindOf(p, i), e)
      BY <1>4, <1>5, <2>1 DEF SemanticOwnership
    <3> QED
      BY <3>1 DEF FromBinding, HandoverKind, BorrowingKind
  <2>2. CASE KindOf(p, t) = "ConnectedBinding"
    <3>1. FromConnectedBinding(KindOf(p, i), e)
      BY <1>4, <1>5, <2>2 DEF SemanticOwnership
    <3> QED
      BY <3>1 DEF FromConnectedBinding, HandoverKind
  <2>3. CASE KindOf(p, t) = "PrefixSpreadPrepare"
    <3>1. FromSpread(KindOf(p, i), e)
      BY <1>4, <1>5, <2>3 DEF SemanticOwnership
    <3> QED
      BY <3>1 DEF FromSpread, HandoverKind
  <2>4. CASE KindOf(p, t) \notin Special
    <3>1. FromOther(p, i, KindOf(p, i), e)
      BY <1>4, <1>5, <2>4 DEF SemanticOwnership, Special
    <3>2. KindOf(p, i) \notin {"BindingMove", "BindingBorrow"}
      BY <1>8, <1>9, <2>4 DEF BindingAccess, Special
    <3> QED
      BY <1>4, <3>1, <3>2 DEF FromOther, HandoverKind, TransferUnlessParameter, BorrowingKind
  <2> QED
    BY <2>1, <2>2, <2>3, <2>4 DEF Special
<1> QED
  BY <1>2, <1>3, <1>4, <1>5, <1>7, <1>10 DEF Borrows, e, t

(* The children of a tuple are moved into it, each once, but parameters.   *)
LEMMA ChildrenMove ==
  ASSUME NEW p, IsProgram(p), Verified(p), NEW c \in Indices(p), KindOf(p, c) = "TupleConstruct",
         NEW k \in DOMAIN EdgesOf(p, c)
  PROVE  LET e == EdgesOf(p, c)[k]
         IN /\ e.access \in {"WholeValue", "BindingMove"}
            /\ \/ /\ e.ownership = "InfallibleTransfer"
                  /\ Takes(p, c, e.producer)
                  /\ \A l \in DOMAIN EdgesOf(p, c) : EdgesOf(p, c)[l].producer = e.producer => l = k
               \/ /\ e.ownership = "ImmutableBorrow"
                  /\ IsParameter(p, e.producer)
                  /\ e.access = "WholeValue"
<1> DEFINE e == EdgesOf(p, c)[k]
<1>1. e.access \in {"WholeValue", "BindingMove"}
  BY DEF Verified, NodeShape
<1>2. SemanticOwnership(p, c, e) /\ e.producer \in Indices(p) /\ UserBindingUses(p) /\ Ownership(p)
  BY EdgeIsVerified DEF Verified
<1>3. <<c, k>> \in EdgePlaces(p) /\ EdgeAt(p, <<c, k>>) = e
  BY PlaceOf
<1>4. e.access \in BindingAccess => KindOf(p, e.producer) = "Binding"
  BY <1>2, <1>3 DEF UserBindingUses
<1> HIDE DEF e
<1>5. \/ e.ownership = "InfallibleTransfer"
      \/ /\ e.ownership = "ImmutableBorrow"
         /\ IsParameter(p, e.producer)
         /\ e.access = "WholeValue"
  <2>1. CASE KindOf(p, e.producer) = "Binding"
    <3>1. FromBinding("TupleConstruct", e)
      BY <1>2, <2>1 DEF SemanticOwnership
    <3> QED
      BY <3>1 DEF FromBinding
  <2>2. KindOf(p, e.producer) # "ConnectedBinding"
    BY <1>2 DEF SemanticOwnership, FromConnectedBinding
  <2>3. KindOf(p, e.producer) # "PrefixSpreadPrepare"
    BY <1>2 DEF SemanticOwnership, FromSpread
  <2>4. CASE KindOf(p, e.producer) \notin Special
    <3>1. FromOther(p, c, "TupleConstruct", e)
      BY <1>2, <2>4 DEF SemanticOwnership, Special
    <3> QED
      BY <3>1 DEF FromOther, TransferUnlessParameter
  <2> QED
    BY <2>1, <2>2, <2>3, <2>4 DEF Special
<1>6. ASSUME e.ownership = "InfallibleTransfer"
      PROVE  /\ Takes(p, c, e.producer)
             /\ \A l \in DOMAIN EdgesOf(p, c) : EdgesOf(p, c)[l].producer = e.producer => l = k
  <2>1. Takes(p, c, e.producer)
    BY <1>6 DEF Takes, e
  <2>2. <<c, k>> \in TransferringUses(p, e.producer)
    BY <1>3, <1>6 DEF TransferringUses
  <2>3. ~IsParameter(p, e.producer)
    BY <1>2, <2>1, TakerIsOwner
  <2>4. ASSUME NEW l \in DOMAIN EdgesOf(p, c), EdgesOf(p, c)[l].producer = e.producer
        PROVE  l = k
    <3> DEFINE d == EdgesOf(p, c)[l]
    <3>1. /\ SemanticOwnership(p, c, d) /\ d.producer = e.producer
          /\ <<c, l>> \in EdgePlaces(p) /\ EdgeAt(p, <<c, l>>) = d
          /\ d.access \in {"WholeValue", "BindingMove"}
      <4>1. SemanticOwnership(p, c, d)
        BY EdgeIsVerified
      <4>2. <<c, l>> \in EdgePlaces(p) /\ EdgeAt(p, <<c, l>>) = d
        BY PlaceOf
      <4>3. d.access \in {"WholeValue", "BindingMove"}
        BY DEF Verified, NodeShape
      <4> QED
        BY <2>4, <4>1, <4>2, <4>3
    <3> HIDE DEF d
    <3>2. d.ownership # "ImmutableBorrow"
      BY <2>3, <3>1 DEF SemanticOwnership, FromBinding, FromConnectedBinding, FromSpread,
         FromOther, TransferUnlessParameter, IsPlaceholder
    <3>3. <<c, l>> \in TransferringUses(p, e.producer)
      BY <3>1, <3>2 DEF TransferringUses
    <3>4. <<c, l>> = <<c, k>>
      BY <1>2, <2>2, <2>3, <3>3, OneSink
    <3> QED
      BY <3>4
  <2> QED
    BY <2>1, <2>4
<1> QED
  BY <1>1, <1>5, <1>6 DEF e

(* What moves a binding is its last reader, and the sink that releases it. *)
LEMMA MoverIsLastReader ==
  ASSUME NEW p, IsProgram(p), Verified(p), NEW t \in Indices(p), KindOf(p, t) = "Binding",
         NEW m \in Indices(p), Takes(p, m, t)
  PROVE  p.releases[t] = AtNode(m)
<1> DEFINE n == Len(p.nodes)
           P == {j \in Indices(p) : KindOf(p, j) \in Borrower /\ LastUse(p, j) # NoNode}
           next == [j \in Indices(p) |-> LastUse(p, j)]
<1>0. Indices(p) = 1 .. n /\ n \in Nat /\ Ownership(p)
  BY NumberedFromOne DEF Verified
<1>1. RootsAt(p, t) = {} /\ BranchRootings(p, t) = {} /\ ~IsParameter(p, t)
  BY <1>0, OneSink DEF IsParameter
<1>2. FanOutsRootedAt(p, t) = {}
  BY <1>1, RootingHasPlace
<1>3. PICK k \in DOMAIN EdgesOf(p, m) :
        EdgesOf(p, m)[k].producer = t /\ EdgesOf(p, m)[k].ownership = "InfallibleTransfer"
  BY <1>2, TakerIsOwner
<1>4. m \in Consumers(p, t)
  BY <1>3, ConsumerHasEdge
<1>5. \A c \in Consumers(p, t) : c <= m
  BY NobodyTakesBefore
<1>6. Consumers(p, t) \subseteq 1 .. n /\ Consumers(p, t) # {}
  BY <1>0, <1>4, ConsumerHasEdge
<1>7. LastUse(p, t) = m
  <2>1. Max(Consumers(p, t)) \in Consumers(p, t) /\ m <= Max(Consumers(p, t))
    BY <1>0, <1>4, <1>6, GreatestOf
  <2>2. Max(Consumers(p, t)) <= m /\ Max(Consumers(p, t)) \in Nat /\ m \in Nat
    BY <1>0, <1>5, <1>6, <2>1
  <2>3. Max(Consumers(p, t)) = m
    BY <2>1, <2>2
  <2> QED
    BY <1>2, <1>6, <2>3 DEF LastUse
<1>8. m \notin P
  <2> DEFINE e == EdgesOf(p, m)[k]
  <2>1. e.producer = t /\ e.ownership = "InfallibleTransfer" /\ SemanticOwnership(p, m, e)
    BY <1>3, EdgeIsVerified
  <2> HIDE DEF e
  <2> QED
    BY <2>1 DEF SemanticOwnership, FromBinding, Borrower
<1>9. ASSUME NEW j \in 1 .. n, j \in P PROVE next[j] \in (j + 1) .. n
  <2>1. FanOutsRootedAt(p, j) = {}
    <3>1. BranchRootings(p, j) = {}
      <4>1. SUFFICES ASSUME NEW f \in FanOutsRootedAt(p, j) PROVE FALSE
        BY RootingHasPlace
      <4>2. f \in FanOuts(p) /\ \E b \in DOMAIN Branches(p, f) : Branches(p, f)[b].root = j
        BY DEF FanOutsRootedAt
      <4>3. KindOf(p, j) = "SelectedApply"
        BY <4>2, RootedIsApplication
      <4> QED
        BY <1>9, <4>3 DEF Borrower
    <3> QED
      BY <3>1, RootingHasPlace
  <2>2. Consumers(p, j) # {} /\ next[j] = Max(Consumers(p, j))
    BY <1>0, <1>9, <2>1 DEF LastUse
  <2>3. Consumers(p, j) \subseteq 1 .. n
    BY <1>0, ConsumerHasEdge
  <2>4. next[j] \in Consumers(p, j)
    BY <1>0, <2>2, <2>3, GreatestOf
  <2>6. next[j] \in 1 .. n /\ next[j] \in Indices(p)
    BY <1>0, <2>3, <2>4
  <2>5. PICK l \in DOMAIN EdgesOf(p, next[j]) : EdgesOf(p, next[j])[l].producer = j
    <3> HIDE DEF next
    <3> QED
      BY <2>4, <2>6, ConsumerHasEdge
  <2>7. j \in 1 .. next[j] - 1
    BY <1>0, <2>5, <2>6, EdgeIsVerified
  <2> HIDE DEF next
  <2> QED
    BY <2>6, <2>7
<1> DEFINE Ends(g) == g = [j \in Indices(p) |->
                             IF /\ KindOf(p, j) \in {"BindingBorrow", "ConnectedBinding"}
                                /\ LastUse(p, j) # NoNode
                             THEN g[LastUse(p, j)] ELSE j]
<1>10. \E g : Ends(g)
  <2>1. \A j \in 1 .. n : j \in P => next[j] \in (j + 1) .. n
    BY <1>9
  <2>2. PICK g : EndsOfChains(g, n, P, next)
    <3> HIDE DEF P, next, n
    <3> QED
      BY <1>0, <2>1, ChainsEndAbove
  <2>3. g = [j \in 1 .. n |-> IF j \in P THEN g[next[j]] ELSE j]
    BY <2>2 DEF EndsOfChains
  <2>4. g = [j \in Indices(p) |-> g[j]] /\ \A j \in Indices(p) :
          g[j] = IF /\ KindOf(p, j) \in {"BindingBorrow", "ConnectedBinding"}
                    /\ LastUse(p, j) # NoNode
                 THEN g[LastUse(p, j)] ELSE j
    BY <1>0, <2>3 DEF Borrower
  <2>5. Ends(g)
    BY <2>4
  <2> HIDE DEF Ends
  <2> QED
    BY <2>5
<1> DEFINE end == CHOOSE g : Ends(g)
<1>11. Ends(end)
  <2> HIDE DEF Ends
  <2> QED
    BY <1>10
<1>12. end[m] = m
  <2> HIDE DEF end
  <2>1. end[m] = IF /\ KindOf(p, m) \in {"BindingBorrow", "ConnectedBinding"}
                    /\ LastUse(p, m) # NoNode
                 THEN end[LastUse(p, m)] ELSE m
    BY <1>11
  <2> QED
    BY <1>8, <2>1 DEF Borrower
<1>13. EndOfBorrows(p, t) = m
  <2>1. m # NoNode
    BY <1>0 DEF NoNode
  <2>2. EndOfBorrows(p, t) = IF LastUse(p, t) = NoNode THEN NoNode ELSE end[LastUse(p, t)]
    BY DEF EndOfBorrows
  <2> HIDE DEF end
  <2> QED
    BY <1>7, <1>12, <2>1, <2>2
<1>14. p.releases[t] = ExpectedRelease(p, t)
  BY <1>0, <1>1 DEF Ownership
<1> QED
  BY <1>1, <1>13, <1>14 DEF ExpectedRelease

(* What only borrows is released by its last reader.                       *)
LEMMA BorrowIsReleased ==
  ASSUME NEW p, IsProgram(p), Verified(p), AsLowered(p), NEW i \in Indices(p), Borrows(p, i)
  PROVE  \E j \in Consumers(p, i) : p.releases[i] = AtNode(j)
<1> DEFINE t == Handed(p, i)
<1>0. Indices(p) = 1 .. Len(p.nodes) /\ Len(p.nodes) \in Nat /\ Ownership(p)
  BY NumberedFromOne DEF Verified
<1>1. KindOf(p, i) \in HandoverKind /\ KindOf(p, i) # "Binding" /\ ~IsParameter(p, i)
  BY DEF Borrows, BorrowingKind, HandoverKind, IsParameter
<1>2. FanOutsRootedAt(p, i) = {}
  <2>1. SUFFICES ASSUME NEW f \in FanOutsRootedAt(p, i) PROVE FALSE
    OBVIOUS
  <2>2. f \in FanOuts(p) /\ \E b \in DOMAIN Branches(p, f) : Branches(p, f)[b].root = i
    BY DEF FanOutsRootedAt
  <2>3. KindOf(p, i) = "SelectedApply"
    BY <2>2, RootedIsApplication
  <2> QED
    BY <1>1, <2>3 DEF HandoverKind
<1>3. RootsAt(p, i) = {}
  <2>1. CASE KindOf(p, i) = "ConnectedBinding"
    BY <1>0, <2>1, OneSink
  <2>2. CASE KindOf(p, i) = "BindingBorrow"
    <3>1. PICK f \in FanOuts(p) : OperandOf(p, f) = i
      BY <2>2 DEF AsLowered, BorrowsForFanOutOnly, NodesOf
    <3>2. <<f, 1>> \in TransferringUses(p, i)
      BY <1>1, <3>1, OperandIsTakenOver
    <3> QED
      BY <1>0, <1>1, <3>2, OneSink
  <2>3. CASE KindOf(p, i) = "PrefixSpreadPrepare"
    <3>1. /\ 1 \in DOMAIN EdgesOf(p, i) /\ EdgesOf(p, i)[1].producer = t
          /\ EdgesOf(p, i)[1].ownership = "ImmutableBorrow" /\ ~IsParameter(p, t)
          /\ SemanticOwnership(p, i, EdgesOf(p, i)[1])
      BY <1>1, HandoverMovesOrBorrows, EdgeIsVerified DEF Borrows
    <3>2. KindOf(p, t) # "Binding"
      BY <2>3 DEF AsLowered, SpreadsOnlyTemporaries, NodesOf, Handed
    <3>3. KindOf(p, t) \notin Special
      <4> DEFINE e == EdgesOf(p, i)[1]
      <4>1. e.producer = t /\ SemanticOwnership(p, i, e)
        BY <3>1
      <4> HIDE DEF e
      <4> QED
        BY <2>3, <3>2, <4>1 DEF SemanticOwnership, FromConnectedBinding, FromSpread, Special
    <3>4. PICK f \in FanOuts(p) : \E b \in DOMAIN Branches(p, f) : i \in RegionOf(Branches(p, f)[b])
      BY <3>1, <3>3, TemporaryIsLentByFanOut
    <3>5. PICK b \in DOMAIN Branches(p, f) : i \in RegionOf(Branches(p, f)[b])
      BY <3>4
    <3>6. i # Branches(p, f)[b].root
      BY <1>1, RootedIsApplication DEF HandoverKind
    <3>7. <<f, b>> \in BranchPlaces(p) /\ BranchAt(p, <<f, b>>) = Branches(p, f)[b]
      BY BranchPlaceOf
    <3> QED
      BY <3>5, <3>6, <3>7 DEF AsLowered, BranchesAreClosed
  <2> QED
    BY <2>1, <2>2, <2>3 DEF Borrows, BorrowingKind
<1>4. p.releases[i] = AtNode(LastUse(p, i)) /\ LastUse(p, i) # NoNode
  <2>1. p.releases[i] = ExpectedRelease(p, i) /\ p.releases[i] # AtNode(NoNode)
    BY <1>0, <1>1 DEF Ownership
  <2> QED
    BY <1>1, <1>3, <2>1 DEF ExpectedRelease
<1>5. Consumers(p, i) # {} /\ LastUse(p, i) = Max(Consumers(p, i))
  BY <1>2, <1>4 DEF LastUse
<1>6. Consumers(p, i) \subseteq 1 .. Len(p.nodes)
  BY <1>0, ConsumerHasEdge
<1>7. LastUse(p, i) \in Consumers(p, i)
  BY <1>0, <1>5, <1>6, GreatestOf
<1> QED
  BY <1>4, <1>7

(* Before a value goes, whatever borrows it has gone.                      *)
THEOREM BorrowerGoesFirst ==
  ASSUME NEW p, IsProgram(p), Verified(p), AsLowered(p), NEW i \in Indices(p), Borrows(p, i),
         NEW c \in Nat, ~Gone(p, i, c)
  PROVE  ~Gone(p, Handed(p, i), c)
<1> DEFINE t == Handed(p, i)
<1>0. Indices(p) = 1 .. Len(p.nodes) /\ Len(p.nodes) \in Nat /\ Ownership(p)
  BY NumberedFromOne DEF Verified
<1>1. KindOf(p, i) \in HandoverKind /\ KindOf(p, i) \notin {"Binding", "BindingMove"}
  BY DEF Borrows, BorrowingKind, HandoverKind
<1>2. /\ 1 \in DOMAIN EdgesOf(p, i) /\ EdgesOf(p, i)[1].producer = t
      /\ t \in Indices(p) /\ i \in Consumers(p, t)
  BY <1>1, HandoverMovesOrBorrows
<1>3. EdgesOf(p, i)[1].ownership = "ImmutableBorrow" /\ ~IsParameter(p, t)
  BY DEF Borrows
<1>4. SemanticOwnership(p, i, EdgesOf(p, i)[1])
  BY <1>2, EdgeIsVerified
<1>5. PICK l \in Consumers(p, i) : p.releases[i] = AtNode(l)
  BY BorrowIsReleased
<1>6. l \in Indices(p)
  BY ConsumerHasEdge
<1>7. SUFFICES ASSUME NEW j \in Indices(p), j < c, Takes(p, j, t) \/ p.releases[t] = AtNode(j)
               PROVE  l <= j
  <2>1. ASSUME Gone(p, t, c) PROVE FALSE
    <3>1. PICK j \in 1 .. c - 1 : j \in Indices(p) /\ (Takes(p, j, t) \/ p.releases[t] = AtNode(j))
      BY <2>1 DEF Gone
    <3>2. l <= j
      BY <1>7, <3>1
    <3>3. l \in 1 .. c - 1
      BY <1>0, <1>6, <3>2
    <3> QED
      BY <1>5, <1>6, <3>3 DEF Gone
  <2> QED
    BY <2>1
<1> HIDE DEF t
<1>8. CASE KindOf(p, t) = "Binding"
  <2>1. p.releases[t] = AtNode(j)
    BY <1>2, <1>7, <1>8, MoverIsLastReader
  <2>2. AtNode(j) = AtNode(Max(RecordedConsumers(p, t)))
    BY <1>2, <1>8, <2>1 DEF AsLowered, ReleasedByLastRecorded, NodesOf
  <2>3. j = Max(RecordedConsumers(p, t))
    BY <2>2 DEF AtNode
  <2>4. KindOf(p, i) \in Borrower
    <3>1. KindOf(p, i) # "PrefixSpreadPrepare"
      BY <1>2, <1>8 DEF AsLowered, SpreadsOnlyTemporaries, NodesOf, t, Handed
    <3> QED
      BY <3>1 DEF Borrows, BorrowingKind, Borrower
  <2>5. l \in RecordedConsumers(p, t)
    BY <1>2, <1>5, <2>4 DEF RecordedConsumers
  <2>6. RecordedConsumers(p, t) \subseteq 1 .. Len(p.nodes)
    BY <1>0, ConsumerHasEdge DEF RecordedConsumers
  <2> QED
    BY <1>0, <2>3, <2>5, <2>6, GreatestOf
<1>9. CASE KindOf(p, t) # "Binding"
  <2>1. KindOf(p, t) \notin Special
    <3> DEFINE e == EdgesOf(p, i)[1]
    <3>1. e.producer = t /\ SemanticOwnership(p, i, e)
      BY <1>2, <1>4
    <3> HIDE DEF e
    <3> QED
      BY <1>1, <1>9, <3>1 DEF SemanticOwnership, FromConnectedBinding, FromSpread, HandoverKind, Special
  <2>2. /\ KindOf(p, i) \in {"SelectedApply", "PrefixSpreadPrepare"}
        /\ \E f \in FanOuts(p) : \E b \in DOMAIN Branches(p, f) :
             OperandOf(p, f) = t /\ i \in RegionOf(Branches(p, f)[b])
    BY <1>2, <1>3, <2>1, TemporaryIsLentByFanOut
  <2>3. PICK f \in FanOuts(p) : \E b \in DOMAIN Branches(p, f) :
             OperandOf(p, f) = t /\ i \in RegionOf(Branches(p, f)[b])
    BY <2>2
  <2>4. PICK b \in DOMAIN Branches(p, f) : OperandOf(p, f) = t /\ i \in RegionOf(Branches(p, f)[b])
    BY <2>3
  <2>5. i # Branches(p, f)[b].root
    BY <1>1, RootedIsApplication DEF HandoverKind
  <2>6. <<f, b>> \in BranchPlaces(p) /\ BranchAt(p, <<f, b>>) = Branches(p, f)[b]
    BY BranchPlaceOf
  <2>7. l \in RegionOf(Branches(p, f)[b])
    BY <1>5, <2>4, <2>5, <2>6 DEF AsLowered, BranchesAreClosed
  <2>8. l < f /\ f \in Nat /\ f \in Indices(p)
    <3>1. f \in Indices(p)
      BY DEF FanOuts
    <3>2. Branches(p, f)[b] \in BranchRecords /\ Branches(p, f)[b].last < f
      BY BranchesTile
    <3> QED
      BY <1>0, <2>7, <3>1, <3>2 DEF RegionOf, BranchRecords
  <2>9. /\ <<f, 1>> \in TransferringUses(p, t) /\ EdgesOf(p, f)[1].ownership = "OwnedInput"
        /\ f \in Consumers(p, t)
    BY <1>3, <2>4, OperandIsTakenOver
  <2>10. ~Takes(p, j, t)
    <3>1. SUFFICES ASSUME Takes(p, j, t) PROVE FALSE
      OBVIOUS
    <3>2. BranchRootings(p, t) = {}
      BY <1>0, <1>2, <1>3, <2>9, OneSink
    <3>3. PICK k \in DOMAIN EdgesOf(p, j) :
            EdgesOf(p, j)[k].ownership = "InfallibleTransfer" /\ <<j, k>> \in TransferringUses(p, t)
      BY <1>2, <3>1, <3>2, TakerIsOwner
    <3>4. <<j, k>> = <<f, 1>>
      BY <1>0, <1>2, <1>3, <2>9, <3>3, OneSink
    <3>5. j = f /\ k = 1
      BY <3>4
    <3> QED
      BY <2>9, <3>3, <3>5
  <2>11. f <= j
    BY <1>2, <1>7, <2>9, <2>10, ReleaseIsLate
  <2> QED
    BY <1>0, <1>6, <2>8, <2>11
<1> QED
  BY <1>8, <1>9
=============================================================================

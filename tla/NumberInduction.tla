-------------------------- MODULE NumberInduction --------------------------
(***************************************************************************)
(* Induction over the natural numbers, stated for a set of numbers, and    *)
(* what it gives for the recursive functions of this project and for the  *)
(* sums and folds of the community modules.                                *)
(***************************************************************************)
EXTENDS SequencesExt, SequenceTheorems, FiniteSetTheorems, TLAPS

(* A set of numbers that is not empty has a least one: of the intervals    *)
(* that start at 0 and end in the set, one contains no other.              *)
LEMMA LeastNumber ==
  ASSUME NEW T \in SUBSET Nat, T # {}
  PROVE  \E m \in T : \A k \in T : m <= k
<1> DEFINE Upto == {I \in SUBSET Nat : \E k \in T : I = 0..k}
           R == StrictSubsetOrdering(Nat)
<1>1. IsWellFoundedOn(R, FiniteSubsetsOf(Nat))
  BY FS_StrictSubsetOrderingWellFounded
<1>2. Upto \subseteq FiniteSubsetsOf(Nat)
  <2>1. \A k \in Nat : IsFiniteSet(0..k)
    BY FS_Interval
  <2>. QED BY <2>1 DEF FiniteSubsetsOf
<1>3. Upto # {}
  <2>1. PICK k \in T : TRUE
    OBVIOUS
  <2>2. 0..k \in Upto
    OBVIOUS
  <2>. QED BY <2>2
<1>4. PICK I \in Upto : \A J \in Upto : ~ (<<J, I>> \in R)
  <2> HIDE DEF Upto, R
  <2>. QED BY <1>1, <1>2, <1>3, WFMin
<1>5. PICK m \in T : I = 0..m
  OBVIOUS
<1>6. ASSUME NEW k \in T PROVE m <= k
  <2>1. SUFFICES ASSUME k < m PROVE FALSE
    OBVIOUS
  <2>2. 0..k \in Upto
    OBVIOUS
  <2>3. 0..k \subseteq 0..m /\ 0..k # 0..m
    <3>1. m \in 0..m /\ m \notin 0..k
      BY <2>1
    <3>. QED BY <2>1, <3>1
  <2>4. <<0..k, I>> \in R
    BY <1>5, <2>3 DEF StrictSubsetOrdering
  <2>. QED BY <1>4, <2>2, <2>4
<1>. QED BY <1>6

(* Induction up to n.                                                      *)
LEMMA InductionUpTo ==
  ASSUME NEW n \in Nat, NEW T, 0 \in T,
         \A k \in 0..(n - 1) : k \in T => k + 1 \in T
  PROVE  0..n \subseteq T
<1>1. SUFFICES ASSUME ~(0..n \subseteq T) PROVE FALSE
  OBVIOUS
<1>2. PICK m \in (0..n) \ T : \A k \in (0..n) \ T : m <= k
  <2>1. (0..n) \ T \in SUBSET Nat /\ (0..n) \ T # {}
    BY <1>1
  <2>. QED BY <2>1, LeastNumber
<1>3. m # 0 /\ m - 1 \in 0..(n - 1)
  BY <1>2
<1>4. m - 1 \in T
  BY <1>2, <1>3
<1>. QED BY <1>2, <1>3, <1>4

-----------------------------------------------------------------------------
(* The sums of the prefixes of a sequence of numbers.                      *)
IsSums(b, w, n) ==
  /\ w \in [1..n -> Nat]
  /\ b \in [0..n -> Nat]
  /\ b[0] = 0
  /\ \A k \in 1..n : b[k] = b[k - 1] + w[k]

(* The recursive definition has a solution, so it defines what it says.    *)
LEMMA PrefixSumsExist ==
  ASSUME NEW n \in Nat, NEW w \in [1..n -> Nat]
  PROVE  \E b : b = [k \in 0..n |-> IF k = 0 THEN 0 ELSE b[k - 1] + w[k]]
<1> DEFINE Sum(b, m) ==
             /\ b = [k \in 0..m |-> IF k = 0 THEN 0 ELSE b[k - 1] + w[k]]
             /\ b \in [0..m -> Nat]
           T == {m \in 0..n : \E b : Sum(b, m)}
<1>1. 0 \in T
  <2>1. Sum([k \in 0..0 |-> 0], 0)
    OBVIOUS
  <2> HIDE DEF Sum
  <2>. QED BY <2>1
<1>2. ASSUME NEW m \in 0..(n - 1), m \in T PROVE m + 1 \in T
  <2>1. PICK b : Sum(b, m)
    BY <1>2
  <2> DEFINE c == [k \in 0..(m + 1) |-> IF k = m + 1 THEN b[m] + w[m + 1] ELSE b[k]]
  <2>2. c \in [0..(m + 1) -> Nat]
    BY <2>1
  <2>3. ASSUME NEW k \in 0..(m + 1)
        PROVE  c[k] = IF k = 0 THEN 0 ELSE c[k - 1] + w[k]
    BY <2>1
  <2>4. Sum(c, m + 1)
    <3>1. c = [k \in 0..(m + 1) |-> c[k]]
      OBVIOUS
    <3> HIDE DEF c
    <3>. QED BY <2>2, <2>3, <3>1
  <2> HIDE DEF Sum, c
  <2>. QED BY <2>4
<1>3. n \in T
  <2> HIDE DEF T
  <2>1. 0..n \subseteq T
    BY <1>1, <1>2, InductionUpTo
  <2>. QED BY <2>1
<1>. QED BY <1>3

(* Any solution of it is a function to the numbers.                        *)
LEMMA SolutionIsSums ==
  ASSUME NEW n \in Nat, NEW w \in [1..n -> Nat], NEW b,
         b = [k \in 0..n |-> IF k = 0 THEN 0 ELSE b[k - 1] + w[k]]
  PROVE  IsSums(b, w, n)
<1> DEFINE T == {k \in 0..n : b[k] \in Nat}
<1>1. ASSUME NEW k \in 0..n PROVE b[k] = IF k = 0 THEN 0 ELSE b[k - 1] + w[k]
  OBVIOUS
<1>2. 0 \in T
  BY <1>1
<1>3. ASSUME NEW k \in 0..(n - 1), k \in T PROVE k + 1 \in T
  <2>1. b[k + 1] = b[k] + w[k + 1]
    BY <1>1
  <2>. QED BY <1>3, <2>1
<1>4. 0..n \subseteq T
  <2> HIDE DEF T
  <2>. QED BY <1>2, <1>3, InductionUpTo
<1>5. b \in [0..n -> Nat]
  BY <1>4
<1>. QED BY <1>1, <1>5 DEF IsSums

\* What a stretch of count members after the first i adds up to.
Stretch(b, i, count) == b[i + count] - b[i]

(* Two stretches of the same weights.                                      *)
SameWeights(u, i, w, j, count) == \A k \in 1..count : u[i + k] = w[j + k]

(* Stretches of equal weights have equal sums.                             *)
LEMMA EqualStretches ==
  ASSUME NEW n \in Nat, NEW u, NEW b, IsSums(b, u, n),
         NEW m \in Nat, NEW w, NEW c, IsSums(c, w, m),
         NEW i \in Nat, NEW j \in Nat, NEW count \in Nat,
         i + count <= n, j + count <= m, SameWeights(u, i, w, j, count)
  PROVE  Stretch(b, i, count) = Stretch(c, j, count)
<1> USE DEF SameWeights, Stretch
<1> DEFINE T == {k \in 0..count : b[i + k] - b[i] = c[j + k] - c[j]}
<1>1. 0 \in T
  BY DEF IsSums
<1>2. ASSUME NEW k \in 0..(count - 1), k \in T PROVE k + 1 \in T
  <2>1. /\ i + (k + 1) \in 1..n /\ j + (k + 1) \in 1..m
        /\ i + k \in 0..n /\ j + k \in 0..m
        /\ (i + (k + 1)) - 1 = i + k /\ (j + (k + 1)) - 1 = j + k
        /\ k + 1 \in 1..count
    OBVIOUS
  <2>2. /\ b[i + (k + 1)] = b[i + k] + u[i + (k + 1)]
        /\ c[j + (k + 1)] = c[j + k] + w[j + (k + 1)]
    BY <2>1 DEF IsSums
  <2>3. u[i + (k + 1)] = w[j + (k + 1)]
    BY <2>1
  <2>4. b[i + k] - b[i] = c[j + k] - c[j]
    BY <1>2
  <2>5. /\ b[i + k] \in Nat /\ b[i] \in Nat /\ c[j + k] \in Nat /\ c[j] \in Nat
        /\ u[i + (k + 1)] \in Nat
    BY <2>1 DEF IsSums
  <2>6. b[i + (k + 1)] - b[i] = c[j + (k + 1)] - c[j]
    <3> DEFINE p == b[i + k]
               q == b[i]
               r == c[j + k]
               t == c[j]
               x == u[i + (k + 1)]
    <3>1. p - q = r - t /\ p \in Nat /\ q \in Nat /\ r \in Nat /\ t \in Nat /\ x \in Nat
      BY <2>4, <2>5
    <3>2. b[i + (k + 1)] = p + x /\ c[j + (k + 1)] = r + x
      BY <2>2, <2>3
    <3>3. (p + x) - q = (r + x) - t
      <4> HIDE DEF p, q, r, t, x
      <4>. QED BY <3>1
    <3>. QED BY <3>2, <3>3
  <2>. QED BY <2>1, <2>6
<1>3. 0..count \subseteq T
  <2> HIDE DEF T
  <2>. QED BY <1>1, <1>2, InductionUpTo
<1>. QED BY <1>3

(* Sums do not decrease.                                                   *)
LEMMA SumsGrow ==
  ASSUME NEW n \in Nat, NEW w, NEW b, IsSums(b, w, n),
         NEW i \in Nat, NEW j \in Nat, i <= j, j <= n
  PROVE  b[i] <= b[j]
<1> DEFINE T == {k \in 0..(j - i) : b[i] <= b[i + k]}
<1>1. 0 \in T
  BY DEF IsSums
<1>2. ASSUME NEW k \in 0..((j - i) - 1), k \in T PROVE k + 1 \in T
  <2>1. i + (k + 1) \in 1..n /\ i + k \in 0..n /\ (i + (k + 1)) - 1 = i + k
    OBVIOUS
  <2>2. b[i + (k + 1)] = b[i + k] + w[i + (k + 1)]
    BY <2>1 DEF IsSums
  <2>3. b[i + k] \in Nat /\ b[i] \in Nat /\ w[i + (k + 1)] \in Nat
    BY <2>1 DEF IsSums
  <2>4. b[i] <= b[i + (k + 1)]
    BY <1>2, <2>2, <2>3
  <2>. QED BY <2>1, <2>4
<1>3. j - i \in Nat
  OBVIOUS
<1>4. 0..(j - i) \subseteq T
  <2> HIDE DEF T
  <2>. QED BY <1>1, <1>2, <1>3, InductionUpTo
<1>5. j - i \in T
  <2>1. j - i \in 0..(j - i)
    OBVIOUS
  <2> HIDE DEF T
  <2>. QED BY <1>4, <2>1
<1>. QED BY <1>5

(* A sequence of sequences, end to end: the recursion of FlattenSeq,       *)
(* unrolled.                                                               *)
LEMMA FlattenUnrolled ==
  ASSUME NEW s, NEW n \in Nat, n = Len(s), n # 0
  PROVE  \E flat :
           /\ \A i \in 1..n : flat[i] = IF i = 1 THEN s[i] ELSE flat[i - 1] \o s[i]
           /\ FlattenSeq(s) = flat[n]
<1> DEFINE Flat(f, m) == f = [i \in 1..m |-> IF i = 1 THEN s[i] ELSE f[i - 1] \o s[i]]
           T == {m \in 0..n : \E f : Flat(f, m)}
<1>1. 0 \in T
  <2>1. Flat([i \in 1..0 |-> 0], 0)
    OBVIOUS
  <2> HIDE DEF Flat
  <2>. QED BY <2>1
<1>2. ASSUME NEW m \in 0..(n - 1), m \in T PROVE m + 1 \in T
  <2>1. PICK f : Flat(f, m)
    BY <1>2
  <2> DEFINE g == [i \in 1..(m + 1) |->
                     IF i = m + 1 THEN (IF i = 1 THEN s[i] ELSE f[m] \o s[i])
                                  ELSE f[i]]
  <2>2. ASSUME NEW i \in 1..(m + 1)
        PROVE  g[i] = IF i = 1 THEN s[i] ELSE g[i - 1] \o s[i]
    <3>1. CASE i = 1
      BY <2>1, <3>1
    <3>2. CASE i # 1
      <4>1. i - 1 \in 1..m /\ i - 1 # m + 1 /\ i - 1 \in 1..(m + 1)
        BY <2>2, <3>2
      <4>2. g[i - 1] = f[i - 1]
        BY <4>1
      <4>3. i = m + 1 => i - 1 = m
        OBVIOUS
      <4>4. i # m + 1 => i \in 1..m
        OBVIOUS
      <4>5. i # m + 1 => f[i] = f[i - 1] \o s[i]
        BY <2>1, <3>2, <4>4
      <4>6. g[i] = IF i = m + 1 THEN f[m] \o s[i] ELSE f[i]
        BY <3>2
      <4>. QED BY <3>2, <4>2, <4>3, <4>5, <4>6
    <3>. QED BY <3>1, <3>2
  <2>3. Flat(g, m + 1)
    <3>1. g = [i \in 1..(m + 1) |-> g[i]]
      OBVIOUS
    <3> HIDE DEF g
    <3>. QED BY <2>2, <3>1
  <2>4. m + 1 \in 0..n
    OBVIOUS
  <2> HIDE DEF Flat, g
  <2>. QED BY <2>3, <2>4
<1>3. \E f : Flat(f, n)
  <2> HIDE DEF T
  <2>1. 0..n \subseteq T
    BY <1>1, <1>2, InductionUpTo
  <2>2. n \in T
    BY <2>1
  <2>. QED BY <2>2 DEF T
<1> DEFINE flat == CHOOSE f : Flat(f, n)
<1>4. Flat(flat, n)
  <2> HIDE DEF Flat
  <2>. QED BY <1>3
<1>5. FlattenSeq(s) = flat[n]
  BY DEF FlattenSeq
<1>6. \A i \in 1..n : flat[i] = IF i = 1 THEN s[i] ELSE flat[i - 1] \o s[i]
  <2> HIDE DEF flat
  <2>. QED BY <1>4
<1> HIDE DEF flat
<1>. QED BY <1>5, <1>6

(* One of its steps, after the first.                                      *)
LEMMA FlattenStep ==
  ASSUME NEW s, NEW flat, NEW n \in Nat, NEW k \in 1..(n - 1),
         \A i \in 1..n : flat[i] = IF i = 1 THEN s[i] ELSE flat[i - 1] \o s[i]
  PROVE  flat[k + 1] = flat[k] \o s[k + 1]
<1>1. k + 1 \in 1..n /\ k + 1 # 1 /\ (k + 1) - 1 = k
  OBVIOUS
<1>2. flat[k + 1] = IF k + 1 = 1 THEN s[k + 1] ELSE flat[(k + 1) - 1] \o s[k + 1]
  BY <1>1
<1>3. flat[k + 1] = flat[(k + 1) - 1] \o s[k + 1]
  BY <1>1, <1>2, Zenon
<1>. QED BY <1>1, <1>3, Zenon

(* It is what its beginnings add up to.                                    *)
LEMMA FlattenIs ==
  ASSUME NEW S, NEW s \in Seq(Seq(S)), NEW F,
         F[0] = <<>>,
         \A k \in 1..Len(s) : F[k] \in Seq(S) /\ F[k] = F[k - 1] \o s[k]
  PROVE  FlattenSeq(s) = F[Len(s)]
<1> DEFINE n == Len(s)
<1>1. n \in Nat /\ \A k \in 1..n : s[k] \in Seq(S)
  OBVIOUS
<1>2. CASE n = 0
  <2>1. FlattenSeq(s) = s /\ s = <<>>
    BY <1>2 DEF FlattenSeq
  <2>. QED BY <1>2, <2>1
<1>3. CASE n # 0
  <2> HIDE DEF n
  <2>1. PICK flat :
          /\ \A i \in 1..n : flat[i] = IF i = 1 THEN s[i] ELSE flat[i - 1] \o s[i]
          /\ FlattenSeq(s) = flat[n]
    BY <1>1, <1>3, FlattenUnrolled DEF n
  <2> DEFINE T == {k \in 0..n - 1 : flat[k + 1] = F[k + 1]}
  <2>2. 0 \in T
    <3>1. 1 \in 1..n
      BY <1>1, <1>3
    <3>2. flat[1] = s[1]
      BY <2>1, <3>1
    <3>3. F[1] = F[1 - 1] \o s[1]
      BY <3>1 DEF n
    <3>4. <<>> \o s[1] = s[1]
      BY <1>1, <3>1
    <3>5. 1 - 1 = 0
      OBVIOUS
    <3>6. flat[1] = F[1]
      BY <3>2, <3>3, <3>4, <3>5
    <3>. QED BY <1>1, <1>3, <3>6
  <2>3. ASSUME NEW k \in 0..(n - 1) - 1, k \in T PROVE k + 1 \in T
    <3>1. k + 1 \in 1..n - 1 /\ k + 1 \in 0..n - 1 /\ (k + 1) + 1 \in 1..n
          /\ ((k + 1) + 1) - 1 = k + 1
      BY <1>1
    <3>2. flat[(k + 1) + 1] = flat[k + 1] \o s[(k + 1) + 1]
      BY <1>1, <2>1, <3>1, FlattenStep
    <3>3. F[(k + 1) + 1] = F[k + 1] \o s[(k + 1) + 1]
      BY <3>1 DEF n
    <3>. QED BY <2>3, <3>1, <3>2, <3>3
  <2>4. n - 1 \in Nat
    BY <1>1, <1>3
  <2> HIDE DEF T
  <2>5. 0..n - 1 \subseteq T
    BY <2>2, <2>3, <2>4, InductionUpTo
  <2>6. n - 1 \in T
    BY <2>4, <2>5
  <2>7. (n - 1) + 1 = n
    BY <1>1
  <2>. QED BY <2>1, <2>6, <2>7 DEF T, n
<1>. QED BY <1>2, <1>3

(* It is as long as its members together.                                  *)
LEMMA FlattenLength ==
  ASSUME NEW S, NEW s \in Seq(Seq(S)), NEW b,
         IsSums(b, [k \in 1..Len(s) |-> Len(s[k])], Len(s))
  PROVE  Len(FlattenSeq(s)) = b[Len(s)]
<1> DEFINE n == Len(s)
<1>1. n \in Nat /\ \A k \in 1..n : s[k] \in Seq(S)
  OBVIOUS
<1>2. \A k \in 1..n : b[k] = b[k - 1] + Len(s[k])
  BY <1>1 DEF IsSums
<1>3. b[0] = 0 /\ b \in [0..n -> Nat]
  BY DEF IsSums
<1>4. CASE n = 0
  <2>1. FlattenSeq(s) = s
    BY <1>4 DEF FlattenSeq
  <2>. QED BY <1>3, <1>4, <2>1
<1>5. CASE n # 0
  <2> HIDE DEF n
  <2>1. PICK flat :
          /\ \A i \in 1..n : flat[i] = IF i = 1 THEN s[i] ELSE flat[i - 1] \o s[i]
          /\ FlattenSeq(s) = flat[n]
    BY <1>1, <1>5, FlattenUnrolled DEF n
  <2> DEFINE U == {k \in 0..n : k = 0 \/ (flat[k] \in Seq(S) /\ Len(flat[k]) = b[k])}
  <2>2. ASSUME NEW k \in 0..(n - 1), k \in U PROVE k + 1 \in U
    <3>1. k + 1 \in 1..n /\ k + 1 \in 0..n /\ (k + 1) - 1 = k
      BY <1>1
    <3>2. b[k + 1] = b[k] + Len(s[k + 1]) /\ s[k + 1] \in Seq(S)
      BY <1>1, <1>2, <3>1
    <3>3. CASE k = 0
      <4>1. flat[k + 1] = s[k + 1]
        BY <2>1, <3>1, <3>3
      <4>. QED BY <1>3, <3>1, <3>2, <3>3, <4>1
    <3>4. CASE k # 0
      <4>1. flat[k] \in Seq(S) /\ Len(flat[k]) = b[k]
        BY <2>2, <3>4
      <4>2. flat[k + 1] = flat[k] \o s[k + 1]
        <5>1. k \in 1..(n - 1)
          BY <3>4
        <5>. QED BY <1>1, <2>1, <5>1, FlattenStep
      <4>3. flat[k + 1] \in Seq(S) /\ Len(flat[k + 1]) = Len(flat[k]) + Len(s[k + 1])
        <5>1. /\ flat[k] \o s[k + 1] \in Seq(S)
              /\ Len(flat[k] \o s[k + 1]) = Len(flat[k]) + Len(s[k + 1])
          <6> HIDE DEF U
          <6>. QED BY <3>2, <4>1, ConcatProperties
        <5>. QED BY <4>2, <5>1
      <4>. QED BY <3>1, <3>2, <4>1, <4>3
    <3>. QED BY <3>3, <3>4
  <2>3. 0 \in U
    BY <1>1
  <2>4. n \in U
    <3> HIDE DEF U
    <3>1. 0..n \subseteq U
      BY <1>1, <2>2, <2>3, InductionUpTo
    <3>. QED BY <1>1, <3>1
  <2>. QED BY <1>5, <2>1, <2>4 DEF n
<1>. QED BY <1>4, <1>5

-----------------------------------------------------------------------------
(* Where the chains end that follow next from each number, while in P.     *)
EndsOfChains(g, n, P, next) == g = [j \in 1..n |-> IF j \in P THEN g[next[j]] ELSE j]

(* Chains that only ever go down end somewhere: the recursion has a        *)
(* solution.                                                               *)
LEMMA ChainsEnd ==
  ASSUME NEW n \in Nat, NEW P, NEW next,
         \A j \in 1..n : j \in P => next[j] \in 1..(j - 1)
  PROVE  \E g : EndsOfChains(g, n, P, next)
<1> USE DEF EndsOfChains
<1> DEFINE Solves(g, m) == g = [j \in 1..m |-> IF j \in P THEN g[next[j]] ELSE j]
           T == {m \in 0..n : \E g : Solves(g, m)}
<1>1. 0 \in T
  <2>1. Solves([j \in 1..0 |-> 0], 0)
    OBVIOUS
  <2> HIDE DEF Solves
  <2>. QED BY <2>1
<1>2. ASSUME NEW m \in 0..(n - 1), m \in T PROVE m + 1 \in T
  <2>1. PICK g : Solves(g, m)
    BY <1>2
  <2> DEFINE end == IF m + 1 \in P THEN g[next[m + 1]] ELSE m + 1
             h == [j \in 1..(m + 1) |-> IF j = m + 1 THEN end ELSE g[j]]
  <2>2. ASSUME NEW j \in 1..(m + 1)
        PROVE  h[j] = IF j \in P THEN h[next[j]] ELSE j
    <3>1. j \in 1..n
      OBVIOUS
    <3>2. j \in P => next[j] \in 1..m /\ next[j] # m + 1
      BY <3>1
    <3>3. j \in P => h[next[j]] = g[next[j]]
      BY <3>2
    <3>4. CASE j = m + 1
      BY <3>3, <3>4
    <3>5. CASE j # m + 1
      <4>1. j \in 1..m
        BY <3>5
      <4>2. g[j] = IF j \in P THEN g[next[j]] ELSE j
        BY <2>1, <4>1
      <4>3. h[j] = g[j]
        BY <3>5
      <4>. QED BY <3>3, <4>2, <4>3
    <3>. QED BY <3>4, <3>5
  <2>3. Solves(h, m + 1)
    <3>1. h = [j \in 1..(m + 1) |-> h[j]]
      OBVIOUS
    <3> HIDE DEF h
    <3>. QED BY <2>2, <3>1
  <2>4. m + 1 \in 0..n
    OBVIOUS
  <2> HIDE DEF Solves, h
  <2>. QED BY <2>3, <2>4
<1> HIDE DEF T
<1>3. 0..n \subseteq T
  BY <1>1, <1>2, InductionUpTo
<1>4. n \in T
  BY <1>3
<1>. QED BY <1>4 DEF T

(* The same for chains that only ever go up.                               *)
LEMMA ChainsEndAbove ==
  ASSUME NEW n \in Nat, NEW P, NEW next,
         \A j \in 1..n : j \in P => next[j] \in (j + 1)..n
  PROVE  \E g : EndsOfChains(g, n, P, next)
<1> DEFINE Q == {j \in 1..n : (n + 1) - j \in P}
           below == [j \in 1..n |-> (n + 1) - next[(n + 1) - j]]
<1>1. ASSUME NEW j \in 1..n, j \in Q PROVE below[j] \in 1..(j - 1)
  <2>1. (n + 1) - j \in 1..n /\ (n + 1) - j \in P
    BY <1>1
  <2>2. next[(n + 1) - j] \in (((n + 1) - j) + 1)..n
    BY <2>1
  <2>. QED BY <2>2
<1> HIDE DEF Q, below
<1>6. \A j \in 1..n : j \in Q => below[j] \in 1..(j - 1)
  BY <1>1
<1>7. PICK h : EndsOfChains(h, n, Q, below)
  BY <1>6, ChainsEnd
<1>2. h = [j \in 1..n |-> IF j \in Q THEN h[below[j]] ELSE j]
  BY <1>7 DEF EndsOfChains
<1> DEFINE g == [j \in 1..n |-> (n + 1) - h[(n + 1) - j]]
<1>3. ASSUME NEW j \in 1..n PROVE g[j] = IF j \in P THEN g[next[j]] ELSE j
  <2> DEFINE k == (n + 1) - j
  <2>1. k \in 1..n /\ (n + 1) - k = j
    OBVIOUS
  <2>2. h[k] = IF k \in Q THEN h[below[k]] ELSE k
    BY <1>2, <2>1
  <2>3. k \in Q <=> j \in P
    BY <2>1 DEF Q
  <2>4. g[j] = (n + 1) - h[k]
    OBVIOUS
  <2>5. ASSUME j \in P PROVE g[next[j]] = (n + 1) - h[below[k]]
    <3>1. next[j] \in 1..n
      BY <2>5
    <3>2. below[k] = (n + 1) - next[j]
      BY <2>1 DEF below
    <3>. QED BY <3>1, <3>2
  <2> HIDE DEF g, k
  <2>6. CASE j \in P
    BY <2>2, <2>3, <2>4, <2>5, <2>6
  <2>7. CASE j \notin P
    BY <2>1, <2>2, <2>3, <2>4, <2>7
  <2>. QED BY <2>6, <2>7
<1>4. g = [j \in 1..n |-> g[j]]
  OBVIOUS
<1>5. g = [j \in 1..n |-> IF j \in P THEN g[next[j]] ELSE j]
  <2> HIDE DEF g
  <2>. QED BY <1>3, <1>4
<1> HIDE DEF g
<1>. QED BY <1>5 DEF EndsOfChains

-----------------------------------------------------------------------------
(* The sum of n numbers.                                                   *)
SumOf(w, n) == (CHOOSE b : IsSums(b, w, n))[n]

(* It is what their prefixes add up to.                                    *)
LEMMA SumIs ==
  ASSUME NEW n \in Nat, NEW w \in [1..n -> Nat]
  PROVE  /\ \E b : IsSums(b, w, n)
         /\ \A b : IsSums(b, w, n) => SumOf(w, n) = b[n]
         /\ SumOf(w, n) \in Nat
<1>1. PICK b : b = [k \in 0..n |-> IF k = 0 THEN 0 ELSE b[k - 1] + w[k]]
  BY PrefixSumsExist
<1>2. IsSums(b, w, n)
  BY <1>1, SolutionIsSums
<1> DEFINE c == CHOOSE g : IsSums(g, w, n)
<1>3. IsSums(c, w, n)
  BY <1>2
<1> HIDE DEF c
<1>4. ASSUME NEW d, IsSums(d, w, n) PROVE c[n] = d[n]
  <2>1. Stretch(c, 0, n) = Stretch(d, 0, n)
    <3>1. SameWeights(w, 0, w, 0, n) /\ 0 \in Nat /\ 0 + n <= n
      BY DEF SameWeights
    <3> QED
      BY <1>3, <1>4, <3>1, EqualStretches
  <2>2. c[n] \in Nat /\ d[n] \in Nat /\ c[0] = 0 /\ d[0] = 0
    BY <1>3, <1>4 DEF IsSums
  <2> QED
    BY <2>1, <2>2 DEF Stretch
<1>5. SumOf(w, n) = c[n]
  BY DEF SumOf, c
<1>6. c[n] \in Nat
  BY <1>3 DEF IsSums
<1> QED
  BY <1>2, <1>4, <1>5, <1>6

(* The sum of two sums, in another order.                                  *)
LEMMA Rearranged ==
  \A x, y, p, q \in Nat : (x + p) + (y + q) = (x + y) + (p + q)
OBVIOUS

(* Sums of numbers that are sums.                                          *)
LEMMA SumAdds ==
  ASSUME NEW n \in Nat, NEW u \in [1..n -> Nat], NEW v \in [1..n -> Nat], NEW w \in [1..n -> Nat],
         \A k \in 1..n : u[k] = v[k] + w[k]
  PROVE  SumOf(u, n) = SumOf(v, n) + SumOf(w, n)
<1>1. PICK b : IsSums(b, v, n)
  BY SumIs
<1>2. PICK c : IsSums(c, w, n)
  BY SumIs
<1> DEFINE d == [k \in 0..n |-> b[k] + c[k]]
<1>3. IsSums(d, u, n)
  <2>1. b \in [0..n -> Nat] /\ c \in [0..n -> Nat] /\ b[0] = 0 /\ c[0] = 0
    BY <1>1, <1>2 DEF IsSums
  <2>2. d \in [0..n -> Nat] /\ d[0] = 0
    BY <2>1
  <2>3. ASSUME NEW k \in 1..n PROVE d[k] = d[k - 1] + u[k]
    <3>1. k \in 0..n /\ k - 1 \in 0..n
      OBVIOUS
    <3>2. b[k] = b[k - 1] + v[k] /\ c[k] = c[k - 1] + w[k]
      BY <1>1, <1>2 DEF IsSums
    <3>3. b[k - 1] \in Nat /\ c[k - 1] \in Nat /\ v[k] \in Nat /\ w[k] \in Nat
      BY <2>1, <3>1
    <3>4. d[k] = b[k] + c[k] /\ d[k - 1] = b[k - 1] + c[k - 1]
      BY <3>1
    <3>5. u[k] = v[k] + w[k]
      OBVIOUS
    <3> DEFINE x == b[k - 1]
               y == c[k - 1]
               p == v[k]
               q == w[k]
    <3> HIDE DEF d
    <3>6. (x + p) + (y + q) = (x + y) + (p + q)
      <4>1. x \in Nat /\ y \in Nat /\ p \in Nat /\ q \in Nat
        BY <3>3, Zenon
      <4> HIDE DEF x, y, p, q
      <4> QED
        BY <4>1, Rearranged
    <3> QED
      BY <3>2, <3>4, <3>5, <3>6, Zenon
  <2> HIDE DEF d
  <2> QED
    BY <2>2, <2>3 DEF IsSums
<1>4. d[n] = b[n] + c[n]
  OBVIOUS
<1> HIDE DEF d
<1> QED
  BY <1>1, <1>2, <1>3, <1>4, SumIs

(* Nothing sums up to nothing.                                             *)
LEMMA SumOfNothing ==
  ASSUME NEW n \in Nat, NEW w \in [1..n -> Nat], \A k \in 1..n : w[k] = 0
  PROVE  SumOf(w, n) = 0
<1>1. IsSums([k \in 0..n |-> 0], w, n)
  BY DEF IsSums
<1>2. [k \in 0..n |-> 0][n] = 0
  OBVIOUS
<1> QED
  BY <1>1, <1>2, SumIs

(* One number sums up to itself.                                           *)
LEMMA SumOfOne ==
  ASSUME NEW n \in Nat, NEW w \in [1..n -> Nat], NEW x \in 1..n,
         \A k \in 1..n : k # x => w[k] = 0
  PROVE  SumOf(w, n) = w[x]
<1> DEFINE b == [k \in 0..n |-> IF k < x THEN 0 ELSE w[x]]
<1>1. b \in [0..n -> Nat] /\ b[0] = 0
  OBVIOUS
<1>2. ASSUME NEW k \in 1..n PROVE b[k] = b[k - 1] + w[k]
  <2>1. CASE k < x
    BY <2>1
  <2>2. CASE k = x
    BY <2>2
  <2>3. CASE k > x
    BY <2>3
  <2> QED
    BY <2>1, <2>2, <2>3
<1>3. b[n] = w[x]
  OBVIOUS
<1> HIDE DEF b
<1>4. IsSums(b, w, n)
  BY <1>1, <1>2 DEF IsSums
<1> QED
  BY <1>3, <1>4, SumIs

(* What one of the numbers is raised by, the sum is.                       *)
LEMMA SumRaised ==
  ASSUME NEW n \in Nat, NEW u \in [1..n -> Nat], NEW w \in [1..n -> Nat], NEW x \in 1..n,
         NEW a \in Nat, u[x] = w[x] + a, \A k \in 1..n : k # x => u[k] = w[k]
  PROVE  SumOf(u, n) = SumOf(w, n) + a
<1> DEFINE v == [k \in 1..n |-> IF k = x THEN a ELSE 0]
<1>1. v \in [1..n -> Nat] /\ v[x] = a /\ \A k \in 1..n : k # x => v[k] = 0
  OBVIOUS
<1> HIDE DEF v
<1>2. SumOf(v, n) = a
  BY <1>1, SumOfOne
<1>3. ASSUME NEW k \in 1..n PROVE u[k] = w[k] + v[k]
  <2>1. u[k] \in Nat /\ w[k] \in Nat
    OBVIOUS
  <2>2. CASE k = x
    BY <1>1, <2>2
  <2>3. CASE k # x
    <3>1. u[k] = w[k] /\ v[k] = 0
      BY <1>1, <2>3
    <3> QED
      BY <2>1, <3>1
  <2> QED
    BY <2>2, <2>3
<1>4. SumOf(u, n) = SumOf(w, n) + SumOf(v, n)
  BY <1>1, <1>3, SumAdds
<1> QED
  BY <1>2, <1>4

(* The sum of a sequence is that of two stretches of it.                   *)
LEMMA SumJoins ==
  ASSUME NEW m \in Nat, NEW n \in Nat, NEW w \in [1..(m + n) -> Nat],
         NEW u \in [1..m -> Nat], NEW v \in [1..n -> Nat],
         \A k \in 1..m : w[k] = u[k], \A k \in 1..n : w[m + k] = v[k]
  PROVE  SumOf(w, m + n) = SumOf(u, m) + SumOf(v, n)
<1>0. m + n \in Nat /\ m <= m + n
  OBVIOUS
<1>1. PICK b : IsSums(b, u, m)
  BY SumIs
<1>2. PICK c : IsSums(c, v, n)
  BY SumIs
<1>3. PICK d : IsSums(d, w, m + n)
  BY <1>0, SumIs
<1>4. Stretch(d, 0, m) = Stretch(b, 0, m)
  <2>1. SameWeights(w, 0, u, 0, m) /\ 0 \in Nat /\ 0 + m <= m + n /\ 0 + m <= m
    BY <1>0 DEF SameWeights
  <2> QED
    BY <1>0, <1>1, <1>3, <2>1, EqualStretches
<1>5. Stretch(d, m, n) = Stretch(c, 0, n)
  <2>1. SameWeights(w, m, v, 0, n) /\ 0 \in Nat /\ m + n <= m + n /\ 0 + n <= n
    BY <1>0 DEF SameWeights
  <2> QED
    BY <1>0, <1>2, <1>3, <2>1, EqualStretches
<1>6. /\ d[0] = 0 /\ d[m] \in Nat /\ d[m + n] \in Nat
      /\ b[0] = 0 /\ b[m] \in Nat /\ c[0] = 0 /\ c[n] \in Nat
  BY <1>0, <1>1, <1>2, <1>3 DEF IsSums
<1>7. 0 + m = m /\ 0 + n = n
  OBVIOUS
<1>8. d[m] - 0 = b[m] - 0 /\ d[m + n] - d[m] = c[n] - 0
  BY <1>4, <1>5, <1>6, <1>7 DEF Stretch
<1>9. d[m + n] = b[m] + c[n]
  BY <1>6, <1>8
<1> QED
  BY <1>0, <1>1, <1>2, <1>3, <1>9, SumIs

(***************************************************************************)
(* Sums over sets and sequences, as the community modules write them.      *)
(***************************************************************************)
(* The numbers of a set of places, and 0 elsewhere.                        *)
Only(f, t, n) == [k \in 1..n |-> IF k \in t THEN f[k] ELSE 0]

(* Taking places out of a set one by one, in whatever order, each number   *)
(* added after the others or before them.                                  *)
TakesOut(it, S, f, pick, after) ==
  it = [t \in SUBSET S |->
          IF t = {} THEN 0
          ELSE IF after THEN it[t \ {pick[t]}] + f[pick[t]]
          ELSE f[pick[t]] + it[t \ {pick[t]}]]

(* A place of each set that has one.                                       *)
Picks(pick, S) == \A t \in SUBSET S : t # {} => pick[t] \in t

(* One place out.                                                          *)
LEMMA OneOut ==
  ASSUME NEW n \in Nat, NEW S \in SUBSET (1..n), NEW f, \A k \in S : f[k] \in Nat,
         NEW t \in SUBSET S, NEW x \in t
  PROVE  /\ SumOf(Only(f, t, n), n) = f[x] + SumOf(Only(f, t \ {x}, n), n)
         /\ SumOf(Only(f, t, n), n) = SumOf(Only(f, t \ {x}, n), n) + f[x]
<1> DEFINE u == Only(f, t, n)
           w == Only(f, t \ {x}, n)
<1>1. x \in 1..n /\ u \in [1..n -> Nat] /\ w \in [1..n -> Nat] /\ f[x] \in Nat
  BY DEF Only
<1>2. u[x] = w[x] + f[x] /\ \A k \in 1..n : k # x => u[k] = w[k]
  BY <1>1 DEF Only
<1> HIDE DEF u, w
<1>3. SumOf(u, n) = SumOf(w, n) + f[x] /\ SumOf(w, n) \in Nat
  BY <1>1, <1>2, SumRaised, SumIs
<1>4. SumOf(u, n) = f[x] + SumOf(w, n)
  BY <1>1, <1>3
<1> QED
  BY <1>3, <1>4 DEF u, w

(* There is such a sum,                                                    *)
LEMMA TakingOutEnds ==
  ASSUME NEW n \in Nat, NEW S \in SUBSET (1..n), NEW f, \A k \in S : f[k] \in Nat,
         NEW pick, Picks(pick, S), NEW after \in BOOLEAN
  PROVE  \E it : TakesOut(it, S, f, pick, after)
<1> DEFINE it == [t \in SUBSET S |-> SumOf(Only(f, t, n), n)]
<1>1. ASSUME NEW t \in SUBSET S
      PROVE  it[t] = IF t = {} THEN 0
                      ELSE IF after THEN it[t \ {pick[t]}] + f[pick[t]]
                      ELSE f[pick[t]] + it[t \ {pick[t]}]
  <2>1. CASE t = {}
    <3>1. Only(f, t, n) \in [1..n -> Nat] /\ \A k \in 1..n : Only(f, t, n)[k] = 0
      BY <2>1 DEF Only
    <3> QED
      BY <2>1, <3>1, SumOfNothing
  <2>2. CASE t # {}
    <3>1. pick[t] \in t /\ t \ {pick[t]} \in SUBSET S
      BY <2>2 DEF Picks
    <3>2. it[t \ {pick[t]}] = SumOf(Only(f, t \ {pick[t]}, n), n)
      BY <3>1
    <3>3. /\ SumOf(Only(f, t, n), n) = f[pick[t]] + SumOf(Only(f, t \ {pick[t]}, n), n)
          /\ SumOf(Only(f, t, n), n) = SumOf(Only(f, t \ {pick[t]}, n), n) + f[pick[t]]
      <4>1. \A x \in t : /\ SumOf(Only(f, t, n), n) = f[x] + SumOf(Only(f, t \ {x}, n), n)
                        /\ SumOf(Only(f, t, n), n) = SumOf(Only(f, t \ {x}, n), n) + f[x]
        BY OneOut
      <4> QED
        BY <3>1, <4>1
    <3> QED
      BY <2>2, <3>2, <3>3
  <2> QED
    BY <2>1, <2>2
<1>2. it = [t \in SUBSET S |-> it[t]]
  OBVIOUS
<1> HIDE DEF it
<1>3. TakesOut(it, S, f, pick, after)
  BY <1>1, <1>2 DEF TakesOut
<1> QED
  BY <1>3

(* and only one.                                                           *)
LEMMA TakingOutSums ==
  ASSUME NEW n \in Nat, NEW S \in SUBSET (1..n), NEW f, \A k \in S : f[k] \in Nat,
         NEW pick, Picks(pick, S), NEW after \in BOOLEAN, NEW it,
         TakesOut(it, S, f, pick, after)
  PROVE  it[S] = SumOf(Only(f, S, n), n)
<1>1. ASSUME NEW t \in SUBSET S
      PROVE  it[t] = IF t = {} THEN 0
                      ELSE IF after THEN it[t \ {pick[t]}] + f[pick[t]]
                      ELSE f[pick[t]] + it[t \ {pick[t]}]
  BY DEF TakesOut
<1>2. \A t \in SUBSET S : IsFiniteSet(t) /\ Cardinality(t) \in Nat
  <2>1. IsFiniteSet(1..n)
    BY FS_Interval
  <2>2. ASSUME NEW t \in SUBSET S PROVE IsFiniteSet(t)
    <3>1. t \in SUBSET (1..n)
      OBVIOUS
    <3> QED
      BY <2>1, <3>1, FS_Subset
  <2> QED
    BY <2>2, FS_CardinalityType
<1> DEFINE m == Cardinality(S)
           T == {k \in 0..m : \A t \in SUBSET S :
                   Cardinality(t) = k => it[t] = SumOf(Only(f, t, n), n)}
<1>3. 0 \in T
  <2>1. \A t \in SUBSET S : Cardinality(t) = 0 => t = {}
    BY <1>2, FS_EmptySet
  <2>2. Only(f, {}, n) \in [1..n -> Nat] /\ \A k \in 1..n : Only(f, {}, n)[k] = 0
    BY DEF Only
  <2>3. SumOf(Only(f, {}, n), n) = 0
    BY <2>2, SumOfNothing
  <2>4. it[{}] = 0
    BY <1>1
  <2>5. 0 \in 0..m
    BY <1>2
  <2> HIDE DEF m
  <2> QED
    BY <2>1, <2>3, <2>4, <2>5
<1>4. ASSUME NEW k \in 0..(m - 1), k \in T PROVE k + 1 \in T
  <2>1. ASSUME NEW t \in SUBSET S, Cardinality(t) = k + 1
        PROVE  it[t] = SumOf(Only(f, t, n), n)
    <3>1. t # {}
      <4>1. Cardinality({}) = 0
        BY FS_EmptySet
      <4>2. k \in Nat /\ k + 1 # 0
        OBVIOUS
      <4> HIDE DEF m
      <4> QED
        BY <2>1, <4>1, <4>2
    <3>2. pick[t] \in t /\ t \ {pick[t]} \in SUBSET S
      BY <3>1 DEF Picks
    <3>3. Cardinality(t \ {pick[t]}) = k
      <4>1. Cardinality(t \ {pick[t]}) = Cardinality(t) - 1
        BY <1>2, <3>2, FS_RemoveElement
      <4> QED
        BY <2>1, <4>1
    <3>4. it[t \ {pick[t]}] = SumOf(Only(f, t \ {pick[t]}, n), n)
      BY <1>4, <3>2, <3>3
    <3>5. it[t] = IF after THEN it[t \ {pick[t]}] + f[pick[t]]
                  ELSE f[pick[t]] + it[t \ {pick[t]}]
      BY <1>1, <3>1
    <3>6. /\ SumOf(Only(f, t, n), n) = f[pick[t]] + SumOf(Only(f, t \ {pick[t]}, n), n)
          /\ SumOf(Only(f, t, n), n) = SumOf(Only(f, t \ {pick[t]}, n), n) + f[pick[t]]
      <4>1. \A x \in t : /\ SumOf(Only(f, t, n), n) = f[x] + SumOf(Only(f, t \ {x}, n), n)
                        /\ SumOf(Only(f, t, n), n) = SumOf(Only(f, t \ {x}, n), n) + f[x]
        BY OneOut
      <4> QED
        BY <3>2, <4>1
    <3> QED
      BY <3>4, <3>5, <3>6
  <2> QED
    BY <1>2, <2>1
<1>5. m \in Nat /\ S \in SUBSET S
  BY <1>2
<1>6. 0..m \subseteq T
  <2> HIDE DEF T, m
  <2> QED
    BY <1>3, <1>4, <1>5, InductionUpTo
<1>7. m \in T
  BY <1>5, <1>6
<1> QED
  BY <1>5, <1>7

(* The greatest of a set of numbers.                                       *)
LEMMA GreatestOf ==
  ASSUME NEW n \in Nat, NEW S \in SUBSET (1 .. n), S # {}
  PROVE  Max(S) \in S /\ \A x \in S : x <= Max(S)
<1> DEFINE T == {n - x : x \in S}
<1>1. T \in SUBSET Nat /\ T # {}
  <2>1. \A x \in S : n - x \in Nat
    OBVIOUS
  <2> QED
    BY <2>1
<1>2. PICK m \in T : \A k \in T : m <= k
  BY <1>1, LeastNumber
<1>3. PICK x \in S : m = n - x
  BY <1>2
<1>4. \A y \in S : x >= y
  <2> TAKE y \in S
  <2>1. m <= n - y
    BY <1>2
  <2> QED
    BY <2>1, <1>3
<1>5. \E z \in S : \A y \in S : z >= y
  BY <1>4
<1>6. Max(S) \in S /\ \A y \in S : Max(S) >= y
  BY <1>5 DEF Max
<1> QED
  BY <1>6

(* So the community modules' sum of a sequence is the sum of its numbers:  *)
LEMMA FoldedSequence ==
  ASSUME NEW n \in Nat, NEW s, DOMAIN s = 1..n, NEW m, \A k \in 1..n : s[k][m] \in Nat
  PROVE  FoldLeft(LAMBDA sum, v : sum + v[m], 0, s) = SumOf([k \in 1..n |-> s[k][m]], n)
<1> DEFINE D == 1..n
           f == [k \in 1..n |-> s[k][m]]
           pick == [t \in SUBSET D |-> Max(t)]
           Solves(it) == it = [t \in SUBSET D |->
                                 IF t = {} THEN 0 ELSE it[t \ {Max(t)}] + s[Max(t)][m]]
<1>1. Picks(pick, D)
  <2>1. \A t \in SUBSET D : t # {} => Max(t) \in t
    BY GreatestOf
  <2> QED
    BY <2>1 DEF Picks
<1>2. \A it : Solves(it) <=> TakesOut(it, D, f, pick, TRUE)
  <2>1. ASSUME NEW it, NEW t \in SUBSET D
        PROVE  (IF t = {} THEN 0 ELSE it[t \ {Max(t)}] + s[Max(t)][m])
               = (IF t = {} THEN 0 ELSE it[t \ {pick[t]}] + f[pick[t]])
    <3>1. CASE t = {}
      BY <3>1
    <3>2. CASE t # {}
      <4>1. pick[t] = Max(t) /\ pick[t] \in D
        BY <1>1, <3>2 DEF Picks
      <4>2. f[pick[t]] = s[Max(t)][m]
        BY <4>1
      <4> QED
        BY <3>2, <4>1, <4>2
    <3> QED
      BY <3>1, <3>2
  <2> HIDE DEF f, pick, D
  <2> QED
    BY <2>1 DEF TakesOut
<1>3. \A k \in D : f[k] \in Nat
  OBVIOUS
<1>4. \E it : Solves(it)
  <2>1. \E it : TakesOut(it, D, f, pick, TRUE)
    <3> HIDE DEF f, pick
    <3> QED
      BY <1>1, <1>3, TakingOutEnds
  <2> HIDE DEF Solves, f, pick
  <2> QED
    BY <1>2, <2>1
<1> DEFINE sum == CHOOSE it : Solves(it)
<1>5. Solves(sum)
  <2> HIDE DEF Solves
  <2> QED
    BY <1>4
<1>6. FoldLeft(LAMBDA all, v : all + v[m], 0, s) = sum[D]
  BY DEF FoldLeft, MapThenFoldSet
<1>7. sum[D] = SumOf(Only(f, D, n), n)
  <2> HIDE DEF f, pick, Solves, sum
  <2>1. TakesOut(sum, D, f, pick, TRUE)
    BY <1>2, <1>5
  <2> QED
    BY <1>1, <1>3, <2>1, TakingOutSums
<1>8. Only(f, D, n) = f
  BY DEF Only
<1> HIDE DEF sum, f, D
<1> QED
  BY <1>6, <1>7, <1>8 DEF f

(* and their sum of a function the sum of the numbers it gives.            *)
LEMMA SummedFunction ==
  ASSUME NEW n \in Nat, NEW f, DOMAIN f \in SUBSET (1..n), \A k \in DOMAIN f : f[k] \in Nat
  PROVE  SumFunction(f) = SumOf(Only(f, DOMAIN f, n), n)
<1> DEFINE S == DOMAIN f
           pick == [t \in SUBSET S |-> CHOOSE x \in t : TRUE]
           Solves(it) == it = [t \in SUBSET S |->
                                 IF t = {} THEN 0
                                 ELSE f[CHOOSE x \in t : TRUE] + it[t \ {CHOOSE x \in t : TRUE}]]
<1>1. Picks(pick, S)
  BY DEF Picks
<1>2. \A it : Solves(it) <=> TakesOut(it, S, f, pick, FALSE)
  <2>1. ASSUME NEW it, NEW t \in SUBSET S
        PROVE  (IF t = {} THEN 0
                ELSE f[CHOOSE x \in t : TRUE] + it[t \ {CHOOSE x \in t : TRUE}])
               = (IF t = {} THEN 0 ELSE f[pick[t]] + it[t \ {pick[t]}])
    OBVIOUS
  <2> HIDE DEF pick
  <2> QED
    BY <2>1 DEF TakesOut
<1>3. \E it : Solves(it)
  <2>1. \E it : TakesOut(it, S, f, pick, FALSE)
    <3> HIDE DEF pick
    <3>1. S \in SUBSET (1..n) /\ \A k \in S : f[k] \in Nat
      OBVIOUS
    <3> HIDE DEF S
    <3> QED
      BY <1>1, <3>1, TakingOutEnds
  <2> HIDE DEF Solves, pick
  <2> QED
    BY <1>2, <2>1
<1> DEFINE sum == CHOOSE it : Solves(it)
<1>4. Solves(sum)
  <2> HIDE DEF Solves
  <2> QED
    BY <1>3
<1>5. SumFunction(f) = sum[S]
  BY DEF SumFunction, SumFunctionOnSet, FoldFunctionOnSet, MapThenFoldSet
<1>6. sum[S] = SumOf(Only(f, S, n), n)
  <2> HIDE DEF pick, Solves, sum
  <2>1. TakesOut(sum, S, f, pick, FALSE)
    BY <1>2, <1>4
  <2>2. S \in SUBSET (1..n) /\ \A k \in S : f[k] \in Nat
    OBVIOUS
  <2> HIDE DEF S
  <2> QED
    BY <1>1, <2>1, <2>2, TakingOutSums
<1> HIDE DEF sum
<1> QED
  BY <1>5, <1>6

(* What is taken out last to first adds up so.                             *)
AddsUp(n, S, f, pick) ==
  (S \in SUBSET (1..n) /\ (\A k \in S : f[k] \in Nat) /\ Picks(pick, S)) =>
    \A it : TakesOut(it, S, f, pick, FALSE) => it[S] = SumOf(Only(f, S, n), n)

(* It does, of numbers up to n.                                            *)
LEMMA ItAddsUp ==
  ASSUME NEW n \in Nat, NEW S, NEW f, NEW pick
  PROVE  AddsUp(n, S, f, pick)
BY TakingOutSums DEF AddsUp

(* Each thing of S has a place of its own in T, and each place its thing.  *)
Placed(S, T, at, who) ==
  /\ \A x \in S : at[x] \in T /\ who[at[x]] = x
  /\ \A k \in T : who[k] \in S /\ at[who[k]] = k

(* Each place weighs what its thing does, and the other places nothing.    *)
Weighs(w, n, T, f, who) == \A k \in 1..n : w[k] = IF k \in T THEN f[who[k]] ELSE 0

(* So a set of other things adds up to the sum over their places:          *)
AddsUpElsewhere(n, S, T, at, who, f, w, pick) ==
  /\ T \in SUBSET (1..n) /\ Placed(S, T, at, who)
  /\ w \in [1..n -> Nat] /\ Weighs(w, n, T, f, who) /\ Picks(pick, S)
  => /\ \E it : TakesOut(it, S, f, pick, FALSE)
     /\ \A it : TakesOut(it, S, f, pick, FALSE) => it[S] = SumOf(w, n)

(* taking its things out is taking their places out.                       *)
LEMMA ItAddsUpElsewhere ==
  ASSUME NEW n \in Nat, NEW S, NEW T, NEW at, NEW who, NEW f, NEW w, NEW pick
  PROVE  AddsUpElsewhere(n, S, T, at, who, f, w, pick)
<1> SUFFICES ASSUME T \in SUBSET (1..n), Placed(S, T, at, who), w \in [1..n -> Nat],
                    Weighs(w, n, T, f, who), Picks(pick, S)
             PROVE  /\ \E it : TakesOut(it, S, f, pick, FALSE)
                    /\ \A it : TakesOut(it, S, f, pick, FALSE) => it[S] = SumOf(w, n)
  BY DEF AddsUpElsewhere
<1> DEFINE Up(t) == {at[x] : x \in t}
           Down(u) == {who[k] : k \in u}
           there == [u \in SUBSET T |-> at[pick[Down(u)]]]
<1>1. /\ \A k \in T : who[k] \in S /\ at[who[k]] = k /\ w[k] = f[who[k]] /\ w[k] \in Nat
      /\ \A x \in S : at[x] \in T /\ who[at[x]] = x
  BY DEF Placed, Weighs
<1>2. ASSUME NEW t \in SUBSET S
      PROVE  /\ Up(t) \in SUBSET T /\ Down(Up(t)) = t /\ (t = {} <=> Up(t) = {})
             /\ \A y \in S : Up(t \ {y}) = Up(t) \ {at[y]}
  <2>1. Up(t) \in SUBSET T /\ (t = {} <=> Up(t) = {})
    BY <1>1
  <2>2. Down(Up(t)) = t
    BY <1>1
  <2>3. ASSUME NEW y \in S PROVE Up(t \ {y}) = Up(t) \ {at[y]}
    <3>1. \A x \in t : at[x] = at[y] <=> x = y
      BY <1>1
    <3> QED
      BY <3>1
  <2> QED
    BY <2>1, <2>2, <2>3
<1>3. ASSUME NEW u \in SUBSET T
      PROVE  /\ Down(u) \in SUBSET S /\ (u = {} <=> Down(u) = {})
             /\ \A k \in T : Down(u \ {k}) = Down(u) \ {who[k]}
             /\ \A x \in Down(u) : at[x] \in u
  <2>1. Down(u) \in SUBSET S
    <3>1. ASSUME NEW x \in Down(u) PROVE x \in S
      <4>1. PICK k \in u : x = who[k]
        OBVIOUS
      <4> QED
        BY <1>1, <4>1
    <3> HIDE DEF Down
    <3> QED
      BY <3>1
  <2>2. u = {} <=> Down(u) = {}
    <3>1. ASSUME NEW k \in u PROVE who[k] \in Down(u)
      OBVIOUS
    <3>2. u = {} => Down(u) = {}
      OBVIOUS
    <3> HIDE DEF Down
    <3> QED
      BY <3>1, <3>2
  <2>3. ASSUME NEW k \in T PROVE Down(u \ {k}) = Down(u) \ {who[k]}
    <3>1. \A j \in u : who[j] = who[k] <=> j = k
      BY <1>1
    <3> QED
      BY <3>1
  <2>4. \A x \in Down(u) : at[x] \in u
    BY <1>1
  <2> QED
    BY <2>1, <2>2, <2>3, <2>4
<1>4. Down(T) = S
  <2>1. ASSUME NEW x \in S PROVE x \in Down(T)
    <3>1. at[x] \in T /\ who[at[x]] = x
      BY <1>1
    <3> QED
      BY <3>1
  <2>2. Down(T) \in SUBSET S
    BY <1>3
  <2> HIDE DEF Down
  <2> QED
    BY <2>1, <2>2
<1> HIDE DEF Up, Down
<1>5. Picks(there, T)
  <2>1. ASSUME NEW u \in SUBSET T, u # {} PROVE there[u] \in u
    <3>1. pick[Down(u)] \in Down(u)
      BY <1>3, <2>1 DEF Picks
    <3> QED
      BY <1>3, <3>1
  <2> HIDE DEF there
  <2> QED
    BY <2>1 DEF Picks
<1>6. \E it : TakesOut(it, S, f, pick, FALSE)
  <2>1. PICK that : TakesOut(that, T, w, there, FALSE)
    <3> HIDE DEF there
    <3> QED
      BY <1>1, <1>5, TakingOutEnds
  <2> DEFINE it == [t \in SUBSET S |-> that[Up(t)]]
  <2>2. ASSUME NEW t \in SUBSET S
        PROVE  it[t] = IF t = {} THEN 0 ELSE f[pick[t]] + it[t \ {pick[t]}]
    <3>1. Up(t) \in SUBSET T /\ Down(Up(t)) = t /\ (t = {} <=> Up(t) = {})
      BY <1>2
    <3>2. that[Up(t)] = IF Up(t) = {} THEN 0
                        ELSE w[there[Up(t)]] + that[Up(t) \ {there[Up(t)]}]
      BY <2>1, <3>1 DEF TakesOut
    <3>3. CASE t # {}
      <4>1. pick[t] \in t /\ t \ {pick[t]} \in SUBSET S /\ pick[t] \in S
        BY <3>3 DEF Picks
      <4>2. there[Up(t)] = at[pick[t]]
        BY <3>1
      <4>3. w[at[pick[t]]] = f[pick[t]] /\ Up(t \ {pick[t]}) = Up(t) \ {at[pick[t]]}
        <5>1. at[pick[t]] \in T /\ who[at[pick[t]]] = pick[t]
          BY <1>1, <4>1
        <5>2. w[at[pick[t]]] = f[pick[t]]
          <6>1. \A k \in T : w[k] = f[who[k]]
            BY <1>1
          <6> QED
            BY <5>1, <6>1, Zenon
        <5>3. \A y \in S : Up(t \ {y}) = Up(t) \ {at[y]}
          BY <1>2
        <5> QED
          BY <4>1, <5>2, <5>3
      <4>4. it[t \ {pick[t]}] = that[Up(t \ {pick[t]})]
        BY <4>1
      <4> HIDE DEF there
      <4> QED
        BY <3>1, <3>2, <3>3, <4>2, <4>3, <4>4
    <3> QED
      BY <3>1, <3>2, <3>3
  <2>3. it = [t \in SUBSET S |-> it[t]]
    OBVIOUS
  <2> HIDE DEF it
  <2>4. TakesOut(it, S, f, pick, FALSE)
    BY <2>2, <2>3 DEF TakesOut
  <2> QED
    BY <2>4
<1>7. ASSUME NEW it, TakesOut(it, S, f, pick, FALSE)
      PROVE  it[S] = SumOf(w, n)
  <2> DEFINE that == [u \in SUBSET T |-> it[Down(u)]]
  <2>1. ASSUME NEW u \in SUBSET T
        PROVE  that[u] = IF u = {} THEN 0 ELSE w[there[u]] + that[u \ {there[u]}]
    <3>1. Down(u) \in SUBSET S /\ (u = {} <=> Down(u) = {})
      BY <1>3
    <3>2. it[Down(u)] = IF Down(u) = {} THEN 0
                        ELSE f[pick[Down(u)]] + it[Down(u) \ {pick[Down(u)]}]
      BY <1>7, <3>1 DEF TakesOut
    <3>3. CASE u # {}
      <4>1. pick[Down(u)] \in Down(u) /\ pick[Down(u)] \in S
        BY <3>1, <3>3 DEF Picks
      <4>2. there[u] = at[pick[Down(u)]] /\ there[u] \in T /\ who[there[u]] = pick[Down(u)]
        BY <1>1, <4>1
      <4>3. w[there[u]] = f[pick[Down(u)]] /\ Down(u \ {there[u]}) = Down(u) \ {pick[Down(u)]}
        <5> HIDE DEF there
        <5>1. w[there[u]] = f[pick[Down(u)]]
          BY <1>1, <4>2
        <5>2. Down(u \ {there[u]}) = Down(u) \ {who[there[u]]}
          BY <1>3, <4>2
        <5> QED
          BY <4>2, <5>1, <5>2
      <4>4. that[u \ {there[u]}] = it[Down(u \ {there[u]})]
        BY <4>2
      <4> HIDE DEF there
      <4> QED
        BY <3>1, <3>2, <3>3, <4>3, <4>4
    <3> QED
      BY <3>1, <3>2, <3>3
  <2>2. that = [u \in SUBSET T |-> that[u]]
    OBVIOUS
  <2>3. that[T] = it[S]
    BY <1>4
  <2> HIDE DEF that, there
  <2>4. TakesOut(that, T, w, there, FALSE)
    BY <2>1, <2>2 DEF TakesOut
  <2>5. that[T] = SumOf(w, n)
    <3>1. FALSE \in BOOLEAN /\ T \in SUBSET (1..n) /\ \A k \in T : w[k] \in Nat
      BY <1>1
    <3>2. AddsUp(n, T, w, there)
      BY ItAddsUp
    <3>3. that[T] = SumOf(Only(w, T, n), n)
      BY <1>5, <2>4, <3>1, <3>2 DEF AddsUp
    <3>4. Only(w, T, n) = w
      <4>1. \A k \in 1..n : (IF k \in T THEN w[k] ELSE 0) = w[k]
        BY DEF Weighs
      <4>2. w = [k \in 1..n |-> w[k]]
        OBVIOUS
      <4> QED
        BY <4>1, <4>2 DEF Only
    <3> QED
      BY <3>3, <3>4
  <2> QED
    BY <2>3, <2>5
<1> QED
  BY <1>6, <1>7
=============================================================================

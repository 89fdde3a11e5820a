---------------------------- MODULE AccountingProofs ----------------------------
(***************************************************************************)
(* Every byte the ledger counts has its place: in a slot, among the        *)
(* arguments, in a tuple under construction, in its table, in a copy in    *)
(* progress or among the results.  So an evaluation that ends has exactly  *)
(* the bytes of its results charged, or none, and it implements Evaluation.*)
(*                                                                         *)
(* The argument: what a value is given back for (into_canonical_bytes) is  *)
(* what was admitted for it, as long as no tuple of some elements stands   *)
(* after another element (CanonicalBytesAre); a decision moves the usage   *)
(* by what it grants and never past a limit (RequestsDecide); and every    *)
(* handler moves bytes between the places, or gives back what it takes     *)
(* from one.  AInv adds to MInv where the bytes are.                       *)
(***************************************************************************)
EXTENDS InterpreterProofs

-----------------------------------------------------------------------------
(* A sequence that is not empty, but for its last member.                  *)
LEMMA FrontAndLast ==
  ASSUME NEW S, NEW s \in Seq(S), s # <<>>
  PROVE  /\ Front(s) \in Seq(S) /\ Last(s) \in S /\ Last(s) = s[Len(s)]
         /\ s = Front(s) \o <<Last(s)>>
         /\ Len(s) \in Nat /\ Len(s) >= 1 /\ Len(Front(s)) = Len(s) - 1
         /\ \A k \in 1 .. Len(s) - 1 : Front(s)[k] = s[k]
<1> DEFINE n == Len(s)
<1>1. n \in Nat /\ n >= 1 /\ n \in 1 .. n
  OBVIOUS
<1>2. \A k \in 1 .. n : s[k] \in S
  OBVIOUS
<1>3. SubSeq(s, 1, n) = s
  BY SubSeqFull
<1> HIDE DEF n
<1>4. /\ SubSeq(s, 1, n - 1) \in Seq(S)
      /\ Len(SubSeq(s, 1, n - 1)) = IF 1 <= n - 1 THEN (n - 1) - 1 + 1 ELSE 0
      /\ \A i \in 1 .. (n - 1) - 1 + 1 : SubSeq(s, 1, n - 1)[i] = s[1 + i - 1]
  <2>1. \A i \in 1 .. n - 1 : s[i] \in S
    BY <1>1, <1>2
  <2>2. 1 \in Int /\ n - 1 \in Int
    BY <1>1
  <2> QED
    BY <2>1, <2>2, SubSeqProperties
<1>5. SubSeq(s, 1, n) = SubSeq(s, 1, n - 1) \o <<s[n]>>
  <2>1. 1 \in 1 .. Len(s) /\ n \in 1 .. Len(s)
    BY <1>1 DEF n
  <2> QED
    BY <2>1, SubSeqRecursiveSecond
<1>6. Len(SubSeq(s, 1, n - 1)) = n - 1
  BY <1>1, <1>4
<1>7. \A k \in 1 .. n - 1 : SubSeq(s, 1, n - 1)[k] = s[k]
  <2> TAKE k \in 1 .. n - 1
  <2>1. k \in 1 .. (n - 1) - 1 + 1 /\ 1 + k - 1 = k
    BY <1>1
  <2> QED
    BY <1>4, <2>1
<1>8. Front(s) = SubSeq(s, 1, n - 1) /\ Last(s) = s[n] /\ n = Len(s)
  BY DEF Front, Last, n
<1> QED
  BY <1>1, <1>2, <1>3, <1>4, <1>5, <1>6, <1>7, <1>8

(* A sequence of numbers the sum of which Total is.                        *)
LEMMA TotalIs ==
  ASSUME NEW m, NEW S, \A x \in S : x[m] \in Nat, NEW s \in Seq(S)
  PROVE  /\ Len(s) \in Nat
         /\ [k \in 1 .. Len(s) |-> s[k][m]] \in [1 .. Len(s) -> Nat]
         /\ Total(m, s) = SumOf([k \in 1 .. Len(s) |-> s[k][m]], Len(s))
         /\ Total(m, s) \in Nat
<1> DEFINE n == Len(s)
           w == [k \in 1 .. n |-> s[k][m]]
<1>1. n \in Nat /\ DOMAIN s = 1 .. n /\ \A k \in 1 .. n : s[k][m] \in Nat
  OBVIOUS
<1>2. w \in [1 .. n -> Nat]
  BY <1>1
<1> HIDE DEF n
<1>3. Total(m, s) = SumOf(w, n)
  BY <1>1, FoldedSequence DEF Total
<1> HIDE DEF w
<1>4. SumOf(w, n) \in Nat
  BY <1>1, <1>2, SumIs
<1> QED
  BY <1>1, <1>2, <1>3, <1>4 DEF n, w

(* Nothing in it.                                                          *)
LEMMA TotalOfNone ==
  ASSUME NEW m
  PROVE  Total(m, <<>>) = 0
<1>1. <<>> \in Seq({}) /\ Len(<<>>) = 0
  OBVIOUS
<1>2. Total(m, <<>>) = SumOf([k \in 1 .. Len(<<>>) |-> <<>>[k][m]], Len(<<>>))
      /\ [k \in 1 .. Len(<<>>) |-> <<>>[k][m]] \in [1 .. Len(<<>>) -> Nat]
  <2>1. \A x \in {} : x[m] \in Nat
    OBVIOUS
  <2> QED
    BY <1>1, <2>1, TotalIs
<1> DEFINE w == [k \in 1 .. 0 |-> <<>>[k][m]]
<1>3. Total(m, <<>>) = SumOf(w, 0) /\ w \in [1 .. 0 -> Nat]
  BY <1>1, <1>2
<1> HIDE DEF w
<1>4. \A k \in 1 .. 0 : w[k] = 0
  OBVIOUS
<1>5. SumOf(w, 0) = 0
  BY <1>3, <1>4, SumOfNothing
<1> QED
  BY <1>3, <1>5

(* Two of them.                                                            *)
LEMMA TotalJoins ==
  ASSUME NEW m, NEW S, \A x \in S : x[m] \in Nat, NEW s \in Seq(S), NEW t \in Seq(S)
  PROVE  s \o t \in Seq(S) /\ Total(m, s \o t) = Total(m, s) + Total(m, t)
<1> DEFINE a == Len(s)
           b == Len(t)
           c == s \o t
           u == [k \in 1 .. a |-> s[k][m]]
           v == [k \in 1 .. b |-> t[k][m]]
           w == [k \in 1 .. Len(c) |-> c[k][m]]
<1>1. /\ a \in Nat /\ u \in [1 .. a -> Nat] /\ Total(m, s) = SumOf(u, a)
      /\ b \in Nat /\ v \in [1 .. b -> Nat] /\ Total(m, t) = SumOf(v, b)
  BY TotalIs
<1>2. c \in Seq(S) /\ Len(c) = a + b
  OBVIOUS
<1>3. \A k \in 1 .. a : c[k] = s[k]
  OBVIOUS
<1>4. \A k \in 1 .. b : c[a + k] = t[k]
  OBVIOUS
<1> HIDE DEF c, a, b
<1>5. w \in [1 .. Len(c) -> Nat] /\ Total(m, c) = SumOf(w, Len(c))
  BY <1>2, TotalIs
<1>6. \A k \in 1 .. a : w[k] = u[k]
  BY <1>1, <1>2, <1>3
<1>7. \A k \in 1 .. b : w[a + k] = v[k]
  BY <1>1, <1>2, <1>4
<1> HIDE DEF u, v, w
<1>8. SumOf(w, a + b) = SumOf(u, a) + SumOf(v, b)
  BY <1>1, <1>2, <1>5, <1>6, <1>7, SumJoins
<1> QED
  BY <1>1, <1>2, <1>5, <1>8 DEF c

(* One.                                                                    *)
LEMMA TotalOfOne ==
  ASSUME NEW m, NEW x, x[m] \in Nat
  PROVE  Total(m, <<x>>) = x[m]
<1> DEFINE w == [k \in 1 .. 1 |-> <<x>>[k][m]]
<1>1. <<x>> \in Seq({x}) /\ Len(<<x>>) = 1 /\ \A y \in {x} : y[m] \in Nat
  OBVIOUS
<1>2. w \in [1 .. 1 -> Nat] /\ Total(m, <<x>>) = SumOf(w, 1)
  BY <1>1, TotalIs
<1>3. w[1] = x[m] /\ \A k \in 1 .. 1 : k # 1 => w[k] = 0
  OBVIOUS
<1> HIDE DEF w
<1>4. SumOf(w, 1) = w[1]
  <2>1. 1 \in Nat /\ 1 \in 1 .. 1
    OBVIOUS
  <2> QED
    BY <1>2, <1>3, <2>1, SumOfOne
<1> QED
  BY <1>2, <1>3, <1>4

(* The last of it apart.                                                   *)
LEMMA TotalOfLast ==
  ASSUME NEW m, NEW S, \A x \in S : x[m] \in Nat, NEW s \in Seq(S), s # <<>>
  PROVE  /\ Front(s) \in Seq(S) /\ Last(s) \in S
         /\ Total(m, s) = Total(m, Front(s)) + Last(s)[m]
<1>1. /\ Front(s) \in Seq(S) /\ Last(s) \in S /\ s = Front(s) \o <<Last(s)>>
      /\ <<Last(s)>> \in Seq(S) /\ Last(s)[m] \in Nat
  BY FrontAndLast
<1>2. Total(m, Front(s) \o <<Last(s)>>) = Total(m, Front(s)) + Total(m, <<Last(s)>>)
  BY <1>1, TotalJoins
<1>3. Total(m, <<Last(s)>>) = Last(s)[m]
  BY <1>1, TotalOfOne
<1> QED
  BY <1>1, <1>2, <1>3

(* One value more.                                                         *)
LEMMA TotalOfAppend ==
  ASSUME NEW m, NEW S, \A x \in S : x[m] \in Nat, NEW s \in Seq(S), NEW x \in S
  PROVE  Append(s, x) \in Seq(S) /\ Total(m, Append(s, x)) = Total(m, s) + x[m]
<1>1. Append(s, x) = s \o <<x>> /\ <<x>> \in Seq(S) /\ Append(s, x) \in Seq(S) /\ x[m] \in Nat
  BY AppendIsConcat
<1>2. Total(m, s \o <<x>>) = Total(m, s) + Total(m, <<x>>)
  BY <1>1, TotalJoins
<1>3. Total(m, <<x>>) = x[m]
  BY <1>1, TotalOfOne
<1> QED
  BY <1>1, <1>2, <1>3

(***************************************************************************)
(* Values.                                                                 *)
(***************************************************************************)
(* What a value over values of S is charged for.                           *)
IsValue(x, S) ==
  /\ x.tag \in {"scalar", "vector", "string", "tuple"}
  /\ x.own \in Nat /\ x.bytes \in Nat /\ x.nodes \in Nat
  /\ x.elems \in Seq(S)
  /\ x.bytes = x.own + Total("bytes", x.elems)
  /\ x.nodes = 1 + Total("nodes", x.elems)
  /\ x.tag = "scalar" => x.own = 0
  /\ x.tag = "tuple" => x.own = SlotBytes * Len(x.elems)
  /\ x.tag # "tuple" => x.elems = <<>>
  /\ \A k \in DOMAIN x.elems : k > 1 => x.elems[k].elems = <<>>

(* Such a value, and all beneath it; and a sequence of them.               *)
Proper(v) == \E S : v \in S /\ \A x \in S : IsValue(x, S)

(* A sequence of such values.                                              *)
AllProper(s) == \E S : s \in Seq(S) /\ \A x \in S : Proper(x)

(* Its parts.                                                              *)
LEMMA ProperIs ==
  ASSUME NEW v, Proper(v)
  PROVE  /\ v.tag \in {"scalar", "vector", "string", "tuple"}
         /\ v.own \in Nat /\ v.bytes \in Nat /\ v.nodes \in Nat
         /\ AllProper(v.elems) /\ Len(v.elems) \in Nat /\ DOMAIN v.elems = 1 .. Len(v.elems)
         /\ v.bytes = v.own + Total("bytes", v.elems)
         /\ v.nodes = 1 + Total("nodes", v.elems)
         /\ v.tag = "scalar" => v.own = 0
         /\ v.tag = "tuple" => v.own = SlotBytes * Len(v.elems)
         /\ v.tag # "tuple" => v.elems = <<>>
         /\ \A k \in DOMAIN v.elems : k > 1 => v.elems[k].elems = <<>>
<1>1. PICK S : v \in S /\ \A x \in S : IsValue(x, S)
  BY DEF Proper
<1>2. IsValue(v, S) /\ \A x \in S : Proper(x)
  BY <1>1 DEF Proper
<1>3. v.elems \in Seq(S)
  BY <1>2 DEF IsValue
<1>4. AllProper(v.elems)
  BY <1>2, <1>3 DEF AllProper
<1>5. Len(v.elems) \in Nat /\ DOMAIN v.elems = 1 .. Len(v.elems)
  BY <1>3
<1> QED
  BY <1>2, <1>4, <1>5 DEF IsValue

(* What proper values are counted in.                                      *)
LEMMA ProperIsMeasured ==
  ASSUME NEW S, \A x \in S : Proper(x)
  PROVE  /\ \A x \in S : x["bytes"] \in Nat
         /\ \A x \in S : x["nodes"] \in Nat
BY ProperIs

(* Proper values in a sequence.                                            *)
LEMMA ProperSequence ==
  ASSUME NEW s, AllProper(s)
  PROVE  /\ Len(s) \in Nat /\ DOMAIN s = 1 .. Len(s) /\ IsSequence(s)
         /\ \A k \in DOMAIN s : Proper(s[k])
         /\ Total("bytes", s) \in Nat /\ Total("nodes", s) \in Nat
<1>1. PICK S : s \in Seq(S) /\ \A x \in S : Proper(x)
  BY DEF AllProper
<1>2. Len(s) \in Nat /\ DOMAIN s = 1 .. Len(s) /\ \A k \in DOMAIN s : Proper(s[k])
  BY <1>1
<1>3. Total("bytes", s) \in Nat /\ Total("nodes", s) \in Nat
  BY <1>1, ProperIsMeasured, TotalIs
<1>4. IsSequence(s)
  <2>1. s = [k \in 1 .. Len(s) |-> s[k]]
    BY <1>1
  <2> QED
    BY <1>2, <2>1, TableIsSequence
<1> QED
  BY <1>2, <1>3, <1>4

(* Any such sequence.                                                      *)
LEMMA SequenceIsProper ==
  ASSUME NEW s, IsSequence(s), \A k \in DOMAIN s : Proper(s[k])
  PROVE  AllProper(s)
BY DEF AllProper, IsSequence

(* No values.                                                              *)
LEMMA NoneIsProper ==
  AllProper(<<>>) /\ Total("bytes", <<>>) = 0 /\ Total("nodes", <<>>) = 0
<1>1. IsSequence(<<>>) /\ DOMAIN <<>> = {}
  BY DEF IsSequence
<1>2. AllProper(<<>>)
  BY <1>1, SequenceIsProper
<1> QED
  BY <1>2, TotalOfNone

(* Two sequences.                                                          *)
LEMMA ProperJoins ==
  ASSUME NEW s, AllProper(s), NEW t, AllProper(t)
  PROVE  /\ AllProper(s \o t)
         /\ Total("bytes", s \o t) = Total("bytes", s) + Total("bytes", t)
         /\ Total("nodes", s \o t) = Total("nodes", s) + Total("nodes", t)
<1>1. PICK A : s \in Seq(A) /\ \A x \in A : Proper(x)
  BY DEF AllProper
<1>2. PICK B : t \in Seq(B) /\ \A x \in B : Proper(x)
  BY DEF AllProper
<1> DEFINE S == A \union B
<1>3. s \in Seq(S) /\ t \in Seq(S)
  <2>1. A \subseteq S /\ B \subseteq S
    OBVIOUS
  <2> HIDE DEF S
  <2> QED
    BY <1>1, <1>2, <2>1, SeqMonotonic
<1>4. \A x \in S : Proper(x)
  BY <1>1, <1>2
<1> HIDE DEF S
<1>5. (\A x \in S : x["bytes"] \in Nat) /\ \A x \in S : x["nodes"] \in Nat
  BY <1>4, ProperIsMeasured
<1>6. s \o t \in Seq(S)
  BY <1>3
<1> QED
  BY <1>3, <1>4, <1>5, <1>6, TotalJoins DEF AllProper

(* One value.                                                              *)
LEMMA OneIsProper ==
  ASSUME NEW v, Proper(v)
  PROVE  AllProper(<<v>>) /\ Total("bytes", <<v>>) = v.bytes /\ Total("nodes", <<v>>) = v.nodes
<1>1. IsSequence(<<v>>) /\ \A k \in DOMAIN <<v>> : Proper(<<v>>[k])
  BY DEF IsSequence
<1>2. v.bytes \in Nat /\ v.nodes \in Nat
  BY ProperIs
<1>3. Total("bytes", <<v>>) = v["bytes"] /\ Total("nodes", <<v>>) = v["nodes"]
  BY <1>2, TotalOfOne
<1>4. AllProper(<<v>>)
  <2> DEFINE s == <<v>>
  <2>1. IsSequence(s) /\ \A k \in DOMAIN s : Proper(s[k])
    BY <1>1
  <2> HIDE DEF s
  <2>2. AllProper(s)
    BY <2>1, SequenceIsProper
  <2> QED
    BY <2>2 DEF s
<1> QED
  BY <1>3, <1>4

(* One value more.                                                         *)
LEMMA ProperAppends ==
  ASSUME NEW s, AllProper(s), NEW v, Proper(v)
  PROVE  /\ AllProper(Append(s, v))
         /\ Total("bytes", Append(s, v)) = Total("bytes", s) + v.bytes
<1>1. Append(s, v) = s \o <<v>>
  <2>1. PICK A : s \in Seq(A) /\ \A x \in A : Proper(x)
    BY DEF AllProper
  <2>2. s \in Seq(A \union {v}) /\ v \in A \union {v}
    BY <2>1, SeqMonotonic
  <2> QED
    BY <2>2, AppendIsConcat
<1>2. AllProper(<<v>>) /\ Total("bytes", <<v>>) = v.bytes
  BY OneIsProper
<1> QED
  BY <1>1, <1>2, ProperJoins

(* The last value apart.                                                   *)
LEMMA ProperLast ==
  ASSUME NEW s, AllProper(s), s # <<>>
  PROVE  /\ AllProper(Front(s)) /\ Proper(Last(s)) /\ Last(s) = s[Len(s)] /\ Len(s) >= 1
         /\ s = Front(s) \o <<Last(s)>>
         /\ Len(Front(s)) = Len(s) - 1 /\ \A k \in 1 .. Len(s) - 1 : Front(s)[k] = s[k]
         /\ Total("bytes", s) = Total("bytes", Front(s)) + Last(s).bytes
         /\ Total("nodes", s) = Total("nodes", Front(s)) + Last(s).nodes
<1>1. PICK S : s \in Seq(S) /\ \A x \in S : Proper(x)
  BY DEF AllProper
<1>2. /\ Front(s) \in Seq(S) /\ Last(s) \in S /\ Last(s) = s[Len(s)] /\ Len(s) >= 1
      /\ s = Front(s) \o <<Last(s)>>
      /\ Len(Front(s)) = Len(s) - 1 /\ \A k \in 1 .. Len(s) - 1 : Front(s)[k] = s[k]
  BY <1>1, FrontAndLast
<1>3. (\A x \in S : x["bytes"] \in Nat) /\ \A x \in S : x["nodes"] \in Nat
  BY <1>1, ProperIsMeasured
<1>4. /\ Total("bytes", s) = Total("bytes", Front(s)) + Last(s)["bytes"]
      /\ Total("nodes", s) = Total("nodes", Front(s)) + Last(s)["nodes"]
  BY <1>1, <1>3, TotalOfLast
<1> QED
  BY <1>1, <1>2, <1>4 DEF AllProper

(* What one value proves of another set of values.                         *)
LEMMA ValueIsIn ==
  ASSUME NEW A, NEW S, A \subseteq S, NEW x, IsValue(x, A)
  PROVE  IsValue(x, S)
<1>1. x.elems \in Seq(S)
  BY SeqMonotonic DEF IsValue
<1> QED
  BY <1>1 DEF IsValue

(* A value without parts is charged for itself.                            *)
LEMMA PlainIsProper ==
  ASSUME NEW tag, NEW own, IsCharge(tag, own), NEW label
  PROVE  LET v == Plain(tag, own, label)
         IN Proper(v) /\ v.elems = <<>> /\ v.bytes = own /\ v.own = own /\ v.tag = tag
<1> DEFINE v == Plain(tag, own, label)
           S == {v}
<1>1. /\ v.elems = <<>> /\ v.bytes = own /\ v.own = own /\ v.tag = tag /\ v.nodes = 1
  BY DEF Plain
<1> HIDE DEF v
<1>2. /\ tag \in {"scalar", "vector", "string"} /\ own \in Nat /\ (tag = "scalar" => own = 0)
  BY DEF IsCharge
<1>3. v.elems \in Seq(S)
  <2>1. <<>> \in Seq(S)
    OBVIOUS
  <2> QED
    BY <1>1, <2>1
<1>4. Total("bytes", v.elems) = 0 /\ Total("nodes", v.elems) = 0
  BY <1>1, TotalOfNone
<1>5. DOMAIN v.elems = {}
  BY <1>1
<1>6. v.bytes = v.own + Total("bytes", v.elems) /\ v.nodes = 1 + Total("nodes", v.elems)
  BY <1>1, <1>2, <1>4
<1>7. IsValue(v, S)
  BY <1>1, <1>2, <1>3, <1>5, <1>6 DEF IsValue
<1>8. Proper(v)
  <2>1. v \in S /\ \A x \in S : IsValue(x, S)
    BY <1>7
  <2> HIDE DEF S
  <2> QED
    BY <2>1 DEF Proper
<1> QED
  BY <1>1, <1>8 DEF v

(* An argument is such a value, and has no children.                       *)
LEMMA ArgumentIsProper ==
  ASSUME NEW v, IsArgument(v)
  PROVE  Proper(v) /\ v.elems = <<>> /\ v.bytes = v.own
BY PlainIsProper DEF IsArgument

(* A tuple of proper values is one, when none but its first is a tuple of  *)
(* anything.                                                               *)
LEMMA TupleIsProper ==
  ASSUME NEW elems, AllProper(elems), \A k \in DOMAIN elems : k > 1 => elems[k].elems = <<>>
  PROVE  LET v == TupleValue(elems)
         IN Proper(v) /\ v.elems = elems /\ v.bytes = SlotBytes * Len(elems) + Total("bytes", elems)
<1> DEFINE v == TupleValue(elems)
           F == [k \in DOMAIN elems |->
                   CHOOSE A : elems[k] \in A /\ \A x \in A : IsValue(x, A)]
           S == {v} \union UNION {F[k] : k \in DOMAIN elems}
<1>1. /\ v.elems = elems /\ v.tag = "tuple" /\ v.own = SlotBytes * Len(elems)
      /\ v.bytes = v.own + Total("bytes", elems) /\ v.nodes = 1 + Total("nodes", elems)
  BY DEF TupleValue
<1> HIDE DEF v
<1>2. /\ Len(elems) \in Nat /\ IsSequence(elems) /\ \A k \in DOMAIN elems : Proper(elems[k])
      /\ Total("bytes", elems) \in Nat /\ Total("nodes", elems) \in Nat
  BY ProperSequence
<1>3. \A k \in DOMAIN elems : elems[k] \in F[k] /\ \A x \in F[k] : IsValue(x, F[k])
  BY <1>2 DEF Proper
<1> HIDE DEF F
<1>4. v.elems \in Seq(S)
  <2>1. {elems[k] : k \in DOMAIN elems} \subseteq S
    BY <1>3
  <2>2. elems \in Seq({elems[k] : k \in DOMAIN elems})
    BY <1>2 DEF IsSequence
  <2> HIDE DEF S
  <2> QED
    BY <1>1, <2>1, <2>2, SeqMonotonic
<1>5. v.own \in Nat /\ v.bytes \in Nat /\ v.nodes \in Nat
  <2>1. SlotBytes * Len(elems) \in Nat
    BY <1>2, UsizeAssumption
  <2> QED
    BY <1>1, <1>2, <2>1
<1>6. IsValue(v, S)
  <2> HIDE DEF S
  <2> QED
    BY <1>1, <1>4, <1>5 DEF IsValue
<1>7. ASSUME NEW x \in S PROVE IsValue(x, S)
  <2>1. CASE x = v
    BY <1>6, <2>1
  <2>2. CASE \E k \in DOMAIN elems : x \in F[k]
    <3>1. PICK k \in DOMAIN elems : x \in F[k]
      BY <2>2
    <3>2. F[k] \subseteq S /\ IsValue(x, F[k])
      BY <1>3, <3>1
    <3> HIDE DEF S
    <3> QED
      BY <3>2, ValueIsIn
  <2> QED
    BY <2>1, <2>2
<1>8. v \in S
  OBVIOUS
<1> HIDE DEF S
<1>9. Proper(v)
  BY <1>7, <1>8 DEF Proper
<1> QED
  BY <1>1, <1>9 DEF v

(***************************************************************************)
(* Taking a value apart.                                                   *)
(***************************************************************************)
(* What is left of a walk that has visited all but the values of rest, the *)
(* last one first.                                                         *)
Rests(walk, rest) ==
  \/ walk.current = <<>> /\ rest = walk.pending
  \/ rest # <<>> /\ walk.current = <<Last(rest)>> /\ walk.pending = Front(rest)

(* After k visits: what was visited and what is left make up the value.    *)
Walking(value, k, walk) ==
  \E rest :
    /\ Rests(walk, rest) /\ AllProper(rest)
    /\ \A i \in DOMAIN rest : i > 1 => rest[i].elems = <<>>
    /\ walk.total \in Nat /\ walk.total + Total("bytes", rest) = value.bytes
    /\ rest = <<>> \/ k + Total("nodes", rest) <= value.nodes

(* A visit goes on to what is left, one value further.                     *)
LEMMA VisitKeeps ==
  ASSUME NEW value, value.nodes \in Nat, value.bytes \in Nat, NEW k \in Nat, NEW walk,
         NEW rest, rest # <<>>, AllProper(rest),
         \A i \in DOMAIN rest : i > 1 => rest[i].elems = <<>>,
         walk.total \in Nat, walk.total + Total("bytes", rest) = value.bytes,
         k + Total("nodes", rest) <= value.nodes
  PROVE  Walking(value, k + 1, Visit(walk, Last(rest), Front(rest)))
<1> DEFINE last == Last(rest)
           front == Front(rest)
           next == Visit(walk, last, front)
<1>1. /\ AllProper(front) /\ Proper(last) /\ last = rest[Len(rest)] /\ Len(rest) >= 1
      /\ Len(front) = Len(rest) - 1 /\ \A i \in 1 .. Len(rest) - 1 : front[i] = rest[i]
      /\ Total("bytes", rest) = Total("bytes", front) + last.bytes
      /\ Total("nodes", rest) = Total("nodes", front) + last.nodes
  BY ProperLast
<1>2. /\ Len(rest) \in Nat /\ DOMAIN rest = 1 .. Len(rest)
      /\ Len(front) \in Nat /\ DOMAIN front = 1 .. Len(front)
      /\ Total("bytes", front) \in Nat /\ Total("nodes", front) \in Nat
  BY <1>1, ProperSequence
<1>3. /\ last.own \in Nat /\ last.bytes \in Nat /\ last.nodes \in Nat
      /\ AllProper(last.elems)
      /\ last.bytes = last.own + Total("bytes", last.elems)
      /\ last.nodes = 1 + Total("nodes", last.elems)
      /\ \A i \in DOMAIN last.elems : i > 1 => last.elems[i].elems = <<>>
  BY <1>1, ProperIs
<1>4. /\ Total("bytes", last.elems) \in Nat /\ Total("nodes", last.elems) \in Nat
  BY <1>3, ProperSequence
<1> HIDE DEF last, front
<1>5. CASE last.elems # <<>>
  <2>1. Len(rest) = 1
    <3>1. ~(Len(rest) > 1)
      <4>1. Len(rest) \in DOMAIN rest
        BY <1>1, <1>2
      <4> QED
        BY <1>1, <1>5, <4>1
    <3> QED
      BY <1>1, <1>2, <3>1
  <2>2. front = <<>>
    <3>1. Len(front) = 0 /\ IsSequence(front)
      BY <1>1, <1>2, <2>1, ProperSequence
    <3> QED
      BY <3>1 DEF IsSequence
  <2>3. Total("bytes", front) = 0 /\ Total("nodes", front) = 0
    BY <2>2, TotalOfNone
  <2>4. /\ next.total = walk.total + last.own
        /\ next.pending = Front(last.elems) \o <<>>
        /\ next.current = <<Last(last.elems)>>
    BY <1>5, <2>2 DEF Visit, Descend
  <2>5. Front(last.elems) \o <<>> = Front(last.elems)
    <3>1. AllProper(Front(last.elems))
      BY <1>3, <1>5, ProperLast
    <3>2. PICK A : Front(last.elems) \in Seq(A)
      BY <3>1 DEF AllProper
    <3> QED
      BY <3>2
  <2> HIDE DEF next
  <2>6. Rests(next, last.elems)
    BY <1>5, <2>4, <2>5 DEF Rests
  <2>7. next.total \in Nat /\ next.total + Total("bytes", last.elems) = value.bytes
    <3>1. next.total = walk.total + last.own
      BY <2>4
    <3>2. Total("bytes", rest) = last.own + Total("bytes", last.elems)
      BY <1>1, <1>3, <1>4, <2>3
    <3> QED
      BY <1>3, <1>4, <3>1, <3>2
  <2>8. k + 1 + Total("nodes", last.elems) <= value.nodes
    BY <1>1, <1>3, <1>4, <2>3
  <2>9. Walking(value, k + 1, next)
    BY <1>3, <2>6, <2>7, <2>8 DEF Walking
  <2> QED
    BY <2>9 DEF next, last, front
<1>6. CASE last.elems = <<>>
  <2>1. next.total = walk.total + last.own /\ next.pending = front /\ next.current = <<>>
    BY <1>6 DEF Visit
  <2> HIDE DEF next
  <2>2. Rests(next, front)
    BY <2>1 DEF Rests
  <2>3. Total("bytes", last.elems) = 0 /\ Total("nodes", last.elems) = 0
    BY <1>6, TotalOfNone
  <2>4. next.total \in Nat /\ next.total + Total("bytes", front) = value.bytes
    <3>1. next.total = walk.total + last.own
      BY <2>1
    <3>2. Total("bytes", rest) = Total("bytes", front) + last.own
      BY <1>1, <1>2, <1>3, <2>3
    <3> QED
      BY <1>2, <1>3, <3>1, <3>2
  <2>5. k + 1 + Total("nodes", front) <= value.nodes
    BY <1>1, <1>2, <1>3, <2>3
  <2>6. \A i \in DOMAIN front : i > 1 => front[i].elems = <<>>
    <3> TAKE i \in DOMAIN front
    <3>1. i \in 1 .. Len(rest) - 1 /\ i \in DOMAIN rest
      BY <1>1, <1>2
    <3> QED
      BY <1>1, <3>1
  <2>7. Walking(value, k + 1, next)
    BY <1>1, <2>2, <2>4, <2>5, <2>6 DEF Walking
  <2> QED
    BY <2>7 DEF next, last, front
<1> QED
  BY <1>5, <1>6

(* A turn of the loop.                                                     *)
LEMMA WalkStepKeeps ==
  ASSUME NEW value, value.nodes \in Nat, value.bytes \in Nat, NEW k \in Nat, NEW walk,
         Walking(value, k, walk)
  PROVE  Walking(value, k + 1, WalkStep(walk))
<1>1. PICK rest :
        /\ Rests(walk, rest) /\ AllProper(rest)
        /\ \A i \in DOMAIN rest : i > 1 => rest[i].elems = <<>>
        /\ walk.total \in Nat /\ walk.total + Total("bytes", rest) = value.bytes
        /\ rest = <<>> \/ k + Total("nodes", rest) <= value.nodes
  BY DEF Walking
<1>2. CASE rest = <<>>
  <2>1. WalkStep(walk) = walk
    BY <1>1, <1>2 DEF Rests, WalkStep
  <2> QED
    BY <1>1, <1>2, <2>1 DEF Walking
<1>3. CASE rest # <<>>
  <2>1. WalkStep(walk) = Visit(walk, Last(rest), Front(rest))
    <3>1. CASE walk.current = <<>> /\ rest = walk.pending
      BY <1>3, <3>1 DEF WalkStep
    <3>2. CASE walk.current = <<Last(rest)>> /\ walk.pending = Front(rest)
      <4>1. walk.current # <<>> /\ walk.current[1] = Last(rest)
        BY <3>2
      <4> QED
        BY <3>2, <4>1 DEF WalkStep
    <3> QED
      BY <1>1, <1>3, <3>1, <3>2 DEF Rests
  <2>2. Walking(value, k + 1, Visit(walk, Last(rest), Front(rest)))
    BY <1>1, <1>3, VisitKeeps
  <2> QED
    BY <2>1, <2>2
<1> QED
  BY <1>2, <1>3

(* n turns of the loop.                                                    *)
Turns(after, first, n) ==
  after = [k \in 0 .. n |-> IF k = 0 THEN first
                            ELSE CHOOSE y \in {WalkStep(w) : w \in {after[k - 1]}} : TRUE]

(* They can be taken: the recursion in Repeated has a solution.            *)
LEMMA TurnsAreTaken ==
  ASSUME NEW n \in Nat, NEW first
  PROVE  \E after : Turns(after, first, n)
<1> DEFINE T == {m \in 0 .. n : \E after : Turns(after, first, m)}
<1>1. 0 \in T
  <2>1. Turns([k \in 0 .. 0 |-> first], first, 0)
    BY DEF Turns
  <2> QED
    BY <2>1
<1>2. ASSUME NEW m \in 0 .. (n - 1), m \in T PROVE m + 1 \in T
  <2>1. PICK b : Turns(b, first, m)
    BY <1>2
  <2> DEFINE step(x) == CHOOSE y \in {WalkStep(w) : w \in {x}} : TRUE
             c == [k \in 0 .. (m + 1) |-> IF k = m + 1 THEN step(b[m]) ELSE b[k]]
  <2>2. \A k \in 0 .. m : b[k] = IF k = 0 THEN first ELSE step(b[k - 1])
    BY <2>1 DEF Turns
  <2> HIDE DEF step
  <2>3. ASSUME NEW k \in 0 .. (m + 1)
        PROVE  c[k] = IF k = 0 THEN first ELSE step(c[k - 1])
    BY <2>2
  <2>4. c = [k \in 0 .. (m + 1) |-> c[k]]
    OBVIOUS
  <2> HIDE DEF c
  <2>5. c = [k \in 0 .. (m + 1) |-> IF k = 0 THEN first ELSE step(c[k - 1])]
    BY <2>3, <2>4
  <2>6. Turns(c, first, m + 1)
    BY <2>5 DEF Turns, step
  <2>7. m + 1 \in 0 .. n
    OBVIOUS
  <2> QED
    BY <2>6, <2>7
<1>3. n \in T
  <2> HIDE DEF T
  <2>1. 0 .. n \subseteq T
    BY <1>1, <1>2, InductionUpTo
  <2> QED
    BY <2>1
<1> QED
  BY <1>3

(* into_canonical_bytes gives back what a proper value is charged for, and *)
(* ends.                                                                   *)
LEMMA CanonicalBytesAre ==
  ASSUME NEW value, Proper(value)
  PROVE  CanonicalBytes(value) = value.bytes /\ WalkDone(Walk(value))
<1> DEFINE n == 2 * value.nodes
           after == CHOOSE a : Turns(a, WalkStart(value), n)
           T == {k \in 0 .. n : Walking(value, k, after[k])}
<1>1. value.nodes \in Nat /\ value.bytes \in Nat /\ n \in Nat /\ n > value.nodes
  <2>1. /\ value.nodes \in Nat /\ value.bytes \in Nat /\ value.nodes = 1 + Total("nodes", value.elems)
        /\ AllProper(value.elems)
    BY ProperIs
  <2>2. Total("nodes", value.elems) \in Nat
    BY <2>1, ProperSequence
  <2> QED
    BY <2>1, <2>2
<1> HIDE DEF n
<1>2. Turns(after, WalkStart(value), n)
  BY <1>1, TurnsAreTaken
<1>3. Walk(value) = after[n]
  BY DEF Walk, Repeated, Turns, after, n
<1> HIDE DEF after
<1>4. \A k \in 0 .. n : after[k] = IF k = 0 THEN WalkStart(value)
                                 ELSE CHOOSE y \in {WalkStep(w) : w \in {after[k - 1]}} : TRUE
  BY <1>2 DEF Turns
<1>5. 0 \in T
  <2> DEFINE s == <<value>>
  <2>1. AllProper(s) /\ Total("bytes", s) = value.bytes /\ Total("nodes", s) = value.nodes
    BY OneIsProper
  <2>2. after[0] = WalkStart(value)
    BY <1>1, <1>4
  <2>3. Last(s) = value /\ Front(s) = <<>> /\ s # <<>> /\ DOMAIN s = {1}
    BY DEF Last, Front
  <2> HIDE DEF s
  <2>4. Rests(WalkStart(value), s) /\ WalkStart(value).total = 0
    BY <2>3 DEF Rests, WalkStart
  <2>5. \A i \in DOMAIN s : ~(i > 1)
    BY <2>3
  <2>6. 0 + Total("bytes", s) = value.bytes /\ 0 + Total("nodes", s) <= value.nodes
    BY <1>1, <2>1
  <2>7. Walking(value, 0, WalkStart(value))
    BY <2>1, <2>4, <2>5, <2>6 DEF Walking
  <2> QED
    BY <1>1, <2>2, <2>7
<1>6. ASSUME NEW k \in 0 .. (n - 1), k \in T PROVE k + 1 \in T
  <2>1. k \in Nat /\ k + 1 \in 0 .. n /\ k + 1 # 0 /\ (k + 1) - 1 = k
    BY <1>1
  <2>2. after[k + 1] = CHOOSE y \in {WalkStep(w) : w \in {after[k]}} : TRUE
    BY <1>4, <2>1
  <2>3. after[k + 1] = WalkStep(after[k])
    <3>1. {WalkStep(w) : w \in {after[k]}} = {WalkStep(after[k])}
      OBVIOUS
    <3> QED
      BY <2>2, <3>1
  <2>4. Walking(value, k, after[k])
    BY <1>6
  <2>5. Walking(value, k + 1, after[k + 1])
    BY <1>1, <2>1, <2>3, <2>4, WalkStepKeeps
  <2> QED
    BY <2>1, <2>5
<1>7. Walking(value, n, after[n])
  <2>1. 0 .. n \subseteq T
    <3> HIDE DEF T
    <3> QED
      BY <1>1, <1>5, <1>6, InductionUpTo
  <2>2. n \in 0 .. n
    BY <1>1
  <2> QED
    BY <2>1, <2>2
<1>8. PICK rest :
        /\ Rests(after[n], rest) /\ AllProper(rest)
        /\ after[n].total \in Nat /\ after[n].total + Total("bytes", rest) = value.bytes
        /\ rest = <<>> \/ n + Total("nodes", rest) <= value.nodes
  BY <1>7 DEF Walking
<1>9. rest = <<>>
  <2>1. Total("nodes", rest) \in Nat
    BY <1>8, ProperSequence
  <2>2. ~(n + Total("nodes", rest) <= value.nodes)
    BY <1>1, <2>1
  <2> QED
    BY <1>8, <2>2
<1>10. Total("bytes", rest) = 0
  BY <1>9, TotalOfNone
<1>11. after[n].total = value.bytes
  BY <1>1, <1>8, <1>10
<1>12. after[n].current = <<>> /\ after[n].pending = <<>>
  BY <1>8, <1>9 DEF Rests
<1> QED
  BY <1>3, <1>11, <1>12 DEF CanonicalBytes, WalkDone

(***************************************************************************)
(* The ledger.                                                             *)
(***************************************************************************)
(* A usage the limits of c allow.                                          *)
InBounds(c, u) ==
  /\ u \in ResourceUsage /\ u.live <= u.peak
  /\ Within(u.peak, c.max_live_evaluation_bytes)
  /\ Within(u.work, c.max_work_units)

(* What never falls.                                                       *)
Climbs(u, v) == v.work >= u.work /\ v.attempts >= u.attempts /\ v.peak >= u.peak

(* A decision on a request of so many bytes.                               *)
Decides(c, u, d, bytes) ==
  /\ InBounds(c, d.usage) /\ Climbs(u, d.usage)
  /\ Admitted(d) => d.bytes = bytes /\ d.usage.live = u.live + bytes
  /\ ~Admitted(d) => d.usage.live = u.live

(* The numbers of a usage.                                                 *)
LEMMA UsageIs ==
  ASSUME NEW u \in ResourceUsage
  PROVE  /\ u.live \in Nat /\ u.peak \in Nat /\ u.work \in Nat /\ u.attempts \in Nat
         /\ u.live <= MaxUsize /\ u.peak <= MaxUsize /\ u.work <= MaxUsize /\ u.attempts <= MaxUsize
BY UsizeAssumption DEF ResourceUsage, Usize

(* Usage that never falls does not fall over two steps,                    *)
LEMMA ClimbsOn ==
  ASSUME NEW u \in ResourceUsage, NEW v \in ResourceUsage, NEW w \in ResourceUsage,
         Climbs(u, v), Climbs(v, w)
  PROVE  Climbs(u, w)
BY UsageIs DEF Climbs

(* nor where it does not move.                                             *)
LEMMA StaysUp ==
  ASSUME NEW u \in ResourceUsage
  PROVE  Climbs(u, u)
BY UsageIs DEF Climbs

(* admit_request.                                                          *)
LEMMA DecideDecides ==
  ASSUME NEW c \in Configuration, NEW u, InBounds(c, u), NEW limit, NEW bytes \in Nat, NEW work \in Nat
  PROVE  Decides(c, u, Decide(c, u, limit, bytes, work), bytes)
<1> DEFINE d == Decide(c, u, limit, bytes, work)
           v == Verdict(c, u, limit, bytes, work)
<1>1. /\ u \in ResourceUsage /\ u.live <= u.peak
      /\ Within(u.peak, c.max_live_evaluation_bytes) /\ Within(u.work, c.max_work_units)
  BY DEF InBounds
<1>2. /\ u.live \in Nat /\ u.peak \in Nat /\ u.work \in Nat /\ u.attempts \in Nat
      /\ u.live <= MaxUsize /\ u.peak <= MaxUsize /\ u.work <= MaxUsize /\ u.attempts <= MaxUsize
  BY <1>1, UsageIs
<1>3. d.verdict = v /\ d.bytes = bytes /\ d.usage = UsageAfter(u, v, bytes, work)
  BY DEF Decide
<1> HIDE DEF d
<1>4. CASE v = Granted
  <2>1. /\ u.live + bytes <= MaxUsize /\ u.work + work <= MaxUsize
        /\ Within(u.live + bytes, c.max_live_evaluation_bytes)
        /\ Within(u.work + work, c.max_work_units)
        /\ bytes # 0 => u.attempts # MaxUsize
    BY <1>2, <1>4, UsizeAssumption, NoneAssumption DEF Verdict, Granted
  <2>2. d.usage = [live |-> u.live + bytes, peak |-> Larger(u.peak, u.live + bytes),
                   work |-> u.work + work,
                   attempts |-> IF bytes = 0 THEN u.attempts ELSE u.attempts + 1]
    BY <1>3, <1>4 DEF UsageAfter, Granted
  <2>3. d.usage \in ResourceUsage
    BY <1>2, <2>1, <2>2, UsizeAssumption DEF ResourceUsage, Usize, Larger
  <2>4. Within(Larger(u.peak, u.live + bytes), c.max_live_evaluation_bytes)
    BY <1>1, <2>1 DEF Larger
  <2>5. d.usage.live <= d.usage.peak
    BY <1>2, <2>2 DEF Larger
  <2>6. InBounds(c, d.usage)
    BY <2>1, <2>2, <2>3, <2>4, <2>5 DEF InBounds
  <2>7. Climbs(u, d.usage)
    BY <1>2, <2>2 DEF Climbs, Larger
  <2>8. d.usage.live = u.live + bytes
    BY <2>2
  <2>9. Admitted(d)
    BY <1>3, <1>4 DEF Admitted
  <2> QED
    BY <1>3, <2>6, <2>7, <2>8, <2>9 DEF Decides, d
<1>5. CASE v # Granted
  <2>1. v = "AllocationUnavailable" => bytes # 0 /\ u.attempts # MaxUsize
    BY DEF Verdict, Granted
  <2>2. d.usage = u \/ (v = "AllocationUnavailable" /\ d.usage = [u EXCEPT !.attempts = u.attempts + 1])
    BY <1>2, <1>3, <1>5, <2>1 DEF UsageAfter
  <2>3. d.usage \in ResourceUsage /\ d.usage.attempts >= u.attempts
    BY <1>1, <1>2, <2>1, <2>2, UsizeAssumption DEF ResourceUsage, Usize
  <2>4. d.usage.live = u.live /\ d.usage.peak = u.peak /\ d.usage.work = u.work
    BY <1>1, <2>2 DEF ResourceUsage
  <2>5. InBounds(c, d.usage)
    BY <1>1, <2>3, <2>4 DEF InBounds
  <2>6. Climbs(u, d.usage)
    BY <1>2, <2>3, <2>4 DEF Climbs
  <2>7. ~Admitted(d)
    BY <1>3, <1>5 DEF Admitted
  <2> QED
    BY <2>4, <2>5, <2>6, <2>7 DEF Decides, d
<1> QED
  BY <1>4, <1>5

(* A refusal that changes nothing.                                         *)
LEMMA RefusalDecides ==
  ASSUME NEW c, NEW u, InBounds(c, u), NEW d, d.usage = u, ~Admitted(d), NEW bytes
  PROVE  Decides(c, u, d, bytes)
BY StaysUp DEF Decides, InBounds

(* admit_request after the size was computed, which may be too large.      *)
LEMMA DecideSizedDecides ==
  ASSUME NEW c \in Configuration, NEW u, InBounds(c, u), NEW limit, NEW bytes \in Nat, NEW work \in Nat
  PROVE  Decides(c, u, DecideSized(c, u, limit, bytes, work), bytes)
<1>1. CASE bytes > MaxUsize
  <2>1. DecideSized(c, u, limit, bytes, work) = Oversized(u, work)
    BY <1>1 DEF DecideSized
  <2>2. Oversized(u, work).usage = u /\ ~Admitted(Oversized(u, work))
    BY DEF Oversized, Admitted, Granted
  <2> QED
    BY <2>1, <2>2, RefusalDecides
<1>2. CASE ~(bytes > MaxUsize)
  BY <1>2, DecideDecides DEF DecideSized
<1> QED
  BY <1>1, <1>2

(* The requests of the interpreter.                                        *)
LEMMA RequestsDecide ==
  ASSUME NEW c \in Configuration, NEW u, InBounds(c, u), NEW n \in Nat, NEW work \in Nat
  PROVE  /\ Decides(c, u, AdmitString(c, u, n, work), n)
         /\ Decides(c, u, AdmitVector(c, u, n, 1, work), n)
         /\ Decides(c, u, AdmitTuple(c, u, n), SlotBytes * n)
         /\ Decides(c, u, ChargeWork(c, u, work), 0)
<1>1. Decides(c, u, AdmitString(c, u, n, work), n)
  BY DecideDecides DEF AdmitString
<1>2. Decides(c, u, AdmitVector(c, u, n, 1, work), n)
  <2>1. n * 1 = n
    OBVIOUS
  <2>2. Decides(c, u, DecideSized(c, u, c.max_vector_bytes, n, work), n)
    BY DecideSizedDecides
  <2> QED
    BY <2>1, <2>2 DEF AdmitVector
<1>3. Decides(c, u, AdmitTuple(c, u, n), SlotBytes * n)
  <2>1. n * SlotBytes = SlotBytes * n /\ SlotBytes * n \in Nat
    BY UsizeAssumption
  <2>2. CASE SupportsTuples(c.profile)
    <3>1. Decides(c, u, DecideSized(c, u, c.max_tuple_table_bytes, SlotBytes * n, 0), SlotBytes * n)
      BY <2>1, DecideSizedDecides
    <3> QED
      BY <2>1, <2>2, <3>1 DEF AdmitTuple
  <2>3. CASE ~SupportsTuples(c.profile)
    <3>1. AdmitTuple(c, u, n).usage = u /\ ~Admitted(AdmitTuple(c, u, n))
      BY <2>3 DEF AdmitTuple, Admitted, Granted
    <3> QED
      BY <3>1, RefusalDecides
  <2> QED
    BY <2>2, <2>3
<1>4. Decides(c, u, ChargeWork(c, u, work), 0)
  BY DecideDecides DEF ChargeWork
<1> QED
  BY <1>1, <1>2, <1>3, <1>4

(* Nothing is saturated away in giving back what is charged.               *)
LEMMA RefundGivesBack ==
  ASSUME NEW c \in Configuration, NEW u, InBounds(c, u), NEW bytes \in Nat, bytes <= u.live
  PROVE  /\ InBounds(c, Refund(u, bytes)) /\ Climbs(u, Refund(u, bytes))
         /\ Refund(u, bytes).live = u.live - bytes
<1> DEFINE v == Refund(u, bytes)
<1>1. /\ u \in ResourceUsage /\ u.live <= u.peak
      /\ Within(u.peak, c.max_live_evaluation_bytes) /\ Within(u.work, c.max_work_units)
  BY DEF InBounds
<1>2. /\ u.live \in Nat /\ u.peak \in Nat /\ u.work \in Nat /\ u.attempts \in Nat
      /\ u.live <= MaxUsize
  BY <1>1, UsageIs
<1>3. v = [u EXCEPT !.live = u.live - bytes]
  BY <1>2 DEF Refund
<1>4. u.live - bytes \in Usize
  BY <1>2, UsizeAssumption DEF Usize
<1> HIDE DEF v
<1>5. /\ v \in ResourceUsage /\ v.live = u.live - bytes
      /\ v.peak = u.peak /\ v.work = u.work /\ v.attempts = u.attempts
  BY <1>1, <1>3, <1>4 DEF ResourceUsage
<1>6. InBounds(c, v)
  BY <1>1, <1>2, <1>5 DEF InBounds
<1>7. Climbs(u, v)
  BY <1>2, <1>5 DEF Climbs
<1> QED
  BY <1>5, <1>6, <1>7 DEF v

(***************************************************************************)
(* What is held in slots, and what the arguments are charged for.          *)
(***************************************************************************)
Weight(slot) == IF slot.kind = "Owned" THEN slot.value.bytes ELSE 0

(* The weights of all slots,                                               *)
Weights(s) == [i \in 1 .. NodeCount |-> Weight(s[i])]

(* and their sum.                                                          *)
InSlots(s) == SumOf(Weights(s), NodeCount)

(* What a slot owns is charged, unless there is nothing to charge.         *)
Sized(slot) ==
  slot.kind = "Owned" =>
    /\ Proper(slot.value)
    /\ slot.accounted \in BOOLEAN /\ (~slot.accounted => slot.value.bytes = 0)

(* There is a slot for each node, and every slot is so.                    *)
AllSized(s) == DOMAIN s = 1 .. NodeCount /\ \A i \in 1 .. NodeCount : Sized(s[i])

(* The nodes are numbered from 1.                                          *)
LEMMA NodesAre ==
  ASSUME Given
  PROVE  NodeCount \in Nat /\ Indices(program) = 1 .. NodeCount
BY GivenIsVerified DEF NodeCount

(* An empty slot weighs nothing.                                           *)
LEMMA EmptyIsSized ==
  Sized(Empty) /\ Weight(Empty) = 0
BY DEF Sized, Weight, Empty

(* A weight is a number.                                                   *)
LEMMA SizedWeighs ==
  ASSUME NEW slot, Sized(slot)
  PROVE  Weight(slot) \in Nat
BY ProperIs DEF Sized, Weight

(* So is the sum of the weights.                                           *)
LEMMA InSlotsIs ==
  ASSUME Given, NEW s, AllSized(s)
  PROVE  Weights(s) \in [1 .. NodeCount -> Nat] /\ InSlots(s) \in Nat
<1>1. NodeCount \in Nat
  BY NodesAre
<1>2. \A i \in 1 .. NodeCount : Weight(s[i]) \in Nat
  BY SizedWeighs DEF AllSized
<1>3. Weights(s) \in [1 .. NodeCount -> Nat]
  BY <1>2 DEF Weights
<1>4. SumOf(Weights(s), NodeCount) \in Nat
  BY <1>1, <1>3, SumIs
<1> QED
  BY <1>3, <1>4 DEF InSlots

(* Emptying a slot.                                                        *)
LEMMA TakeOut ==
  ASSUME Given, NEW s, AllSized(s), NEW i \in 1 .. NodeCount
  PROVE  LET t == [s EXCEPT ![i] = Empty]
         IN AllSized(t) /\ InSlots(s) = InSlots(t) + Weight(s[i])
<1> DEFINE t == [s EXCEPT ![i] = Empty]
<1>1. NodeCount \in Nat /\ Weights(s) \in [1 .. NodeCount -> Nat] /\ Weight(s[i]) \in Nat
  BY NodesAre, InSlotsIs, SizedWeighs DEF AllSized
<1>2. DOMAIN t = 1 .. NodeCount /\ t[i] = Empty /\ \A k \in 1 .. NodeCount : k # i => t[k] = s[k]
  BY DEF AllSized
<1> HIDE DEF t
<1>3. AllSized(t)
  BY <1>2, EmptyIsSized DEF AllSized
<1>4. Weights(t) \in [1 .. NodeCount -> Nat]
  BY <1>3, InSlotsIs
<1>5. /\ Weights(s)[i] = Weights(t)[i] + Weight(s[i])
      /\ \A k \in 1 .. NodeCount : k # i => Weights(s)[k] = Weights(t)[k]
  BY <1>1, <1>2, EmptyIsSized DEF Weights
<1>6. InSlots(s) = InSlots(t) + Weight(s[i])
  BY <1>1, <1>4, <1>5, SumRaised DEF InSlots
<1> QED
  BY <1>3, <1>6 DEF t

(* Putting into a slot that weighs nothing.                                *)
LEMMA PutIn ==
  ASSUME Given, NEW s, AllSized(s), NEW i \in 1 .. NodeCount, Weight(s[i]) = 0,
         NEW slot, Sized(slot)
  PROVE  LET t == [s EXCEPT ![i] = slot]
         IN AllSized(t) /\ InSlots(t) = InSlots(s) + Weight(slot)
<1> DEFINE t == [s EXCEPT ![i] = slot]
           r == [t EXCEPT ![i] = Empty]
<1>1. DOMAIN t = 1 .. NodeCount /\ t[i] = slot /\ \A k \in 1 .. NodeCount : k # i => t[k] = s[k]
  BY DEF AllSized
<1> HIDE DEF t
<1>2. AllSized(t)
  BY <1>1 DEF AllSized
<1>3. AllSized(r) /\ InSlots(t) = InSlots(r) + Weight(t[i])
  BY <1>2, TakeOut
<1>4. r[i] = Empty /\ \A k \in 1 .. NodeCount : k # i => r[k] = s[k]
  BY <1>1
<1> HIDE DEF r
<1>5. Weights(r) = Weights(s)
  <2>1. \A k \in 1 .. NodeCount : Weight(r[k]) = Weight(s[k])
    BY <1>4, EmptyIsSized
  <2> QED
    BY <2>1 DEF Weights
<1> QED
  BY <1>1, <1>2, <1>3, <1>5 DEF InSlots, t

(* Emptying several of them, with what into_canonical_bytes finds there.   *)
LEMMA WithoutWeighs ==
  ASSUME Given, NEW s, AllSized(s), NEW owners \in SUBSET (1 .. NodeCount)
  PROVE  LET t == Without(s, owners)
         IN /\ AllSized(t) /\ ReleasedBytes(s, owners) \in Nat
            /\ InSlots(s) = InSlots(t) + ReleasedBytes(s, owners)
<1> DEFINE t == Without(s, owners)
           f == [i \in Accounted(s, owners) |-> CanonicalBytes(s[i].value)]
           g == Only(f, DOMAIN f, NodeCount)
<1>1. NodeCount \in Nat /\ Weights(s) \in [1 .. NodeCount -> Nat]
  BY NodesAre, InSlotsIs
<1>2. DOMAIN t = 1 .. NodeCount /\ \A k \in 1 .. NodeCount : t[k] = IF k \in owners THEN Empty ELSE s[k]
  BY DEF AllSized, Without
<1>3. /\ DOMAIN f = Accounted(s, owners) /\ Accounted(s, owners) \subseteq 1 .. NodeCount
      /\ \A k \in Accounted(s, owners) : f[k] = CanonicalBytes(s[k].value)
  BY DEF Accounted
<1>4. ReleasedBytes(s, owners) = SumFunction(f)
  BY DEF ReleasedBytes
<1> HIDE DEF t, f
<1>5. \A k \in Accounted(s, owners) : f[k] = s[k].value.bytes /\ f[k] \in Nat
  <2> TAKE k \in Accounted(s, owners)
  <2>1. k \in 1 .. NodeCount /\ s[k].kind = "Owned" /\ s[k].accounted
    BY DEF Accounted
  <2>2. Proper(s[k].value)
    BY <2>1 DEF AllSized, Sized
  <2>3. CanonicalBytes(s[k].value) = s[k].value.bytes /\ s[k].value.bytes \in Nat
    BY <2>2, CanonicalBytesAre, ProperIs
  <2> QED
    BY <1>3, <2>3
<1>6. AllSized(t)
  BY <1>2, EmptyIsSized DEF AllSized
<1>7. Weights(t) \in [1 .. NodeCount -> Nat]
  BY <1>6, InSlotsIs
<1>8. g \in [1 .. NodeCount -> Nat]
      /\ \A k \in 1 .. NodeCount : g[k] = IF k \in Accounted(s, owners) THEN f[k] ELSE 0
  BY <1>3, <1>5 DEF Only
<1>9. SumFunction(f) = SumOf(g, NodeCount)
  <2>1. DOMAIN f \in SUBSET (1 .. NodeCount) /\ \A k \in DOMAIN f : f[k] \in Nat
    BY <1>3, <1>5
  <2> QED
    BY <1>1, <2>1, SummedFunction
<1> HIDE DEF g
<1>10. ASSUME NEW k \in 1 .. NodeCount
       PROVE  Weights(s)[k] = Weights(t)[k] + g[k]
  <2>1. /\ Weights(s)[k] = Weight(s[k]) /\ Weights(t)[k] = Weight(t[k])
        /\ Weight(s[k]) \in Nat /\ Sized(s[k])
    BY SizedWeighs DEF Weights, AllSized
  <2>2. CASE k \in Accounted(s, owners)
    <3>1. k \in owners /\ s[k].kind = "Owned" /\ g[k] = s[k].value.bytes
      BY <1>5, <1>8, <2>2 DEF Accounted
    <3>2. Weight(s[k]) = g[k] /\ Weight(t[k]) = 0
      BY <1>2, <3>1, EmptyIsSized DEF Weight
    <3> QED
      BY <2>1, <3>2
  <2>3. CASE k \notin Accounted(s, owners)
    <3>1. g[k] = 0
      BY <1>8, <2>3
    <3>2. Weight(s[k]) = Weight(t[k])
      <4>1. CASE k \in owners
        <5>1. Weight(s[k]) = 0
          BY <2>1, <2>3, <4>1 DEF Accounted, Weight, Sized
        <5> QED
          BY <1>2, <4>1, <5>1, EmptyIsSized
      <4>2. CASE k \notin owners
        BY <1>2, <4>2
      <4> QED
        BY <4>1, <4>2
    <3> QED
      BY <2>1, <3>1, <3>2
  <2> QED
    BY <2>2, <2>3
<1>11. SumOf(Weights(s), NodeCount) = SumOf(Weights(t), NodeCount) + SumOf(g, NodeCount)
  BY <1>1, <1>7, <1>8, <1>10, SumAdds
<1>12. SumOf(g, NodeCount) \in Nat
  BY <1>1, <1>8, SumIs
<1> QED
  BY <1>4, <1>6, <1>9, <1>11, <1>12 DEF InSlots, t

(* The sum Held takes of the slots.                                        *)
LEMMA HeldInSlots ==
  ASSUME Given, AllSized(slots)
  PROVE  SumFunction([i \in Accounted(slots, Indices(program)) |-> slots[i].value.bytes])
           = InSlots(slots)
<1> DEFINE S == Accounted(slots, Indices(program))
           f == [i \in S |-> slots[i].value.bytes]
           g == Only(f, DOMAIN f, NodeCount)
<1>1. NodeCount \in Nat /\ S \subseteq 1 .. NodeCount
  BY NodesAre DEF Accounted
<1>2. DOMAIN f = S /\ \A k \in S : f[k] = slots[k].value.bytes
  OBVIOUS
<1>3. \A k \in S : slots[k].kind = "Owned"
  BY DEF Accounted
<1>4. ASSUME NEW k \in 1 .. NodeCount, k \notin S
      PROVE  Weight(slots[k]) = 0
  <2>1. ~(slots[k].kind = "Owned" /\ slots[k].accounted)
    BY <1>4, NodesAre DEF Accounted
  <2> QED
    BY <2>1 DEF Weight, AllSized, Sized
<1> HIDE DEF S, f
<1>5. \A k \in S : f[k] = Weight(slots[k]) /\ f[k] \in Nat
  <2>1. \A k \in S : Weight(slots[k]) \in Nat
    BY <1>1, SizedWeighs DEF AllSized
  <2> QED
    BY <1>2, <1>3, <2>1 DEF Weight
<1>6. g = Weights(slots)
  <2>1. \A k \in 1 .. NodeCount : (IF k \in S THEN f[k] ELSE 0) = Weight(slots[k])
    BY <1>4, <1>5
  <2> QED
    BY <1>2, <2>1 DEF Only, Weights
<1>7. SumFunction(f) = SumOf(g, NodeCount)
  <2>1. DOMAIN f \in SUBSET (1 .. NodeCount) /\ \A k \in DOMAIN f : f[k] \in Nat
    BY <1>1, <1>2, <1>5
  <2> QED
    BY <1>1, <2>1, SummedFunction
<1> QED
  BY <1>6, <1>7 DEF InSlots, S, f

(* The first m arguments.                                                  *)
InArguments(m) == SumOf([k \in 1 .. m |-> ArgumentBytes(k)], m)

(* The arguments a runnable program is given.                              *)
LEMMA ArgumentsAre ==
  ASSUME Given
  PROVE  /\ Len(program.arguments) \in Nat /\ DOMAIN program.arguments = 1 .. Len(program.arguments)
         /\ \A k \in DOMAIN program.arguments :
              /\ IsArgument(program.arguments[k]) /\ ArgumentBytes(k) \in Nat
              /\ program.arguments[k].own \in Nat
<1>1. IsSequence(program.arguments) /\ \A k \in DOMAIN program.arguments : IsArgument(program.arguments[k])
  BY GivenIsVerified DEF IsRunnable
<1>2. Len(program.arguments) \in Nat /\ DOMAIN program.arguments = 1 .. Len(program.arguments)
  BY <1>1 DEF IsSequence
<1>3. \A k \in DOMAIN program.arguments : program.arguments[k].own \in Nat
  BY <1>1 DEF IsArgument, IsCharge
<1> QED
  BY <1>1, <1>2, <1>3 DEF ArgumentBytes

(* What the first m arguments are charged for, as Held adds it up.         *)
LEMMA InArgumentsIs ==
  ASSUME Given, NEW m \in 0 .. Len(program.arguments)
  PROVE  /\ InArguments(m) \in Nat
         /\ SumFunction([k \in 1 .. m |-> ArgumentBytes(k)]) = InArguments(m)
         /\ m = 0 => InArguments(m) = 0
<1> DEFINE f == [k \in 1 .. m |-> ArgumentBytes(k)]
<1>1. m \in Nat /\ \A k \in 1 .. m : ArgumentBytes(k) \in Nat
  <2>1. \A k \in 1 .. m : k \in 1 .. Len(program.arguments)
    BY ArgumentsAre
  <2> QED
    BY <2>1, ArgumentsAre
<1>2. f \in [1 .. m -> Nat] /\ DOMAIN f = 1 .. m
  BY <1>1
<1> HIDE DEF f
<1>3. SumOf(f, m) \in Nat
  BY <1>1, <1>2, SumIs
<1>4. SumFunction(f) = SumOf(f, m)
  <2>1. SumFunction(f) = SumOf(Only(f, DOMAIN f, m), m)
    BY <1>1, <1>2, SummedFunction
  <2>2. Only(f, DOMAIN f, m) = f
    BY <1>2 DEF Only
  <2> QED
    BY <2>1, <2>2
<1>5. m = 0 => SumOf(f, m) = 0
  <2>1. m = 0 => \A k \in 1 .. m : f[k] = 0
    BY <1>1
  <2> QED
    BY <1>1, <1>2, <2>1, SumOfNothing
<1> QED
  BY <1>3, <1>4, <1>5 DEF InArguments, f

(* One argument more.                                                      *)
LEMMA NextArgument ==
  ASSUME Given, NEW m \in 0 .. Len(program.arguments), m < Len(program.arguments)
  PROVE  InArguments(m + 1) = InArguments(m) + ArgumentBytes(m + 1)
<1> DEFINE u == [k \in 1 .. m |-> ArgumentBytes(k)]
           v == [k \in 1 .. 1 |-> ArgumentBytes(m + 1)]
           w == [k \in 1 .. (m + 1) |-> ArgumentBytes(k)]
<1>1. m \in Nat /\ \A k \in 1 .. (m + 1) : ArgumentBytes(k) \in Nat
  <2>1. \A k \in 1 .. (m + 1) : k \in 1 .. Len(program.arguments)
    BY ArgumentsAre
  <2> QED
    BY <2>1, ArgumentsAre
<1>2. u \in [1 .. m -> Nat] /\ v \in [1 .. 1 -> Nat] /\ w \in [1 .. (m + 1) -> Nat]
  BY <1>1
<1>3. (\A k \in 1 .. m : w[k] = u[k]) /\ (\A k \in 1 .. 1 : w[m + k] = v[k]) /\ v[1] = ArgumentBytes(m + 1)
  BY <1>1
<1> HIDE DEF u, v, w
<1>4. SumOf(w, m + 1) = SumOf(u, m) + SumOf(v, 1)
  BY <1>1, <1>2, <1>3, SumJoins
<1>5. SumOf(v, 1) = v[1]
  <2>1. 1 \in Nat /\ 1 \in 1 .. 1 /\ \A k \in 1 .. 1 : k # 1 => v[k] = 0
    OBVIOUS
  <2> QED
    BY <1>2, <2>1, SumOfOne
<1> QED
  BY <1>3, <1>4, <1>5 DEF InArguments, u, w

(***************************************************************************)
(* The invariant: every byte the ledger counts has its place.              *)
(***************************************************************************)
(* A copy that was admitted: only arguments are copied (ChildrenMove), and *)
(* an argument has no children.                                            *)
Copied(v) == [Copying(v) EXCEPT !.pending = <<>>, !.admitted = v.own]

(* What a copy in progress was charged for.                                *)
InCopy(c) == IF c = NoCopy THEN 0 ELSE c.admitted

(* The usage keeps to the limits of a valid configuration.                 *)
Configured == configuration \in Configuration /\ InBounds(configuration, usage)

(* Where the evaluation stands; an error ends it.                          *)
Staged ==
  /\ stage \in Stage /\ error \in Optional(Reason)
  /\ stage \in {"Begin", "Arguments", "Nodes", "Tuple", "Outputs"} => error = None
  /\ agenda \in Seq(Indices(program))
  /\ loaned \in 0 .. Len(program.arguments)
  /\ stage \in {"Begin", "Done"} => loaned = 0

(* What execute_tuple has collected: only its first may be a tuple of some. *)
GatheredSized ==
  /\ AllProper(gathered)
  /\ stage \notin {"Tuple", "Outputs", "Unwind"} => gathered = <<>>
  /\ stage = "Tuple" => \A k \in DOMAIN gathered : k > 1 => gathered[k].elems = <<>>

(* The table of a tuple is charged while its children are taken.           *)
TableSized ==
  /\ table \in Nat
  /\ stage \notin {"Tuple", "Unwind"} => table = 0
  /\ stage = "Tuple" => table = SlotBytes * Len(EdgesOf(program, At))

(* A copy is of an argument, before or after its admission.                *)
CopySized == copy = NoCopy \/ \E v : IsArgument(v) /\ copy \in {Copying(v), Copied(v)}

(* Results are there only when the evaluation succeeded.                   *)
ResultsSized ==
  /\ AllProper(results)
  /\ results # <<>> => stage \in {"Return", "Done"} /\ error = None

(* Among the outputs, what is owned is yet to be taken.                    *)
RootsOwn ==
  stage = "Outputs" =>
    \A i \in Indices(program) : slots[i].kind = "Owned" =>
      \E r \in DOMAIN program.roots : r > TakenCount /\ program.roots[r] = i

(* Once the slots were cleaned up they own nothing.                        *)
NothingLeft == stage \in {"Return", "Done"} => InSlots(slots) = 0

(* The live bytes are those of all these places.                           *)
Balanced ==
  usage.live = InSlots(slots) + InArguments(loaned) + Total("bytes", gathered) + table
                 + Total("bytes", results) + InCopy(copy)

(* All of it.                                                              *)
AInv ==
  /\ ~NestsTupleLate(program)
  /\ Configured /\ Staged /\ AllSized(slots)
  /\ GatheredSized /\ TableSized /\ CopySized /\ ResultsSized
  /\ RootsOwn /\ NothingLeft /\ Balanced

(* A step keeps it, and neither work, attempts nor peak fall.              *)
Accounts == AInv' /\ Climbs(usage, usage')

(***************************************************************************)
(* What every step may use.                                                *)
(***************************************************************************)
(* The same program has the same nodes and arguments.                      *)
LEMMA SameProgram ==
  ASSUME program' = program
  PROVE  /\ InSlots(slots)' = InSlots(slots') /\ (AllSized(slots)' <=> AllSized(slots'))
         /\ InArguments(loaned)' = InArguments(loaned')
         /\ ~NestsTupleLate(program) => ~NestsTupleLate(program)'
<1>1. NodeCount' = NodeCount /\ \A k : ArgumentBytes(k)' = ArgumentBytes(k)
  BY DEF NodeCount, ArgumentBytes
<1>2. Weights(slots)' = Weights(slots')
  BY <1>1 DEF Weights, Weight
<1>3. InSlots(slots)' = InSlots(slots')
  BY <1>1, <1>2 DEF InSlots
<1>4. AllSized(slots)' <=> AllSized(slots')
  BY <1>1 DEF AllSized
<1>5. InArguments(loaned)' = InArguments(loaned')
  BY <1>1 DEF InArguments
<1>6. ~NestsTupleLate(program) => ~NestsTupleLate(program)'
  OBVIOUS
<1> QED
  BY <1>3, <1>4, <1>5, <1>6

(* A copy that was admitted.                                               *)
LEMMA CopiedIs ==
  ASSUME NEW v
  PROVE  /\ Copied(v).pending = <<>> /\ Copied(v).admitted = v.own /\ Copied(v).value = v
         /\ Copied(v) # NoCopy
<1> DEFINE q == <<v>>
           n == <<>>
<1>1. Copying(v) = [kind |-> "Copy", value |-> v, pending |-> q, admitted |-> 0]
  BY DEF Copying
<1> HIDE DEF q, n
<1>2. /\ Copied(v).pending = n /\ Copied(v).admitted = v.own /\ Copied(v).value = v
      /\ Copied(v).kind = "Copy"
  BY <1>1 DEF Copied, n
<1> QED
  BY <1>2 DEF NoCopy, n

(* What is added up are numbers.                                           *)
LEMMA NumbersAre ==
  ASSUME AInv, MInv
  PROVE  /\ Given /\ NodeCount \in Nat /\ Indices(program) = 1 .. NodeCount
         /\ InSlots(slots) \in Nat /\ InArguments(loaned) \in Nat /\ table \in Nat
         /\ Total("bytes", gathered) \in Nat /\ Total("bytes", results) \in Nat
         /\ InCopy(copy) \in Nat
         /\ usage \in ResourceUsage /\ usage.live \in Nat
<1>1. Given
  BY DEF MInv, IInv
<1>2. NodeCount \in Nat /\ Indices(program) = 1 .. NodeCount
  BY <1>1, NodesAre
<1>3. InSlots(slots) \in Nat
  BY <1>1, InSlotsIs DEF AInv
<1>4. InArguments(loaned) \in Nat
  BY <1>1, InArgumentsIs DEF AInv, Staged
<1>5. Total("bytes", gathered) \in Nat /\ Total("bytes", results) \in Nat /\ table \in Nat
  BY ProperSequence DEF AInv, GatheredSized, ResultsSized, TableSized
<1>6. InCopy(copy) \in Nat
  <2>1. CASE copy = NoCopy
    BY <2>1 DEF InCopy
  <2>2. ASSUME NEW v, IsArgument(v), copy \in {Copying(v), Copied(v)}
        PROVE  InCopy(copy) \in Nat
    <3>1. v.own \in Nat
      BY <2>2 DEF IsArgument, IsCharge
    <3>2. copy.admitted \in {0, v.own}
      BY <2>2, CopiedIs DEF Copying
    <3> QED
      BY <3>1, <3>2 DEF InCopy
  <2> QED
    BY <2>1, <2>2 DEF AInv, CopySized
<1>7. usage \in ResourceUsage /\ usage.live \in Nat
  BY UsageIs DEF AInv, Configured, InBounds
<1> QED
  BY <1>1, <1>2, <1>3, <1>4, <1>5, <1>6, <1>7

(* No step of an evaluation in place fails for an invariant.               *)
LEMMA NeverForAnInvariant ==
  ASSUME MInv'
  PROVE  error' # "Invariant"
BY DEF MInv, IInv, NoInvariantFailure

(* Between two nodes nothing but slots and arguments is charged.           *)
LEMMA NodesAccount ==
  ASSUME AInv, MInv, stage = "Nodes"
  PROVE  /\ gathered = <<>> /\ copy = NoCopy /\ table = 0 /\ results = <<>> /\ error = None
         /\ AllSized(slots) /\ usage.live = InSlots(slots) + InArguments(loaned)
         /\ configuration \in Configuration /\ InBounds(configuration, usage)
         /\ usage \in ResourceUsage /\ Climbs(usage, usage)
<1>1. gathered = <<>> /\ copy = NoCopy
  BY DEF MInv, IInv, NodesInPlace
<1>2. table = 0 /\ results = <<>> /\ error = None
  BY DEF AInv, TableSized, ResultsSized, Staged
<1>3. usage.live = InSlots(slots) + InArguments(loaned)
  BY <1>1, <1>2, NumbersAre, NoneIsProper DEF AInv, Balanced, InCopy
<1>4. /\ AllSized(slots) /\ configuration \in Configuration /\ InBounds(configuration, usage)
      /\ usage \in ResourceUsage /\ Climbs(usage, usage)
  BY StaysUp DEF AInv, Configured, InBounds
<1> QED
  BY <1>1, <1>2, <1>3, <1>4

(* A node fails with what was charged before it.                           *)
LEMMA FailAccounts ==
  ASSUME AInv, MInv, stage = "Nodes", NEW reason \in Reason,
         NEW u, InBounds(configuration, u), Climbs(usage, u), u.live = usage.live,
         Fail(reason, u, slots)
  PROVE  Accounts
<1>1. /\ stage' = "Cleanup" /\ error' = reason /\ usage' = u /\ slots' = slots
      /\ program' = program /\ configuration' = configuration /\ agenda' = agenda
      /\ gathered' = gathered /\ table' = table /\ copy' = copy /\ loaned' = loaned
      /\ results' = results
  BY DEF Fail
<1>2. /\ gathered = <<>> /\ copy = NoCopy /\ table = 0 /\ results = <<>>
  BY NodesAccount
<1>3. ~NestsTupleLate(program)' /\ AllSized(slots)'
  BY <1>1, SameProgram DEF AInv
<1>4. Configured'
  BY <1>1 DEF AInv, Configured, InBounds
<1>5. Staged'
  BY <1>1 DEF AInv, Staged, Stage, Optional
<1>6. GatheredSized' /\ TableSized' /\ CopySized' /\ ResultsSized'
  BY <1>1, <1>2, NoneIsProper DEF GatheredSized, TableSized, CopySized, ResultsSized, NoCopy
<1>7. RootsOwn' /\ NothingLeft'
  BY <1>1 DEF RootsOwn, NothingLeft
<1>8. Balanced'
  BY <1>1, SameProgram DEF AInv, Balanced, InCopy, NoCopy
<1> QED
  BY <1>1, <1>3, <1>4, <1>5, <1>6, <1>7, <1>8 DEF Accounts, AInv

(* Whatever was collected is still charged when it is given up; a copy in  *)
(* progress is not.                                                        *)
LEMMA GiveUpAccounts ==
  ASSUME AInv, MInv, stage \in {"Tuple", "Outputs"}, NEW reason \in Reason,
         NEW u, InBounds(configuration, u), Climbs(usage, u), u.live = usage.live - InCopy(copy),
         GiveUp(reason, u, slots)
  PROVE  Accounts
<1>1. /\ stage' = "Unwind" /\ error' = reason /\ usage' = u /\ slots' = slots
      /\ program' = program /\ configuration' = configuration /\ agenda' = agenda
      /\ gathered' = gathered /\ table' = table /\ copy' = NoCopy /\ loaned' = loaned
      /\ results' = results
  BY DEF GiveUp
<1>2. results = <<>>
  BY DEF AInv, ResultsSized
<1>3. ~NestsTupleLate(program)' /\ AllSized(slots)'
  BY <1>1, SameProgram DEF AInv
<1>4. Configured'
  BY <1>1 DEF AInv, Configured, InBounds
<1>5. Staged'
  BY <1>1 DEF AInv, Staged, Stage, Optional
<1>6. GatheredSized' /\ TableSized' /\ CopySized' /\ ResultsSized'
  BY <1>1, <1>2, NoneIsProper DEF AInv, GatheredSized, TableSized, CopySized, ResultsSized, NoCopy
<1>7. RootsOwn' /\ NothingLeft'
  BY <1>1 DEF RootsOwn, NothingLeft
<1>8. Balanced'
  <2>1. u.live = InSlots(slots) + InArguments(loaned) + Total("bytes", gathered) + table
                   + Total("bytes", results)
    BY NumbersAre DEF AInv, Balanced
  <2>2. InSlots(slots)' = InSlots(slots) /\ InArguments(loaned)' = InArguments(loaned)
    BY <1>1, SameProgram
  <2>3. InCopy(copy)' = 0
    BY <1>1 DEF InCopy, NoCopy
  <2> QED
    BY <1>1, <2>1, <2>2, <2>3, NumbersAre DEF Balanced
<1> QED
  BY <1>1, <1>3, <1>4, <1>5, <1>6, <1>7, <1>8 DEF Accounts, AInv

(* A node is done.                                                         *)
LEMMA DoneAccounts ==
  ASSUME AInv, MInv, stage \in {"Nodes", "Tuple"}, copy = NoCopy,
         program' = program, configuration' = configuration, agenda' = Tail(agenda), agenda # <<>>,
         stage' = "Nodes", gathered' = <<>>, table' = 0, copy' = copy, loaned' = loaned,
         error' = error, results' = results,
         AllSized(slots'), InBounds(configuration, usage'), Climbs(usage, usage'),
         usage'.live = InSlots(slots') + InArguments(loaned)
  PROVE  Accounts
<1>1. results = <<>> /\ error = None
  BY DEF AInv, ResultsSized, Staged
<1>2. ~NestsTupleLate(program)' /\ AllSized(slots)' /\ InSlots(slots)' = InSlots(slots')
      /\ InArguments(loaned)' = InArguments(loaned)
  BY SameProgram DEF AInv
<1>3. Configured'
  BY DEF AInv, Configured, InBounds
<1>4. Staged'
  <2>1. Tail(agenda) \in Seq(Indices(program))
    BY DEF AInv, Staged
  <2> QED
    BY <2>1 DEF AInv, Staged, Stage
<1>5. GatheredSized' /\ TableSized' /\ CopySized' /\ ResultsSized'
  BY <1>1, NoneIsProper DEF GatheredSized, TableSized, CopySized, ResultsSized, NoCopy
<1>6. RootsOwn' /\ NothingLeft'
  BY DEF RootsOwn, NothingLeft
<1>7. Balanced'
  <2>1. InSlots(slots)' \in Nat /\ InArguments(loaned)' \in Nat
    BY <1>2, NumbersAre, InSlotsIs
  <2>2. InCopy(copy)' = 0
    BY DEF InCopy, NoCopy
  <2> QED
    BY <1>1, <1>2, <2>1, <2>2, NoneIsProper DEF Balanced
<1> QED
  BY <1>2, <1>3, <1>4, <1>5, <1>6, <1>7 DEF Accounts, AInv

(* put_slot and release_after: what is put is charged, and what goes is    *)
(* given back.                                                             *)
LEMMA PutGivesBack ==
  ASSUME AInv, MInv, NEW c \in 1 .. NodeCount,
         NEW s, AllSized(s), s[c] = Empty, NEW slot, Sized(slot),
         NEW u, InBounds(configuration, u),
         u.live = InSlots(s) + Weight(slot) + InArguments(loaned)
  PROVE  LET t  == [s EXCEPT ![c] = slot]
             st == ReleaseAfter(t, u, c)
         IN /\ AllSized(t) /\ u.live = InSlots(t) + InArguments(loaned)
            /\ AllSized(st.slots) /\ InBounds(configuration, st.usage) /\ Climbs(u, st.usage)
            /\ st.usage.live = InSlots(st.slots) + InArguments(loaned)
<1> DEFINE t == [s EXCEPT ![c] = slot]
           X == OwnersReleasedBy(c)
           w == Without(t, X)
           b == ReleasedBytes(t, X)
<1>1. Given /\ Indices(program) = 1 .. NodeCount /\ InArguments(loaned) \in Nat
  BY NumbersAre
<1>2. Weight(slot) \in Nat /\ InSlots(s) \in Nat
  BY <1>1, SizedWeighs, InSlotsIs
<1>3. AllSized(t) /\ InSlots(t) = InSlots(s) + Weight(slot)
  <2>1. Weight(s[c]) = 0
    BY EmptyIsSized
  <2> QED
    BY <1>1, <2>1, PutIn
<1>4. X \in SUBSET (1 .. NodeCount)
  BY <1>1 DEF OwnersReleasedBy
<1>5. /\ ReleaseAfter(t, u, c).slots = w /\ ReleaseAfter(t, u, c).usage = Refund(u, b)
  BY DEF ReleaseAfter
<1> HIDE DEF t, X
<1>6. AllSized(w) /\ b \in Nat /\ InSlots(t) = InSlots(w) + b
  BY <1>1, <1>3, <1>4, WithoutWeighs
<1> HIDE DEF w, b
<1>7. InSlots(w) \in Nat
  BY <1>1, <1>6, InSlotsIs
<1>8. b <= u.live /\ u.live - b = InSlots(w) + InArguments(loaned)
  BY <1>1, <1>2, <1>3, <1>6, <1>7
<1>9. /\ InBounds(configuration, Refund(u, b)) /\ Climbs(u, Refund(u, b))
      /\ Refund(u, b).live = u.live - b
  BY <1>6, <1>8, RefundGivesBack DEF AInv, Configured
<1> QED
  BY <1>3, <1>5, <1>6, <1>8, <1>9 DEF t

(* A handler ends: its value is put, and what it used last is released.    *)
LEMMA PutAccounts ==
  ASSUME AInv, MInv, stage = "Nodes", agenda # <<>>,
         NEW s, AllSized(s), s[At] = Empty, NEW slot, Sized(slot),
         NEW u, InBounds(configuration, u), Climbs(usage, u),
         u.live = InSlots(s) + Weight(slot) + InArguments(loaned),
         PutThenRelease(slot, u, s) \/ PutOnly(slot, u, s)
  PROVE  Accounts
<1> DEFINE t  == [s EXCEPT ![At] = slot]
           st == ReleaseAfter(t, u, At)
<1>1. Current = At /\ At \in 1 .. NodeCount /\ copy = NoCopy
  BY NodesHold, NumbersAre DEF MInv
<1>2. /\ AllSized(t) /\ u.live = InSlots(t) + InArguments(loaned)
      /\ AllSized(st.slots) /\ InBounds(configuration, st.usage) /\ Climbs(u, st.usage)
      /\ st.usage.live = InSlots(st.slots) + InArguments(loaned)
  BY <1>1, PutGivesBack
<1>3. Proceed(st.usage, st.slots) \/ Proceed(u, t)
  BY <1>1 DEF PutThenRelease, PutOnly
<1>4. Climbs(usage, st.usage)
  <2>1. usage \in ResourceUsage /\ u \in ResourceUsage /\ st.usage \in ResourceUsage
    BY <1>2, NumbersAre DEF InBounds
  <2> HIDE DEF st
  <2> QED
    BY <1>2, <2>1, ClimbsOn
<1> HIDE DEF st, t
<1>5. PICK v, z : /\ Proceed(v, z) /\ AllSized(z) /\ InBounds(configuration, v) /\ Climbs(usage, v)
                  /\ v.live = InSlots(z) + InArguments(loaned)
  BY <1>2, <1>3, <1>4
<1>6. /\ program' = program /\ configuration' = configuration /\ agenda' = Tail(agenda)
      /\ stage' = "Nodes" /\ gathered' = <<>> /\ table' = 0 /\ copy' = copy /\ loaned' = loaned
      /\ error' = error /\ results' = results /\ usage' = v /\ slots' = z
  BY <1>5 DEF Proceed
<1> QED
  BY <1>1, <1>5, <1>6, DoneAccounts

(* Nothing weighs where nothing is owned.                                  *)
LEMMA NothingOwned ==
  ASSUME Given, NEW s, DOMAIN s = 1 .. NodeCount, \A i \in 1 .. NodeCount : s[i].kind # "Owned"
  PROVE  AllSized(s) /\ InSlots(s) = 0
<1>1. NodeCount \in Nat
  BY NodesAre
<1>2. AllSized(s)
  BY DEF AllSized, Sized
<1>3. Weights(s) \in [1 .. NodeCount -> Nat] /\ \A i \in 1 .. NodeCount : Weights(s)[i] = 0
  BY DEF Weights, Weight
<1> QED
  BY <1>1, <1>2, <1>3, SumOfNothing DEF InSlots

(* Before the first node runs no slot owns anything.                       *)
LEMMA EmptySlots ==
  ASSUME Given, NEW s, s = [i \in Indices(program) |-> Empty]
  PROVE  AllSized(s) /\ InSlots(s) = 0
<1>1. DOMAIN s = 1 .. NodeCount /\ \A i \in 1 .. NodeCount : s[i] = Empty
  BY NodesAre
<1> QED
  BY <1>1, NothingOwned DEF Empty

(***************************************************************************)
(* Before the first node.                                                  *)
(***************************************************************************)
(* Begin: nothing is charged yet.                                          *)
LEMMA BeginAccounts ==
  ASSUME AInv, MInv, MInv', Begin
  PROVE  Accounts
<1>1. /\ stage = "Begin"
      /\ \/ stage' = "Done" /\ error' \in Reason
         \/ stage' = "Arguments" /\ error' = error
      /\ program' = program /\ configuration' = configuration /\ usage' = usage /\ slots' = slots
      /\ agenda' = agenda /\ gathered' = gathered /\ table' = table /\ copy' = copy
      /\ loaned' = loaned /\ results' = results
  BY DEF Begin, Reason
<1>2. /\ gathered = <<>> /\ copy = NoCopy /\ table = 0 /\ results = <<>> /\ error = None
      /\ loaned = 0
  BY <1>1 DEF AInv, GatheredSized, TableSized, ResultsSized, Staged, MInv, IInv, Fresh
<1>3. InSlots(slots) = 0
  BY <1>1, NumbersAre, EmptySlots DEF MInv, IInv, Fresh
<1>4. ~NestsTupleLate(program)' /\ AllSized(slots)' /\ InSlots(slots)' = 0
      /\ InArguments(loaned)' = InArguments(loaned)
  BY <1>1, <1>3, SameProgram DEF AInv
<1>5. Configured' /\ Climbs(usage, usage')
  BY <1>1, StaysUp DEF AInv, Configured, InBounds
<1>6. Staged'
  BY <1>1, <1>2 DEF AInv, Staged, Stage, Optional
<1>7. GatheredSized' /\ TableSized' /\ CopySized' /\ ResultsSized'
  BY <1>1, <1>2, NoneIsProper DEF GatheredSized, TableSized, CopySized, ResultsSized, NoCopy
<1>8. RootsOwn' /\ NothingLeft'
  BY <1>1, <1>4 DEF RootsOwn, NothingLeft
<1>9. Balanced'
  BY <1>1, <1>3, <1>4, NumbersAre DEF AInv, Balanced, InCopy, NoCopy
<1> QED
  BY <1>4, <1>5, <1>6, <1>7, <1>8, <1>9 DEF Accounts, AInv

(* AdmitArgument: a string is charged, or the evaluation gives up what is  *)
(* charged already.                                                        *)
LEMMA AdmitArgumentAccounts ==
  ASSUME AInv, MInv, MInv', AdmitArgument
  PROVE  Accounts
<1> DEFINE argument == program.arguments[loaned + 1]
           d == AdmitString(configuration, usage, argument.own, 0)
<1>1. /\ stage = "Arguments" /\ loaned < Len(program.arguments)
      /\ program' = program /\ configuration' = configuration /\ slots' = slots
      /\ agenda' = agenda /\ gathered' = gathered /\ table' = table /\ copy' = copy
      /\ results' = results
  BY DEF AdmitArgument
<1>2. \/ /\ argument.tag # "string" \/ Admitted(d)
         /\ loaned' = loaned + 1 /\ stage' = stage /\ error' = error
         /\ usage' = IF argument.tag = "string" THEN d.usage ELSE usage
      \/ /\ argument.tag = "string" /\ ~Admitted(d)
         /\ loaned' = loaned /\ stage' = "Return" /\ error' = "Resource" /\ usage' = d.usage
  BY DEF AdmitArgument
<1>3. /\ gathered = <<>> /\ copy = NoCopy /\ table = 0 /\ results = <<>> /\ error = None
  BY <1>1 DEF AInv, GatheredSized, TableSized, ResultsSized, Staged, MInv, IInv, Fresh
<1>4. Given /\ InSlots(slots) = 0
  BY <1>1, NumbersAre, EmptySlots DEF MInv, IInv, Fresh
<1>5. loaned \in 0 .. Len(program.arguments) /\ Len(program.arguments) \in Nat
  BY <1>4, ArgumentsAre DEF AInv, Staged
<1>6. loaned + 1 \in DOMAIN program.arguments /\ loaned + 1 \in 0 .. Len(program.arguments)
  BY <1>1, <1>4, <1>5, ArgumentsAre
<1>7. argument.own \in Nat /\ ArgumentBytes(loaned + 1) = IF argument.tag = "string" THEN argument.own ELSE 0
  BY <1>4, <1>6, ArgumentsAre DEF ArgumentBytes
<1>8. /\ configuration \in Configuration /\ InBounds(configuration, usage)
      /\ usage \in ResourceUsage /\ Climbs(usage, usage) /\ usage.live = InArguments(loaned)
  BY <1>3, <1>4, NumbersAre, NoneIsProper, StaysUp DEF AInv, Configured, InBounds, Balanced, InCopy
<1>9. Decides(configuration, usage, d, argument.own)
  BY <1>7, <1>8, RequestsDecide
<1>10. InArguments(loaned + 1) = InArguments(loaned) + ArgumentBytes(loaned + 1)
  BY <1>1, <1>4, <1>5, NextArgument
<1> HIDE DEF argument, d
<1>11. /\ InBounds(configuration, usage') /\ Climbs(usage, usage')
       /\ loaned' \in 0 .. Len(program.arguments) /\ usage'.live = InArguments(loaned')
  <2>1. CASE /\ argument.tag # "string" \/ Admitted(d)
             /\ loaned' = loaned + 1
             /\ usage' = IF argument.tag = "string" THEN d.usage ELSE usage
    <3>1. CASE argument.tag = "string"
      BY <1>6, <1>7, <1>8, <1>9, <1>10, <2>1, <3>1 DEF Decides
    <3>2. CASE argument.tag # "string"
      BY <1>6, <1>7, <1>8, <1>10, <2>1, <3>2, NumbersAre
    <3> QED
      BY <3>1, <3>2
  <2>2. CASE ~Admitted(d) /\ loaned' = loaned /\ usage' = d.usage
    BY <1>5, <1>8, <1>9, <2>2 DEF Decides
  <2> QED
    BY <1>2, <2>1, <2>2
<1>12. ~NestsTupleLate(program)' /\ AllSized(slots)' /\ InSlots(slots)' = 0
       /\ InArguments(loaned)' = InArguments(loaned')
  BY <1>1, <1>4, SameProgram DEF AInv
<1>13. Configured'
  BY <1>1, <1>8, <1>11 DEF Configured, InBounds
<1>14. Staged'
  BY <1>1, <1>2, <1>3, <1>11 DEF AInv, Staged, Stage, Reason, Optional
<1>15. GatheredSized' /\ TableSized' /\ CopySized' /\ ResultsSized'
  BY <1>1, <1>2, <1>3, NoneIsProper DEF GatheredSized, TableSized, CopySized, ResultsSized, NoCopy
<1>16. RootsOwn' /\ NothingLeft'
  BY <1>1, <1>2, <1>12 DEF RootsOwn, NothingLeft
<1>17. Balanced'
  <2>1. InArguments(loaned') \in Nat /\ InCopy(copy)' = 0
    BY <1>1, <1>3, <1>4, <1>11, InArgumentsIs DEF InCopy, NoCopy
  <2> QED
    BY <1>1, <1>3, <1>11, <1>12, <2>1, NoneIsProper DEF Balanced
<1> QED
  BY <1>11, <1>12, <1>13, <1>14, <1>15, <1>16, <1>17 DEF Accounts, AInv

(* EnterNodes.                                                             *)
LEMMA EnterNodesAccounts ==
  ASSUME AInv, MInv, MInv', EnterNodes
  PROVE  Accounts
<1>1. /\ stage = "Arguments" /\ stage' = "Nodes" /\ agenda' = Schedule(program)
      /\ program' = program /\ configuration' = configuration /\ usage' = usage /\ slots' = slots
      /\ gathered' = gathered /\ table' = table /\ copy' = copy /\ loaned' = loaned
      /\ error' = error /\ results' = results
  BY DEF EnterNodes
<1>2. /\ gathered = <<>> /\ copy = NoCopy /\ table = 0 /\ results = <<>> /\ error = None
  BY <1>1 DEF AInv, GatheredSized, TableSized, ResultsSized, Staged, MInv, IInv, Fresh
<1>3. agenda' \in Seq(Indices(program))
  <2>1. NodeCount \in Nat /\ Indices(program) = 1 .. NodeCount
    BY NumbersAre
  <2>2. Schedule(program) = UpTo(0, NodeCount)
    BY NumbersAre, GivenIsVerified, ScheduleIsPostorder DEF NodeCount
  <2>3. UpTo(0, NodeCount) \in [1 .. NodeCount -> 1 .. NodeCount]
    BY <2>1 DEF UpTo
  <2> QED
    BY <1>1, <2>1, <2>2, <2>3
<1>4. ~NestsTupleLate(program)' /\ AllSized(slots)' /\ InSlots(slots)' = InSlots(slots)
      /\ InArguments(loaned)' = InArguments(loaned)
  BY <1>1, SameProgram DEF AInv
<1>5. Configured' /\ Climbs(usage, usage')
  BY <1>1, StaysUp DEF AInv, Configured, InBounds
<1>6. Staged'
  BY <1>1, <1>2, <1>3 DEF AInv, Staged, Stage
<1>7. GatheredSized' /\ TableSized' /\ CopySized' /\ ResultsSized'
  BY <1>1, <1>2, NoneIsProper DEF GatheredSized, TableSized, CopySized, ResultsSized, NoCopy
<1>8. RootsOwn' /\ NothingLeft'
  BY <1>1 DEF RootsOwn, NothingLeft
<1>9. Balanced'
  BY <1>1, <1>4 DEF AInv, Balanced, InCopy, NoCopy
<1> QED
  BY <1>4, <1>5, <1>6, <1>7, <1>8, <1>9 DEF Accounts, AInv

(***************************************************************************)
(* The nodes.                                                              *)
(***************************************************************************)
(* ReserveFails: before anything is requested.                             *)
LEMMA ReserveFailsAccounts ==
  ASSUME AInv, MInv, MInv', ReserveFails
  PROVE  Accounts
<1>1. stage = "Nodes" /\ Fail("Host", usage, slots)
  BY DEF ReserveFails
<1>2. /\ configuration \in Configuration /\ InBounds(configuration, usage)
      /\ usage \in ResourceUsage /\ Climbs(usage, usage)
  BY <1>1, NodesAccount
<1> QED
  BY <1>1, <1>2, FailAccounts DEF Reason

(* A request for a node: where it is refused, or answered and its bytes    *)
(* are given back, the node fails with what was charged before it.         *)
LEMMA RequestAccounts ==
  ASSUME AInv, MInv, stage = "Nodes", NEW bytes \in Nat, NEW d, Decides(configuration, usage, d, bytes),
         NEW reason \in Reason
  PROVE  /\ InBounds(configuration, d.usage) /\ Climbs(usage, d.usage)
         /\ ~Admitted(d) /\ Fail(reason, d.usage, slots) => Accounts
         /\ Admitted(d) => /\ d.bytes = bytes /\ d.usage.live = usage.live + bytes
                           /\ Fail(reason, Refund(d.usage, d.bytes), slots) => Accounts
<1>1. InBounds(configuration, d.usage) /\ Climbs(usage, d.usage)
  BY DEF Decides
<1>2. configuration \in Configuration /\ usage.live \in Nat /\ usage \in ResourceUsage
  BY NodesAccount, NumbersAre
<1>3. ASSUME ~Admitted(d), Fail(reason, d.usage, slots)
      PROVE  Accounts
  <2>1. d.usage.live = usage.live
    BY <1>3 DEF Decides
  <2> QED
    BY <1>1, <1>3, <2>1, FailAccounts
<1>4. ASSUME Admitted(d)
      PROVE  /\ d.bytes = bytes /\ d.usage.live = usage.live + bytes
             /\ Fail(reason, Refund(d.usage, d.bytes), slots) => Accounts
  <2>1. d.bytes = bytes /\ d.usage.live = usage.live + bytes
    BY <1>4 DEF Decides
  <2> DEFINE u == Refund(d.usage, bytes)
  <2>2. /\ InBounds(configuration, u) /\ Climbs(d.usage, u) /\ u.live = d.usage.live - bytes
    BY <1>1, <1>2, <2>1, RefundGivesBack
  <2> HIDE DEF u
  <2>3. u.live = usage.live
    BY <1>2, <2>1, <2>2
  <2>4. Climbs(usage, u)
    BY <1>1, <1>2, <2>2, ClimbsOn DEF InBounds
  <2>5. Fail(reason, u, slots) => Accounts
    BY <2>2, <2>3, <2>4, FailAccounts
  <2> QED
    BY <2>1, <2>5 DEF u
<1> QED
  BY <1>1, <1>3, <1>4

(* Before node At runs, and the room for its value.                        *)
LEMMA NodeIsReady ==
  ASSUME AInv, MInv, stage = "Nodes", agenda # <<>>
  PROVE  /\ Given /\ At \in Indices(program) /\ At \in 1 .. NodeCount /\ Current = At
         /\ Node(Current) = program.nodes[At] /\ EdgesOf(program, At) = Node(Current).edges
         /\ KindOf(program, At) = Node(Current).kind /\ TypeOf(program, At) = Node(Current).type
         /\ Holds(program, slots, At, {}) /\ AllFit(program, slots) /\ slots[At] = Empty
         /\ configuration \in Configuration /\ InBounds(configuration, usage)
<1>1. /\ Given /\ At \in Indices(program) /\ Current = At
      /\ Holds(program, slots, At, {}) /\ AllFit(program, slots)
  BY NodesHold DEF MInv
<1>2. slots[At] = Empty
  BY <1>1, DestinationIsEmpty
<1>3. At \in 1 .. NodeCount
  BY <1>1, NumbersAre
<1>4. configuration \in Configuration /\ InBounds(configuration, usage)
  BY NodesAccount
<1> QED
  BY <1>1, <1>2, <1>3, <1>4 DEF Node, KindOf, TypeOf, EdgesOf

(* A value put where nothing else is taken.                                *)
LEMMA NewValueAccounts ==
  ASSUME AInv, MInv, stage = "Nodes", agenda # <<>>, NEW value, Proper(value),
         NEW accounted \in BOOLEAN, ~accounted => value.bytes = 0,
         NEW u, InBounds(configuration, u), Climbs(usage, u), u.live = usage.live + value.bytes,
         PutThenRelease(Owned(value, accounted), u, slots) \/ PutOnly(Owned(value, accounted), u, slots)
  PROVE  Accounts
<1> DEFINE slot == Owned(value, accounted)
<1>1. Sized(slot) /\ Weight(slot) = value.bytes
  BY DEF Sized, Weight, Owned
<1>2. value.bytes \in Nat
  BY ProperIs
<1>3. AllSized(slots) /\ usage.live = InSlots(slots) + InArguments(loaned) /\ slots[At] = Empty
  BY NodesAccount, NodeIsReady
<1> HIDE DEF slot
<1>4. u.live = InSlots(slots) + Weight(slot) + InArguments(loaned)
  BY <1>1, <1>2, <1>3, NumbersAre
<1>5. PutThenRelease(slot, u, slots) \/ PutOnly(slot, u, slots)
  BY DEF slot
<1> QED
  BY <1>1, <1>3, <1>4, <1>5, PutAccounts

(* ExecuteConstant: a scalar is charged nothing.                           *)
LEMMA ConstantAccounts ==
  ASSUME AInv, MInv, MInv', ExecuteConstant
  PROVE  Accounts
<1> DEFINE node  == Node(Current)
           value == Plain(node.type.tag, node.count, Label(Current, <<>>))
           d     == ConstantDecision(node)
<1>1. stage = "Nodes" /\ agenda # <<>> /\ Node(Current).kind = "Constant"
  BY DEF ExecuteConstant, Executing
<1>2. /\ Given /\ At \in Indices(program) /\ Current = At /\ node = program.nodes[At]
      /\ KindOf(program, At) = "Constant" /\ TypeOf(program, At) = node.type
      /\ configuration \in Configuration /\ InBounds(configuration, usage)
  BY <1>1, NodeIsReady
<1>3. IsCharge(node.type.tag, node.count)
  BY <1>2, GivenIsVerified DEF IsRunnable
<1>4. node.count \in Nat /\ node.type.tag \in {"scalar", "vector", "string"}
      /\ (node.type.tag = "scalar" => node.count = 0)
  BY <1>3 DEF IsCharge
<1>5. Proper(value) /\ value.bytes = node.count
  BY <1>3, PlainIsProper
<1>6. \/ node.type.tag = "scalar" /\ PutOnly(Owned(value, FALSE), usage, slots)
      \/ Admitted(d) /\ PutOnly(Owned(value, node.count # 0), d.usage, slots)
      \/ Admitted(d) /\ Fail("Host", Refund(d.usage, d.bytes), slots)
      \/ ~Admitted(d) /\ Fail("Resource", d.usage, slots)
  BY DEF ExecuteConstant, HostRefuses
<1>7. Decides(configuration, usage, d, node.count)
  <2>1. /\ Decides(configuration, usage, AdmitString(configuration, usage, node.count, 0), node.count)
        /\ Decides(configuration, usage, AdmitVector(configuration, usage, node.count, 1, 0), node.count)
    BY <1>2, <1>4, RequestsDecide
  <2> QED
    BY <2>1 DEF ConstantDecision
<1> HIDE DEF value, d, node
<1>8. CASE node.type.tag = "scalar" /\ PutOnly(Owned(value, FALSE), usage, slots)
  <2>1. value.bytes = 0 /\ usage.live = usage.live + value.bytes /\ Climbs(usage, usage)
    BY <1>1, <1>4, <1>5, <1>8, NumbersAre, NodesAccount
  <2> QED
    BY <1>1, <1>2, <1>5, <1>8, <2>1, NewValueAccounts
<1>9. CASE Admitted(d) /\ PutOnly(Owned(value, node.count # 0), d.usage, slots)
  <2>1. d.usage.live = usage.live + value.bytes /\ InBounds(configuration, d.usage) /\ Climbs(usage, d.usage)
    BY <1>5, <1>7, <1>9 DEF Decides
  <2> DEFINE accounted == node.count # 0
  <2>2. accounted \in BOOLEAN /\ (~accounted => value.bytes = 0)
    BY <1>5
  <2>3. PutOnly(Owned(value, accounted), d.usage, slots)
    BY <1>9
  <2> HIDE DEF accounted
  <2> QED
    BY <1>1, <1>5, <2>1, <2>2, <2>3, NewValueAccounts
<1>10. CASE Admitted(d) /\ Fail("Host", Refund(d.usage, d.bytes), slots)
  BY <1>1, <1>4, <1>7, <1>10, RequestAccounts DEF Reason
<1>11. CASE ~Admitted(d) /\ Fail("Resource", d.usage, slots)
  BY <1>1, <1>4, <1>7, <1>11, RequestAccounts DEF Reason
<1> QED
  BY <1>6, <1>8, <1>9, <1>10, <1>11

(* ExecuteParameter: a loan was charged with the arguments.                *)
LEMMA ParameterAccounts ==
  ASSUME AInv, MInv, MInv', ExecuteParameter
  PROVE  Accounts
<1> DEFINE slot == Borrowed(Node(Current).count)
<1>1. stage = "Nodes" /\ agenda # <<>> /\ PutOnly(slot, usage, slots)
  BY DEF ExecuteParameter, Executing
<1>2. Sized(slot) /\ Weight(slot) = 0
  BY DEF Sized, Weight, Borrowed
<1>3. /\ AllSized(slots) /\ usage.live = InSlots(slots) + InArguments(loaned) /\ slots[At] = Empty
      /\ InBounds(configuration, usage) /\ Climbs(usage, usage)
  BY <1>1, NodesAccount, NodeIsReady
<1> HIDE DEF slot
<1>4. usage.live = InSlots(slots) + Weight(slot) + InArguments(loaned)
  BY <1>2, <1>3, NumbersAre
<1> QED
  BY <1>1, <1>2, <1>3, <1>4, PutAccounts

(* ExecuteHandover: what moves on weighs the same where it arrives.        *)
LEMMA HandoverAccounts ==
  ASSUME AInv, MInv, MInv', ExecuteHandover
  PROVE  Accounts
<1> DEFINE i == Node(Current).edges[1].producer
           rest == [slots EXCEPT ![i] = Empty]
           alias == Alias(i)
<1>1. stage = "Nodes" /\ agenda # <<>> /\ Node(Current).kind \in HandoverKind
  BY DEF ExecuteHandover, Executing
<1>2. /\ Given /\ At \in Indices(program) /\ At \in 1 .. NodeCount /\ slots[At] = Empty
      /\ KindOf(program, At) \in HandoverKind /\ EdgesOf(program, At) = Node(Current).edges
      /\ configuration \in Configuration /\ InBounds(configuration, usage)
  BY <1>1, NodeIsReady
<1>3. i \in 1 .. NodeCount
  <2>1. i = Handed(program, At)
    BY <1>2 DEF Handed
  <2>2. Handed(program, At) \in Indices(program)
    BY <1>2, GivenIsVerified, HandoverMovesOrBorrows
  <2> QED
    BY <2>1, <2>2, NumbersAre
<1>4. /\ AllSized(slots) /\ usage.live = InSlots(slots) + InArguments(loaned)
      /\ InBounds(configuration, usage) /\ Climbs(usage, usage)
  BY <1>1, NodesAccount
<1>5. \/ PutThenRelease(slots[i], usage, rest)
      \/ PutThenRelease(alias, usage, slots)
      \/ Fail("Invariant", usage, slots)
  BY DEF ExecuteHandover
<1>6. Sized(alias) /\ Weight(alias) = 0
  BY DEF Sized, Weight, Alias
<1> HIDE DEF i, alias
<1>7. Sized(slots[i]) /\ Weight(slots[i]) \in Nat
  BY <1>3, <1>4, SizedWeighs DEF AllSized
<1>8. AllSized(rest) /\ InSlots(slots) = InSlots(rest) + Weight(slots[i])
  BY <1>2, <1>3, <1>4, TakeOut
<1>9. rest[At] = Empty
  BY <1>2, <1>4 DEF AllSized
<1> HIDE DEF rest
<1>10. ~Fail("Invariant", usage, slots)
  BY NeverForAnInvariant DEF Fail
<1>11. usage.live = InSlots(rest) + Weight(slots[i]) + InArguments(loaned)
  BY <1>4, <1>8
<1>12. usage.live = InSlots(slots) + Weight(alias) + InArguments(loaned)
  BY <1>4, <1>6, NumbersAre
<1>13. PutThenRelease(slots[i], usage, rest) => Accounts
  <2> DEFINE slot == slots[i]
  <2> SUFFICES ASSUME PutThenRelease(slot, usage, rest) PROVE Accounts
    OBVIOUS
  <2>1. Sized(slot) /\ usage.live = InSlots(rest) + Weight(slot) + InArguments(loaned)
    BY <1>7, <1>11
  <2> HIDE DEF slot
  <2> QED
    BY <1>1, <1>4, <1>8, <1>9, <2>1, PutAccounts
<1>14. PutThenRelease(alias, usage, slots) => Accounts
  BY <1>1, <1>2, <1>4, <1>6, <1>12, PutAccounts
<1> QED
  BY <1>5, <1>10, <1>13, <1>14

(* ExecuteFormat.                                                          *)
LEMMA FormatAccounts ==
  ASSUME AInv, MInv, MInv', ExecuteFormat
  PROVE  Accounts
<1> DEFINE value(required) == Plain("string", required, Label(Current, LabelsOf(Node(Current).edges)))
           d(required) == AdmitString(configuration, usage, required, required)
<1>1. stage = "Nodes" /\ agenda # <<>>
  BY DEF ExecuteFormat, Executing
<1>2. /\ Given /\ configuration \in Configuration /\ InBounds(configuration, usage)
  BY <1>1, NodeIsReady
<1>3. \/ Fail("Invariant", usage, slots)
      \/ \E required \in FormatLengths :
           \/ ~Admitted(d(required)) /\ Fail("Resource", d(required).usage, slots)
           \/ /\ Admitted(d(required))
              /\ \/ PutThenRelease(Owned(value(required), required # 0), d(required).usage, slots)
                 \/ Fail("Host", Refund(d(required).usage, d(required).bytes), slots)
  BY DEF ExecuteFormat, HostRefuses
<1>4. ~Fail("Invariant", usage, slots)
  BY NeverForAnInvariant DEF Fail
<1>5. ASSUME NEW required \in FormatLengths
      PROVE  /\ required \in Nat /\ Proper(value(required)) /\ value(required).bytes = required
             /\ Decides(configuration, usage, d(required), required)
  <2>1. required \in Nat
    BY ChoiceAssumption
  <2>2. IsCharge("string", required)
    BY <2>1 DEF IsCharge
  <2> QED
    BY <1>2, <2>1, <2>2, PlainIsProper, RequestsDecide
<1> HIDE DEF value, d
<1>6. PICK required \in FormatLengths :
           \/ ~Admitted(d(required)) /\ Fail("Resource", d(required).usage, slots)
           \/ /\ Admitted(d(required))
              /\ \/ PutThenRelease(Owned(value(required), required # 0), d(required).usage, slots)
                 \/ Fail("Host", Refund(d(required).usage, d(required).bytes), slots)
  BY <1>3, <1>4
<1> DEFINE dd == d(required)
           v == value(required)
           accounted == required # 0
<1>7. /\ required \in Nat /\ Proper(v) /\ v.bytes = required /\ Decides(configuration, usage, dd, required)
      /\ accounted \in BOOLEAN /\ (~accounted => v.bytes = 0)
  BY <1>5
<1>8. \/ ~Admitted(dd) /\ Fail("Resource", dd.usage, slots)
      \/ Admitted(dd) /\ PutThenRelease(Owned(v, accounted), dd.usage, slots)
      \/ Admitted(dd) /\ Fail("Host", Refund(dd.usage, dd.bytes), slots)
  BY <1>6
<1> HIDE DEF dd, v, accounted
<1>9. CASE Admitted(dd) /\ PutThenRelease(Owned(v, accounted), dd.usage, slots)
  <2>1. dd.usage.live = usage.live + v.bytes /\ InBounds(configuration, dd.usage) /\ Climbs(usage, dd.usage)
    BY <1>7, <1>9 DEF Decides
  <2> QED
    BY <1>1, <1>7, <1>9, <2>1, NewValueAccounts
<1>10. CASE Admitted(dd) /\ Fail("Host", Refund(dd.usage, dd.bytes), slots)
  BY <1>1, <1>7, <1>10, RequestAccounts DEF Reason
<1>11. CASE ~Admitted(dd) /\ Fail("Resource", dd.usage, slots)
  BY <1>1, <1>7, <1>11, RequestAccounts DEF Reason
<1> QED
  BY <1>8, <1>9, <1>10, <1>11

(* What a primitive's plan requests, and the bytes its value is charged.   *)
LEMMA ApplyDecides ==
  ASSUME AInv, MInv, stage = "Nodes", NEW plan \in {"scalar", "vector", "filter"}, NEW n \in Nat,
         plan = "scalar" => n = 0
  PROVE  Decides(configuration, usage, ApplyDecision(plan, n, usage), n)
<1>1. configuration \in Configuration /\ InBounds(configuration, usage) /\ usage \in ResourceUsage
  BY NodesAccount
<1>2. CASE plan = "scalar"
  <2>1. Decides(configuration, usage, ChargeWork(configuration, usage, 1), 0)
    BY <1>1, RequestsDecide
  <2>2. ApplyDecision(plan, n, usage) = ChargeWork(configuration, usage, 1) /\ n = 0
    BY <1>2 DEF ApplyDecision
  <2> QED
    BY <2>1, <2>2
<1>3. CASE plan = "vector"
  <2>1. Decides(configuration, usage, AdmitVector(configuration, usage, n, 1, n), n)
    BY <1>1, RequestsDecide
  <2> QED
    BY <1>3, <2>1 DEF ApplyDecision
<1>4. CASE plan = "filter"
  <2> DEFINE charged == ChargeWork(configuration, usage, 1)
             d == AdmitVector(configuration, charged.usage, n, 1, 0)
  <2>1. Decides(configuration, usage, charged, 0)
    BY <1>1, RequestsDecide
  <2>2. ApplyDecision(plan, n, usage) = IF Admitted(charged) THEN d ELSE charged
    BY <1>4 DEF ApplyDecision
  <2> HIDE DEF charged
  <2>3. InBounds(configuration, charged.usage) /\ Climbs(usage, charged.usage)
        /\ charged.usage \in ResourceUsage
    BY <2>1 DEF Decides, InBounds
  <2>4. Decides(configuration, charged.usage, d, n)
    BY <1>1, <2>3, RequestsDecide
  <2> HIDE DEF d
  <2>5. CASE Admitted(charged)
    <3>1. charged.usage.live = usage.live
      BY <1>1, <2>1, <2>5, UsageIs DEF Decides
    <3>2. Climbs(usage, d.usage)
      BY <1>1, <2>3, <2>4, ClimbsOn DEF Decides, InBounds
    <3>3. Decides(configuration, usage, d, n)
      BY <2>4, <3>1, <3>2 DEF Decides
    <3> QED
      BY <2>2, <2>5, <3>3
  <2>6. CASE ~Admitted(charged)
    <3>1. Decides(configuration, usage, charged, n)
      BY <2>1, <2>6 DEF Decides
    <3> QED
      BY <2>2, <2>6, <3>1
  <2> QED
    BY <2>5, <2>6
<1> QED
  BY <1>2, <1>3, <1>4

(* ExecuteApply.                                                           *)
LEMMA ApplyAccounts ==
  ASSUME AInv, MInv, MInv', ExecuteApply
  PROVE  Accounts
<1> DEFINE plan == Node(Current).plan
           value(n) == ApplyValue(plan, n, LabelsOf(Node(Current).edges))
           d(n) == ApplyDecision(plan, n, usage)
           lengths == IF plan = "scalar" THEN {0} ELSE ResultLengths
           choices == plan # "scalar"
<1>1. stage = "Nodes" /\ agenda # <<>> /\ Node(Current).kind = "SelectedApply"
  BY DEF ExecuteApply, Executing
<1>2. /\ Given /\ At \in Indices(program) /\ KindOf(program, At) = "SelectedApply"
      /\ Node(Current) = program.nodes[At]
      /\ configuration \in Configuration /\ InBounds(configuration, usage)
      /\ Climbs(usage, usage)
  BY <1>1, NodeIsReady, NodesAccount
<1>3. plan \in {"scalar", "vector", "filter"}
  BY <1>2, GivenIsVerified DEF IsRunnable
<1>4. \/ Fail("Invariant", usage, slots)
      \/ Fail("ShapeMismatch", usage, slots)
      \/ \E n \in lengths :
           \/ ~Admitted(d(n)) /\ Fail("Resource", d(n).usage, slots)
           \/ /\ Admitted(d(n))
              /\ \/ PutThenRelease(Owned(value(n), choices), d(n).usage, slots)
                 \/ Fail("Fault", Refund(d(n).usage, d(n).bytes), slots)
  BY DEF ExecuteApply
<1>5. ~Fail("Invariant", usage, slots)
  BY NeverForAnInvariant DEF Fail
<1>6. CASE Fail("ShapeMismatch", usage, slots)
  BY <1>1, <1>2, <1>6, FailAccounts DEF Reason
<1>7. ASSUME NEW n \in lengths
      PROVE  /\ n \in Nat /\ (plan = "scalar" => n = 0)
             /\ Proper(value(n)) /\ value(n).bytes = n
             /\ Decides(configuration, usage, d(n), n)
  <2>1. n \in Nat /\ (plan = "scalar" => n = 0)
    BY ChoiceAssumption
  <2>2. IsCharge("vector", n) /\ IsCharge("scalar", 0)
    BY <2>1 DEF IsCharge
  <2> HIDE DEF plan, lengths
  <2>3. Decides(configuration, usage, d(n), n)
    BY <1>1, <1>3, <2>1, ApplyDecides
  <2>4. Proper(value(n)) /\ value(n).bytes = n
    <3> DEFINE l == Label(Current, LabelsOf(Node(Current).edges))
    <3>1. Proper(Plain("vector", n, l)) /\ Plain("vector", n, l).bytes = n
          /\ Proper(Plain("scalar", 0, l)) /\ Plain("scalar", 0, l).bytes = 0
      BY <2>2, PlainIsProper
    <3> QED
      BY <2>1, <3>1 DEF ApplyValue
  <2> QED
    BY <2>1, <2>3, <2>4
<1> HIDE DEF value, d, lengths
<1>8. ASSUME NEW n \in lengths,
             \/ ~Admitted(d(n)) /\ Fail("Resource", d(n).usage, slots)
             \/ /\ Admitted(d(n))
                /\ \/ PutThenRelease(Owned(value(n), choices), d(n).usage, slots)
                   \/ Fail("Fault", Refund(d(n).usage, d(n).bytes), slots)
      PROVE  Accounts
  <2> DEFINE dd == d(n)
             v == value(n)
  <2>1. /\ n \in Nat /\ Proper(v) /\ v.bytes = n /\ Decides(configuration, usage, dd, n)
        /\ choices \in BOOLEAN /\ (~choices => v.bytes = 0)
    BY <1>7
  <2>2. \/ ~Admitted(dd) /\ Fail("Resource", dd.usage, slots)
        \/ Admitted(dd) /\ PutThenRelease(Owned(v, choices), dd.usage, slots)
        \/ Admitted(dd) /\ Fail("Fault", Refund(dd.usage, dd.bytes), slots)
    BY <1>8
  <2> HIDE DEF dd, v, choices
  <2>3. CASE Admitted(dd) /\ PutThenRelease(Owned(v, choices), dd.usage, slots)
    <3>1. dd.usage.live = usage.live + v.bytes /\ InBounds(configuration, dd.usage)
          /\ Climbs(usage, dd.usage)
      BY <2>1, <2>3 DEF Decides
    <3> QED
      BY <1>1, <2>1, <2>3, <3>1, NewValueAccounts
  <2>4. CASE Admitted(dd) /\ Fail("Fault", Refund(dd.usage, dd.bytes), slots)
    BY <1>1, <2>1, <2>4, RequestAccounts DEF Reason
  <2>5. CASE ~Admitted(dd) /\ Fail("Resource", dd.usage, slots)
    BY <1>1, <2>1, <2>5, RequestAccounts DEF Reason
  <2> QED
    BY <2>2, <2>3, <2>4, <2>5
<1> QED
  BY <1>4, <1>5, <1>6, <1>8

(* The values of several slots, each of its own.                           *)
TakenFrom(s, m, r, elems, taken) ==
  /\ r \in [1 .. m -> 1 .. NodeCount] /\ \A a, b \in 1 .. m : r[a] = r[b] => a = b
  /\ \A b \in 1 .. m : s[r[b]].kind = "Owned"
  /\ IsSequence(elems) /\ Len(elems) = m /\ \A b \in 1 .. m : elems[b] = s[r[b]].value
  /\ \A i : i \in taken <=> \E b \in 1 .. m : r[b] = i

(* They weigh what the slots do not any more.                              *)
LEMMA TakenWeigh ==
  ASSUME Given, NEW s, AllSized(s), NEW m \in Nat, NEW r, NEW elems, NEW taken,
         TakenFrom(s, m, r, elems, taken)
  PROVE  /\ AllSized(Without(s, taken)) /\ AllProper(elems)
         /\ InSlots(s) = InSlots(Without(s, taken)) + Total("bytes", elems)
<1> DEFINE E(k) == [b \in 1 .. k |-> s[r[b]].value]
           W(k) == Without(s, {r[b] : b \in 1 .. k})
           T == {k \in 0 .. m : /\ AllSized(W(k)) /\ AllProper(E(k))
                                /\ InSlots(s) = InSlots(W(k)) + Total("bytes", E(k))}
<1>0. /\ r \in [1 .. m -> 1 .. NodeCount] /\ \A a, b \in 1 .. m : r[a] = r[b] => a = b
      /\ \A b \in 1 .. m : s[r[b]].kind = "Owned"
      /\ IsSequence(elems) /\ Len(elems) = m /\ \A b \in 1 .. m : elems[b] = s[r[b]].value
      /\ \A i : i \in taken <=> \E b \in 1 .. m : r[b] = i
  BY DEF TakenFrom
<1>1. InSlots(s) \in Nat /\ DOMAIN s = 1 .. NodeCount
  BY InSlotsIs DEF AllSized
<1>2. 0 \in T
  <2>1. E(0) = <<>>
    <3> DEFINE z == E(0)
    <3>1. z = [b \in 1 .. 0 |-> z[b]]
      OBVIOUS
    <3> HIDE DEF z
    <3>2. Len(z) = 0 /\ IsSequence(z)
      BY <3>1, TableIsSequence
    <3>3. z = <<>>
      BY <3>2 DEF IsSequence
    <3> QED
      BY <3>3 DEF z
  <2>2. DOMAIN W(0) = 1 .. NodeCount /\ \A i \in 1 .. NodeCount : W(0)[i] = s[i]
    BY <1>1 DEF Without
  <2> HIDE DEF E, W
  <2>3. AllSized(W(0)) /\ Weights(W(0)) = Weights(s)
    BY <2>2 DEF AllSized, Weights
  <2>4. InSlots(s) = InSlots(W(0)) + Total("bytes", E(0))
    BY <1>1, <2>1, <2>3, NoneIsProper DEF InSlots
  <2> QED
    BY <2>1, <2>3, <2>4, NoneIsProper
<1>3. ASSUME NEW k \in 0 .. (m - 1), k \in T PROVE k + 1 \in T
  <2> DEFINE i == r[k + 1]
             w == W(k)
             e == E(k)
             v == s[i].value
  <2>1. k \in Nat /\ k + 1 \in 1 .. m /\ k + 1 \in 0 .. m /\ i \in 1 .. NodeCount
    BY <1>0
  <2>2. s[i].kind = "Owned" /\ Proper(v)
    BY <1>0, <2>1 DEF AllSized, Sized
  <2>3. AllSized(w) /\ AllProper(e) /\ InSlots(s) = InSlots(w) + Total("bytes", e)
    BY <1>3
  <2>4. E(k + 1) = Append(e, v)
    <3>1. e = [b \in 1 .. k |-> e[b]]
      OBVIOUS
    <3>2. Len(e) = k /\ IsSequence(e)
      <4> HIDE DEF e
      <4> QED
        BY <2>1, <3>1, TableIsSequence
    <3>3. \A b \in 1 .. k : e[b] = s[r[b]].value
      OBVIOUS
    <3> DEFINE a == Append(e, v)
    <3> HIDE DEF e, v
    <3>4. IsSequence(a) /\ Len(a) = k + 1
      BY <3>2, AppendIsSequence
    <3>5. DOMAIN e = 1 .. k
      BY <3>1
    <3>6. a[k + 1] = v /\ \A b \in 1 .. k : a[b] = e[b]
      BY <3>2, <3>5, AppendAt
    <3> HIDE DEF a
    <3>7. a = [b \in 1 .. (k + 1) |-> a[b]]
      BY <3>4 DEF IsSequence
    <3>8. \A b \in 1 .. (k + 1) : a[b] = s[r[b]].value
      BY <2>1, <3>3, <3>6 DEF v, i
    <3>9. E(k + 1) = a
      BY <3>7, <3>8
    <3> QED
      BY <3>9 DEF a
  <2>5. W(k + 1) = [w EXCEPT ![i] = Empty]
    <3>1. {r[b] : b \in 1 .. (k + 1)} = {r[b] : b \in 1 .. k} \union {i}
      <4>1. \A b : b \in 1 .. (k + 1) <=> b \in 1 .. k \/ b = k + 1
        BY <2>1
      <4> HIDE DEF i
      <4>2. i = r[k + 1]
        BY DEF i
      <4> QED
        BY <4>1, <4>2
    <3> QED
      BY <1>1, <3>1 DEF Without
  <2>6. w[i] = s[i]
    <3>1. i \notin {r[b] : b \in 1 .. k}
      <4>1. \A b \in 1 .. k : b \in 1 .. m /\ b # k + 1
        OBVIOUS
      <4> QED
        BY <1>0, <2>1, <4>1
    <3> QED
      BY <1>1, <2>1, <3>1 DEF Without
  <2> HIDE DEF w, e, v, i, E, W
  <2>7. AllSized([w EXCEPT ![i] = Empty]) /\ InSlots(w) = InSlots([w EXCEPT ![i] = Empty]) + Weight(w[i])
    BY <2>1, <2>3, TakeOut
  <2>8. Weight(w[i]) = v.bytes /\ v.bytes \in Nat
    BY <2>2, <2>6, ProperIs DEF Weight, v
  <2>9. AllProper(Append(e, v)) /\ Total("bytes", Append(e, v)) = Total("bytes", e) + v.bytes
    BY <2>2, <2>3, ProperAppends
  <2>10. InSlots([w EXCEPT ![i] = Empty]) \in Nat /\ Total("bytes", e) \in Nat
    BY <2>3, <2>7, InSlotsIs, ProperSequence
  <2>11. InSlots(s) = InSlots([w EXCEPT ![i] = Empty]) + Total("bytes", Append(e, v))
    BY <2>3, <2>7, <2>8, <2>9, <2>10
  <2>12. AllSized(W(k + 1)) /\ AllProper(E(k + 1)) /\ InSlots(s) = InSlots(W(k + 1)) + Total("bytes", E(k + 1))
    BY <2>4, <2>5, <2>7, <2>9, <2>11
  <2> QED
    BY <2>1, <2>12
<1>4. m \in T
  <2> HIDE DEF T
  <2>1. 0 .. m \subseteq T
    BY <1>2, <1>3, InductionUpTo
  <2> QED
    BY <2>1
<1>5. E(m) = elems
  <2>1. elems = [b \in 1 .. m |-> elems[b]]
    BY <1>0 DEF IsSequence
  <2> QED
    BY <1>0, <2>1
<1>6. W(m) = Without(s, taken)
  <2>1. {r[b] : b \in 1 .. m} = taken
    BY <1>0
  <2> QED
    BY <2>1
<1>7. AllSized(W(m)) /\ AllProper(E(m)) /\ InSlots(s) = InSlots(W(m)) + Total("bytes", E(m))
  BY <1>4
<1> HIDE DEF E, W
<1> QED
  BY <1>5, <1>6, <1>7

(* ExecuteFanOut: the roots' values move into the tuple, which is charged  *)
(* for its table.                                                          *)
LEMMA FanOutAccounts ==
  ASSUME AInv, MInv, MInv', ExecuteFanOut
  PROVE  Accounts
<1> DEFINE branches == Node(Current).branches
           taken    == {branches[b].root : b \in DOMAIN branches}
           d        == AdmitTuple(configuration, usage, Len(branches))
           rest     == Without(slots, taken)
           elems    == [b \in DOMAIN branches |-> slots[branches[b].root].value]
           value    == TupleValue(elems)
           n        == Len(branches)
           r        == [b \in 1 .. n |-> branches[b].root]
<1>1. stage = "Nodes" /\ agenda # <<>> /\ Node(Current).kind = "FanOut"
  BY DEF ExecuteFanOut, Executing
<1>2. /\ Given /\ At \in Indices(program) /\ Current = At /\ At \in 1 .. NodeCount
      /\ Holds(program, slots, At, {}) /\ AllFit(program, slots) /\ slots[At] = Empty
      /\ configuration \in Configuration /\ InBounds(configuration, usage)
      /\ KindOf(program, At) = Node(Current).kind
  BY <1>1, NodeIsReady
<1>3. /\ KindOf(program, At) = "FanOut" /\ branches = Branches(program, At)
      /\ At \in FanOuts(program)
  BY <1>1, <1>2 DEF Node, KindOf, Branches, FanOuts
<1>4. IsProgram(program) /\ Verified(program) /\ AsLowered(program) /\ IsRunnable(program)
      /\ Indices(program) = 1 .. NodeCount
  BY <1>2, GivenIsVerified, NodesAre
<1>5. n \in Nat /\ DOMAIN branches = 1 .. n
  BY <1>3, <1>4, BranchesTile
<1>6. ASSUME NEW b \in DOMAIN branches
      PROVE  /\ branches[b].root \in 1 .. NodeCount /\ slots[branches[b].root].kind = "Owned"
             /\ slots[branches[b].root].value.elems = <<>>
             /\ \A a \in DOMAIN branches : branches[a].root = branches[b].root => a = b
  <2> DEFINE root == branches[b].root
  <2>1. /\ root \in Indices(program) /\ KindOf(program, root) = "SelectedApply" /\ root < At
    BY <1>3, <1>4, RootedIsApplication
  <2>2. ~Gone(program, root, At) /\ \A a \in DOMAIN branches : branches[a].root = root => a = b
    BY <1>3, <1>4, FanOutFindsRoots
  <2> HIDE DEF root
  <2>3. slots[root] # Empty /\ SlotFits(program, root, slots[root])
    BY <1>2, <2>1, <2>2 DEF Holds, AllFit
  <2>4. slots[root].kind = "Owned" /\ Conforms(slots[root].value, TypeOf(program, root))
    BY <2>1, <2>3 DEF SlotFits, IsParameter, HandoverKind
  <2>5. TypeOf(program, root).tag # "tuple"
    BY <1>4, <2>1 DEF IsRunnable
  <2>6. Proper(slots[root].value)
    BY <1>1, <1>4, <2>1, <2>4, NodesAccount DEF AllSized, Sized
  <2>7. slots[root].value.elems = <<>>
    BY <2>4, <2>5, <2>6, ProperIs DEF Conforms
  <2> QED
    BY <1>4, <2>1, <2>2, <2>4, <2>7 DEF root
<1>7. /\ AllSized(rest) /\ AllProper(elems) /\ Len(elems) = n
      /\ InSlots(slots) = InSlots(rest) + Total("bytes", elems)
  <2>1. AllSized(slots)
    BY <1>1, NodesAccount
  <2>2. r \in [1 .. n -> 1 .. NodeCount] /\ \A b \in 1 .. n : r[b] = branches[b].root
    BY <1>5, <1>6
  <2>3. IsSequence(elems) /\ Len(elems) = n
    <3>1. elems = [b \in 1 .. n |-> elems[b]]
      BY <1>5
    <3> HIDE DEF elems, n
    <3> QED
      BY <1>5, <3>1, TableIsSequence
  <2>4. /\ \A b \in 1 .. n : elems[b] = slots[r[b]].value
        /\ \A i : i \in taken <=> \E b \in 1 .. n : r[b] = i
    BY <1>5, <2>2
  <2>5. (\A a, b \in 1 .. n : r[a] = r[b] => a = b) /\ \A b \in 1 .. n : slots[r[b]].kind = "Owned"
    <3> HIDE DEF r, branches, n
    <3> QED
      BY <1>5, <1>6, <2>2
  <2> HIDE DEF elems, taken, r, branches, n
  <2>6. /\ AllSized(rest) /\ AllProper(elems)
        /\ InSlots(slots) = InSlots(rest) + Total("bytes", elems)
    <3>1. TakenFrom(slots, n, r, elems, taken)
      BY <2>2, <2>3, <2>4, <2>5 DEF TakenFrom
    <3> QED
      BY <1>2, <1>5, <2>1, <3>1, TakenWeigh
  <2> QED
    BY <2>3, <2>6
<1>8. \A k \in DOMAIN elems : elems[k].elems = <<>>
  BY <1>6
<1>9. Proper(value) /\ value.bytes = SlotBytes * n + Total("bytes", elems)
  <2> HIDE DEF elems, n
  <2> QED
    BY <1>7, <1>8, TupleIsProper
<1>10. Decides(configuration, usage, d, SlotBytes * n) /\ SlotBytes * n \in Nat
  BY <1>2, <1>5, RequestsDecide, UsizeAssumption
<1>11. rest[At] = Empty
  BY <1>2 DEF Without, AllFit
<1>12. \/ ~Admitted(d) /\ Fail("Resource", d.usage, slots)
       \/ Admitted(d) /\ PutThenRelease(Owned(value, TRUE), d.usage, rest)
  <2>1. \A i \in taken : slots[i].kind = "Owned"
    BY <1>6
  <2> QED
    BY <2>1 DEF ExecuteFanOut
<1> DEFINE slot == Owned(value, TRUE)
           charge == SlotBytes * n
<1> HIDE DEF d, rest, value, elems, n
<1>13. Sized(slot) /\ Weight(slot) = value.bytes
  BY <1>9 DEF Sized, Weight, Owned
<1> HIDE DEF slot, charge
<1>14. CASE ~Admitted(d) /\ Fail("Resource", d.usage, slots)
  BY <1>1, <1>10, <1>14, RequestAccounts DEF Reason, charge
<1>15. CASE Admitted(d) /\ PutThenRelease(Owned(value, TRUE), d.usage, rest)
  <2>1. InBounds(configuration, d.usage) /\ Climbs(usage, d.usage)
        /\ d.usage.live = usage.live + charge
    BY <1>10, <1>15 DEF Decides, charge
  <2>2. usage.live = InSlots(slots) + InArguments(loaned)
    BY <1>1, NodesAccount
  <2>3. InSlots(rest) \in Nat /\ InArguments(loaned) \in Nat /\ Total("bytes", elems) \in Nat /\ charge \in Nat
    BY <1>2, <1>7, <1>10, InSlotsIs, NumbersAre, ProperSequence DEF charge
  <2>4. Weight(slot) = charge + Total("bytes", elems)
    BY <1>9, <1>13 DEF charge
  <2>5. d.usage.live = InSlots(rest) + Weight(slot) + InArguments(loaned)
    BY <1>7, <2>1, <2>2, <2>3, <2>4
  <2> QED
    BY <1>1, <1>7, <1>11, <1>13, <1>15, <2>1, <2>5, PutAccounts DEF slot
<1> QED
  BY <1>12, <1>14, <1>15

(***************************************************************************)
(* Tuples and outputs.                                                     *)
(***************************************************************************)
(* BeginTuple: the table is charged before anything is collected.          *)
LEMMA BeginTupleAccounts ==
  ASSUME AInv, MInv, MInv', BeginTuple
  PROVE  Accounts
<1> DEFINE n == Len(Node(Current).edges)
           d == AdmitTuple(configuration, usage, n)
           charge == SlotBytes * n
<1>1. stage = "Nodes" /\ agenda # <<>>
  BY DEF BeginTuple, Executing
<1>2. /\ Given /\ At \in Indices(program) /\ configuration \in Configuration /\ InBounds(configuration, usage)
      /\ EdgesOf(program, At) = Node(Current).edges
  BY <1>1, NodeIsReady
<1>3. n \in Nat
  BY <1>2, GivenIsVerified, NumberedFromOne
<1>4. charge \in Nat /\ Decides(configuration, usage, d, charge)
  BY <1>2, <1>3, RequestsDecide, UsizeAssumption
<1>5. \/ ~Admitted(d) /\ Fail("Resource", d.usage, slots)
      \/ /\ Admitted(d) /\ stage' = "Tuple" /\ table' = d.bytes /\ usage' = d.usage
         /\ program' = program /\ configuration' = configuration /\ slots' = slots
         /\ agenda' = agenda /\ gathered' = gathered /\ copy' = copy /\ loaned' = loaned
         /\ error' = error /\ results' = results
  BY DEF BeginTuple
<1> HIDE DEF d
<1>6. CASE ~Admitted(d) /\ Fail("Resource", d.usage, slots)
  <2> HIDE DEF charge
  <2> QED
    BY <1>1, <1>4, <1>6, RequestAccounts DEF Reason
<1>7. ASSUME Admitted(d), stage' = "Tuple", table' = d.bytes, usage' = d.usage,
             program' = program, configuration' = configuration, slots' = slots,
             agenda' = agenda, gathered' = gathered, copy' = copy, loaned' = loaned,
             error' = error, results' = results
      PROVE  Accounts
  <2>1. /\ gathered = <<>> /\ copy = NoCopy /\ table = 0 /\ results = <<>> /\ error = None
        /\ usage.live = InSlots(slots) + InArguments(loaned)
    BY <1>1, NodesAccount
  <2>2. /\ InBounds(configuration, d.usage) /\ Climbs(usage, d.usage)
        /\ d.bytes = charge /\ d.usage.live = usage.live + charge
    BY <1>4, <1>7 DEF Decides
  <2>3. ~NestsTupleLate(program)' /\ AllSized(slots)' /\ InSlots(slots)' = InSlots(slots)
        /\ InArguments(loaned)' = InArguments(loaned)
    BY <1>7, SameProgram DEF AInv
  <2>4. Configured' /\ Climbs(usage, usage')
    BY <1>7, <2>2 DEF AInv, Configured, InBounds
  <2>5. Staged'
    BY <1>7, <2>1 DEF AInv, Staged, Stage
  <2>6. GatheredSized' /\ CopySized' /\ ResultsSized'
    BY <1>7, <2>1, NoneIsProper DEF GatheredSized, CopySized, ResultsSized, NoCopy
  <2>7. TableSized'
    <3>1. EdgesOf(program, At)' = EdgesOf(program, At)
      BY <1>7 DEF EdgesOf, At, NodeCount
    <3>2. table' = SlotBytes * Len(EdgesOf(program, At)) /\ table' \in Nat
      BY <1>2, <1>4, <1>7, <2>2
    <3> QED
      BY <1>7, <3>1, <3>2 DEF TableSized
  <2>8. RootsOwn' /\ NothingLeft'
    BY <1>7 DEF RootsOwn, NothingLeft
  <2>9. Balanced'
    <3>1. InCopy(copy)' = 0
      BY <1>7, <2>1 DEF InCopy, NoCopy
    <3> HIDE DEF charge
    <3>2. usage'.live = InSlots(slots) + InArguments(loaned) + charge
      BY <1>7, <2>1, <2>2
    <3> QED
      BY <1>4, <1>7, <2>1, <2>2, <2>3, <3>1, <3>2, NumbersAre, NoneIsProper DEF Balanced
  <2> QED
    BY <2>3, <2>4, <2>5, <2>6, <2>7, <2>8, <2>9 DEF Accounts, AInv
<1> QED
  BY <1>5, <1>6, <1>7

(* What remains of the outputs once the next one is taken.                 *)
RootsRemain(s) ==
  stage = "Outputs" =>
    \A i \in Indices(program) : s[i].kind = "Owned" =>
      \E r \in DOMAIN program.roots : r > Len(gathered) + 1 /\ program.roots[r] = i

(* What is collected next to it.                                           *)
LEMMA CollectAccounts ==
  ASSUME AInv, MInv, stage \in {"Tuple", "Outputs"}, copy = NoCopy,
         NEW s, AllSized(s), RootsRemain(s),
         NEW value, Proper(value), stage = "Tuple" /\ gathered # <<>> => value.elems = <<>>,
         InSlots(slots) = InSlots(s) + value.bytes,
         Collect(value, s)
  PROVE  Accounts
<1>1. /\ gathered' = Append(gathered, value) /\ slots' = s
      /\ program' = program /\ configuration' = configuration /\ usage' = usage
      /\ stage' = stage /\ agenda' = agenda /\ table' = table /\ copy' = copy
      /\ loaned' = loaned /\ error' = error /\ results' = results
  BY DEF Collect
<1>2. AllProper(gathered) /\ results = <<>>
  BY DEF AInv, GatheredSized, ResultsSized
<1>3. /\ IsSequence(gathered) /\ Len(gathered) \in Nat /\ DOMAIN gathered = 1 .. Len(gathered)
  BY <1>2, ProperSequence
<1>4. /\ AllProper(gathered') /\ Total("bytes", gathered') = Total("bytes", gathered) + value.bytes
  BY <1>1, <1>2, ProperAppends
<1>5. /\ Len(gathered') = Len(gathered) + 1 /\ IsSequence(gathered')
      /\ \A k \in 1 .. Len(gathered) : gathered'[k] = gathered[k]
      /\ gathered'[Len(gathered) + 1] = value
  BY <1>1, <1>3, AppendIsSequence, AppendAt
<1>6. ~NestsTupleLate(program)' /\ AllSized(slots)' /\ InSlots(slots)' = InSlots(s)
      /\ InArguments(loaned)' = InArguments(loaned)
  BY <1>1, SameProgram DEF AInv
<1>7. Configured' /\ Climbs(usage, usage')
  BY <1>1, StaysUp DEF AInv, Configured, InBounds
<1>8. Staged'
  BY <1>1 DEF AInv, Staged, Stage
<1>9. GatheredSized'
  <2>1. ASSUME stage = "Tuple", NEW k \in DOMAIN gathered', k > 1
        PROVE  gathered'[k].elems = <<>>
    <3>1. k \in 1 .. Len(gathered) + 1
      BY <1>5 DEF IsSequence
    <3>2. CASE k \in 1 .. Len(gathered)
      <4>1. gathered[k].elems = <<>>
        BY <1>3, <2>1, <3>2 DEF AInv, GatheredSized
      <4> QED
        BY <1>5, <3>2, <4>1
    <3>3. CASE k = Len(gathered) + 1
      <4>1. gathered # <<>>
        <5>1. Len(gathered) # 0 /\ Len(<<>>) = 0
          BY <1>3, <2>1, <3>3
        <5> QED
          BY <5>1
      <4> QED
        BY <1>5, <2>1, <3>3, <4>1
    <3> QED
      BY <1>3, <3>1, <3>2, <3>3
  <2>2. AllProper(gathered)'
    BY <1>4
  <2>3. stage' \notin {"Tuple", "Outputs", "Unwind"} => gathered' = <<>>
    BY <1>1
  <2>4. stage' = "Tuple" => \A k \in DOMAIN gathered' : k > 1 => gathered'[k].elems = <<>>
    BY <1>1, <2>1
  <2> QED
    BY <2>2, <2>3, <2>4 DEF GatheredSized
<1>10. TableSized'
  <2>1. EdgesOf(program, At)' = EdgesOf(program, At)
    BY <1>1 DEF EdgesOf, At, NodeCount
  <2> QED
    BY <1>1, <2>1 DEF AInv, TableSized
<1>11. CopySized' /\ ResultsSized'
  BY <1>1, <1>2, NoneIsProper DEF CopySized, ResultsSized, NoCopy
<1>12. RootsOwn' /\ NothingLeft'
  <2>1. TakenCount' = Len(gathered) + 1
    BY <1>1, <1>3, <1>5 DEF TakenCount, NoCopy
  <2> QED
    BY <1>1, <2>1 DEF RootsOwn, RootsRemain, NothingLeft
<1>13. Balanced'
  <2>1. InCopy(copy)' = 0 /\ InCopy(copy) = 0
    BY <1>1 DEF InCopy, NoCopy
  <2>2. value.bytes \in Nat /\ InSlots(s) \in Nat
    BY NumbersAre, ProperIs, InSlotsIs
  <2>3. usage.live = InSlots(slots) + InArguments(loaned) + Total("bytes", gathered) + table
    BY <1>2, <2>1, NumbersAre, NoneIsProper DEF AInv, Balanced
  <2>4. usage.live = InSlots(s) + InArguments(loaned) + Total("bytes", gathered') + table
    BY <1>4, <2>2, <2>3, NumbersAre
  <2> QED
    BY <1>1, <1>2, <1>4, <1>6, <2>1, <2>2, <2>4, NumbersAre, NoneIsProper DEF Balanced
<1> QED
  BY <1>4, <1>6, <1>7, <1>8, <1>9, <1>10, <1>11, <1>12, <1>13 DEF Accounts, AInv

(* Or what is to be copied next.                                           *)
LEMMA StartCopyAccounts ==
  ASSUME AInv, MInv, stage \in {"Tuple", "Outputs"}, copy = NoCopy,
         NEW s, AllSized(s), RootsRemain(s),
         NEW value, IsArgument(value),
         InSlots(slots) = InSlots(s),
         StartCopy(value, s)
  PROVE  Accounts
<1>1. /\ copy' = Copying(value) /\ slots' = s
      /\ program' = program /\ configuration' = configuration /\ usage' = usage
      /\ stage' = stage /\ agenda' = agenda /\ table' = table /\ gathered' = gathered
      /\ loaned' = loaned /\ error' = error /\ results' = results
  BY DEF StartCopy
<1>2. Copying(value) # NoCopy /\ Copying(value).admitted = 0
  BY DEF Copying, NoCopy
<1>3. AllProper(gathered) /\ results = <<>> /\ Len(gathered) \in Nat
  BY ProperSequence DEF AInv, GatheredSized, ResultsSized
<1>4. ~NestsTupleLate(program)' /\ AllSized(slots)' /\ InSlots(slots)' = InSlots(s)
      /\ InArguments(loaned)' = InArguments(loaned)
  BY <1>1, SameProgram DEF AInv
<1>5. Configured' /\ Climbs(usage, usage')
  BY <1>1, StaysUp DEF AInv, Configured, InBounds
<1>6. Staged'
  BY <1>1 DEF AInv, Staged, Stage
<1>7. GatheredSized' /\ ResultsSized'
  BY <1>1, <1>3, NoneIsProper DEF AInv, GatheredSized, ResultsSized
<1>8. TableSized'
  <2>1. EdgesOf(program, At)' = EdgesOf(program, At)
    BY <1>1 DEF EdgesOf, At, NodeCount
  <2> QED
    BY <1>1, <2>1 DEF AInv, TableSized
<1>9. CopySized'
  BY <1>1 DEF CopySized
<1>10. RootsOwn' /\ NothingLeft'
  <2>1. TakenCount' = Len(gathered) + 1
    BY <1>1, <1>2, <1>3 DEF TakenCount, NoCopy
  <2> QED
    BY <1>1, <2>1 DEF RootsOwn, RootsRemain, NothingLeft
<1>11. Balanced'
  <2>1. InCopy(copy)' = 0 /\ InCopy(copy) = 0
    BY <1>1, <1>2 DEF InCopy, NoCopy
  <2> QED
    BY <1>1, <1>4, <2>1 DEF AInv, Balanced
<1> QED
  BY <1>4, <1>5, <1>6, <1>7, <1>8, <1>9, <1>10, <1>11 DEF Accounts, AInv

(* The argument of a parameter.                                            *)
LEMMA ParameterIsArgument ==
  ASSUME Given, NEW i \in Indices(program), IsParameter(program, i)
  PROVE  IsArgument(program.arguments[Node(i).count])
<1>1. KindOf(program, i) = "ParameterBorrow"
  BY DEF IsParameter
<1>2. program.nodes[i].count \in DOMAIN program.arguments
  BY <1>1, GivenIsVerified DEF IsRunnable
<1> QED
  BY <1>2, ArgumentsAre DEF Node

(* No child of a tuple but its first is a tuple of anything.               *)
LEMMA ChildIsFlat ==
  ASSUME Given, ~NestsTupleLate(program),
         NEW c \in Indices(program), KindOf(program, c) = "TupleConstruct",
         NEW k \in DOMAIN EdgesOf(program, c), k > 1,
         NEW v, Proper(v), Conforms(v, TypeOf(program, EdgesOf(program, c)[k].producer))
  PROVE  v.elems = <<>>
<1> DEFINE e == EdgesOf(program, c)[k]
           type == TypeOf(program, e.producer)
<1>1. NodeShape(program, c)
  BY GivenIsVerified
<1>2. e.access \in {"WholeValue", "BindingMove"}
  BY <1>1 DEF NodeShape
<1>3. TypeOf(program, c).elems = [l \in DOMAIN EdgesOf(program, c) |-> EdgeType(program, EdgesOf(program, c)[l])]
  BY <1>1 DEF NodeShape
<1>4. EdgeType(program, e) = type
  BY <1>2 DEF EdgeType
<1>5. k \in DOMAIN TypeOf(program, c).elems /\ TypeOf(program, c).elems[k] = type
  BY <1>3, <1>4
<1>6. type.elems = <<>>
  BY <1>5 DEF NestsTupleLate
<1> HIDE DEF type
<1>7. CASE v.tag = "tuple"
  <2>1. Len(v.elems) = 0
    BY <1>6, <1>7 DEF Conforms, type
  <2>2. IsSequence(v.elems)
    BY ProperIs, ProperSequence
  <2> QED
    BY <2>1, <2>2 DEF IsSequence
<1> QED
  BY <1>7, ProperIs

(* TakeChild: a child that moves takes its charge along; one that only     *)
(* stands for an argument is to be copied, unless nothing is charged for it. *)
LEMMA TakeChildAccounts ==
  ASSUME AInv, MInv, MInv', TakeChild
  PROVE  Accounts
<1> DEFINE k == Len(gathered) + 1
           e == EdgesOf(program, At)[k]
           i == e.producer
           rest == [slots EXCEPT ![i] = Empty]
<1>1. stage = "Tuple" /\ copy = NoCopy /\ Len(gathered) < Len(Node(Current).edges) /\ IInv
  BY DEF TakeChild, MInv
<1>2. /\ Given /\ At \in Indices(program) /\ At \in Nat /\ Current = At
      /\ KindOf(program, At) = "TupleConstruct"
      /\ Holds(program, slots, At, ChildrenTaken(TakenCount)) /\ AllFit(program, slots)
      /\ IsSequence(gathered) /\ Len(gathered) \in Nat
      /\ Node(Current).edges = EdgesOf(program, At)
      /\ DOMAIN EdgesOf(program, At) = 1 .. Len(EdgesOf(program, At))
      /\ Len(EdgesOf(program, At)) \in Nat
  BY <1>1, TupleHolds
<1>3. IsProgram(program) /\ Verified(program) /\ AsLowered(program)
      /\ NodeCount \in Nat /\ Indices(program) = 1 .. NodeCount
  BY <1>2, GivenIsVerified, NodesAre
<1>4. k \in DOMAIN EdgesOf(program, At) /\ k \in Nat /\ (gathered # <<>> => k > 1)
  <2>1. gathered # <<>> => Len(gathered) # 0
    BY <1>2 DEF IsSequence
  <2> QED
    BY <1>1, <1>2, <2>1
<1>5. IF e.ownership = "InfallibleTransfer" THEN TakeTransfer(i)
      ELSE \/ Readable(e) /\ StartCopy(EdgeValue(e), slots)
           \/ GiveUp("Invariant", usage, slots)
  BY <1>2 DEF TakeChild
<1> HIDE DEF k
<1>6. /\ e.access \in {"WholeValue", "BindingMove"}
      /\ \/ e.ownership = "InfallibleTransfer" /\ Takes(program, At, i)
         \/ e.ownership = "ImmutableBorrow" /\ IsParameter(program, i)
  BY <1>2, <1>3, <1>4, ChildrenMove
<1>7. i \in Indices(program) /\ SlotFits(program, i, slots[i])
  BY <1>2, <1>3, <1>4, EdgeIsVerified DEF AllFit
<1>8. AllSized(slots) /\ Sized(slots[i]) /\ ~NestsTupleLate(program)
  BY <1>3, <1>7 DEF AInv, AllSized
<1>9. AllSized(rest) /\ InSlots(slots) = InSlots(rest) + Weight(slots[i])
  BY <1>2, <1>3, <1>7, <1>8, TakeOut
<1>10. /\ RootsRemain(slots) /\ RootsRemain(rest)
  BY <1>1 DEF RootsRemain
<1>11. \A u, s : ~GiveUp("Invariant", u, s)
  BY NeverForAnInvariant DEF GiveUp
<1>12. ASSUME e.ownership = "InfallibleTransfer", Takes(program, At, i)
       PROVE  Accounts
  <2> DEFINE readable == CASE slots[i].kind = "Alias" -> HasValue(rest, slots[i].node)
                           [] OTHER -> slots[i] # Empty
             value == IF slots[i].kind = "Alias" THEN SlotValue(rest, slots[i].node)
                      ELSE ValueIn(slots[i])
  <2>1. /\ readable
        /\ IF slots[i].kind = "Owned" \/ ~IsCopied(value) THEN Collect(value, rest)
           ELSE StartCopy(value, rest)
    BY <1>5, <1>11, <1>12 DEF TakeTransfer
  <2>2. CASE slots[i].kind = "Owned"
    <3> DEFINE v == slots[i].value
    <3>1. value = v
      BY <2>2 DEF ValueIn
    <3>2. Collect(v, rest)
      BY <2>1, <2>2, <3>1
    <3>3. Proper(v) /\ Weight(slots[i]) = v.bytes
      BY <1>8, <2>2 DEF Sized, Weight
    <3>4. Conforms(v, TypeOf(program, i))
      BY <1>7, <2>2 DEF SlotFits, Empty
    <3>5. gathered # <<>> => v.elems = <<>>
      <4> HIDE DEF v
      <4> QED
        BY <1>2, <1>4, <1>8, <3>3, <3>4, ChildIsFlat
    <3> HIDE DEF v, rest
    <3> QED
      BY <1>1, <1>9, <1>10, <3>2, <3>3, <3>5, CollectAccounts
  <2>3. CASE slots[i].kind # "Owned"
    <3>1. slots[i].kind = "Alias"
      <4>1. ~IsParameter(program, i)
        BY <1>2, <1>3, <1>7, <1>12, TakerIsOwner
      <4>2. slots[i] # Empty
        BY <2>1 DEF Empty
      <4> QED
        BY <1>7, <2>3, <4>1, <4>2 DEF SlotFits
    <3>2. slots[i].node \in 1 .. i - 1 /\ IsParameter(program, slots[i].node)
      <4>1. /\ slots[i].node \in 1 .. i - 1
            /\ IsParameter(program, slots[i].node) \/ Borrows(program, i)
        BY <1>7, <3>1 DEF SlotFits, Empty
      <4>2. KindOf(program, i) \notin BorrowingKind
        BY <1>2, <1>3, <1>7, <1>12, BorrowIsNotMoved
      <4> QED
        BY <4>1, <4>2 DEF Borrows
    <3> DEFINE t == slots[i].node
    <3>3. t \in Indices(program) /\ t # i
      BY <1>3, <1>7, <3>2
    <3>4. AllFit(program, rest)
      <4> HIDE DEF i
      <4>1. rest = Without(slots, {i})
        BY <1>2, <1>7, TakingOne
      <4>2. Holds(program, Without(slots, {i}), At, ChildrenTaken(TakenCount) \union {i})
        BY <1>2, TakingKeeps
      <4> QED
        BY <4>1, <4>2 DEF Holds
    <3>5. HasValue(rest, t) /\ value = SlotValue(rest, t)
      BY <2>1, <3>1
    <3> HIDE DEF rest, value, t
    <3>6. rest[t] # Empty
      <4>1. rest[t] = Empty => Resolve(rest, t) = t
        <5>1. /\ Indices(program) = 1 .. Len(program.nodes) /\ Len(program.nodes) \in Nat
              /\ DOMAIN rest = 1 .. Len(program.nodes)
              /\ PointsBack(rest, Len(program.nodes))
          BY <1>3, <3>4, FittingPointsBack
        <5>2. Resolve(rest, t) = IF rest[t].kind = "Alias" THEN Resolve(rest, rest[t].node) ELSE t
          BY <3>3, <5>1, ResolveStep
        <5> QED
          BY <5>2 DEF Empty
      <4> QED
        BY <3>5, <4>1 DEF HasValue, Empty
    <3>7. value = program.arguments[Node(t).count]
      BY <1>2, <3>2, <3>3, <3>4, <3>5, <3>6, ParameterIsBorrowed DEF t
    <3>8. IsArgument(value)
      BY <1>2, <3>2, <3>3, <3>7, ParameterIsArgument DEF t
    <3>9. Weight(slots[i]) = 0
      BY <2>3 DEF Weight
    <3>10. InSlots(rest) \in Nat /\ InSlots(slots) = InSlots(rest)
      BY <1>2, <1>9, <3>9, InSlotsIs
    <3>11. CASE ~IsCopied(value)
      <4>1. Collect(value, rest)
        BY <2>1, <3>11
      <4>2. Proper(value) /\ value.elems = <<>> /\ value.bytes = value.own
        BY <3>8, ArgumentIsProper
      <4>3. value.own = 0
        BY <3>8, <3>11 DEF IsCopied, IsArgument, IsCharge
      <4> QED
        BY <1>1, <1>9, <1>10, <3>10, <4>1, <4>2, <4>3, CollectAccounts
    <3>12. CASE IsCopied(value)
      <4>1. StartCopy(value, rest)
        BY <2>1, <2>3, <3>12
      <4> QED
        BY <1>1, <1>9, <1>10, <3>8, <3>10, <4>1, StartCopyAccounts
    <3> QED
      BY <3>11, <3>12
  <2> QED
    BY <2>2, <2>3
<1>13. ASSUME e.ownership = "ImmutableBorrow", IsParameter(program, i)
       PROVE  Accounts
  <2>1. Readable(e) /\ StartCopy(EdgeValue(e), slots)
    BY <1>5, <1>11, <1>13
  <2>2. EdgeValue(e) = SlotValue(slots, i) /\ HasValue(slots, i)
    BY <1>6, <2>1 DEF EdgeValue, Readable, TakesElement
  <2> HIDE DEF i, e
  <2>3. slots[i] # Empty
    <3>1. slots[i] = Empty => Resolve(slots, i) = i
      <4>1. /\ Indices(program) = 1 .. Len(program.nodes) /\ Len(program.nodes) \in Nat
            /\ DOMAIN slots = 1 .. Len(program.nodes)
            /\ PointsBack(slots, Len(program.nodes))
        BY <1>2, <1>3, FittingPointsBack
      <4>2. Resolve(slots, i) = IF slots[i].kind = "Alias" THEN Resolve(slots, slots[i].node) ELSE i
        BY <1>7, <4>1, ResolveStep
      <4> QED
        BY <4>2 DEF Empty
    <3> QED
      BY <2>2, <3>1 DEF HasValue, Empty
  <2>4. SlotValue(slots, i) = program.arguments[Node(i).count]
    BY <1>2, <1>7, <1>13, <2>3, ParameterIsBorrowed
  <2>5. IsArgument(EdgeValue(e))
    BY <1>2, <1>7, <1>13, <2>2, <2>4, ParameterIsArgument
  <2> DEFINE value == EdgeValue(e)
  <2>6. IsArgument(value) /\ StartCopy(value, slots)
    BY <2>1, <2>5
  <2> HIDE DEF value
  <2> QED
    BY <1>1, <1>8, <1>10, <2>6, StartCopyAccounts
<1> HIDE DEF i, e
<1> QED
  BY <1>6, <1>12, <1>13

(* A copy in progress is of an argument.                                   *)
LEMMA CopyIs ==
  ASSUME AInv, MInv, copy # NoCopy
  PROVE  /\ stage \in {"Tuple", "Outputs"} /\ Given
         /\ \E v : IsArgument(v) /\ copy \in {Copying(v), Copied(v)}
BY DEF AInv, CopySized, MInv, IInv, CopyInPlace

(* An argument on the stack of a copy is its only value.                   *)
LEMMA OneThenNone ==
  ASSUME NEW v, IsArgument(v)
  PROVE  Last(<<v>>) = v /\ Front(<<v>>) \o v.elems = <<>> /\ <<v>> # <<>>
<1>1. Proper(v) /\ v.elems = <<>>
  BY ArgumentIsProper
<1>2. AllProper(<<v>>) /\ <<v>> # <<>> /\ Len(<<v>>) = 1
  BY <1>1, OneIsProper
<1>3. /\ AllProper(Front(<<v>>)) /\ Len(Front(<<v>>)) = 0 /\ Last(<<v>>) = <<v>>[1]
  <2> DEFINE s == <<v>>
  <2>1. AllProper(s) /\ s # <<>> /\ Len(s) = 1
    BY <1>2
  <2> HIDE DEF s
  <2>2. AllProper(Front(s)) /\ Len(Front(s)) = Len(s) - 1 /\ Last(s) = s[Len(s)]
    BY <2>1, ProperLast
  <2>3. Len(Front(s)) = 0
    BY <2>1, <2>2
  <2> QED
    BY <2>1, <2>2, <2>3 DEF s
<1>4. Front(<<v>>) = <<>>
  <2> DEFINE f == Front(<<v>>)
  <2>1. IsSequence(f) /\ Len(f) = 0
    BY <1>3, ProperSequence
  <2> HIDE DEF f
  <2>2. f = <<>>
    BY <2>1 DEF IsSequence
  <2> QED
    BY <2>2 DEF f
<1> QED
  BY <1>1, <1>2, <1>3, <1>4

(* What the copy of an argument asks for.                                  *)
LEMMA CopyDecides ==
  ASSUME AInv, MInv, NEW v, IsArgument(v)
  PROVE  v.own \in Nat /\ Decides(configuration, usage, CopyDecision(v), v.own)
<1>1. /\ configuration \in Configuration /\ InBounds(configuration, usage)
      /\ usage \in ResourceUsage /\ usage.live \in Nat /\ Climbs(usage, usage)
  BY NumbersAre, StaysUp DEF AInv, Configured
<1>2. v.own \in Nat /\ v.tag \in {"scalar", "vector", "string"} /\ (v.tag = "scalar" => v.own = 0)
  BY DEF IsArgument, IsCharge
<1>3. CASE v.tag = "string"
  BY <1>1, <1>2, <1>3, RequestsDecide DEF CopyDecision
<1>4. CASE v.tag = "vector"
  BY <1>1, <1>2, <1>4, RequestsDecide DEF CopyDecision
<1>5. CASE v.tag = "scalar"
  <2> DEFINE d == CopyDecision(v)
  <2>1. d = [verdict |-> Granted, bytes |-> 0, work |-> 0, usage |-> usage]
    BY <1>5 DEF CopyDecision
  <2> HIDE DEF d
  <2>2. Admitted(d) /\ d.bytes = v.own /\ d.usage = usage /\ usage.live = usage.live + v.own
    BY <1>1, <1>2, <1>5, <2>1 DEF Admitted
  <2>3. Decides(configuration, usage, d, v.own)
    BY <1>1, <2>2 DEF Decides
  <2> QED
    BY <1>2, <2>3 DEF d
<1> QED
  BY <1>2, <1>3, <1>4, <1>5

(* CopyNext: an argument is admitted as a whole, or its copy is given up.  *)
LEMMA CopyNextAccounts ==
  ASSUME AInv, MInv, MInv', CopyNext
  PROVE  Accounts
<1>1. copy # NoCopy /\ copy.pending # <<>>
  BY DEF CopyNext
<1>2. PICK v : IsArgument(v) /\ copy \in {Copying(v), Copied(v)}
  BY <1>1, CopyIs
<1>3. copy = Copying(v) /\ stage \in {"Tuple", "Outputs"} /\ Given
  BY <1>1, <1>2, CopyIs, CopiedIs
<1>4. Last(<<v>>) = v /\ Front(<<v>>) \o v.elems = <<>> /\ v.own \in Nat
  BY <1>2, OneThenNone, CopyDecides
<1>5. Last(copy.pending) = v /\ Front(copy.pending) \o v.elems = <<>> /\ copy.admitted = 0
  BY <1>3, <1>4 DEF Copying
<1> DEFINE d == CopyDecision(v)
<1>6. \/ /\ Admitted(d)
         /\ copy' = [copy EXCEPT !.pending = <<>>, !.admitted = 0 + d.bytes]
         /\ usage' = d.usage
         /\ UNCHANGED <<program, configuration, slots, stage, agenda, gathered,
                        table, loaned, error, results>>
      \/ /\ ~Admitted(d)
         /\ GiveUp("Resource", Refund(d.usage, 0), slots)
  BY <1>5 DEF CopyNext
<1>7. Decides(configuration, usage, d, v.own)
  BY <1>2, CopyDecides
<1>8. /\ configuration \in Configuration /\ usage \in ResourceUsage /\ usage.live \in Nat
      /\ InCopy(copy) = 0
  BY <1>1, <1>5, NumbersAre DEF AInv, Configured, InCopy
<1> HIDE DEF d
<1>9. /\ InBounds(configuration, d.usage) /\ Climbs(usage, d.usage) /\ d.usage \in ResourceUsage
      /\ d.usage.live \in Nat
  BY <1>7, UsageIs DEF Decides, InBounds
<1>10. CASE ~Admitted(d) /\ GiveUp("Resource", Refund(d.usage, 0), slots)
  <2> DEFINE u == Refund(d.usage, 0)
  <2>1. InBounds(configuration, u) /\ Climbs(d.usage, u) /\ u.live = d.usage.live - 0
    BY <1>8, <1>9, RefundGivesBack
  <2>2. d.usage.live = usage.live
    BY <1>7, <1>10 DEF Decides
  <2>3. u \in ResourceUsage /\ u.live = usage.live - InCopy(copy)
    BY <1>8, <2>1, <2>2 DEF InBounds
  <2> HIDE DEF u
  <2>4. Climbs(usage, u)
    BY <1>8, <1>9, <2>1, <2>3, ClimbsOn
  <2> QED
    BY <1>3, <1>10, <2>1, <2>3, <2>4, GiveUpAccounts DEF Reason, u
<1>11. ASSUME Admitted(d), copy' = [copy EXCEPT !.pending = <<>>, !.admitted = 0 + d.bytes],
              usage' = d.usage,
              UNCHANGED <<program, configuration, slots, stage, agenda, gathered,
                          table, loaned, error, results>>
       PROVE  Accounts
  <2>1. d.bytes = v.own /\ d.usage.live = usage.live + v.own
    BY <1>7, <1>11 DEF Decides
  <2>2. copy' = Copied(v)
    <3>1. 0 + d.bytes = v.own
      BY <1>4, <2>1
    <3>2. copy' = [Copying(v) EXCEPT !.pending = <<>>, !.admitted = v.own]
      BY <1>3, <1>11, <3>1
    <3> QED
      BY <3>2 DEF Copied
  <2>3. Copied(v) # NoCopy /\ Copied(v).admitted = v.own
    BY CopiedIs
  <2>4. ~NestsTupleLate(program)' /\ AllSized(slots)' /\ InSlots(slots)' = InSlots(slots)
        /\ InArguments(loaned)' = InArguments(loaned)
    BY <1>11, SameProgram DEF AInv
  <2>5. Configured' /\ Climbs(usage, usage')
    BY <1>8, <1>9, <1>11 DEF Configured, InBounds
  <2>6. Staged' /\ GatheredSized' /\ ResultsSized'
    BY <1>11 DEF AInv, Staged, Stage, GatheredSized, ResultsSized
  <2>7. TableSized'
    <3>1. EdgesOf(program, At)' = EdgesOf(program, At)
      BY <1>11 DEF EdgesOf, At, NodeCount
    <3> QED
      BY <1>11, <3>1 DEF AInv, TableSized
  <2>8. CopySized'
    BY <1>2, <2>2 DEF CopySized
  <2>9. RootsOwn' /\ NothingLeft'
    <3>1. TakenCount' = TakenCount
      BY <1>1, <1>11, <2>2, <2>3 DEF TakenCount
    <3> QED
      BY <1>3, <1>11, <3>1 DEF AInv, RootsOwn, NothingLeft
  <2>10. Balanced'
    <3>1. InCopy(copy)' = v.own
      BY <2>2, <2>3 DEF InCopy, NoCopy
    <3>2. usage.live = InSlots(slots) + InArguments(loaned) + Total("bytes", gathered) + table
                         + Total("bytes", results)
      BY <1>8, NumbersAre DEF AInv, Balanced
    <3>3. usage'.live = InSlots(slots) + InArguments(loaned) + Total("bytes", gathered) + table
                          + Total("bytes", results) + v.own
      BY <1>11, <2>1, <3>2
    <3> QED
      BY <1>11, <2>4, <3>1, <3>3 DEF Balanced
  <2> QED
    BY <2>4, <2>5, <2>6, <2>7, <2>8, <2>9, <2>10 DEF Accounts, AInv
<1> QED
  BY <1>6, <1>10, <1>11

(* CopyReserveFails: nothing has been charged for the copy.                *)
LEMMA CopyReserveFailsAccounts ==
  ASSUME AInv, MInv, MInv', CopyReserveFails
  PROVE  Accounts
<1>1. copy # NoCopy /\ copy.pending # <<>>
  BY DEF CopyReserveFails
<1>2. PICK v : IsArgument(v) /\ copy \in {Copying(v), Copied(v)}
  BY <1>1, CopyIs
<1>3. copy = Copying(v) /\ stage \in {"Tuple", "Outputs"}
  BY <1>1, <1>2, CopyIs, CopiedIs
<1>4. Last(copy.pending).elems = <<>> /\ copy.admitted = 0
  BY <1>2, <1>3, OneThenNone, ArgumentIsProper DEF Copying
<1>5. GiveUp("Host", usage, slots)
  BY <1>4 DEF CopyReserveFails
<1>6. /\ InBounds(configuration, usage) /\ Climbs(usage, usage) /\ usage.live \in Nat
  BY NumbersAre, StaysUp DEF AInv, Configured
<1>7. usage.live = usage.live - InCopy(copy)
  BY <1>1, <1>4, <1>6 DEF InCopy
<1> QED
  BY <1>3, <1>5, <1>6, <1>7, GiveUpAccounts DEF Reason

(* CopyDone: what was admitted for the copy is what the collected value is *)
(* charged for, or is given back.                                          *)
LEMMA CopyDoneAccounts ==
  ASSUME AInv, MInv, MInv', CopyDone
  PROVE  Accounts
<1>1. copy # NoCopy /\ copy.pending = <<>>
  BY DEF CopyDone
<1>2. PICK v : IsArgument(v) /\ copy \in {Copying(v), Copied(v)}
  BY <1>1, CopyIs
<1>3. copy = Copied(v) /\ stage \in {"Tuple", "Outputs"}
  BY <1>1, <1>2, CopyIs, OneThenNone DEF Copying
<1>4. Proper(v) /\ v.elems = <<>> /\ v.bytes = v.own
  BY <1>2, ArgumentIsProper
<1>5. copy.value = v /\ copy.admitted = v.own /\ InCopy(copy) = v.own
  BY <1>1, <1>3, CopiedIs DEF InCopy
<1>6. /\ configuration \in Configuration /\ InBounds(configuration, usage)
      /\ usage \in ResourceUsage /\ usage.live \in Nat /\ Climbs(usage, usage) /\ v.own \in Nat
  BY <1>2, NumbersAre, StaysUp, CopyDecides DEF AInv, Configured
<1>7. /\ AllProper(gathered) /\ results = <<>>
      /\ IsSequence(gathered) /\ Len(gathered) \in Nat /\ DOMAIN gathered = 1 .. Len(gathered)
  BY <1>3, ProperSequence DEF AInv, GatheredSized, ResultsSized
<1>8. usage.live = InSlots(slots) + InArguments(loaned) + Total("bytes", gathered) + table + v.own
  BY <1>5, <1>7, NumbersAre, NoneIsProper DEF AInv, Balanced
<1>9. \/ /\ gathered' = Append(gathered, v) /\ copy' = NoCopy
         /\ UNCHANGED <<program, configuration, usage, slots, stage, agenda, table,
                        loaned, error, results>>
      \/ GiveUp("Host", Refund(usage, v.own), slots)
  BY <1>5 DEF CopyDone
<1>10. CASE GiveUp("Host", Refund(usage, v.own), slots)
  <2> DEFINE u == Refund(usage, v.own)
  <2>1. v.own <= usage.live
    BY <1>6, <1>8, NumbersAre
  <2>2. InBounds(configuration, u) /\ Climbs(usage, u) /\ u.live = usage.live - InCopy(copy)
    BY <1>5, <1>6, <2>1, RefundGivesBack
  <2> HIDE DEF u
  <2> QED
    BY <1>3, <1>10, <2>2, GiveUpAccounts DEF Reason, u
<1>11. ASSUME gathered' = Append(gathered, v), copy' = NoCopy,
              UNCHANGED <<program, configuration, usage, slots, stage, agenda, table,
                          loaned, error, results>>
       PROVE  Accounts
  <2>1. AllProper(gathered') /\ Total("bytes", gathered') = Total("bytes", gathered) + v.bytes
    BY <1>4, <1>7, <1>11, ProperAppends
  <2>2. /\ Len(gathered') = Len(gathered) + 1 /\ IsSequence(gathered')
        /\ \A k \in 1 .. Len(gathered) : gathered'[k] = gathered[k]
        /\ gathered'[Len(gathered) + 1] = v
    BY <1>7, <1>11, AppendIsSequence, AppendAt
  <2>3. ~NestsTupleLate(program)' /\ AllSized(slots)' /\ InSlots(slots)' = InSlots(slots)
        /\ InArguments(loaned)' = InArguments(loaned)
    BY <1>11, SameProgram DEF AInv
  <2>4. Configured' /\ Climbs(usage, usage')
    BY <1>6, <1>11 DEF Configured, InBounds
  <2>5. Staged'
    BY <1>11 DEF AInv, Staged, Stage
  <2>6. GatheredSized'
    <3>1. ASSUME stage = "Tuple", NEW k \in DOMAIN gathered', k > 1
          PROVE  gathered'[k].elems = <<>>
      <4>1. k \in 1 .. Len(gathered) + 1
        BY <2>2 DEF IsSequence
      <4>2. CASE k \in 1 .. Len(gathered)
        <5>1. gathered[k].elems = <<>>
          BY <1>7, <3>1, <4>2 DEF AInv, GatheredSized
        <5> QED
          BY <2>2, <4>2, <5>1
      <4>3. CASE k = Len(gathered) + 1
        BY <1>4, <2>2, <4>3
      <4> QED
        BY <1>7, <4>1, <4>2, <4>3
    <3>2. AllProper(gathered)'
      BY <2>1
    <3>3. stage' \notin {"Tuple", "Outputs", "Unwind"} => gathered' = <<>>
      BY <1>3, <1>11
    <3>4. stage' = "Tuple" => \A k \in DOMAIN gathered' : k > 1 => gathered'[k].elems = <<>>
      BY <1>11, <3>1
    <3> QED
      BY <3>2, <3>3, <3>4 DEF GatheredSized
  <2>7. TableSized'
    <3>1. EdgesOf(program, At)' = EdgesOf(program, At)
      BY <1>11 DEF EdgesOf, At, NodeCount
    <3> QED
      BY <1>11, <3>1 DEF AInv, TableSized
  <2>8. CopySized' /\ ResultsSized'
    BY <1>7, <1>11, NoneIsProper DEF CopySized, ResultsSized, NoCopy
  <2>9. RootsOwn' /\ NothingLeft'
    <3>1. TakenCount' = TakenCount
      BY <1>1, <1>7, <1>11, <2>2 DEF TakenCount, NoCopy
    <3> QED
      BY <1>3, <1>11, <3>1 DEF AInv, RootsOwn, NothingLeft
  <2>10. Balanced'
    <3>1. InCopy(copy)' = 0
      BY <1>11 DEF InCopy, NoCopy
    <3>2. usage.live = InSlots(slots) + InArguments(loaned) + Total("bytes", gathered') + table
      BY <1>4, <1>6, <1>8, <2>1, NumbersAre
    <3>3. Total("bytes", gathered') \in Nat
      BY <2>1, ProperSequence
    <3> QED
      BY <1>7, <1>11, <2>3, <3>1, <3>2, <3>3, NumbersAre, NoneIsProper DEF Balanced
  <2> QED
    BY <2>3, <2>4, <2>5, <2>6, <2>7, <2>8, <2>9, <2>10 DEF Accounts, AInv
<1> QED
  BY <1>9, <1>10, <1>11

(* EndTuple: the tuple is charged for its table and for what it collected. *)
LEMMA EndTupleAccounts ==
  ASSUME AInv, MInv, MInv', EndTuple
  PROVE  Accounts
<1> DEFINE value == TupleValue(gathered)
           accounted == gathered # <<>>
           slot == Owned(value, accounted)
           n == Len(EdgesOf(program, At))
           st == ReleaseAfter([slots EXCEPT ![At] = slot], usage, At)
<1>1. stage = "Tuple" /\ copy = NoCopy /\ Len(gathered) = Len(Node(Current).edges) /\ IInv
  BY DEF EndTuple, MInv
<1>2. /\ Given /\ At \in Indices(program) /\ Current = At /\ agenda # <<>>
      /\ Holds(program, slots, At, ChildrenTaken(TakenCount)) /\ IsSequence(gathered)
      /\ Node(Current).edges = EdgesOf(program, At) /\ n \in Nat
  BY <1>1, TupleHolds
<1>3. slots[At] = Empty
  BY <1>2, DestinationIsEmpty
<1>4. At \in 1 .. NodeCount
  BY <1>2, NodesAre
<1>5. /\ AllProper(gathered) /\ \A k \in DOMAIN gathered : k > 1 => gathered[k].elems = <<>>
      /\ table = SlotBytes * n /\ results = <<>> /\ AllSized(slots)
  BY <1>1 DEF AInv, GatheredSized, TableSized, ResultsSized
<1>6. Proper(value) /\ value.bytes = table + Total("bytes", gathered)
  <2>1. Proper(value) /\ value.bytes = SlotBytes * Len(gathered) + Total("bytes", gathered)
    BY <1>5, TupleIsProper
  <2> QED
    BY <1>1, <1>2, <1>5, <2>1
<1>7. accounted \in BOOLEAN /\ (~accounted => value.bytes = 0)
  <2>1. CASE gathered = <<>>
    <3>1. n = 0 /\ Total("bytes", gathered) = 0
      BY <1>1, <1>2, <2>1, NoneIsProper
    <3>2. table = 0
      BY <1>5, <3>1, UsizeAssumption
    <3> QED
      BY <1>6, <3>1, <3>2
  <2>2. CASE gathered # <<>>
    BY <2>2
  <2> QED
    BY <2>1, <2>2
<1>8. /\ stage' = "Nodes" /\ agenda' = Tail(agenda) /\ gathered' = <<>> /\ table' = 0
      /\ usage' = st.usage /\ slots' = st.slots
      /\ program' = program /\ configuration' = configuration /\ copy' = copy
      /\ loaned' = loaned /\ error' = error /\ results' = results
  BY <1>2, <1>3 DEF EndTuple
<1> HIDE DEF value, accounted
<1>9. Sized(slot) /\ Weight(slot) = value.bytes
  BY <1>6, <1>7 DEF Sized, Weight, Owned
<1>10. /\ InBounds(configuration, usage) /\ usage \in ResourceUsage /\ Climbs(usage, usage)
  BY NumbersAre, StaysUp DEF AInv, Configured
<1>11. usage.live = InSlots(slots) + Weight(slot) + InArguments(loaned)
  <2>1. usage.live = InSlots(slots) + InArguments(loaned) + Total("bytes", gathered) + table
    BY <1>1, <1>5, NumbersAre, NoneIsProper DEF AInv, Balanced, InCopy
  <2> QED
    BY <1>6, <1>9, <2>1, NumbersAre
<1> HIDE DEF slot
<1>12. /\ AllSized(st.slots) /\ InBounds(configuration, st.usage) /\ Climbs(usage, st.usage)
       /\ st.usage.live = InSlots(st.slots) + InArguments(loaned)
  BY <1>3, <1>4, <1>5, <1>9, <1>10, <1>11, PutGivesBack
<1> HIDE DEF st
<1>13. /\ AllSized(slots') /\ InBounds(configuration, usage') /\ Climbs(usage, usage')
       /\ usage'.live = InSlots(slots') + InArguments(loaned)
  BY <1>8, <1>12
<1> QED
  BY <1>1, <1>2, <1>8, <1>13, DoneAccounts

(* A node that no root delivers is released by another.                    *)
LEMMA ReleasedUnlessRoot ==
  ASSUME NEW p, IsProgram(p), Verified(p), AsLowered(p), NEW i \in Indices(p),
         ~IsParameter(p, i), RootsAt(p, i) = {}
  PROVE  \E j \in Indices(p) : p.releases[i] = AtNode(j)
<1> DEFINE n == Len(p.nodes)
<1>1. n \in Nat /\ Indices(p) = 1 .. n
  BY NumberedFromOne
<1>2. p.releases[i] = ExpectedRelease(p, i) /\ p.releases[i] # AtNode(NoNode)
  BY DEF Verified, Ownership
<1>3. Consumers(p, i) \subseteq 1 .. n /\ FanOutsRootedAt(p, i) \subseteq 1 .. n
  BY <1>1, ConsumerHasEdge, RootingHasPlace DEF FanOuts
<1>4. CASE KindOf(p, i) = "Binding"
  <2>1. p.releases[i] = AtNode(Max(RecordedConsumers(p, i)))
    BY <1>4 DEF AsLowered, ReleasedByLastRecorded, NodesOf
  <2>2. UsesOf(p, i, BindingAccess) # {}
    BY <1>4 DEF Verified, UserBindingUses
  <2>3. Consumers(p, i) # {}
    BY <2>2 DEF UsesOf, Consumers
  <2>4. RecordedConsumers(p, i) \subseteq 1 .. n /\ RecordedConsumers(p, i) # {}
    BY <1>1, <2>3, ConsumerHasEdge DEF RecordedConsumers
  <2>5. Max(RecordedConsumers(p, i)) \in 1 .. n
    BY <1>1, <2>4, GreatestOf
  <2> QED
    BY <1>1, <2>1, <2>5
<1>5. CASE KindOf(p, i) # "Binding"
  <2>1. p.releases[i] = AtNode(LastUse(p, i)) /\ LastUse(p, i) # NoNode
    BY <1>2, <1>5 DEF ExpectedRelease
  <2>2. CASE FanOutsRootedAt(p, i) # {}
    BY <1>1, <1>3, <2>1, <2>2, GreatestOf DEF LastUse
  <2>3. CASE FanOutsRootedAt(p, i) = {}
    <3>1. Consumers(p, i) # {} /\ LastUse(p, i) = Max(Consumers(p, i))
      BY <2>1, <2>3 DEF LastUse
    <3> QED
      BY <1>1, <1>3, <2>1, <3>1, GreatestOf
  <2> QED
    BY <2>2, <2>3
<1> QED
  BY <1>4, <1>5

(* EnterOutputs: what is still owned is to be delivered.                   *)
LEMMA EnterOutputsAccounts ==
  ASSUME AInv, MInv, MInv', EnterOutputs
  PROVE  Accounts
<1>1. /\ stage = "Nodes" /\ agenda = <<>> /\ stage' = "Outputs"
      /\ program' = program /\ configuration' = configuration /\ usage' = usage /\ slots' = slots
      /\ agenda' = agenda /\ gathered' = gathered /\ table' = table /\ copy' = copy
      /\ loaned' = loaned /\ error' = error /\ results' = results
  BY DEF EnterOutputs
<1>2. /\ gathered = <<>> /\ copy = NoCopy /\ table = 0 /\ results = <<>> /\ error = None
      /\ Climbs(usage, usage)
  BY <1>1, NodesAccount
<1>3. /\ Given /\ Holds(program, slots, At, {}) /\ AllFit(program, slots)
  BY <1>1 DEF MInv, IInv, NodesInPlace, Holds
<1>4. /\ IsProgram(program) /\ Verified(program) /\ AsLowered(program)
      /\ Indices(program) = 1 .. NodeCount /\ NodeCount \in Nat
  BY <1>3, GivenIsVerified DEF NodeCount
<1>5. At = NodeCount + 1
  BY <1>1, <1>4 DEF At
<1>6. ASSUME NEW i \in Indices(program), slots[i].kind = "Owned"
      PROVE  \E r \in DOMAIN program.roots : r > 0 /\ program.roots[r] = i
  <2>1. slots[i] # Empty /\ SlotFits(program, i, slots[i])
    BY <1>3, <1>6 DEF Empty, AllFit
  <2>2. ~IsParameter(program, i)
    BY <1>6, <2>1 DEF SlotFits
  <2>3. ~Gone(program, i, At)
    BY <1>3, <2>1 DEF Holds
  <2>4. RootsAt(program, i) # {}
    <3>1. SUFFICES ASSUME RootsAt(program, i) = {} PROVE FALSE
      OBVIOUS
    <3>2. PICK j \in Indices(program) : program.releases[i] = AtNode(j)
      BY <1>4, <2>2, <3>1, ReleasedUnlessRoot
    <3>3. j \in 1 .. At - 1
      BY <1>4, <1>5
    <3> QED
      BY <2>3, <3>2, <3>3 DEF Gone
  <2>5. program.roots \in Seq(Nat)
    BY <1>4 DEF IsProgram
  <2>6. PICK r \in DOMAIN program.roots : program.roots[r] = i
    BY <2>4 DEF RootsAt
  <2>7. r > 0
    BY <2>5, <2>6
  <2> QED
    BY <2>6, <2>7
<1>7. ~NestsTupleLate(program)' /\ AllSized(slots)' /\ InSlots(slots)' = InSlots(slots)
      /\ InArguments(loaned)' = InArguments(loaned)
  BY <1>1, SameProgram DEF AInv
<1>8. Configured' /\ Staged'
  BY <1>1, <1>2 DEF AInv, Configured, InBounds, Staged, Stage
<1>9. GatheredSized' /\ TableSized' /\ CopySized' /\ ResultsSized'
  BY <1>1, <1>2, NoneIsProper DEF GatheredSized, TableSized, CopySized, ResultsSized, NoCopy
<1>10. RootsOwn' /\ NothingLeft'
  <2>1. TakenCount' = 0
    BY <1>1, <1>2 DEF TakenCount, NoCopy
  <2> QED
    BY <1>1, <1>6, <2>1 DEF RootsOwn, NothingLeft
<1>11. Balanced'
  BY <1>1, <1>7 DEF AInv, Balanced, InCopy, NoCopy
<1> QED
  BY <1>1, <1>2, <1>7, <1>8, <1>9, <1>10, <1>11 DEF Accounts, AInv

(* Taking an output moves its bytes from the slot to what is collected.    *)
LEMMA TakeOutputAccounts ==
  ASSUME AInv, MInv, MInv', TakeOutput
  PROVE  Accounts
<1> DEFINE k == Len(gathered) + 1
           r == program.roots[k]
           rest == [slots EXCEPT ![r] = Empty]
<1>1. stage = "Outputs" /\ copy = NoCopy /\ IInv
  BY DEF TakeOutput, MInv
<1>2. /\ r \in Indices(program) /\ k \in DOMAIN program.roots
      /\ \/ /\ slots[r].kind = "Owned" /\ SlotFits(program, r, slots[r])
            /\ Collect(slots[r].value, rest)
         \/ /\ slots[r].kind # "Owned"
            /\ \E t \in Indices(program) :
                 IsParameter(program, t) /\ StartCopy(program.arguments[Node(t).count], slots)
  BY <1>1, OutputIsTaken
<1>3. /\ Given /\ Indices(program) = 1 .. NodeCount
  BY NumbersAre
<1>4. Len(gathered) \in Nat /\ AllSized(slots) /\ DOMAIN program.roots \subseteq Nat
  <2>1. AllProper(gathered) /\ AllSized(slots)
    BY DEF AInv, GatheredSized
  <2>2. program.roots \in Seq(Nat)
    BY <1>3, GivenIsVerified DEF IsProgram
  <2> QED
    BY <2>1, <2>2, ProperSequence
<1>5. ASSUME NEW i \in Indices(program), i # r, slots[i].kind = "Owned"
      PROVE  \E l \in DOMAIN program.roots : l > k /\ program.roots[l] = i
  <2>1. TakenCount = Len(gathered)
    BY <1>1, <1>4 DEF TakenCount
  <2>2. PICK l \in DOMAIN program.roots : l > Len(gathered) /\ program.roots[l] = i
    BY <1>1, <1>5, <2>1 DEF AInv, RootsOwn
  <2>3. l # k
    BY <1>5, <2>2
  <2>4. l > k
    BY <1>4, <2>2, <2>3
  <2> QED
    BY <2>2, <2>4
<1>6. AllSized(rest) /\ InSlots(slots) = InSlots(rest) + Weight(slots[r]) /\ Sized(slots[r])
  <2> HIDE DEF r
  <2>1. r \in 1 .. NodeCount
    BY <1>2, <1>3
  <2> QED
    BY <1>3, <1>4, <2>1, TakeOut DEF AllSized
<1>7. \A i \in Indices(program) : rest[i].kind = "Owned" => i # r /\ slots[i].kind = "Owned"
  <2>1. \A i \in Indices(program) : rest[i] = IF i = r THEN Empty ELSE slots[i]
    BY <1>3, <1>4 DEF AllSized
  <2> QED
    BY <2>1 DEF Empty
<1>8. RootsRemain(rest)
  BY <1>5, <1>7 DEF RootsRemain
<1>9. ASSUME slots[r].kind = "Owned", Collect(slots[r].value, rest)
      PROVE  Accounts
  <2> DEFINE v == slots[r].value
  <2>1. Proper(v) /\ InSlots(slots) = InSlots(rest) + v.bytes /\ Collect(v, rest)
    BY <1>6, <1>9 DEF Sized, Weight
  <2> HIDE DEF v, rest
  <2> QED
    BY <1>1, <1>6, <1>8, <2>1, CollectAccounts
<1>10. ASSUME slots[r].kind # "Owned", NEW t \in Indices(program), IsParameter(program, t),
              StartCopy(program.arguments[Node(t).count], slots)
       PROVE  Accounts
  <2> DEFINE v == program.arguments[Node(t).count]
  <2>1. IsArgument(v) /\ StartCopy(v, slots)
    BY <1>3, <1>10, ParameterIsArgument
  <2>2. RootsRemain(slots)
    BY <1>5, <1>10 DEF RootsRemain
  <2> HIDE DEF v
  <2> QED
    BY <1>1, <1>4, <2>1, <2>2, StartCopyAccounts
<1> QED
  BY <1>2, <1>9, <1>10

(* Deliver: every root is taken, so nothing is owned any more.             *)
LEMMA DeliverAccounts ==
  ASSUME AInv, MInv, MInv', Deliver
  PROVE  Accounts
<1>1. /\ stage = "Outputs" /\ copy = NoCopy /\ Len(gathered) = Len(program.roots)
      /\ stage' = "Return" /\ results' = gathered /\ gathered' = <<>>
      /\ program' = program /\ configuration' = configuration /\ usage' = usage /\ slots' = slots
      /\ agenda' = agenda /\ table' = table /\ copy' = copy /\ loaned' = loaned /\ error' = error
  BY DEF Deliver
<1>2. /\ Given /\ Indices(program) = 1 .. NodeCount /\ Climbs(usage, usage)
  BY NumbersAre, StaysUp
<1>3. /\ AllProper(gathered) /\ table = 0 /\ results = <<>> /\ error = None /\ AllSized(slots)
  BY <1>1 DEF AInv, GatheredSized, TableSized, ResultsSized, Staged
<1>4. InSlots(slots) = 0
  <2>1. TakenCount = Len(program.roots) /\ Len(gathered) \in Nat
    BY <1>1, <1>3, ProperSequence DEF TakenCount
  <2>2. program.roots \in Seq(Nat)
    BY <1>2, GivenIsVerified DEF IsProgram
  <2>3. \A i \in 1 .. NodeCount : slots[i].kind # "Owned"
    BY <1>1, <1>2, <2>1, <2>2 DEF AInv, RootsOwn
  <2> QED
    BY <1>2, <1>3, <2>3, NothingOwned DEF AllSized
<1>5. ~NestsTupleLate(program)' /\ AllSized(slots)' /\ InSlots(slots)' = 0
      /\ InArguments(loaned)' = InArguments(loaned)
  BY <1>1, <1>4, SameProgram DEF AInv
<1>6. Configured' /\ Staged'
  BY <1>1, <1>3 DEF AInv, Configured, InBounds, Staged, Stage
<1>7. GatheredSized' /\ TableSized' /\ CopySized' /\ ResultsSized'
  BY <1>1, <1>3, NoneIsProper DEF GatheredSized, TableSized, CopySized, ResultsSized, NoCopy
<1>8. RootsOwn' /\ NothingLeft'
  BY <1>1, <1>5 DEF RootsOwn, NothingLeft
<1>9. Balanced'
  <2>1. InCopy(copy) = 0 /\ InCopy(copy)' = 0
    BY <1>1 DEF InCopy, NoCopy
  <2>2. usage.live = InArguments(loaned) + Total("bytes", gathered)
    BY <1>3, <1>4, <2>1, NumbersAre, NoneIsProper DEF AInv, Balanced
  <2> QED
    BY <1>1, <1>3, <1>5, <2>1, <2>2, NumbersAre, NoneIsProper DEF Balanced
<1> QED
  BY <1>1, <1>2, <1>5, <1>6, <1>7, <1>8, <1>9 DEF Accounts, AInv

(***************************************************************************)
(* Giving back, and the end.                                               *)
(***************************************************************************)
(* No copy is in progress any more, and usage is given back so many bytes. *)
LEMMA GivingBack ==
  ASSUME AInv, MInv, stage \in {"Unwind", "Cleanup", "Return"}
  PROVE  /\ copy = NoCopy /\ InCopy(copy) = 0 /\ Climbs(usage, usage)
         /\ usage.live = InSlots(slots) + InArguments(loaned) + Total("bytes", gathered) + table
                           + Total("bytes", results)
         /\ \A bytes \in Nat : bytes <= usage.live =>
              LET u == Refund(usage, bytes)
              IN InBounds(configuration, u) /\ Climbs(usage, u) /\ u.live = usage.live - bytes
<1>1. copy = NoCopy /\ InCopy(copy) = 0
  BY DEF MInv, IInv, CopyInPlace, InCopy
<1>2. usage.live = InSlots(slots) + InArguments(loaned) + Total("bytes", gathered) + table
                     + Total("bytes", results)
  BY <1>1, NumbersAre DEF AInv, Balanced
<1>3. configuration \in Configuration /\ InBounds(configuration, usage) /\ Climbs(usage, usage)
  BY NumbersAre, StaysUp DEF AInv, Configured
<1>4. ASSUME NEW bytes \in Nat, bytes <= usage.live
      PROVE  LET u == Refund(usage, bytes)
             IN InBounds(configuration, u) /\ Climbs(usage, u) /\ u.live = usage.live - bytes
  BY <1>3, <1>4, RefundGivesBack
<1> QED
  BY <1>1, <1>2, <1>3, <1>4

(* Unwind: each value is given back what it was charged for, the table     *)
(* last.                                                                   *)
LEMMA UnwindAccounts ==
  ASSUME AInv, MInv, MInv', Unwind
  PROVE  Accounts
<1> DEFINE last == Last(gathered)
           front == Front(gathered)
<1>1. /\ stage = "Unwind"
      /\ program' = program /\ configuration' = configuration /\ slots' = slots
      /\ agenda' = agenda /\ copy' = copy /\ loaned' = loaned /\ error' = error /\ results' = results
  BY DEF Unwind
<1>2. \/ /\ gathered # <<>> /\ usage' = Refund(usage, CanonicalBytes(last)) /\ gathered' = front
         /\ stage' = "Unwind" /\ table' = table
      \/ /\ gathered = <<>> /\ usage' = Refund(usage, table) /\ table' = 0 /\ stage' = "Cleanup"
         /\ gathered' = <<>>
  BY <1>1 DEF Unwind
<1>3. /\ copy = NoCopy /\ InCopy(copy) = 0 /\ AllProper(gathered) /\ results = <<>> /\ table \in Nat
      /\ InSlots(slots) \in Nat /\ InArguments(loaned) \in Nat /\ Total("bytes", gathered) \in Nat
      /\ usage.live = InSlots(slots) + InArguments(loaned) + Total("bytes", gathered) + table
      /\ Total("bytes", results) = 0
  BY <1>1, NumbersAre, GivingBack, NoneIsProper DEF AInv, GatheredSized, ResultsSized
<1>4. ~NestsTupleLate(program)' /\ AllSized(slots)' /\ InSlots(slots)' = InSlots(slots)
      /\ InArguments(loaned)' = InArguments(loaned)
  BY <1>1, SameProgram DEF AInv
<1>5. \E bytes \in Nat :
        /\ bytes <= usage.live /\ usage' = Refund(usage, bytes)
        /\ AllProper(gathered') /\ table' \in Nat /\ Total("bytes", gathered') \in Nat
        /\ Total("bytes", gathered') + table' = Total("bytes", gathered) + table - bytes
  <2>1. CASE gathered # <<>> /\ usage' = Refund(usage, CanonicalBytes(last)) /\ gathered' = front /\ table' = table
    <3>1. /\ AllProper(front) /\ Proper(last)
          /\ Total("bytes", gathered) = Total("bytes", front) + last.bytes
      BY <1>3, <2>1, ProperLast
    <3>2. CanonicalBytes(last) = last.bytes /\ last.bytes \in Nat /\ Total("bytes", front) \in Nat
      BY <3>1, CanonicalBytesAre, ProperIs, ProperSequence
    <3> HIDE DEF last, front
    <3>3. last.bytes <= usage.live
      BY <1>3, <3>1, <3>2
    <3>4. Total("bytes", front) + table = Total("bytes", gathered) + table - last.bytes
      BY <1>3, <3>1, <3>2
    <3> QED
      BY <1>3, <2>1, <3>1, <3>2, <3>3, <3>4
  <2>2. CASE gathered = <<>> /\ usage' = Refund(usage, table) /\ table' = 0 /\ gathered' = <<>>
    <3>1. Total("bytes", gathered) = 0 /\ Total("bytes", gathered') = 0 /\ AllProper(gathered')
      BY <2>2, NoneIsProper
    <3> QED
      BY <1>3, <2>2, <3>1
  <2> QED
    BY <1>2, <2>1, <2>2
<1>6. PICK bytes \in Nat :
        /\ bytes <= usage.live /\ usage' = Refund(usage, bytes)
        /\ AllProper(gathered') /\ table' \in Nat /\ Total("bytes", gathered') \in Nat
        /\ Total("bytes", gathered') + table' = Total("bytes", gathered) + table - bytes
  BY <1>5
<1>7. InBounds(configuration, usage') /\ Climbs(usage, usage') /\ usage'.live = usage.live - bytes
  BY <1>1, <1>6, GivingBack
<1>8. stage' \in {"Unwind", "Cleanup"} /\ (stage' = "Cleanup" => gathered' = <<>> /\ table' = 0)
  BY <1>2
<1>9. Configured' /\ Staged'
  BY <1>1, <1>7, <1>8 DEF AInv, Configured, InBounds, Staged, Stage
<1>10. GatheredSized' /\ TableSized' /\ CopySized' /\ ResultsSized'
  BY <1>1, <1>3, <1>6, <1>8, NoneIsProper DEF GatheredSized, TableSized, CopySized, ResultsSized, NoCopy
<1>11. RootsOwn' /\ NothingLeft'
  BY <1>8 DEF RootsOwn, NothingLeft
<1>12. Balanced'
  <2>1. InCopy(copy)' = 0
    BY <1>1, <1>3 DEF InCopy, NoCopy
  <2>2. usage'.live = InSlots(slots) + InArguments(loaned) + Total("bytes", gathered') + table'
    <3> DEFINE held == InSlots(slots) + InArguments(loaned)
               was == Total("bytes", gathered)
               is == Total("bytes", gathered')
               left == table'
               live == usage'.live
    <3>1. /\ held \in Nat /\ was \in Nat /\ is \in Nat /\ table \in Nat /\ left \in Nat /\ bytes \in Nat
          /\ is + left = was + table - bytes
      BY <1>3, <1>6
    <3>2. live = usage.live - bytes /\ usage.live = held + was + table
      BY <1>3, <1>7
    <3> HIDE DEF held, was, is, left, live
    <3>3. live = held + is + left
      BY <3>1, <3>2
    <3> QED
      BY <3>3 DEF held, is, left, live
  <2> QED
    BY <1>1, <1>3, <1>4, <1>6, <2>1, <2>2 DEF Balanced
<1> QED
  BY <1>4, <1>7, <1>9, <1>10, <1>11, <1>12 DEF Accounts, AInv

(* CleanupSlot: a slot is given back what is charged for it.               *)
LEMMA CleanupSlotAccounts ==
  ASSUME AInv, MInv, MInv', CleanupSlot
  PROVE  Accounts
<1> DEFINE owners == {Max(Filled)}
           rest == Without(slots, owners)
           bytes == ReleasedBytes(slots, owners)
<1>1. /\ stage = "Cleanup" /\ Filled # {} /\ slots' = rest /\ usage' = Refund(usage, bytes)
      /\ program' = program /\ configuration' = configuration /\ stage' = stage
      /\ agenda' = agenda /\ gathered' = gathered /\ table' = table /\ copy' = copy
      /\ loaned' = loaned /\ error' = error /\ results' = results
  BY DEF CleanupSlot
<1>2. /\ Given /\ NodeCount \in Nat /\ Indices(program) = 1 .. NodeCount /\ AllSized(slots)
  BY NumbersAre DEF AInv
<1>3. owners \in SUBSET (1 .. NodeCount)
  <2>1. Filled \in SUBSET (1 .. NodeCount)
    BY <1>2 DEF Filled
  <2>2. Max(Filled) \in Filled
    BY <1>1, <1>2, <2>1, GreatestOf
  <2> QED
    BY <2>1, <2>2
<1> HIDE DEF owners
<1>4. AllSized(rest) /\ bytes \in Nat /\ InSlots(slots) = InSlots(rest) + bytes
  BY <1>2, <1>3, WithoutWeighs
<1> HIDE DEF rest, bytes
<1>5. /\ copy = NoCopy /\ gathered = <<>> /\ results = <<>> /\ table = 0
      /\ InSlots(slots) \in Nat /\ InSlots(rest) \in Nat /\ InArguments(loaned) \in Nat
      /\ usage.live = InSlots(slots) + InArguments(loaned)
  <2>1. gathered = <<>> /\ results = <<>> /\ table = 0
    BY <1>1 DEF AInv, GatheredSized, ResultsSized, TableSized
  <2> QED
    BY <1>1, <1>2, <1>4, <2>1, NumbersAre, GivingBack, NoneIsProper, InSlotsIs
<1>6. bytes <= usage.live
  BY <1>4, <1>5
<1>7. InBounds(configuration, usage') /\ Climbs(usage, usage') /\ usage'.live = usage.live - bytes
  BY <1>1, <1>4, <1>6, GivingBack
<1>8. ~NestsTupleLate(program)' /\ AllSized(slots)' /\ InSlots(slots)' = InSlots(rest)
      /\ InArguments(loaned)' = InArguments(loaned)
  BY <1>1, <1>4, SameProgram DEF AInv
<1>9. Configured' /\ Staged'
  BY <1>1, <1>7 DEF AInv, Configured, InBounds, Staged, Stage
<1>10. GatheredSized' /\ TableSized' /\ CopySized' /\ ResultsSized'
  BY <1>1, <1>5, NoneIsProper DEF GatheredSized, TableSized, CopySized, ResultsSized, NoCopy
<1>11. RootsOwn' /\ NothingLeft'
  BY <1>1 DEF RootsOwn, NothingLeft
<1>12. Balanced'
  <2>1. InCopy(copy)' = 0
    BY <1>1, <1>5 DEF InCopy, NoCopy
  <2>2. usage'.live = InSlots(rest) + InArguments(loaned)
    BY <1>4, <1>5, <1>7
  <2> QED
    BY <1>1, <1>5, <1>8, <2>1, <2>2, NoneIsProper DEF Balanced
<1> QED
  BY <1>7, <1>8, <1>9, <1>10, <1>11, <1>12 DEF Accounts, AInv

(* CleanupDone: empty slots hold nothing.                                  *)
LEMMA CleanupDoneAccounts ==
  ASSUME AInv, MInv, MInv', CleanupDone
  PROVE  Accounts
<1>1. /\ stage = "Cleanup" /\ Filled = {} /\ stage' = "Return"
      /\ program' = program /\ configuration' = configuration /\ usage' = usage /\ slots' = slots
      /\ agenda' = agenda /\ gathered' = gathered /\ table' = table /\ copy' = copy
      /\ loaned' = loaned /\ error' = error /\ results' = results
  BY DEF CleanupDone
<1>2. /\ Given /\ Indices(program) = 1 .. NodeCount /\ AllSized(slots)
      /\ copy = NoCopy /\ gathered = <<>> /\ results = <<>> /\ table = 0 /\ Climbs(usage, usage)
  BY <1>1, NumbersAre, GivingBack DEF AInv, GatheredSized, ResultsSized, TableSized
<1>3. InSlots(slots) = 0
  <2>1. \A i \in 1 .. NodeCount : slots[i].kind # "Owned"
    BY <1>1, <1>2 DEF Filled, Empty
  <2> QED
    BY <1>2, <2>1, NothingOwned DEF AllSized
<1>4. ~NestsTupleLate(program)' /\ AllSized(slots)' /\ InSlots(slots)' = InSlots(slots)
      /\ InArguments(loaned)' = InArguments(loaned)
  BY <1>1, SameProgram DEF AInv
<1>5. Configured' /\ Staged'
  BY <1>1 DEF AInv, Configured, InBounds, Staged, Stage
<1>6. GatheredSized' /\ TableSized' /\ CopySized' /\ ResultsSized'
  BY <1>1, <1>2, NoneIsProper DEF GatheredSized, TableSized, CopySized, ResultsSized, NoCopy
<1>7. RootsOwn' /\ NothingLeft'
  BY <1>1, <1>3, <1>4 DEF RootsOwn, NothingLeft
<1>8. Balanced'
  BY <1>1, <1>2, <1>4 DEF AInv, Balanced, InCopy, NoCopy
<1> QED
  BY <1>1, <1>2, <1>4, <1>5, <1>6, <1>7, <1>8 DEF Accounts, AInv

(* ReturnArgument: an argument is given back what it was charged for.      *)
LEMMA ReturnArgumentAccounts ==
  ASSUME AInv, MInv, MInv', ReturnArgument
  PROVE  Accounts
<1> DEFINE m == loaned - 1
           bytes == ArgumentBytes(m + 1)
<1>1. /\ stage = "Return" /\ loaned # 0 /\ loaned' = m
      /\ usage' = IF program.arguments[loaned].tag = "string"
                  THEN Refund(usage, program.arguments[loaned].own) ELSE usage
      /\ program' = program /\ configuration' = configuration /\ slots' = slots
      /\ stage' = stage /\ agenda' = agenda /\ gathered' = gathered /\ table' = table
      /\ copy' = copy /\ error' = error /\ results' = results
  BY DEF ReturnArgument
<1>2. /\ Given /\ loaned \in 0 .. Len(program.arguments) /\ Len(program.arguments) \in Nat
      /\ DOMAIN program.arguments = 1 .. Len(program.arguments)
  BY NumbersAre, ArgumentsAre DEF AInv, Staged
<1>3. m \in 0 .. Len(program.arguments) /\ m < Len(program.arguments) /\ m + 1 = loaned
      /\ loaned \in DOMAIN program.arguments
  BY <1>1, <1>2
<1> HIDE DEF m
<1>4. InArguments(loaned) = InArguments(m) + bytes /\ InArguments(m) \in Nat /\ bytes \in Nat
  <2>1. InArguments(m + 1) = InArguments(m) + ArgumentBytes(m + 1)
    BY <1>2, <1>3, NextArgument
  <2>2. ArgumentBytes(m + 1) \in Nat
    BY <1>2, <1>3, ArgumentsAre
  <2> QED
    BY <1>2, <1>3, <2>1, <2>2, InArgumentsIs
<1>5. /\ program.arguments[loaned].tag = "string" => usage' = Refund(usage, bytes)
      /\ program.arguments[loaned].tag # "string" => usage' = usage /\ bytes = 0
  BY <1>1, <1>3 DEF ArgumentBytes
<1> HIDE DEF bytes
<1>6. /\ copy = NoCopy /\ gathered = <<>> /\ table = 0 /\ InSlots(slots) = 0
      /\ Total("bytes", results) \in Nat
      /\ usage.live = InArguments(loaned) + Total("bytes", results)
      /\ Climbs(usage, usage) /\ usage.live \in Nat
  <2>1. gathered = <<>> /\ table = 0 /\ InSlots(slots) = 0
    BY <1>1 DEF AInv, GatheredSized, TableSized, NothingLeft
  <2> QED
    BY <1>1, <2>1, NumbersAre, GivingBack, NoneIsProper
<1>7. bytes <= usage.live
  BY <1>4, <1>6
<1>8. InBounds(configuration, usage') /\ Climbs(usage, usage') /\ usage'.live = usage.live - bytes
  <2>1. CASE program.arguments[loaned].tag = "string"
    BY <1>1, <1>4, <1>5, <1>7, <2>1, GivingBack
  <2>2. CASE program.arguments[loaned].tag # "string"
    BY <1>4, <1>5, <1>6, <2>2 DEF AInv, Configured
  <2> QED
    BY <2>1, <2>2
<1>9. ~NestsTupleLate(program)' /\ AllSized(slots)' /\ InSlots(slots)' = 0
      /\ InArguments(loaned)' = InArguments(m)
  BY <1>1, <1>6, SameProgram DEF AInv
<1>10. Configured' /\ Staged'
  BY <1>1, <1>3, <1>8 DEF AInv, Configured, InBounds, Staged, Stage
<1>11. GatheredSized' /\ TableSized' /\ CopySized' /\ ResultsSized'
  BY <1>1, <1>6, NoneIsProper DEF AInv, GatheredSized, TableSized, CopySized, ResultsSized, NoCopy
<1>12. RootsOwn' /\ NothingLeft'
  BY <1>1, <1>9 DEF RootsOwn, NothingLeft
<1>13. Balanced'
  <2>1. InCopy(copy)' = 0
    BY <1>1, <1>6 DEF InCopy, NoCopy
  <2>2. usage'.live = InArguments(m) + Total("bytes", results)
    BY <1>4, <1>6, <1>8
  <2> QED
    BY <1>1, <1>4, <1>6, <1>9, <2>1, <2>2, NoneIsProper DEF Balanced
<1> QED
  BY <1>8, <1>9, <1>10, <1>11, <1>12, <1>13 DEF Accounts, AInv

(* Finish.                                                                 *)
LEMMA FinishAccounts ==
  ASSUME AInv, MInv, MInv', Finish
  PROVE  Accounts
<1>1. /\ stage = "Return" /\ loaned = 0 /\ stage' = "Done"
      /\ program' = program /\ configuration' = configuration /\ usage' = usage /\ slots' = slots
      /\ agenda' = agenda /\ gathered' = gathered /\ table' = table /\ copy' = copy
      /\ loaned' = loaned /\ error' = error /\ results' = results
  BY DEF Finish
<1>2. /\ copy = NoCopy /\ gathered = <<>> /\ table = 0 /\ InSlots(slots) = 0 /\ Climbs(usage, usage)
  BY <1>1, GivingBack DEF AInv, GatheredSized, TableSized, NothingLeft
<1>3. ~NestsTupleLate(program)' /\ AllSized(slots)' /\ InSlots(slots)' = InSlots(slots)
      /\ InArguments(loaned)' = InArguments(loaned)
  BY <1>1, SameProgram DEF AInv
<1>4. Configured' /\ Staged'
  BY <1>1 DEF AInv, Configured, InBounds, Staged, Stage
<1>5. GatheredSized' /\ TableSized' /\ CopySized' /\ ResultsSized'
  BY <1>1, <1>2, NoneIsProper DEF AInv, GatheredSized, TableSized, CopySized, ResultsSized, NoCopy
<1>6. RootsOwn' /\ NothingLeft'
  BY <1>1, <1>2, <1>3 DEF RootsOwn, NothingLeft
<1>7. Balanced'
  BY <1>1, <1>2, <1>3 DEF AInv, Balanced, InCopy, NoCopy
<1> QED
  BY <1>1, <1>2, <1>3, <1>4, <1>5, <1>6, <1>7 DEF Accounts, AInv

(* Nothing happens.                                                        *)
LEMMA StutterAccounts ==
  ASSUME AInv, MInv, UNCHANGED vars
  PROVE  Accounts
<1>1. /\ program' = program /\ configuration' = configuration /\ usage' = usage /\ slots' = slots
      /\ stage' = stage /\ agenda' = agenda /\ gathered' = gathered /\ table' = table
      /\ copy' = copy /\ loaned' = loaned /\ error' = error /\ results' = results
  BY DEF vars
<1>2. ~NestsTupleLate(program)' /\ AllSized(slots)' /\ InSlots(slots)' = InSlots(slots)
      /\ InArguments(loaned)' = InArguments(loaned)
  BY <1>1, SameProgram DEF AInv
<1>3. Configured' /\ Staged' /\ Climbs(usage, usage')
  BY <1>1, NumbersAre, StaysUp DEF AInv, Configured, InBounds, Staged
<1>4. GatheredSized' /\ CopySized' /\ ResultsSized'
  BY <1>1 DEF AInv, GatheredSized, CopySized, ResultsSized
<1>5. TableSized'
  <2>1. EdgesOf(program, At)' = EdgesOf(program, At)
    BY <1>1 DEF EdgesOf, At, NodeCount
  <2> QED
    BY <1>1, <2>1 DEF AInv, TableSized
<1>6. RootsOwn' /\ NothingLeft'
  <2>1. TakenCount' = TakenCount
    BY <1>1 DEF TakenCount
  <2> QED
    BY <1>1, <1>2, <2>1 DEF AInv, RootsOwn, NothingLeft
<1>7. Balanced'
  BY <1>1, <1>2 DEF AInv, Balanced, InCopy
<1> QED
  BY <1>2, <1>3, <1>4, <1>5, <1>6, <1>7 DEF Accounts, AInv

(***************************************************************************)
(* The theorems.                                                           *)
(***************************************************************************)
LEMMA NextAccounts ==
  ASSUME AInv, MInv, MInv', [Next]_vars
  PROVE  Accounts
<1>1. CASE UNCHANGED vars
  BY <1>1, StutterAccounts
<1>2. CASE Begin \/ AdmitArgument \/ EnterNodes \/ ReserveFails
  BY <1>2, BeginAccounts, AdmitArgumentAccounts, EnterNodesAccounts, ReserveFailsAccounts
<1>3. CASE ExecuteConstant \/ ExecuteParameter \/ ExecuteHandover \/ ExecuteFormat \/ ExecuteApply
             \/ ExecuteFanOut
  BY <1>3, ConstantAccounts, ParameterAccounts, HandoverAccounts, FormatAccounts, ApplyAccounts,
     FanOutAccounts
<1>4. CASE BeginTuple \/ TakeChild \/ CopyNext \/ CopyReserveFails \/ CopyDone \/ EndTuple
  BY <1>4, BeginTupleAccounts, TakeChildAccounts, CopyNextAccounts, CopyReserveFailsAccounts,
     CopyDoneAccounts, EndTupleAccounts
<1>5. CASE EnterOutputs \/ TakeOutput \/ Deliver
  BY <1>5, EnterOutputsAccounts, TakeOutputAccounts, DeliverAccounts
<1>6. CASE Unwind \/ CleanupSlot \/ CleanupDone \/ ReturnArgument \/ Finish
  BY <1>6, UnwindAccounts, CleanupSlotAccounts, CleanupDoneAccounts, ReturnArgumentAccounts,
     FinishAccounts
<1> QED
  BY <1>1, <1>2, <1>3, <1>4, <1>5, <1>6 DEF Next

(* Nothing is charged at the start.                                        *)
LEMMA InitAccounts ==
  ASSUME Init, MInv, ~NestsTupleLate(program)
  PROVE  AInv
<1>1. /\ stage = "Begin" /\ agenda = <<>> /\ gathered = <<>> /\ table = 0 /\ copy = NoCopy
      /\ loaned = 0 /\ error = None /\ results = <<>> /\ usage = InitialUsage
      /\ slots = [i \in Indices(program) |-> Empty] /\ configuration \in Configuration
  BY ConfigurationAssumption DEF Init
<1>2. Given /\ Len(program.arguments) \in Nat
  BY ArgumentsAre DEF MInv, IInv
<1>3. AllSized(slots) /\ InSlots(slots) = 0
  BY <1>1, <1>2, EmptySlots
<1>4. loaned \in 0 .. Len(program.arguments) /\ InArguments(loaned) = 0
  <2>1. loaned \in 0 .. Len(program.arguments)
    BY <1>1, <1>2
  <2> QED
    BY <1>1, <1>2, <2>1, InArgumentsIs
<1>5. Configured
  <2>1. usage \in ResourceUsage /\ usage.live = 0 /\ usage.peak = 0 /\ usage.work = 0
    BY <1>1, UsizeAssumption DEF ResourceUsage, InitialUsage, Usize
  <2>2. \A limit \in Optional(Nat) : Within(0, limit)
    BY DEF Optional, Within
  <2>3. configuration.max_live_evaluation_bytes \in Optional(Nat) /\ configuration.max_work_units \in Optional(Nat)
    BY <1>1 DEF Configuration
  <2> QED
    BY <1>1, <2>1, <2>2, <2>3 DEF Configured, InBounds
<1>6. Staged
  <2>1. agenda \in Seq(Indices(program))
    BY <1>1
  <2> QED
    BY <1>1, <1>4, <2>1 DEF Staged, Stage, Optional
<1>7. GatheredSized /\ TableSized /\ CopySized /\ ResultsSized
  BY <1>1, NoneIsProper DEF GatheredSized, TableSized, CopySized, ResultsSized
<1>8. RootsOwn /\ NothingLeft
  BY <1>1 DEF RootsOwn, NothingLeft
<1>9. Balanced
  BY <1>1, <1>3, <1>4, NoneIsProper DEF Balanced, InitialUsage, InCopy
<1> QED
  BY <1>3, <1>5, <1>6, <1>7, <1>8, <1>9 DEF AInv

(* Every byte has its place, always.                                       *)
THEOREM EveryByteHasItsPlace ==
  Spec /\ AsLowered(program) /\ ~NestsTupleLate(program) => [](MInv /\ AInv)
<1>1. Init /\ AsLowered(program) /\ ~NestsTupleLate(program) => MInv /\ AInv
  BY InitMeans, InitAccounts
<1>2. MInv /\ AInv /\ [Next]_vars => (MInv /\ AInv)'
  <2>1. ASSUME MInv, AInv, [Next]_vars
        PROVE  MInv' /\ AInv'
    <3>1. MInv'
      BY <2>1, NextKeepsMeaning
    <3>2. Accounts
      BY <2>1, <3>1, NextAccounts
    <3> QED
      BY <3>1, <3>2 DEF Accounts
  <2> QED
    BY <2>1
<1> QED
  BY <1>1, <1>2, PTL DEF Spec

(* What the ledger counts is what Held adds up.                            *)
THEOREM LiveIsAlwaysHeld ==
  Spec /\ AsLowered(program) /\ ~NestsTupleLate(program) => []LiveIsHeld
<1>1. ASSUME MInv, AInv
      PROVE  LiveIsHeld
  <2>1. Given /\ AllSized(slots) /\ loaned \in 0 .. Len(program.arguments)
    BY <1>1 DEF MInv, IInv, AInv, Staged
  <2>2. SumFunction([i \in Accounted(slots, Indices(program)) |-> slots[i].value.bytes])
          = InSlots(slots)
    BY <2>1, HeldInSlots
  <2>3. SumFunction([k \in 1 .. loaned |-> ArgumentBytes(k)]) = InArguments(loaned)
    BY <2>1, InArgumentsIs
  <2>4. Held = InSlots(slots) + InArguments(loaned) + Total("bytes", gathered) + table
                 + Total("bytes", results) + InCopy(copy)
    BY <2>2, <2>3 DEF Held, BytesOfAll, InCopy
  <2> QED
    BY <1>1, <2>4 DEF LiveIsHeld, AInv, Balanced
<1> QED
  BY <1>1, EveryByteHasItsPlace, PTL

(* TypeOK.                                                                 *)
THEOREM TypeCorrect ==
  Spec /\ AsLowered(program) /\ ~NestsTupleLate(program) => []TypeOK
<1>1. ASSUME MInv, AInv
      PROVE  TypeOK
  <2>1. /\ Given /\ AllFit(program, slots) /\ AllSized(slots)
        /\ DOMAIN slots = Indices(program) /\ Indices(program) = 1 .. NodeCount
    BY <1>1, NumbersAre DEF MInv, AllMean, AllFit, AInv
  <2>2. ASSUME NEW i \in Indices(program)
        PROVE  SlotOK(slots[i])
    <3>1. SlotFits(program, i, slots[i]) /\ Sized(slots[i])
      BY <2>1, <2>2 DEF AllFit, AllSized
    <3>2. CASE slots[i] = Empty
      BY <3>2 DEF SlotOK
    <3>3. CASE slots[i].kind = "Borrowed" /\ IsParameter(program, i)
               /\ slots[i].parameter = program.nodes[i].count
      <4>1. program.nodes[i].count \in DOMAIN program.arguments
        <5>1. KindOf(program, i) = "ParameterBorrow"
          BY <3>3 DEF IsParameter
        <5> QED
          BY <2>1, <2>2, <5>1, GivenIsVerified DEF IsRunnable
      <4> QED
        BY <3>3, <4>1 DEF SlotOK
    <3>4. CASE slots[i].kind = "Alias" /\ slots[i].node \in 1 .. i - 1
      <4>1. slots[i].node \in Indices(program)
        BY <2>1, <2>2, <3>4, NodesAre
      <4> QED
        BY <3>4, <4>1 DEF SlotOK
    <3>5. CASE slots[i].kind = "Owned"
      BY <3>1, <3>5, CanonicalBytesAre DEF SlotOK, Sized
    <3> QED
      BY <3>1, <3>2, <3>3, <3>4, <3>5 DEF SlotFits
  <2>3. copy = NoCopy \/ copy.admitted \in Usize
    <3>1. SUFFICES ASSUME copy # NoCopy PROVE copy.admitted \in Usize
      OBVIOUS
    <3>2. InCopy(copy) = copy.admitted
      BY <3>1 DEF InCopy
    <3>3. copy.admitted \in Nat /\ copy.admitted <= usage.live
      BY <1>1, <3>2, NumbersAre DEF AInv, Balanced
    <3>4. usage.live <= MaxUsize
      BY <1>1, NumbersAre, UsageIs
    <3>5. usage.live \in Nat /\ MaxUsize \in Nat
      BY <1>1, NumbersAre, UsizeAssumption
    <3> QED
      BY <3>3, <3>4, <3>5 DEF Usize
  <2>4. program \in Programs
    BY <2>1 DEF Given
  <2>5. /\ configuration \in Configuration /\ usage \in ResourceUsage /\ stage \in Stage
        /\ agenda \in Seq(Indices(program)) /\ loaned \in 0 .. Len(program.arguments)
        /\ error \in Optional(Reason)
    BY <1>1, NumbersAre DEF AInv, Configured, Staged
  <2> QED
    BY <2>1, <2>2, <2>3, <2>4, <2>5 DEF TypeOK
<1> QED
  BY <1>1, EveryByteHasItsPlace, PTL

(***************************************************************************)
(* What the caller sees.                                                   *)
(***************************************************************************)
(* A step stays with its program, and ends the evaluation once.            *)
LEMMA StepsOn ==
  ASSUME MInv, Next
  PROVE  /\ program' = program /\ configuration' = configuration /\ stage # "Done"
         /\ stage' # "Done" \/ Begin \/ Finish
<1>0. copy # NoCopy => stage \in {"Tuple", "Outputs"}
  BY DEF MInv, IInv, CopyInPlace
<1>1. CASE Begin \/ AdmitArgument \/ EnterNodes \/ ReserveFails
  BY <1>1 DEF Begin, AdmitArgument, EnterNodes, ReserveFails, Fail
<1>2. CASE ExecuteConstant \/ ExecuteParameter \/ ExecuteHandover \/ ExecuteFormat \/ ExecuteApply
             \/ ExecuteFanOut
  <2>1. /\ stage = "Nodes"
        /\ \/ \E r, u, s : Fail(r, u, s)
           \/ \E slot, u, s : PutThenRelease(slot, u, s)
           \/ \E slot, u, s : PutOnly(slot, u, s)
    <3>1. CASE ExecuteConstant
      BY <3>1 DEF ExecuteConstant, Executing, HostRefuses
    <3>2. CASE ExecuteParameter \/ ExecuteHandover
      BY <3>2 DEF ExecuteParameter, ExecuteHandover, Executing
    <3>3. CASE ExecuteFormat
      BY <3>3 DEF ExecuteFormat, Executing, HostRefuses
    <3>4. CASE ExecuteApply
      BY <3>4 DEF ExecuteApply, Executing
    <3>5. CASE ExecuteFanOut
      BY <3>5 DEF ExecuteFanOut, Executing
    <3> QED
      BY <1>2, <3>1, <3>2, <3>3, <3>4, <3>5
  <2>2. (\E r, u, s : Fail(r, u, s)) \/ (\E u, s : Proceed(u, s))
    BY <2>1 DEF PutThenRelease, PutOnly
  <2> QED
    BY <2>1, <2>2 DEF Fail, Proceed
<1>3. CASE BeginTuple \/ EndTuple
  BY <1>3 DEF BeginTuple, EndTuple, Executing, Fail
<1>4. CASE TakeChild \/ TakeOutput
  <2>1. /\ stage \in {"Tuple", "Outputs"}
        /\ \/ \E r, u, s : GiveUp(r, u, s)
           \/ \E v, s : Collect(v, s) \/ StartCopy(v, s)
    BY <1>4 DEF TakeChild, TakeTransfer, TakeOutput
  <2> QED
    BY <2>1 DEF GiveUp, Collect, StartCopy
<1>5. CASE CopyNext \/ CopyReserveFails \/ CopyDone
  <2>1. /\ stage \in {"Tuple", "Outputs"}
        /\ \/ \E r, u, s : GiveUp(r, u, s)
           \/ stage' = stage /\ program' = program /\ configuration' = configuration
    BY <1>0, <1>5 DEF CopyNext, CopyReserveFails, CopyDone
  <2> QED
    BY <2>1 DEF GiveUp
<1>6. CASE EnterOutputs \/ Deliver \/ Unwind \/ CleanupSlot \/ CleanupDone \/ ReturnArgument \/ Finish
  BY <1>6 DEF EnterOutputs, Deliver, Unwind, CleanupSlot, CleanupDone, ReturnArgument, Finish
<1> QED
  BY <1>1, <1>2, <1>3, <1>4, <1>5, <1>6 DEF Next

(* What the caller sees of a stage, an error and results.                  *)
OutcomeOf(st, er, res) ==
  [status |-> CASE st # "Done" -> "running"
                [] st = "Done" /\ er = None -> "delivered"
                [] OTHER -> "failed",
   values |-> IF st = "Done" THEN res ELSE <<>>]

(* What it is at each stage.                                               *)
LEMMA OutcomeIs ==
  ASSUME NEW st, NEW er, NEW res
  PROVE  /\ st # "Done" => OutcomeOf(st, er, res) = Abstract!Running
         /\ st = "Done" /\ er # None /\ res = <<>> => OutcomeOf(st, er, res) = Abstract!Failed
         /\ st = "Done" /\ er = None =>
              OutcomeOf(st, er, res).status = "delivered" /\ OutcomeOf(st, er, res).values = res
BY DEF OutcomeOf, Abstract!Running, Abstract!Failed

(* Evaluation counts what is delivered in the same way.                    *)
LEMMA CountedAlike ==
  ASSUME NEW values
  PROVE  Abstract!BytesOfAll(values) = Total("bytes", values)
BY DEF Abstract!BytesOfAll, Abstract!Total, Total, Abstract!FoldLeft, FoldLeft,
   Abstract!MapThenFoldSet, MapThenFoldSet, Abstract!Max, Max

(* A step of the usage that Evaluation allows.                             *)
LEMMA AccountHolds ==
  ASSUME AInv, MInv, MInv', Accounts, program' = program, configuration' = configuration
  PROVE  Abstract!Account
<1>1. /\ InBounds(configuration, usage') /\ Climbs(usage, usage') /\ configuration \in Configuration
  BY DEF Accounts, AInv, Configured, InBounds
<1>2. /\ usage' \in ResourceUsage /\ usage'.live <= usage'.peak
      /\ Within(usage'.peak, configuration.max_live_evaluation_bytes)
      /\ Within(usage'.work, configuration.max_work_units)
      /\ usage'.work >= usage.work /\ usage'.attempts >= usage.attempts /\ usage'.peak >= usage.peak
  BY <1>1 DEF InBounds, Climbs
<1>3. usage'.live \in Nat /\ usage'.peak \in Nat /\ usage.peak \in Nat
  BY <1>2, NumbersAre, UsageIs
<1>4. configuration.max_live_evaluation_bytes \in Optional(Nat)
  BY <1>1 DEF Configuration
<1>5. Within(usage'.live, configuration.max_live_evaluation_bytes)
  BY <1>2, <1>3, <1>4 DEF Within, Optional
<1>6. usage'.peak >= Abstract!Larger(usage.peak, usage'.live)
  BY <1>2, <1>3 DEF Abstract!Larger
<1> QED
  BY <1>2, <1>5, <1>6 DEF Abstract!Account, Abstract!InLimits, Abstract!Within, Within

(* Every step is one of Evaluation's, or none.                             *)
LEMMA StepImplements ==
  ASSUME AInv, MInv, MInv', Accounts, [Next]_vars
  PROVE  [Abstract!Next]_(Abstract!vars)
<1> DEFINE before == OutcomeOf(stage, error, results)
           after == OutcomeOf(stage', error', results')
<1>1. CASE UNCHANGED vars
  BY <1>1 DEF vars, Abstract!vars
<1>2. CASE Next
  <2>1. /\ program' = program /\ configuration' = configuration /\ stage # "Done"
        /\ stage' # "Done" \/ Begin \/ Finish
    BY <1>2, StepsOn
  <2>2. Abstract!Account
    BY <2>1, AccountHolds
  <2>3. before = Abstract!Running
    BY <2>1, OutcomeIs
  <2>4. CASE stage' # "Done"
    <3>1. after = Abstract!Running
      BY <2>4, OutcomeIs
    <3>2. Abstract!Proceed
      BY <2>2, <2>3, <3>1 DEF Abstract!Proceed, OutcomeOf
    <3> QED
      BY <3>2 DEF Abstract!Next
  <2>5. CASE stage' = "Done"
    <3>1. usage'.live = Total("bytes", results') /\ AllProper(results')
      <4>1. AInv'
        BY DEF Accounts
      <4>2. loaned' = 0 /\ gathered' = <<>> /\ table' = 0 /\ InSlots(slots)' = 0 /\ AllProper(results')
        BY <2>5, <4>1 DEF AInv, Staged, GatheredSized, TableSized, NothingLeft, ResultsSized
      <4>3. copy' = NoCopy
        BY <2>5 DEF MInv, IInv, CopyInPlace, NoCopy
      <4>4. InCopy(copy)' = 0 /\ Total("bytes", gathered') = 0 /\ Total("bytes", results') \in Nat
        BY <4>2, <4>3, NoneIsProper, ProperSequence DEF InCopy, NoCopy
      <4>5. InArguments(loaned)' = 0
        <5>1. Given /\ Len(program.arguments) \in Nat /\ 0 \in 0 .. Len(program.arguments)
          BY NumbersAre, ArgumentsAre
        <5>2. InArguments(0) = 0
          BY <5>1, InArgumentsIs
        <5>3. InArguments(loaned)' = InArguments(loaned')
          BY <2>1, SameProgram
        <5> QED
          BY <4>2, <5>2, <5>3
      <4> QED
        BY <4>1, <4>2, <4>4, <4>5 DEF AInv, Balanced
    <3>2. CASE error' = None
      <4>1. after.status = "delivered" /\ after.values = results'
        BY <2>5, <3>2, OutcomeIs
      <4>2. Abstract!LabelsIn(results') = Abstract!Promised(program)
        <5>1. Abstract!LabelsIn(results') = Abstract!Promised(program')
          BY <2>5, <3>2 DEF MInv, ResultsMean
        <5> QED
          BY <2>1, <5>1
      <4>3. usage'.live = Abstract!BytesOfAll(results')
        BY <3>1, CountedAlike
      <4>4. Abstract!Deliver
        BY <2>2, <2>3, <4>1, <4>2, <4>3 DEF Abstract!Deliver, OutcomeOf
      <4> QED
        BY <4>4 DEF Abstract!Next
    <3>3. CASE error' # None
      <4>1. results' = <<>>
        BY <3>3 DEF Accounts, AInv, ResultsSized
      <4>2. after = Abstract!Failed
        BY <2>5, <3>3, <4>1, OutcomeIs
      <4>3. usage'.live = 0
        BY <3>1, <4>1, NoneIsProper
      <4>4. Abstract!Refuse
        BY <2>2, <2>3, <4>2, <4>3 DEF Abstract!Refuse, OutcomeOf
      <4> QED
        BY <4>4 DEF Abstract!Next
    <3> QED
      BY <3>2, <3>3
  <2> QED
    BY <2>4, <2>5
<1> QED
  BY <1>1, <1>2

(* It begins where Evaluation does.                                        *)
LEMMA InitImplements ==
  ASSUME Init
  PROVE  Abstract!Init
<1>1. OutcomeOf(stage, error, results) = Abstract!Running
  BY OutcomeIs DEF Init
<1>2. usage = Abstract!InitialUsage
  BY DEF Init, InitialUsage, Abstract!InitialUsage
<1>3. program \in Programs /\ configuration \in Configurations /\ Abstract!ValidConfiguration(configuration)
  BY DEF Init, ValidConfiguration, Abstract!ValidConfiguration, AnyLimit, Abstract!AnyLimit
<1> QED
  BY <1>1, <1>2, <1>3 DEF Abstract!Init, OutcomeOf

(* The evaluation of a program lowered from source keeps what Evaluation   *)
(* promises.                                                               *)
THEOREM EvaluationIsImplemented ==
  Spec /\ AsLowered(program) /\ ~NestsTupleLate(program) => ImplementsEvaluation
<1>1. Init => Abstract!Init
  BY InitImplements
<1>2. (MInv /\ AInv) /\ (MInv /\ AInv)' /\ [Next]_vars => [Abstract!Next]_(Abstract!vars)
  <2>1. ASSUME MInv, AInv, MInv', [Next]_vars
        PROVE  [Abstract!Next]_(Abstract!vars)
    <3>1. Accounts
      BY <2>1, NextAccounts
    <3> QED
      BY <2>1, <3>1, StepImplements
  <2> QED
    BY <2>1
<1> QED
  BY <1>1, <1>2, EveryByteHasItsPlace, PTL DEF Spec, ImplementsEvaluation, Abstract!Spec
=============================================================================

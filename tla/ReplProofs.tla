----------------------------- MODULE ReplProofs -----------------------------
(***************************************************************************)
(* Theorems of the REPL, for every limit and every set of inputs.          *)
(***************************************************************************)
EXTENDS Repl, NumberInduction

(***************************************************************************)
(* What record does to the history of the REPL.                            *)
(***************************************************************************)
Text == Seq(STRING)
Entry == [number : Nat, text : Text]
HistoryType == [entries : Seq(Entry), retained : Nat, next : Nat]

TextLengths(texts) == [k \in 1..Len(texts) |-> Len(texts[k])]

\* SumsOf(texts)[k]: the bytes of the first k texts.
SumsOf(texts) == CHOOSE b : IsSums(b, TextLengths(texts), Len(texts))

\* The history holds the longest end of what was recorded that fits, each
\* entry numbered by its place among all that was recorded.
KeepsTheLast(h, told) ==
  /\ Len(h.entries) <= Len(told)
  /\ \A i \in 1..Len(h.entries) :
       h.entries[i] = [number |-> Len(told) - Len(h.entries) + i,
                       text   |-> told[Len(told) - Len(h.entries) + i]]
  /\ h.retained = SumsOf(told)[Len(told)]
                    - SumsOf(told)[Len(told) - Len(h.entries)]
  /\ Fits(Len(h.entries), h.retained)
  /\ \A l \in (Len(h.entries) + 1)..Len(told) :
       ~Fits(l, SumsOf(told)[Len(told)] - SumsOf(told)[Len(told) - l])
  /\ h.next = Len(told) + 1

(* The sums over the texts satisfy their equation: they are prefix sums. *)
LEMMA SumsOfIsSums ==
  ASSUME NEW texts \in Seq(Text)
  PROVE  IsSums(SumsOf(texts), TextLengths(texts), Len(texts))
<1> DEFINE w == TextLengths(texts)
           n == Len(texts)
<1>1. n \in Nat /\ w \in [1..n -> Nat]
  BY DEF TextLengths, Text
<1>2. PICK b : b = [k \in 0..n |-> IF k = 0 THEN 0 ELSE b[k - 1] + w[k]]
  <2> HIDE DEF w, n
  <2>. QED BY <1>1, PrefixSumsExist
<1>3. IsSums(b, w, n)
  <2> HIDE DEF w, n
  <2>. QED BY <1>1, <1>2, SolutionIsSums
<1>. QED BY <1>1, <1>3 DEF SumsOf

(* The recursive function BytesOf sums the lengths of the oldest entries.  *)
LEMMA BytesOfIsSums ==
  ASSUME NEW e \in Seq(Entry)
  PROVE  IsSums(BytesOf(e), [k \in 1..Len(e) |-> Len(e[k].text)], Len(e))
<1> DEFINE w == [k \in 1..Len(e) |-> Len(e[k].text)]
           n == Len(e)
           Solves(b) == b = [k \in 0..n |-> IF k = 0 THEN 0 ELSE b[k - 1] + Len(e[k].text)]
<1>1. n \in Nat /\ w \in [1..n -> Nat]
  <2>1. \A k \in 1..n : e[k] \in Entry
    BY ElementOfSeq
  <2>2. \A k \in 1..n : e[k].text \in Text
    BY <2>1 DEF Entry
  <2>. QED BY <2>2 DEF Text
<1>2. PICK b : b = [k \in 0..n |-> IF k = 0 THEN 0 ELSE b[k - 1] + w[k]]
  <2> HIDE DEF w, n
  <2>. QED BY <1>1, PrefixSumsExist
<1>3. ASSUME NEW c PROVE Solves(c) <=>
             c = [k \in 0..n |-> IF k = 0 THEN 0 ELSE c[k - 1] + w[k]]
  <2>1. [k \in 0..n |-> IF k = 0 THEN 0 ELSE c[k - 1] + w[k]]
          = [k \in 0..n |-> IF k = 0 THEN 0 ELSE c[k - 1] + Len(e[k].text)]
    BY <1>1
  <2>. QED BY <2>1
<1>4. Solves(b)
  BY <1>2, <1>3
<1>5. BytesOf(e) = CHOOSE c : Solves(c)
  BY DEF BytesOf
<1>6. Solves(BytesOf(e))
  <2> HIDE DEF Solves
  <2>. QED BY <1>4, <1>5
<1>7. IsSums(BytesOf(e), w, n)
  <2>1. BytesOf(e) = [k \in 0..n |-> IF k = 0 THEN 0 ELSE BytesOf(e)[k - 1] + w[k]]
    BY <1>3, <1>6
  <2> HIDE DEF w, n
  <2>. QED BY <1>1, <2>1, SolutionIsSums
<1>. QED BY <1>1, <1>7

(* The least eviction count that makes room is one, when there is any.     *)
LEMMA EvictedIsLeast ==
  ASSUME NEW h, NEW added, Evictions(h, added) # {}
  PROVE  /\ Evicted(h, added) \in Evictions(h, added)
         /\ \A l \in Evictions(h, added) : Evicted(h, added) <= l
<1>1. Evictions(h, added) \in SUBSET Nat
  <2>1. \A k \in 0..Len(h.entries) : k \in Nat
    OBVIOUS
  <2>. QED BY <2>1 DEF Evictions
<1>2. \E k \in Evictions(h, added) : \A l \in Evictions(h, added) : k <= l
  BY <1>1, LeastNumber
<1>. QED BY <1>2 DEF Evicted

(* Adding a text adds its length to the sums and changes none before.      *)
LEMMA SumsOfAppend ==
  ASSUME NEW texts \in Seq(Text), NEW added \in Text
  PROVE  /\ \A k \in 0..Len(texts) : SumsOf(Append(texts, added))[k] = SumsOf(texts)[k]
         /\ SumsOf(Append(texts, added))[Len(texts) + 1]
              = SumsOf(texts)[Len(texts)] + Len(added)
<1> DEFINE n == Len(texts)
           more == Append(texts, added)
           u == TextLengths(texts)
           w == TextLengths(more)
           b == SumsOf(texts)
           c == SumsOf(more)
<1>1. n \in Nat /\ more \in Seq(Text) /\ Len(more) = n + 1
  OBVIOUS
<1>2. IsSums(b, u, n)
  BY SumsOfIsSums
<1>3. IsSums(c, w, n + 1)
  BY <1>1, SumsOfIsSums
<1>4. \A k \in 1..n : u[k] = w[k]
  BY <1>1 DEF TextLengths
<1>5. w[n + 1] = Len(added)
  BY <1>1 DEF TextLengths
<1>6. b[0] = 0 /\ c[0] = 0 /\ c[n + 1] = c[n] + w[n + 1]
  BY <1>1, <1>2, <1>3 DEF IsSums
<1>7. ASSUME NEW k \in 0..n PROVE c[k] = b[k]
  <2>1. Stretch(b, 0, k) = Stretch(c, 0, k)
    <3> HIDE DEF n, more, u, w, b, c
    <3>1. 0 \in Nat /\ n + 1 \in Nat /\ k \in Nat
          /\ 0 + k <= n /\ 0 + k <= n + 1
      BY <1>1
    <3>2. SameWeights(u, 0, w, 0, k)
      BY <1>1, <1>4 DEF SameWeights
    <3>. QED BY <1>1, <1>2, <1>3, <3>1, <3>2, EqualStretches
  <2>2. b[k] \in Nat /\ c[k] \in Nat
    <3>1. b \in [0..n -> Nat] /\ c \in [0..(n + 1) -> Nat]
      BY <1>2, <1>3 DEF IsSums
    <3>2. k \in 0..(n + 1)
      BY <1>1
    <3> HIDE DEF n, b, c
    <3>. QED BY <3>1, <3>2
  <2>3. 0 + k = k
    OBVIOUS
  <2>. QED BY <1>6, <2>1, <2>2, <2>3 DEF Stretch
<1>8. n \in 0..n
  BY <1>1
<1>. QED BY <1>5, <1>6, <1>7, <1>8

(* The bytes of the k oldest entries are those of the texts they hold.     *)
LEMMA BytesOfTheLast ==
  ASSUME NEW h \in HistoryType, NEW told \in Seq(Text),
         KeepsTheLast(h, told), NEW k \in 0..Len(h.entries)
  PROVE  BytesOf(h.entries)[k]
           = SumsOf(told)[Len(told) - Len(h.entries) + k]
               - SumsOf(told)[Len(told) - Len(h.entries)]
<1> DEFINE n == Len(told)
           e == h.entries
           m == Len(e)
           u == [i \in 1..m |-> Len(e[i].text)]
           w == TextLengths(told)
           b == BytesOf(e)
           c == SumsOf(told)
<1>1. e \in Seq(Entry) /\ n \in Nat /\ m \in Nat /\ m <= n
  BY DEF HistoryType, KeepsTheLast
<1>2. IsSums(b, u, m) /\ IsSums(c, w, n)
  BY <1>1, BytesOfIsSums, SumsOfIsSums
<1>3. SameWeights(u, 0, w, n - m, k)
  <2>1. ASSUME NEW i \in 1..k PROVE u[0 + i] = w[n - m + i]
    <3>1. i \in 1..m /\ n - m + i \in 1..n /\ 0 + i = i
      BY <1>1
    <3>2. e[i] = [number |-> n - m + i, text |-> told[n - m + i]]
      BY <3>1 DEF KeepsTheLast
    <3>3. e[i].text = told[n - m + i]
      BY <3>2
    <3>. QED BY <3>1, <3>3 DEF TextLengths
  <2>. QED BY <2>1 DEF SameWeights
<1>4. Stretch(b, 0, k) = Stretch(c, n - m, k)
  <2> HIDE DEF n, e, m, u, w, b, c
  <2>1. 0 \in Nat /\ n - m \in Nat /\ k \in Nat /\ 0 + k <= m /\ n - m + k <= n
    BY <1>1 DEF m, e
  <2>. QED BY <1>1, <1>2, <1>3, <2>1, EqualStretches
<1>5. b[0] = 0 /\ b \in [0..m -> Nat]
  BY <1>2 DEF IsSums
<1>6. 0 + k = k /\ b[k] \in Nat
  BY <1>5
<1> HIDE DEF b, c, m, n
<1>7. b[k] - b[0] = c[n - m + k] - c[n - m]
  BY <1>4, <1>6 DEF Stretch
<1>8. b[k] = c[n - m + k] - c[n - m]
  BY <1>5, <1>6, <1>7
<1>. QED BY <1>8 DEF b, c, n, m, e

(* Recording a line keeps the longest end that fits, now with that line.   *)
LEMMA RecordKeepsTheLast ==
  ASSUME NEW h \in HistoryType, NEW told \in Seq(Text),
         KeepsTheLast(h, told), NEW added \in Text,
         Evictions(h, added) # {}
  PROVE  /\ Recorded(h, added) \in HistoryType
         /\ KeepsTheLast(Recorded(h, added), Append(told, added))
         /\ LatestText(Recorded(h, added)) = added
<1> USE HistoryAssumption
<1> DEFINE n == Len(told)
           m == Len(h.entries)
           c == SumsOf(told)
           k == Evicted(h, added)
           g == Recorded(h, added)
           more == Append(told, added)
           d == SumsOf(more)
<1>1. /\ h.entries \in Seq(Entry) /\ h.next = n + 1 /\ n \in Nat /\ m \in Nat
      /\ m <= n /\ Len(added) \in Nat
  BY DEF HistoryType, KeepsTheLast, Text
<1>2. /\ k \in 0..m
      /\ Fits(m + 1 - k, h.retained + Len(added) - BytesOf(h.entries)[k])
      /\ \A l \in Evictions(h, added) : k <= l
  BY EvictedIsLeast DEF Evictions
<1>3. c \in [0..n -> Nat]
  BY SumsOfIsSums DEF IsSums
<1>4. /\ more \in Seq(Text) /\ Len(more) = n + 1 /\ more[n + 1] = added
      /\ \A i \in 1..n : more[i] = told[i]
  BY AppendProperties
<1>5. /\ \A i \in 0..n : d[i] = c[i]
      /\ d[n + 1] = c[n] + Len(added)
  BY SumsOfAppend
<1>6. h.retained = c[n] - c[n - m]
  BY DEF KeepsTheLast
<1>7. ASSUME NEW l \in 0..m
      PROVE  h.retained + Len(added) - BytesOf(h.entries)[l]
               = d[n + 1] - d[n + 1 - (m + 1 - l)]
  <2>1. BytesOf(h.entries)[l] = c[n - m + l] - c[n - m]
    BY BytesOfTheLast
  <2>2. n - m \in 0..n /\ n - m + l \in 0..n /\ n \in 0..n
        /\ n + 1 - (m + 1 - l) = n - m + l
    BY <1>1
  <2>3. c[n - m] \in Nat /\ c[n - m + l] \in Nat /\ c[n] \in Nat
    BY <1>3, <2>2
  <2>4. d[n - m + l] = c[n - m + l]
    BY <1>5, <2>2
  <2> HIDE DEF n, m, c, d
  <2>. QED BY <1>1, <1>5, <1>6, <2>1, <2>2, <2>3, <2>4
<1>8. /\ g.entries = Append(SubSeq(h.entries, k + 1, m),
                            [number |-> h.next, text |-> added])
      /\ g.retained = h.retained + Len(added) - BytesOf(h.entries)[k]
      /\ g.next = n + 2
      /\ g = [entries |-> g.entries, retained |-> g.retained, next |-> g.next]
  <2>1. g = [entries  |-> Append(SubSeq(h.entries, k + 1, m),
                                 [number |-> h.next, text |-> added]),
             retained |-> h.retained + Len(added) - BytesOf(h.entries)[k],
             next     |-> h.next + 1]
    BY DEF Recorded
  <2>2. h.next + 1 = n + 2
    BY <1>1
  <2> HIDE DEF g, k, n, m
  <2>. QED BY <2>1, <2>2
<1>9. /\ SubSeq(h.entries, k + 1, m) \in Seq(Entry)
      /\ Len(SubSeq(h.entries, k + 1, m)) = m - k
      /\ \A i \in 1..(m - k) : SubSeq(h.entries, k + 1, m)[i] = h.entries[k + i]
  <2>1. \A i \in (k + 1)..m : h.entries[i] \in Entry
    BY <1>1, <1>2, ElementOfSeq
  <2> HIDE DEF n, m, k, g
  <2>2. k + 1 \in Int /\ m \in Int
    BY <1>1, <1>2
  <2>3. /\ SubSeq(h.entries, k + 1, m) \in Seq(Entry)
        /\ Len(SubSeq(h.entries, k + 1, m)) = IF k + 1 <= m THEN m - (k + 1) + 1 ELSE 0
        /\ \A i \in 1..(m - (k + 1) + 1) :
             SubSeq(h.entries, k + 1, m)[i] = h.entries[(k + 1) + i - 1]
    BY <2>1, <2>2, SubSeqProperties
  <2>4. \A i \in Int : (k + 1) + i - 1 = k + i
    BY <1>2
  <2>5. m - (k + 1) + 1 = m - k /\ (k + 1 <= m \/ m - k = 0)
    BY <1>1, <1>2
  <2>6. \A i \in 1..(m - k) : (k + 1) + i - 1 = k + i
    BY <2>4
  <2>7. Len(SubSeq(h.entries, k + 1, m)) = m - k
    BY <2>3, <2>5
  <2>8. \A i \in 1..(m - k) : SubSeq(h.entries, k + 1, m)[i] = h.entries[k + i]
    BY <2>3, <2>5, <2>6
  <2>. QED BY <2>3, <2>7, <2>8
<1>10. [number |-> h.next, text |-> added] \in Entry
  BY <1>1 DEF Entry
<1>11. /\ g.entries \in Seq(Entry) /\ Len(g.entries) = m - k + 1
       /\ g.entries[m - k + 1] = [number |-> h.next, text |-> added]
       /\ \A i \in 1..(m - k) : g.entries[i] = h.entries[k + i]
  <2> HIDE DEF n, m, k, g
  <2>. QED BY <1>8, <1>9, <1>10, AppendProperties
<1>12. g.retained = d[n + 1] - d[n + 1 - (m - k + 1)]
  <2>1. m + 1 - k = m - k + 1
    BY <1>1, <1>2
  <2>. QED BY <1>2, <1>7, <1>8, <2>1
<1>13. g \in HistoryType
  <2>1. n + 1 - (m - k + 1) \in Nat /\ n + 1 - (m - k + 1) <= n + 1 /\ n + 1 \in Nat
    <3> HIDE DEF n, m, k
    <3>. QED BY <1>1, <1>2
  <2>2. IsSums(d, TextLengths(more), n + 1)
    BY <1>4, SumsOfIsSums
  <2>3. d[n + 1 - (m - k + 1)] <= d[n + 1]
    <3> HIDE DEF n, m, k, d, more
    <3>1. n + 1 <= n + 1
      BY <2>1
    <3>. QED BY <2>1, <2>2, <3>1, SumsGrow
  <2>4. d[n + 1] \in Nat /\ d[n + 1 - (m - k + 1)] \in Nat
    <3>1. d \in [0..(n + 1) -> Nat]
      BY <2>2 DEF IsSums
    <3> HIDE DEF n, m, k, d
    <3>. QED BY <2>1, <3>1
  <2>5. g.retained \in Nat /\ g.next \in Nat
    <3>1. \A x, y \in Nat : x <= y => y - x \in Nat
      OBVIOUS
    <3> HIDE DEF n, m, k, d, g
    <3>2. g.next \in Nat
      BY <1>1, <1>8
    <3>. QED BY <1>12, <2>3, <2>4, <3>1, <3>2
  <2> HIDE DEF n, m, k, d, g
  <2>. QED BY <1>8, <1>11, <2>5 DEF HistoryType
<1>14. ASSUME NEW i \in 1..(m - k + 1)
       PROVE  g.entries[i] = [number |-> (n + 1) - (m - k + 1) + i,
                              text   |-> more[(n + 1) - (m - k + 1) + i]]
  <2>1. CASE i = m - k + 1
    <3>1. (n + 1) - (m - k + 1) + i = n + 1
      BY <1>1, <1>2, <2>1
    <3> HIDE DEF n, m, k, g, more
    <3>. QED BY <1>1, <1>4, <1>11, <2>1, <3>1
  <2>2. CASE i # m - k + 1
    <3>1. /\ i \in 1..(m - k) /\ k + i \in 1..m
          /\ (n + 1) - (m - k + 1) + i = n - m + (k + i)
          /\ n - m + (k + i) \in 1..n
      <4> HIDE DEF n, m, k
      <4>. QED BY <1>1, <1>2, <2>2
    <3>2. h.entries[k + i] = [number |-> n - m + (k + i), text |-> told[n - m + (k + i)]]
      BY <3>1 DEF KeepsTheLast
    <3> HIDE DEF n, m, k, g, more
    <3>. QED BY <1>4, <1>11, <3>1, <3>2
  <2>. QED BY <2>1, <2>2
<1>15. Fits(m - k + 1, g.retained)
  <2>1. m + 1 - k = m - k + 1
    BY <1>1, <1>2
  <2>. QED BY <1>2, <1>8, <2>1
<1>16. ASSUME NEW l \in (m - k + 1 + 1)..(n + 1)
       PROVE  ~Fits(l, d[n + 1] - d[n + 1 - l])
  <2>1. CASE l - 1 > m
    <3>1. l - 1 \in (m + 1)..n /\ n - (l - 1) = n + 1 - l /\ n + 1 - l \in 0..n /\ n \in 0..n
      BY <1>1, <1>2, <2>1
    <3>2. ~Fits(l - 1, c[n] - c[n - (l - 1)])
      BY <3>1 DEF KeepsTheLast
    <3>3. d[n + 1 - l] = c[n + 1 - l]
      BY <1>5, <3>1
    <3>4. c[n] \in Nat /\ c[n + 1 - l] \in Nat
      BY <1>3, <3>1
    <3>5. ~(l - 1 <= MaxEntries /\ c[n] - c[n + 1 - l] <= MaxBytes)
      BY <3>1, <3>2 DEF Fits
    <3> HIDE DEF n, m, k, c, d
    <3>. QED BY <1>1, <1>5, <3>3, <3>4, <3>5 DEF Fits
  <2>2. CASE ~(l - 1 > m)
    <3> DEFINE x == m + 1 - l
    <3>1. x \in 0..m /\ x < k /\ m + 1 - x = l
      BY <1>1, <1>2, <2>2
    <3>2. x \notin Evictions(h, added)
      BY <1>1, <1>2, <3>1
    <3>3. ~Fits(m + 1 - x, h.retained + Len(added) - BytesOf(h.entries)[x])
      BY <3>1, <3>2 DEF Evictions
    <3>4. h.retained + Len(added) - BytesOf(h.entries)[x] = d[n + 1] - d[n + 1 - (m + 1 - x)]
      BY <1>7, <3>1
    <3> HIDE DEF x, n, m, k, d
    <3>. QED BY <3>1, <3>3, <3>4
  <2>. QED BY <2>1, <2>2
<1>17. KeepsTheLast(g, more)
  <2>1. m - k + 1 <= n + 1
    BY <1>1, <1>2
  <2>2. g.next = (n + 1) + 1
    BY <1>1, <1>8
  <2> HIDE DEF n, m, k, d, g, more
  <2>3. Len(g.entries) <= Len(more)
    BY <1>4, <1>11, <2>1
  <2>4. ASSUME NEW i \in 1..Len(g.entries)
        PROVE  g.entries[i] = [number |-> Len(more) - Len(g.entries) + i,
                               text   |-> more[Len(more) - Len(g.entries) + i]]
    BY <1>4, <1>11, <1>14
  <2>5. g.retained = d[Len(more)] - d[Len(more) - Len(g.entries)]
    <3>1. Len(more) = n + 1 /\ Len(g.entries) = m - k + 1
      BY <1>4, <1>11
    <3>2. (n + 1) - (m - k + 1) = n + 1 - (m - k + 1)
      BY <1>1, <1>2
    <3>. QED BY <1>12, <3>1, <3>2
  <2>6. Fits(Len(g.entries), g.retained)
    BY <1>11, <1>15
  <2>7. ASSUME NEW l \in (Len(g.entries) + 1)..Len(more)
        PROVE  ~Fits(l, d[Len(more)] - d[Len(more) - l])
    <3>1. Len(more) = n + 1 /\ Len(g.entries) = m - k + 1
      BY <1>4, <1>11
    <3>2. l \in (m - k + 1 + 1)..(n + 1)
      BY <2>7, <3>1, Zenon
    <3>3. (n + 1) - l = n + 1 - l
      BY <1>1, <1>2, <3>2
    <3>. QED BY <1>16, <3>1, <3>2, <3>3
  <2>8. g.next = Len(more) + 1
    BY <1>4, <2>2
  <2>. QED BY <2>3, <2>4, <2>5, <2>6, <2>7, <2>8, Zenon DEF KeepsTheLast, d
<1>18. LatestText(g) = added
  <2> HIDE DEF n, m, k, g
  <2>. QED BY <1>11 DEF LatestText
<1>. QED BY <1>13, <1>17, <1>18


(* What a reader finds before the first line feed of a buffer.             *)
LEMMA ContentStopsAtLineFeed ==
  ASSUME NEW a \in Text
  PROVE  /\ Content(a) \in Text
         /\ Len(Content(a)) <= Len(a)
         /\ \A i \in 1..Len(Content(a)) : Content(a)[i] = a[i] /\ a[i] # LF
         /\ Len(Content(a)) < Len(a) => a[Len(Content(a)) + 1] = LF
<1> DEFINE First(i) == a[i] = LF /\ \A j \in 1..(i - 1) : a[j] # LF
<1>1. Len(a) \in Nat /\ \A i \in 1..Len(a) : a[i] \in STRING
  BY ElementOfSeq DEF Text
<1>2. CASE \E i \in 1..Len(a) : a[i] = LF
  <2> DEFINE Feeds == {i \in 1..Len(a) : a[i] = LF}
  <2>1. PICK f \in Feeds : \A g \in Feeds : f <= g
    <3>1. Feeds \in SUBSET Nat /\ Feeds # {}
      BY <1>2
    <3> HIDE DEF Feeds
    <3>. QED BY <3>1, LeastNumber
  <2>2. First(f)
    BY <1>1, <2>1
  <2> DEFINE i == CHOOSE i \in 1..Len(a) : First(i)
  <2>3. i \in 1..Len(a) /\ First(i)
    <3> HIDE DEF First
    <3>. QED BY <2>1, <2>2
  <2>4. Content(a) = SubSeq(a, 1, i - 1)
    BY <1>2 DEF Content
  <2>5. /\ SubSeq(a, 1, i - 1) \in Seq(STRING)
        /\ Len(SubSeq(a, 1, i - 1)) = i - 1
        /\ \A j \in 1..(i - 1) : SubSeq(a, 1, i - 1)[j] = a[j]
    <3> HIDE DEF i
    <3>1. i - 1 \in Int /\ \A j \in 1..(i - 1) : a[j] \in STRING
      BY <1>1, <2>3
    <3>2. /\ SubSeq(a, 1, i - 1) \in Seq(STRING)
          /\ Len(SubSeq(a, 1, i - 1)) = IF 1 <= i - 1 THEN i - 1 - 1 + 1 ELSE 0
          /\ \A j \in 1..(i - 1 - 1 + 1) : SubSeq(a, 1, i - 1)[j] = a[1 + j - 1]
      BY <3>1, SubSeqProperties
    <3>3. \A j \in Int : 1 + j - 1 = j
      OBVIOUS
    <3>4. i - 1 - 1 + 1 = i - 1 /\ (~(1 <= i - 1) => i - 1 = 0)
      BY <2>3
    <3>. QED BY <3>2, <3>3, <3>4
  <2> HIDE DEF i
  <2>6. (i - 1) + 1 = i /\ i - 1 <= Len(a)
    BY <1>1, <2>3
  <2>. QED BY <2>3, <2>4, <2>5, <2>6 DEF Text
<1>3. CASE ~ \E i \in 1..Len(a) : a[i] = LF
  BY <1>1, <1>3 DEF Content
<1>. QED BY <1>2, <1>3

(* The end of a sequence, as the reader keeps it.                          *)
LEMMA EndOfStream ==
  ASSUME NEW s \in Text, NEW k \in 0..Len(s)
  PROVE  /\ SubSeq(s, k + 1, Len(s)) \in Text
         /\ Len(SubSeq(s, k + 1, Len(s))) = Len(s) - k
         /\ \A i \in 1..(Len(s) - k) : SubSeq(s, k + 1, Len(s))[i] = s[k + i]
<1>1. Len(s) \in Nat /\ \A i \in (k + 1)..Len(s) : s[i] \in STRING
  BY ElementOfSeq DEF Text
<1>2. /\ SubSeq(s, k + 1, Len(s)) \in Seq(STRING)
      /\ Len(SubSeq(s, k + 1, Len(s)))
           = IF k + 1 <= Len(s) THEN Len(s) - (k + 1) + 1 ELSE 0
      /\ \A i \in 1..(Len(s) - (k + 1) + 1) :
           SubSeq(s, k + 1, Len(s))[i] = s[(k + 1) + i - 1]
  <2>1. k + 1 \in Int /\ Len(s) \in Int
    BY <1>1
  <2>. QED BY <1>1, <2>1, SubSeqProperties
<1>3. \A i \in Int : (k + 1) + i - 1 = k + i
  OBVIOUS
<1>4. Len(s) - (k + 1) + 1 = Len(s) - k /\ (~(k + 1 <= Len(s)) => Len(s) - k = 0)
  BY <1>1
<1>5. Len(SubSeq(s, k + 1, Len(s))) = Len(s) - k
  BY <1>2, <1>4
<1>6. ASSUME NEW i \in 1..(Len(s) - k) PROVE SubSeq(s, k + 1, Len(s))[i] = s[k + i]
  <2>1. i \in 1..(Len(s) - (k + 1) + 1) /\ i \in Int
    BY <1>1
  <2>2. SubSeq(s, k + 1, Len(s))[i] = s[(k + 1) + i - 1]
    BY <1>2, <2>1
  <2>. QED BY <1>3, <2>1, <2>2
<1>. QED BY <1>2, <1>5, <1>6 DEF Text

-----------------------------------------------------------------------------
(* The inductive invariant: the types, the history, and that the line at   *)
(* hand is the one met last.                                               *)

Rejections == {"None", "Oversized", "AllocationUnavailable"}

Reader == [bytes : Text, rejection : Rejections, any : BOOLEAN, lf : BOOLEAN]

MetKinds == {"Line", "Eof", "NotUtf8"} \union Rejections

Met == [kind : MetKinds, text : Text]

StreamTypes ==
  /\ input \in Text
  /\ rest \in Text
  /\ Len(rest) <= Len(input)
  /\ rest = SubSeq(input, Len(input) - Len(rest) + 1, Len(input))
  /\ reader \in Reader
  /\ Len(reader.bytes) <= MaxBytes + 1
  /\ phase \in Phases
  /\ ended \in {"No", "Success", "Failure"}
  /\ handled \in Seq(Met)

HistoryKept ==
  /\ line \in Text
  /\ history \in HistoryType
  /\ history.next <= MaxNumber
  /\ recorded \in Seq(Text)
  /\ KeepsTheLast(history, recorded)

LineIsLastMet ==
  phase \in {"Record", "Dispatch"} =>
    /\ handled # <<>>
    /\ handled[Len(handled)] = [kind |-> "Line", text |-> line]

IInv == StreamTypes /\ HistoryKept /\ LineIsLastMet

(* What read_repl_line keeps of a buffer stays within one byte more than   *)
(* the limit: the room for a carriage return.                              *)
LEMMA KeepIsBounded ==
  ASSUME NEW r \in Reader, Len(r.bytes) <= MaxBytes + 1,
         NEW content \in Text, NEW refuses \in BOOLEAN
  PROVE  /\ Keep(r, content, refuses) \in Reader
         /\ Len(Keep(r, content, refuses).bytes) <= MaxBytes + 1
<1> USE HistoryAssumption
<1>1. r.bytes \in Text /\ r.rejection \in Rejections
  BY DEF Reader
<1>2. /\ r.bytes \o content \in Text
      /\ Len(r.bytes \o content) = Len(r.bytes) + Len(content)
  BY <1>1, ConcatProperties DEF Text
<1>3. ASSUME NEW x \in Rejections
      PROVE  /\ [r EXCEPT !.rejection = x] \in Reader
             /\ [r EXCEPT !.rejection = x].bytes = r.bytes
  BY DEF Reader
<1>4. /\ [r EXCEPT !.bytes = @ \o content] \in Reader
      /\ [r EXCEPT !.bytes = @ \o content].bytes = r.bytes \o content
  BY <1>2 DEF Reader
<1>5. CASE Len(r.bytes) + Len(content) > MaxBytes + 1
  BY <1>3, <1>5 DEF Keep, Rejections
<1>6. CASE ~(Len(r.bytes) + Len(content) > MaxBytes + 1)
  <2>1. Len(r.bytes \o content) <= MaxBytes + 1
    <3>1. Len(r.bytes) \in Nat /\ Len(content) \in Nat
      BY <1>1 DEF Text
    <3>. QED BY <1>2, <1>6, <3>1
  <2>. QED BY <1>3, <1>4, <1>6, <2>1 DEF Keep, Rejections
<1>. QED BY <1>5, <1>6

(* read_repl_line returns a text, and says it is a line only when it is.   *)
LEMMA LineReadIsMet ==
  ASSUME reader \in Reader
  PROVE  /\ LineRead \in Met
         /\ LineRead = [kind |-> LineRead.kind, text |-> LineRead.text]
<1> DEFINE bytes == reader.bytes
           text == StripCR(bytes, reader.lf)
<1>1. bytes \in Text /\ reader.rejection \in Rejections
  BY DEF Reader
<1>2. text \in Text
  <2>1. CASE bytes # <<>>
    <3>1. Len(bytes) \in Nat /\ \A i \in 1..(Len(bytes) - 1) : bytes[i] \in STRING
      BY <1>1, ElementOfSeq DEF Text
    <3>2. SubSeq(bytes, 1, Len(bytes) - 1) \in Seq(STRING)
      <4> HIDE DEF bytes
      <4>1. 1 \in Int /\ Len(bytes) - 1 \in Int
        BY <3>1
      <4>. QED BY <3>1, <4>1, SubSeqProperties
    <3>. QED BY <1>1, <3>2 DEF StripCR, Text
  <2>2. CASE bytes = <<>>
    BY <1>1, <2>2 DEF StripCR
  <2>. QED BY <2>1, <2>2
<1>3. <<>> \in Text
  BY DEF Text
<1>4. \/ LineRead = [kind |-> reader.rejection, text |-> <<>>]
      \/ LineRead = [kind |-> "Eof", text |-> <<>>]
      \/ LineRead = [kind |-> "Oversized", text |-> <<>>]
      \/ LineRead = [kind |-> "NotUtf8", text |-> <<>>]
      \/ LineRead = [kind |-> "Line", text |-> text]
  BY DEF LineRead
<1>5. ASSUME NEW kind \in MetKinds, NEW t \in Text, LineRead = [kind |-> kind, text |-> t]
      PROVE  LineRead \in Met /\ LineRead = [kind |-> LineRead.kind, text |-> LineRead.text]
  BY <1>5 DEF Met
<1>6. /\ reader.rejection \in MetKinds /\ "Eof" \in MetKinds /\ "Oversized" \in MetKinds
      /\ "NotUtf8" \in MetKinds /\ "Line" \in MetKinds
  BY <1>1 DEF MetKinds, Rejections
<1> HIDE DEF text
<1>. QED BY <1>2, <1>3, <1>4, <1>5, <1>6

-----------------------------------------------------------------------------
(* One lemma for each action that does more than move on.                  *)

(* What Init says meets the invariant.                                     *)
LEMMA InitIsGood == Init => IInv
<1> SUFFICES ASSUME Init PROVE IInv
  OBVIOUS
<1> USE HistoryAssumption
<1>1. input \in Text /\ rest = input
  BY InputsAssumption DEF Init, Text
<1>2. <<>> \in Text /\ <<>> \in Seq(Met) /\ <<>> \in Seq(Text) /\ <<>> \in Seq(Entry)
  BY DEF Text
<1>3. StreamTypes
  <2>1. rest = SubSeq(input, Len(input) - Len(rest) + 1, Len(input))
    <3>1. Len(input) - Len(input) + 1 = 1
      BY <1>1 DEF Text
    <3>2. SubSeq(input, 1, Len(input)) = input
      BY <1>1, SubSeqFull DEF Text
    <3>. QED BY <1>1, <3>1, <3>2
  <2>2. reader \in Reader /\ Len(reader.bytes) <= MaxBytes + 1
    BY <1>2 DEF Init, FreshReader, Reader, Rejections
  <2>3. Len(rest) <= Len(input)
    BY <1>1 DEF Text
  <2>. QED BY <1>1, <1>2, <2>1, <2>2, <2>3 DEF Init, StreamTypes, Phases
<1>4. HistoryKept
  <2>1. line = <<>> /\ recorded = <<>> /\ history = [entries |-> <<>>, retained |-> 0, next |-> 1]
    BY DEF Init, EmptyHistory
  <2>2. history \in HistoryType
    BY <1>2, <2>1 DEF HistoryType
  <2>3. KeepsTheLast(history, recorded)
    <3>1. SumsOf(recorded)[0] = 0
      BY <1>2, <2>1, SumsOfIsSums DEF IsSums
    <3>. QED BY <2>1, <3>1 DEF KeepsTheLast, Fits
  <2>. QED BY <1>2, <2>1, <2>2, <2>3 DEF HistoryKept
<1>5. LineIsLastMet
  BY DEF Init, LineIsLastMet
<1>. QED BY <1>3, <1>4, <1>5 DEF IInv

(* A buffer: what is left is still the end of the input.                   *)
LEMMA FillBufferStep ==
  ASSUME StreamTypes, FillBuffer
  PROVE  StreamTypes'
<1> USE HistoryAssumption
<1>1. PICK length \in 1..Len(rest), refuses \in BOOLEAN :
        LET available == SubSeq(rest, 1, length)
            content == Content(available)
            lf == Len(content) < length
            consumed == IF lf THEN Len(content) + 1 ELSE length
        IN  /\ reader' = [Keep(reader, content, refuses) EXCEPT !.any = TRUE, !.lf = lf]
            /\ rest' = SubSeq(rest, consumed + 1, Len(rest))
            /\ phase' = IF lf THEN "Line" ELSE phase
  BY DEF FillBuffer
<1> DEFINE available == SubSeq(rest, 1, length)
           content == Content(available)
           lf == Len(content) < length
           consumed == IF lf THEN Len(content) + 1 ELSE length
           n == Len(input)
           m == Len(rest)
<1>2. /\ input \in Text /\ rest \in Text /\ m <= n /\ n \in Nat /\ m \in Nat
      /\ rest = SubSeq(input, n - m + 1, n) /\ reader \in Reader
      /\ Len(reader.bytes) <= MaxBytes + 1
  BY DEF StreamTypes, Text
<1>3. available \in Text /\ Len(available) = length
  <2>1. \A i \in 1..length : rest[i] \in STRING
    BY <1>2, ElementOfSeq DEF Text
  <2>2. 1 \in Int /\ length \in Int /\ 1 <= length /\ length - 1 + 1 = length
    OBVIOUS
  <2>3. /\ SubSeq(rest, 1, length) \in Seq(STRING)
        /\ Len(SubSeq(rest, 1, length)) = IF 1 <= length THEN length - 1 + 1 ELSE 0
    BY <2>1, <2>2, SubSeqProperties
  <2>. QED BY <2>2, <2>3 DEF Text
<1>4. content \in Text /\ Len(content) \in Nat /\ Len(content) <= length
  <2> HIDE DEF available
  <2>1. Content(available) \in Text /\ Len(Content(available)) <= length
    BY <1>3, ContentStopsAtLineFeed
  <2>. QED BY <2>1 DEF Text
<1>5. consumed \in 0..m
  BY <1>2, <1>4
<1>6. /\ SubSeq(rest, consumed + 1, m) \in Text
      /\ Len(SubSeq(rest, consumed + 1, m)) = m - consumed
      /\ \A i \in 1..(m - consumed) : SubSeq(rest, consumed + 1, m)[i] = rest[consumed + i]
  <2> HIDE DEF consumed
  <2>. QED BY <1>2, <1>5, EndOfStream
<1>7. rest' = SubSeq(rest, consumed + 1, m)
  BY <1>1
<1>8. rest' = SubSeq(input, n - (m - consumed) + 1, n)
  <2> HIDE DEF consumed, n, m
  <2>1. n - m \in 0..n /\ n - (m - consumed) \in 0..n /\ n - (n - m) = m
        /\ n - (n - (m - consumed)) = m - consumed
    BY <1>2, <1>5
  <2>2. \A i \in 1..m : SubSeq(input, n - m + 1, n)[i] = input[n - m + i]
    BY <1>2, <2>1, EndOfStream DEF n
  <2>3. /\ SubSeq(input, n - (m - consumed) + 1, n) \in Text
        /\ Len(SubSeq(input, n - (m - consumed) + 1, n)) = m - consumed
        /\ \A i \in 1..(m - consumed) : SubSeq(input, n - (m - consumed) + 1, n)[i]
                                          = input[n - (m - consumed) + i]
    <3> DEFINE x == n - (m - consumed)
    <3>1. x \in 0..n /\ n - x = m - consumed
      BY <2>1
    <3> HIDE DEF x
    <3>2. /\ SubSeq(input, x + 1, n) \in Text
          /\ Len(SubSeq(input, x + 1, n)) = n - x
          /\ \A i \in 1..(n - x) : SubSeq(input, x + 1, n)[i] = input[x + i]
      BY <1>2, <3>1, EndOfStream DEF n
    <3>. QED BY <3>1, <3>2 DEF x
  <2>4. ASSUME NEW i \in 1..(m - consumed)
        PROVE  SubSeq(rest, consumed + 1, m)[i] = SubSeq(input, n - (m - consumed) + 1, n)[i]
    <3>1. consumed + i \in 1..m /\ n - m + (consumed + i) = n - (m - consumed) + i
      BY <1>2, <1>5
    <3>2. rest[consumed + i] = input[n - m + (consumed + i)]
      BY <1>2, <2>2, <3>1
    <3>. QED BY <1>6, <2>3, <3>1, <3>2
  <2>. QED BY <1>6, <1>7, <2>3, <2>4, SeqEqual DEF Text
<1>9. reader' \in Reader /\ Len(reader'.bytes) <= MaxBytes + 1
  <2> HIDE DEF content
  <2>1. /\ Keep(reader, content, refuses) \in Reader
        /\ Len(Keep(reader, content, refuses).bytes) <= MaxBytes + 1
    BY <1>2, <1>4, KeepIsBounded
  <2>2. reader' = [Keep(reader, content, refuses) EXCEPT !.any = TRUE, !.lf = lf]
    BY <1>1 DEF content
  <2>3. lf \in BOOLEAN
    OBVIOUS
  <2> HIDE DEF lf
  <2>. QED BY <2>1, <2>2, <2>3 DEF Reader
<1>10. phase' \in Phases /\ UNCHANGED <<input, ended, handled>>
  BY <1>1 DEF FillBuffer, StreamTypes, Phases
<1>11. Len(rest') = m - consumed /\ Len(rest') <= n /\ rest' \in Text
  <2> HIDE DEF consumed, n, m
  <2>. QED BY <1>2, <1>5, <1>6, <1>7
<1>12. rest' = SubSeq(input', Len(input') - Len(rest') + 1, Len(input'))
  <2> HIDE DEF consumed
  <2>. QED BY <1>8, <1>10, <1>11
<1> HIDE DEF consumed
<1>. QED BY <1>2, <1>9, <1>10, <1>11, <1>12 DEF StreamTypes

(* The end of a line: what the reader returned is what was met last.       *)
LEMMA EndLineStep ==
  ASSUME StreamTypes, HistoryKept, EndLine
  PROVE  StreamTypes' /\ HistoryKept' /\ LineIsLastMet'
<1>1. reader \in Reader /\ handled \in Seq(Met)
  BY DEF StreamTypes
<1>2. LineRead \in Met /\ LineRead = [kind |-> LineRead.kind, text |-> LineRead.text]
  BY <1>1, LineReadIsMet
<1>3. /\ handled' \in Seq(Met)
      /\ LineRead.kind # "Eof" => handled' # <<>> /\ handled'[Len(handled')] = LineRead
  <2>1. handled' = IF LineRead.kind = "Eof" THEN handled ELSE Append(handled, LineRead)
    BY DEF EndLine
  <2>2. /\ Append(handled, LineRead) \in Seq(Met) /\ Append(handled, LineRead) # <<>>
        /\ Len(Append(handled, LineRead)) = Len(handled) + 1
        /\ Append(handled, LineRead)[Len(handled) + 1] = LineRead
    BY <1>1, <1>2, AppendProperties
  <2>. QED BY <1>1, <2>1, <2>2
<1>4. /\ phase' \in {"Ended", "Record", "Prompt"}
      /\ ended' \in {"No", "Success", "Failure"}
      /\ phase' = "Record" => LineRead.kind = "Line"
  <2>1. /\ phase' = After(LineRead)[1] /\ ended' = After(LineRead)[2]
    BY DEF EndLine
  <2>2. \/ After(LineRead) = <<"Ended", "Success">>
        \/ After(LineRead) = <<"Ended", "Failure">>
        \/ After(LineRead) = <<"Record", "No">> /\ LineRead.kind = "Line"
        \/ After(LineRead) = <<"Prompt", "No">>
    BY DEF After
  <2>. QED BY <2>1, <2>2
<1>5. StreamTypes'
  BY <1>3, <1>4 DEF EndLine, StreamTypes, Phases
<1>6. line' = LineRead.text /\ line' \in Text
  BY <1>2 DEF EndLine, Met
<1>7. HistoryKept'
  BY <1>6 DEF EndLine, HistoryKept
<1>8. LineIsLastMet'
  BY <1>2, <1>3, <1>4, <1>6 DEF LineIsLastMet
<1>. QED BY <1>5, <1>7, <1>8

(* Recording: taken or refused, the line that goes on is the line read.    *)
LEMMA RecordStep ==
  ASSUME StreamTypes, HistoryKept, LineIsLastMet, Record
  PROVE  StreamTypes' /\ HistoryKept' /\ LineIsLastMet'
<1> USE HistoryAssumption
<1>1. /\ line \in Text /\ history \in HistoryType /\ recorded \in Seq(Text)
      /\ history.next <= MaxNumber /\ KeepsTheLast(history, recorded)
  BY DEF HistoryKept
<1>2. PICK refuses \in BOOLEAN :
        IF Refusal(history, line, refuses) = "None"
        THEN /\ history' = Recorded(history, line)
             /\ recorded' = Append(recorded, line)
             /\ line' = LatestText(history')
        ELSE UNCHANGED <<history, recorded, line>>
  BY DEF Record
<1>3. StreamTypes'
  BY DEF Record, StreamTypes, Phases
<1>4. line' = line /\ HistoryKept'
  <2>1. CASE Refusal(history, line, refuses) = "None"
    <3>1. Evictions(history, line) # {} /\ history.next # MaxNumber
      BY <2>1 DEF Refusal
    <3>2. /\ Recorded(history, line) \in HistoryType
          /\ KeepsTheLast(Recorded(history, line), Append(recorded, line))
          /\ LatestText(Recorded(history, line)) = line
      BY <1>1, <3>1, RecordKeepsTheLast
    <3>3. Recorded(history, line).next = history.next + 1
      BY DEF Recorded
    <3>4. Append(recorded, line) \in Seq(Text) /\ history.next \in Nat
      BY <1>1 DEF HistoryType
    <3>5. history.next + 1 <= MaxNumber
      BY <1>1, <3>1, <3>4
    <3>. QED BY <1>1, <1>2, <2>1, <3>2, <3>3, <3>4, <3>5 DEF HistoryKept
  <2>2. CASE Refusal(history, line, refuses) # "None"
    BY <1>1, <1>2, <2>2 DEF HistoryKept
  <2>. QED BY <2>1, <2>2
<1>5. LineIsLastMet'
  BY <1>4 DEF Record, LineIsLastMet
<1>. QED BY <1>3, <1>4, <1>5

(* A session keeps the invariant, whichever step it takes.               *)
LEMMA NextKeepsGood ==
  ASSUME IInv, [Next]_vars
  PROVE  IInv'
<1> USE DEF IInv
<1>1. CASE Prompt
  <2>1. FreshReader \in Reader /\ Len(FreshReader.bytes) <= MaxBytes + 1
    BY HistoryAssumption DEF FreshReader, Reader, Rejections, Text
  <2>2. reader' = FreshReader /\ phase' \in {"Reading", "Ended"}
        /\ ended' \in {ended, "Failure"}
    BY <1>1 DEF Prompt, EndWith
  <2>3. UNCHANGED <<input, rest, line, history, handled, recorded>>
    BY <1>1 DEF Prompt
  <2>4. StreamTypes'
    BY <2>1, <2>2, <2>3 DEF StreamTypes, Phases
  <2>. QED BY <2>2, <2>3, <2>4 DEF HistoryKept, LineIsLastMet
<1>2. CASE FillBuffer
  <2>1. phase' \notin {"Record", "Dispatch"}
    BY <1>2 DEF FillBuffer
  <2>2. UNCHANGED <<line, history, recorded>>
    BY <1>2 DEF FillBuffer
  <2>. QED BY <1>2, <2>1, <2>2, FillBufferStep DEF HistoryKept, LineIsLastMet
<1>3. CASE EndOfInput
  BY <1>3 DEF EndOfInput, StreamTypes, HistoryKept, LineIsLastMet, Phases
<1>4. CASE ReadFails
  BY <1>4 DEF ReadFails, EndWith, StreamTypes, HistoryKept, LineIsLastMet, Phases
<1>5. CASE EndLine
  BY <1>5, EndLineStep
<1>6. CASE Record
  BY <1>6, RecordStep
<1>7. CASE Dispatch
  <2>1. phase' \in {"Prompt", "Ended"} /\ ended' \in {ended, "Success", "Failure"}
    BY <1>7 DEF Dispatch, EndWith
  <2>2. UNCHANGED <<input, rest, reader, line, history, handled, recorded>>
    BY <1>7 DEF Dispatch
  <2>. QED BY <2>1, <2>2 DEF StreamTypes, HistoryKept, LineIsLastMet, Phases
<1>8. CASE UNCHANGED vars
  BY <1>8 DEF vars, StreamTypes, HistoryKept, LineIsLastMet
<1>. QED BY <1>1, <1>2, <1>3, <1>4, <1>5, <1>6, <1>7, <1>8 DEF Next

(* The types, the history and the line at hand, in every state.            *)
THEOREM IInvHolds == Spec => []IInv
<1>. QED BY InitIsGood, NextKeepsGood, PTL DEF Spec

-----------------------------------------------------------------------------
(* What follows of it.                                                     *)

(* The bytes counted are those of the entries, the reader holds at most    *)
(* the limit and one carriage return, and the next number is in range.     *)
THEOREM ReplTypeOK == Spec => []TypeOK
<1>1. ASSUME IInv PROVE TypeOK
  <2> USE IInv, HistoryAssumption
  <2>1. /\ history \in HistoryType /\ recorded \in Seq(Text)
        /\ KeepsTheLast(history, recorded) /\ history.next <= MaxNumber
    BY DEF IInv, HistoryKept
  <2> DEFINE n == Len(recorded)
             m == Len(history.entries)
  <2>2. m \in 0..m /\ m \in Nat /\ n \in Nat /\ m <= n
    BY <2>1 DEF HistoryType, KeepsTheLast
  <2>3. history.retained = BytesOf(history.entries)[m]
    <3>1. BytesOf(history.entries)[m] = SumsOf(recorded)[n - m + m] - SumsOf(recorded)[n - m]
      BY <2>1, <2>2, BytesOfTheLast
    <3>2. n - m + m = n
      BY <2>2
    <3>3. history.retained = SumsOf(recorded)[n] - SumsOf(recorded)[n - m]
      BY <2>1 DEF KeepsTheLast
    <3>. QED BY <3>1, <3>2, <3>3
  <2>4. history.next \in 1..MaxNumber
    BY <2>1, <2>2 DEF KeepsTheLast
  <2>. QED BY <2>3, <2>4 DEF IInv, StreamTypes, TypeOK, Reader, Rejections
<1>. QED BY <1>1, IInvHolds, PTL

(* The numbers shown by .history are the places of the lines recorded.     *)
THEOREM NumbersAlwaysTellPlace == Spec => []NumbersTellPlace
<1>1. ASSUME IInv PROVE NumbersTellPlace
  <2>1. KeepsTheLast(history, recorded)
    BY <1>1 DEF IInv, HistoryKept
  <2>2. ASSUME NEW i \in 1..Len(history.entries)
        PROVE  history.entries[i].number = Len(recorded) - Len(history.entries) + i
    <3>1. history.entries[i]
            = [number |-> Len(recorded) - Len(history.entries) + i,
               text   |-> recorded[Len(recorded) - Len(history.entries) + i]]
      BY <2>1 DEF KeepsTheLast
    <3>. QED BY <3>1
  <2>. QED BY <2>1, <2>2 DEF KeepsTheLast, NumbersTellPlace
<1>. QED BY <1>1, IInvHolds, PTL

(* What is dispatched is the line met last, recorded or refused.           *)
THEOREM LineReadIsDispatched == Spec => []DispatchesTheLineRead
<1>1. IInv => DispatchesTheLineRead
  BY DEF IInv, LineIsLastMet, DispatchesTheLineRead
<1>. QED BY <1>1, IInvHolds, PTL

(* The bytes of the last k texts, end to end, are a difference of sums.    *)
LEMMA BytesOfLastRecorded ==
  ASSUME recorded \in Seq(Text), NEW k \in 0..Len(recorded)
  PROVE  /\ LastRecorded(k) \in Seq(Text)
         /\ Len(LastRecorded(k)) = k
         /\ \A i \in 1..k : LastRecorded(k)[i] = recorded[Len(recorded) - k + i]
         /\ Len(FlattenSeq(LastRecorded(k)))
              = SumsOf(recorded)[Len(recorded)] - SumsOf(recorded)[Len(recorded) - k]
<1> DEFINE n == Len(recorded)
           t == LastRecorded(k)
           b == SumsOf(t)
           c == SumsOf(recorded)
<1>1. n \in Nat /\ k \in Nat /\ k <= n
  OBVIOUS
<1>2. /\ t \in Seq(Text) /\ Len(t) = k
      /\ \A i \in 1..k : t[i] = recorded[n - k + i]
  <2>1. \A i \in (n - k + 1)..n : recorded[i] \in Text
    BY <1>1, ElementOfSeq
  <2> HIDE DEF n
  <2>2. /\ SubSeq(recorded, n - k + 1, n) \in Seq(Text)
        /\ Len(SubSeq(recorded, n - k + 1, n))
             = IF n - k + 1 <= n THEN n - (n - k + 1) + 1 ELSE 0
        /\ \A i \in 1..(n - (n - k + 1) + 1) :
             SubSeq(recorded, n - k + 1, n)[i] = recorded[(n - k + 1) + i - 1]
    <3>1. n - k + 1 \in Int /\ n \in Int
      BY <1>1
    <3>. QED BY <2>1, <3>1, SubSeqProperties
  <2>3. /\ n - (n - k + 1) + 1 = k /\ (~(n - k + 1 <= n) => k = 0)
        /\ \A i \in Int : (n - k + 1) + i - 1 = n - k + i
    BY <1>1
  <2>4. t = SubSeq(recorded, n - k + 1, n)
    BY DEF LastRecorded, n
  <2> HIDE DEF t
  <2>5. Len(t) = k
    BY <1>1, <2>2, <2>3, <2>4
  <2>6. ASSUME NEW i \in 1..k PROVE t[i] = recorded[n - k + i]
    <3>1. i \in 1..(n - (n - k + 1) + 1) /\ i \in Int
      BY <1>1, <2>3
    <3>. QED BY <2>2, <2>3, <2>4, <3>1
  <2>. QED BY <2>2, <2>4, <2>5, <2>6
<1>3. IsSums(b, TextLengths(t), k) /\ IsSums(c, TextLengths(recorded), n)
  BY <1>2, SumsOfIsSums
<1>4. Stretch(b, 0, k) = Stretch(c, n - k, k)
  <2>1. SameWeights(TextLengths(t), 0, TextLengths(recorded), n - k, k)
    <3>1. ASSUME NEW i \in 1..k
          PROVE  TextLengths(t)[0 + i] = TextLengths(recorded)[n - k + i]
      <4>1. 0 + i = i /\ n - k + i \in 1..n
        BY <1>1
      <4> HIDE DEF t
      <4>. QED BY <1>2, <4>1 DEF TextLengths
    <3>. QED BY <3>1 DEF SameWeights
  <2>2. 0 \in Nat /\ n - k \in Nat /\ 0 + k <= k /\ n - k + k <= n
    BY <1>1
  <2> HIDE DEF n, b, c, t
  <2>. QED BY <1>1, <1>3, <2>1, <2>2, EqualStretches
<1>5. Len(FlattenSeq(t)) = b[Len(t)]
  <2> HIDE DEF t
  <2>1. TextLengths(t) = [i \in 1..Len(t) |-> Len(t[i])]
    BY DEF TextLengths
  <2>2. IsSums(b, [i \in 1..Len(t) |-> Len(t[i])], Len(t))
    BY <1>2, <1>3, <2>1
  <2> HIDE DEF b
  <2>. QED BY <1>2, <2>2, FlattenLength DEF Text
<1>6. b[0] = 0 /\ b[k] \in Nat /\ 0 + k = k /\ n - k + k = n
  <2> HIDE DEF b, t, n
  <2>. QED BY <1>1, <1>3 DEF IsSums
<1> HIDE DEF b, c, t
<1>7. b[k] = c[n] - c[n - k]
  BY <1>4, <1>6 DEF Stretch
<1>. QED BY <1>2, <1>5, <1>7 DEF c, t

(* The history is the longest end of what was recorded that fits.          *)
THEOREM HistoryIsAlwaysLongestSuffix == Spec => []HistoryIsLongestSuffix
<1>1. ASSUME IInv PROVE HistoryIsLongestSuffix
  <2> DEFINE m == Len(history.entries)
             texts == [i \in 1..m |-> history.entries[i].text]
  <2>1. /\ history \in HistoryType /\ recorded \in Seq(Text)
        /\ KeepsTheLast(history, recorded)
    BY <1>1 DEF IInv, HistoryKept
  <2>2. m \in 0..Len(recorded) /\ m \in Nat
    BY <2>1 DEF KeepsTheLast, HistoryType
  <2>3. texts = LastRecorded(m)
    <3>1. \A i \in 1..m : history.entries[i] \in Entry
      BY <2>1, ElementOfSeq DEF HistoryType
    <3>2. texts \in Seq(Text) /\ Len(texts) = m
      BY <2>2, <3>1 DEF Entry
    <3>3. ASSUME NEW i \in 1..m PROVE texts[i] = LastRecorded(m)[i]
      <4>1. history.entries[i]
              = [number |-> Len(recorded) - m + i, text |-> recorded[Len(recorded) - m + i]]
        BY <2>1 DEF KeepsTheLast
      <4>2. LastRecorded(m)[i] = recorded[Len(recorded) - m + i]
        BY <2>1, <2>2, BytesOfLastRecorded
      <4>. QED BY <4>1, <4>2
    <3>4. LastRecorded(m) \in Seq(Text) /\ Len(LastRecorded(m)) = m
      BY <2>1, <2>2, BytesOfLastRecorded
    <3> HIDE DEF texts, m
    <3>. QED BY <3>2, <3>3, <3>4, SeqEqual
  <2>4. Fits(m, Len(FlattenSeq(LastRecorded(m))))
    BY <2>1, <2>2, BytesOfLastRecorded DEF KeepsTheLast
  <2>5. ASSUME NEW l \in (m + 1)..Len(recorded)
        PROVE  ~Fits(l, Len(FlattenSeq(LastRecorded(l))))
    <3>1. l \in 0..Len(recorded)
      BY <2>2
    <3>2. Len(FlattenSeq(LastRecorded(l)))
            = SumsOf(recorded)[Len(recorded)] - SumsOf(recorded)[Len(recorded) - l]
      BY <2>1, <3>1, BytesOfLastRecorded
    <3>. QED BY <2>1, <3>2 DEF KeepsTheLast
  <2>. QED BY <2>2, <2>3, <2>4, <2>5 DEF HistoryIsLongestSuffix
<1>. QED BY <1>1, IInvHolds, PTL

-----------------------------------------------------------------------------
(* The lines of the input, whatever the buffers: where the reader stands.  *)

Consumed == Len(input) - Len(rest)

EndsTo(s) == {e \in LineEnds : e <= s}

\* A line may start after s, and n lines end before it.
Reached(s, n) ==
  \/ (s = 0 \/ input[s] = LF) /\ n = Cardinality(EndsTo(s))
  \/ s = Len(input) /\ n = Cardinality(LineEnds)

NoFeed(s, p) == \A i \in (s + 1)..p : input[i] # LF

\* The reader r holds the bytes after s up to p, or has counted too many.
Gathered(r, s, p) ==
  /\ r.rejection = "None" =>
       /\ Len(r.bytes) = p - s
       /\ \A i \in 1..(p - s) : r.bytes[i] = input[s + i]
  /\ r.rejection = "Oversized" => p - s > MaxBytes + 1

\* The line at hand started after s, and no line feed was met since.
WithinLine(s) ==
  /\ Reached(s, Len(handled))
  /\ NoFeed(s, Consumed)
  /\ Gathered(reader, s, Consumed)
  /\ reader.any <=> Consumed > s
  /\ reader.rejection # "None" => reader.any

\* The line at hand started after s, and its line feed was the last byte.
AtFeed(s) ==
  /\ Reached(s, Len(handled))
  /\ NoFeed(s, Consumed - 1)
  /\ input[Consumed] = LF
  /\ Gathered(reader, s, Consumed - 1)

ReaderStands ==
  /\ phase \in {"Prompt", "Record", "Dispatch"} => Reached(Consumed, Len(handled))
  /\ phase = "Reading" => \E s \in 0..Consumed : ~reader.lf /\ WithinLine(s)
  /\ phase = "Line" =>
       \/ reader.lf /\ reader.any /\ \E s \in 0..(Consumed - 1) : AtFeed(s)
       \/ ~reader.lf /\ rest = <<>> /\ \E s \in 0..Consumed : WithinLine(s)

\* What became of a line, and the line.
Answers(met, text) ==
  CASE met.kind = "Line"      -> met.text = text /\ Len(text) <= MaxBytes
    [] met.kind = "Oversized" -> Len(text) > MaxBytes
    [] met.kind = "NotUtf8"   -> \E i \in 1..Len(text) : text[i] = NotUtf8
    [] OTHER -> TRUE

EndedWell ==
  ended = "Success" =>
    /\ phase = "Ended"
    /\ \/ handled # <<>> /\ Kind(handled[Len(handled)].text) = "Exit"
       \/ Len(handled) = Cardinality(LineEnds)

LinesMet ==
  /\ ReaderStands
  /\ \A n \in 1..Len(handled) : Answers(handled[n], LineNumber(n))
  /\ EndedWell

(* The ends of lines are places of the input, or the one after it.         *)
LEMMA LineEndsAreFinite ==
  ASSUME input \in Text
  PROVE  /\ IsFiniteSet(LineEnds) /\ Cardinality(LineEnds) \in Nat
         /\ LineEnds \subseteq 1..(Len(input) + 1)
         /\ \A s : IsFiniteSet(EndsTo(s)) /\ Cardinality(EndsTo(s)) \in Nat
<1>1. Len(input) \in Nat
  BY DEF Text
<1>2. LineEnds \subseteq 1..(Len(input) + 1)
  BY <1>1 DEF LineEnds, Breaks
<1>3. IsFiniteSet(LineEnds)
  <2>1. 1 \in Int /\ Len(input) + 1 \in Int
    BY <1>1
  <2>2. IsFiniteSet(1..(Len(input) + 1))
    BY <2>1, FS_Interval
  <2>3. LineEnds \in SUBSET (1..(Len(input) + 1))
    BY <1>2
  <2>. QED BY <2>2, <2>3, FS_Subset
<1>4. ASSUME NEW s PROVE IsFiniteSet(EndsTo(s))
  <2>1. EndsTo(s) \in SUBSET LineEnds
    BY DEF EndsTo
  <2>. QED BY <1>3, <2>1, FS_Subset
<1>. QED BY <1>2, <1>3, <1>4, FS_CardinalityType

(* A line that starts after the whole of the input is past every line.     *)
LEMMA ReachedTheEnd ==
  ASSUME input \in Text, NEW n, Reached(Len(input), n)
  PROVE  n = Cardinality(LineEnds)
<1>1. CASE Len(input) = 0 \/ input[Len(input)] = LF
  <2>1. Len(input) \in Nat /\ (Len(input) = 0 => input = <<>>)
    BY EmptySeq DEF Text
  <2>2. EndsTo(Len(input)) = LineEnds
    BY <1>1, <2>1 DEF EndsTo, LineEnds, Breaks
  <2>. QED BY <2>2 DEF Reached
<1>2. CASE ~(Len(input) = 0 \/ input[Len(input)] = LF)
  BY <1>2 DEF Reached
<1>. QED BY <1>1, <1>2

(* Reading on never takes an end of a line back.                         *)
LEMMA EndsGrow ==
  ASSUME input \in Text, NEW s \in Nat, NEW p \in Nat, s <= p
  PROVE  EndsTo(s) \in SUBSET EndsTo(p)
<1> SUFFICES ASSUME NEW l \in EndsTo(s) PROVE l \in EndsTo(p)
  OBVIOUS
<1>1. l \in LineEnds /\ l <= s /\ l \in 1..(Len(input) + 1) /\ Len(input) \in Nat
  BY LineEndsAreFinite DEF EndsTo, Text
<1>2. l <= p
  BY <1>1
<1>. QED BY <1>1, <1>2 DEF EndsTo

(* The line that starts after s and ends at e: its number and its bytes.   *)
LEMMA TheNextLine ==
  ASSUME input \in Text, NEW s \in 0..Len(input), s = 0 \/ input[s] = LF,
         NEW e \in LineEnds, e > s, NoFeed(s, e - 1)
  PROVE  /\ Cardinality(EndsTo(e)) = Cardinality(EndsTo(s)) + 1
         /\ LineNumber(Cardinality(EndsTo(s)) + 1)
              = SubSeq(input, s + 1,
                       IF e \in Breaks /\ e > s + 1 /\ input[e - 1] = CR
                       THEN e - 2 ELSE e - 1)
<1> DEFINE n == Cardinality(EndsTo(s)) + 1
<1>1. /\ Len(input) \in Nat /\ e \in 1..(Len(input) + 1)
      /\ IsFiniteSet(EndsTo(s)) /\ Cardinality(EndsTo(s)) \in Nat
  BY LineEndsAreFinite DEF Text
<1>2. EndsTo(e) = EndsTo(s) \union {e}
  <2>1. ASSUME NEW l \in LineEnds, l <= e, l > s PROVE l = e
    <3>1. l \in 1..(Len(input) + 1)
      BY LineEndsAreFinite
    <3>2. CASE l \in Breaks
      BY <1>1, <2>1, <3>1, <3>2 DEF NoFeed, Breaks
    <3>3. CASE l = Len(input) + 1
      BY <1>1, <2>1, <3>3
    <3>. QED BY <3>2, <3>3 DEF LineEnds
  <2>2. ASSUME NEW l \in EndsTo(e) PROVE l \in EndsTo(s) \union {e}
    <3>1. l \in LineEnds /\ l \in Nat /\ l <= e
      BY <1>1, LineEndsAreFinite DEF EndsTo
    <3>2. l <= s \/ l = e
      BY <2>1, <3>1
    <3>. QED BY <3>1, <3>2 DEF EndsTo
  <2>3. ASSUME NEW l \in EndsTo(s) \union {e} PROVE l \in EndsTo(e)
    <3>1. l \in LineEnds /\ (l <= s \/ l = e)
      BY DEF EndsTo
    <3>2. l \in Nat
      BY <1>1, <3>1, LineEndsAreFinite
    <3>3. l <= e
      BY <1>1, <3>1, <3>2
    <3>. QED BY <3>1, <3>3 DEF EndsTo
  <2>. QED BY <2>2, <2>3
<1>3. e \notin EndsTo(s)
  BY <1>1 DEF EndsTo
<1>4. Cardinality(EndsTo(e)) = n
  BY <1>1, <1>2, <1>3, FS_AddElement
<1>5. ASSUME NEW d \in LineEnds, Cardinality(EndsTo(d)) = n PROVE d = e
  <2>1. d \in Nat /\ e \in Nat
    BY <1>1, LineEndsAreFinite
  <2>2. IsFiniteSet(EndsTo(d)) /\ IsFiniteSet(EndsTo(e))
    BY LineEndsAreFinite
  <2>3. d \in EndsTo(d) /\ e \in EndsTo(e)
    BY <2>1 DEF EndsTo
  <2>4. CASE d <= e
    <3>1. EndsTo(d) \in SUBSET EndsTo(e)
      BY <2>1, <2>4, EndsGrow
    <3>2. EndsTo(e) = EndsTo(d)
      BY <1>4, <1>5, <2>2, <3>1, FS_Subset
    <3>. QED BY <2>1, <2>3, <2>4, <3>2 DEF EndsTo
  <2>5. CASE e <= d
    <3>1. EndsTo(e) \in SUBSET EndsTo(d)
      BY <2>1, <2>5, EndsGrow
    <3>2. EndsTo(e) = EndsTo(d)
      BY <1>4, <1>5, <2>2, <3>1, FS_Subset
    <3>. QED BY <2>1, <2>3, <2>5, <3>2 DEF EndsTo
  <2>. QED BY <2>1, <2>4, <2>5
<1>6. (CHOOSE d \in LineEnds : Cardinality({l \in LineEnds : l <= d}) = n) = e
  BY <1>4, <1>5 DEF EndsTo
<1>7. LastBreakBefore(e) = s
  <2> DEFINE before == {b \in Breaks : b < e}
  <2>1. ASSUME NEW b \in before PROVE b <= s /\ b \in Nat
    BY <1>1, <2>1 DEF Breaks, NoFeed
  <2>2. CASE s = 0
    <3>1. before = {}
      BY <1>1, <2>1, <2>2 DEF Breaks
    <3>. QED BY <2>2, <3>1 DEF LastBreakBefore
  <2>3. CASE s # 0
    <3>1. s \in before
      BY <1>1, <2>3 DEF Breaks
    <3>2. Max(before) = s
      <4>1. \A b \in before : s >= b
        BY <2>1, <3>1
      <4>2. \A b \in before : (\A c \in before : b >= c) => b = s
        BY <2>1, <3>1
      <4> HIDE DEF before
      <4>. QED BY <3>1, <4>1, <4>2 DEF Max
    <3>. QED BY <3>1, <3>2 DEF LastBreakBefore
  <2>. QED BY <2>2, <2>3
<1>8. e > LastBreakBefore(e) + 1 <=> e > s + 1
  BY <1>7
<1>9. LineNumber(n) = SubSeq(input, s + 1,
                             IF e \in Breaks /\ e > s + 1 /\ input[e - 1] = CR
                             THEN e - 2 ELSE e - 1)
  <2> DEFINE chosen == CHOOSE d \in LineEnds :
                          Cardinality({l \in LineEnds : l <= d}) = n
  <2>1. LineNumber(n)
          = SubSeq(input, LastBreakBefore(chosen) + 1,
                   IF chosen \in Breaks /\ chosen > LastBreakBefore(chosen) + 1
                        /\ input[chosen - 1] = CR
                   THEN chosen - 2 ELSE chosen - 1)
    BY DEF LineNumber
  <2>2. chosen = e
    BY <1>6
  <2> HIDE DEF n, chosen
  <2>. QED BY <1>7, <2>1, <2>2
<1>. QED BY <1>4, <1>9

(* Where no line is at hand, the lines met are those consumed.             *)
LEMMA ReachedIsConsumed ==
  ASSUME StreamTypes, NEW n, Reached(Consumed, n)
  PROVE  n = LinesConsumed
<1>1. /\ input \in Text /\ rest \in Text /\ Len(input) \in Nat /\ Len(rest) \in Nat
      /\ Len(rest) <= Len(input)
  BY DEF StreamTypes, Text
<1>2. rest = <<>> <=> Consumed = Len(input)
  <2>1. rest = <<>> <=> Len(rest) = 0
    BY <1>1, EmptySeq DEF Text
  <2>. QED BY <1>1, <2>1 DEF Consumed
<1>3. CASE rest = <<>>
  <2>1. n = Cardinality(LineEnds)
    BY <1>1, <1>2, <1>3, ReachedTheEnd
  <2>2. {e \in LineEnds : e <= Len(input) - Len(rest)
                            \/ (rest = <<>> /\ e > Len(input))} = LineEnds
    <3>1. \A e \in LineEnds : e <= Len(input) - Len(rest) \/ e > Len(input)
      BY <1>1, <1>2, <1>3, LineEndsAreFinite DEF Consumed
    <3>. QED BY <1>3, <3>1
  <2>. QED BY <2>1, <2>2 DEF LinesConsumed
<1>4. CASE rest # <<>>
  <2>1. n = Cardinality(EndsTo(Consumed))
    BY <1>2, <1>4 DEF Reached
  <2>. QED BY <1>4, <2>1 DEF LinesConsumed, EndsTo, Consumed
<1>. QED BY <1>3, <1>4

(* A buffer is the input from where the reader stands, to a line feed or   *)
(* for at least a byte.                                                    *)
LEMMA BufferOfInput ==
  ASSUME StreamTypes, FillBuffer
  PROVE  \E content \in Text, refuses \in BOOLEAN, lf \in BOOLEAN :
           /\ reader' = [Keep(reader, content, refuses) EXCEPT !.any = TRUE, !.lf = lf]
           /\ \A i \in 1..Len(content) : content[i] = input[Consumed + i] /\ content[i] # LF
           /\ Consumed' = IF lf THEN Consumed + Len(content) + 1 ELSE Consumed + Len(content)
           /\ lf => input[Consumed + Len(content) + 1] = LF
           /\ ~lf => Len(content) > 0
           /\ phase' = IF lf THEN "Line" ELSE phase
<1>1. PICK length \in 1..Len(rest), refuses \in BOOLEAN :
        LET available == SubSeq(rest, 1, length)
            content == Content(available)
            lf == Len(content) < length
            consumed == IF lf THEN Len(content) + 1 ELSE length
        IN  /\ reader' = [Keep(reader, content, refuses) EXCEPT !.any = TRUE, !.lf = lf]
            /\ rest' = SubSeq(rest, consumed + 1, Len(rest))
            /\ phase' = IF lf THEN "Line" ELSE phase
  BY DEF FillBuffer
<1> DEFINE available == SubSeq(rest, 1, length)
           content == Content(available)
           lf == Len(content) < length
           consumed == IF lf THEN Len(content) + 1 ELSE length
<1>2. /\ input \in Text /\ rest \in Text /\ Len(rest) \in Nat /\ Len(input) \in Nat
      /\ Len(rest) <= Len(input)
      /\ rest = SubSeq(input, Len(input) - Len(rest) + 1, Len(input))
  BY DEF StreamTypes, Text
<1>3. /\ available \in Text /\ Len(available) = length
      /\ \A i \in 1..length : available[i] = rest[i]
  <2>1. \A i \in 1..length : rest[i] \in STRING
    BY <1>2, ElementOfSeq DEF Text
  <2>2. 1 \in Int /\ length \in Int /\ 1 <= length /\ length - 1 + 1 = length
        /\ \A i \in Int : 1 + i - 1 = i
    OBVIOUS
  <2>3. /\ SubSeq(rest, 1, length) \in Seq(STRING)
        /\ Len(SubSeq(rest, 1, length)) = IF 1 <= length THEN length - 1 + 1 ELSE 0
        /\ \A i \in 1..(length - 1 + 1) : SubSeq(rest, 1, length)[i] = rest[1 + i - 1]
    BY <2>1, <2>2, SubSeqProperties
  <2>. QED BY <2>2, <2>3 DEF Text
<1>4. /\ content \in Text /\ Len(content) \in Nat /\ Len(content) <= length
      /\ \A i \in 1..Len(content) : content[i] = available[i] /\ available[i] # LF
      /\ lf => available[Len(content) + 1] = LF
  <2> HIDE DEF available
  <2>1. /\ Content(available) \in Text /\ Len(Content(available)) <= Len(available)
        /\ \A i \in 1..Len(Content(available)) :
             Content(available)[i] = available[i] /\ available[i] # LF
        /\ Len(Content(available)) < Len(available)
             => available[Len(Content(available)) + 1] = LF
    BY <1>3, ContentStopsAtLineFeed
  <2>. QED BY <1>3, <2>1 DEF Text
<1>5. \A i \in 1..Len(rest) : rest[i] = input[Consumed + i]
  <2>1. Consumed \in 0..Len(input) /\ Len(input) - Consumed = Len(rest)
        /\ Consumed = Len(input) - Len(rest)
    BY <1>2 DEF Consumed
  <2>2. \A i \in 1..(Len(input) - Consumed) :
          SubSeq(input, Consumed + 1, Len(input))[i] = input[Consumed + i]
    <3> HIDE DEF Consumed
    <3>. QED BY <1>2, <2>1, EndOfStream
  <2>3. rest = SubSeq(input, Consumed + 1, Len(input))
    BY <1>2 DEF Consumed
  <2>. QED BY <2>1, <2>2, <2>3
<1> HIDE DEF content, available
<1>6. consumed \in 0..Len(rest)
  BY <1>4
<1>7. Consumed' = Consumed + consumed
  <2>1. rest' = SubSeq(rest, consumed + 1, Len(rest)) /\ input' = input
    BY <1>1 DEF FillBuffer, content, available
  <2> HIDE DEF consumed
  <2>2. Len(rest') = Len(rest) - consumed
    BY <1>2, <1>6, <2>1, EndOfStream
  <2>3. Len(input') = Len(input) /\ consumed \in Int
    BY <2>1, <1>6
  <2>4. Consumed' = Len(input') - Len(rest')
    BY DEF Consumed
  <2>5. Len(input) - (Len(rest) - consumed) = (Len(input) - Len(rest)) + consumed
    BY <1>2, <2>3
  <2>. QED BY <2>2, <2>3, <2>4, <2>5 DEF Consumed
<1>8. ASSUME NEW i \in 1..Len(content)
      PROVE  content[i] = input[Consumed + i] /\ content[i] # LF
  <2>1. i \in 1..length /\ i \in 1..Len(rest)
    BY <1>4
  <2>. QED BY <1>3, <1>4, <1>5, <2>1
<1>9. lf => input[Consumed + Len(content) + 1] = LF
  <2> SUFFICES ASSUME lf PROVE input[Consumed + Len(content) + 1] = LF
    OBVIOUS
  <2>1. Len(content) + 1 \in 1..length /\ Len(content) + 1 \in 1..Len(rest)
        /\ Consumed + (Len(content) + 1) = Consumed + Len(content) + 1
    BY <1>2, <1>4 DEF Consumed
  <2>. QED BY <1>3, <1>4, <1>5, <2>1
<1>10. /\ lf => Consumed' = Consumed + Len(content) + 1
       /\ ~lf => Consumed' = Consumed + Len(content) /\ Len(content) > 0
  <2>1. Consumed \in Int /\ (~lf => length = Len(content))
    BY <1>2, <1>4 DEF Consumed
  <2> HIDE DEF Consumed
  <2>. QED BY <1>4, <1>7, <2>1
<1>11. /\ reader' = [Keep(reader, content, refuses) EXCEPT !.any = TRUE, !.lf = lf]
       /\ phase' = IF lf THEN "Line" ELSE phase
  BY <1>1 DEF content, available
<1>12. lf \in BOOLEAN
  OBVIOUS
<1> HIDE DEF lf, consumed
<1>. QED BY <1>4, <1>8, <1>9, <1>10, <1>11, <1>12

(* What the reader keeps of a buffer goes on where its bytes end.          *)
LEMMA KeepGathers ==
  ASSUME NEW r \in Reader, NEW content \in Text, NEW refuses \in BOOLEAN,
         NEW s \in Nat, NEW p \in Nat, s <= p, Gathered(r, s, p),
         \A i \in 1..Len(content) : content[i] = input[p + i]
  PROVE  Gathered(Keep(r, content, refuses), s, p + Len(content))
<1> DEFINE k == Keep(r, content, refuses)
           q == p + Len(content)
<1>1. /\ r.bytes \in Seq(STRING) /\ content \in Seq(STRING) /\ MaxBytes \in Nat
      /\ Len(r.bytes) \in Nat /\ Len(content) \in Nat /\ r.rejection \in Rejections
  BY HistoryAssumption DEF Reader, Text
<1>2. CASE r.rejection # "None"
  BY <1>1, <1>2 DEF Keep, Gathered
<1>3. CASE r.rejection = "None"
  <2>1. Len(r.bytes) = p - s /\ \A i \in 1..(p - s) : r.bytes[i] = input[s + i]
    BY <1>3 DEF Gathered
  <2>2. CASE Len(r.bytes) + Len(content) > MaxBytes + 1
    <3>1. k.rejection = "Oversized"
      BY <1>3, <2>2 DEF Keep, Reader
    <3>2. q - s > MaxBytes + 1
      BY <1>1, <2>1, <2>2
    <3> HIDE DEF k, q
    <3>3. Gathered(k, s, q)
      BY <3>1, <3>2 DEF Gathered
    <3>. QED BY <3>3 DEF k, q
  <2>3. CASE ~(Len(r.bytes) + Len(content) > MaxBytes + 1) /\ content = <<>>
    <3>1. k = r /\ q = p
      BY <1>1, <1>3, <2>3 DEF Keep
    <3>. QED BY <3>1
  <2>4. CASE ~(Len(r.bytes) + Len(content) > MaxBytes + 1) /\ content # <<>> /\ refuses
    <3>1. k.rejection = "AllocationUnavailable"
      BY <1>3, <2>4 DEF Keep, Reader
    <3>. QED BY <3>1 DEF Gathered
  <2>5. CASE ~(Len(r.bytes) + Len(content) > MaxBytes + 1) /\ content # <<>> /\ ~refuses
    <3>1. k.rejection = "None" /\ k.bytes = r.bytes \o content
      BY <1>3, <2>5 DEF Keep, Reader
    <3>2. /\ Len(r.bytes \o content) = Len(r.bytes) + Len(content)
          /\ \A i \in 1..(Len(r.bytes) + Len(content)) :
               (r.bytes \o content)[i] = IF i <= Len(r.bytes) THEN r.bytes[i]
                                                             ELSE content[i - Len(r.bytes)]
      BY <1>1, ConcatProperties
    <3>3. Len(k.bytes) = q - s
      BY <1>1, <2>1, <3>1, <3>2
    <3>4. ASSUME NEW i \in 1..(q - s) PROVE k.bytes[i] = input[s + i]
      <4>1. CASE i <= Len(r.bytes)
        BY <1>1, <2>1, <3>1, <3>2, <4>1
      <4>2. CASE ~(i <= Len(r.bytes))
        <5>1. i - Len(r.bytes) \in 1..Len(content) /\ p + (i - Len(r.bytes)) = s + i
              /\ i \in 1..(Len(r.bytes) + Len(content))
          BY <1>1, <2>1, <4>2
        <5>2. content[i - Len(r.bytes)] = input[p + (i - Len(r.bytes))]
          BY <5>1
        <5>. QED BY <3>1, <3>2, <4>2, <5>1, <5>2
      <4>. QED BY <4>1, <4>2
    <3> HIDE DEF k, q
    <3>5. Gathered(k, s, q)
      BY <3>1, <3>3, <3>4 DEF Gathered
    <3>. QED BY <3>5 DEF k, q
  <2>. QED BY <2>2, <2>3, <2>4, <2>5
<1>. QED BY <1>2, <1>3

(* The reader's bytes, without a carriage return before a line feed.       *)
LEMMA StrippedBytes ==
  ASSUME input \in Text, NEW bytes \in Text, NEW lf \in BOOLEAN,
         NEW s \in Nat, NEW p \in Nat, s <= p, p <= Len(input), Len(bytes) = p - s,
         \A i \in 1..(p - s) : bytes[i] = input[s + i]
  PROVE  StripCR(bytes, lf)
           = SubSeq(input, s + 1, IF lf /\ p > s /\ input[p] = CR THEN p - 1 ELSE p)
<1> DEFINE m == Len(bytes)
<1>1. /\ Len(input) \in Nat /\ \A i \in 1..Len(input) : input[i] \in STRING
      /\ \A i \in 1..m : bytes[i] \in STRING
      /\ bytes \in Seq(STRING) /\ m \in Nat /\ m = p - s
      /\ bytes # <<>> <=> p > s
  <2>1. bytes = <<>> <=> Len(bytes) = 0
    BY EmptySeq DEF Text
  <2>. QED BY <2>1, ElementOfSeq DEF Text
<1>2. ASSUME NEW q \in Nat, s <= q, q <= p
      PROVE  SubSeq(bytes, 1, q - s) = SubSeq(input, s + 1, q)
  <2>1. /\ SubSeq(bytes, 1, q - s) \in Seq(STRING)
        /\ Len(SubSeq(bytes, 1, q - s)) = IF 1 <= q - s THEN q - s - 1 + 1 ELSE 0
        /\ \A i \in 1..(q - s - 1 + 1) : SubSeq(bytes, 1, q - s)[i] = bytes[1 + i - 1]
    <3>1. 1 \in Int /\ q - s \in Int /\ \A i \in 1..(q - s) : bytes[i] \in STRING
      BY <1>1, <1>2
    <3>. QED BY <3>1, SubSeqProperties
  <2>2. /\ SubSeq(input, s + 1, q) \in Seq(STRING)
        /\ Len(SubSeq(input, s + 1, q)) = IF s + 1 <= q THEN q - (s + 1) + 1 ELSE 0
        /\ \A i \in 1..(q - (s + 1) + 1) : SubSeq(input, s + 1, q)[i] = input[(s + 1) + i - 1]
    <3>1. s + 1 \in Int /\ q \in Int /\ \A i \in (s + 1)..q : input[i] \in STRING
      BY <1>1, <1>2
    <3>. QED BY <3>1, SubSeqProperties
  <2>3. /\ q - s - 1 + 1 = q - s /\ q - (s + 1) + 1 = q - s
        /\ ~(1 <= q - s) => q - s = 0
        /\ s + 1 <= q <=> 1 <= q - s
        /\ \A i \in Int : 1 + i - 1 = i /\ (s + 1) + i - 1 = s + i
    BY <1>2
  <2>4. Len(SubSeq(bytes, 1, q - s)) = q - s /\ Len(SubSeq(input, s + 1, q)) = q - s
    BY <2>1, <2>2, <2>3
  <2>5. ASSUME NEW i \in 1..(q - s)
        PROVE  SubSeq(bytes, 1, q - s)[i] = SubSeq(input, s + 1, q)[i]
    <3>1. SubSeq(bytes, 1, q - s)[i] = bytes[i]
      BY <2>1, <2>3
    <3>2. SubSeq(input, s + 1, q)[i] = input[s + i]
      BY <2>2, <2>3
    <3>3. i \in 1..(p - s)
      BY <1>2
    <3>. QED BY <3>1, <3>2, <3>3
  <2>. QED BY <2>1, <2>2, <2>4, <2>5, SeqEqual
<1>3. bytes = SubSeq(bytes, 1, p - s)
  BY <1>1, SubSeqFull
<1>4. p > s => bytes[m] = input[p] /\ m - 1 = (p - 1) - s /\ p - 1 \in Nat /\ s <= p - 1
  <2> SUFFICES ASSUME p > s
               PROVE  bytes[m] = input[p] /\ m - 1 = (p - 1) - s /\ p - 1 \in Nat /\ s <= p - 1
    OBVIOUS
  <2>1. p - s \in 1..(p - s) /\ s + (p - s) = p
    OBVIOUS
  <2>2. bytes[p - s] = input[p]
    BY <2>1
  <2>. QED BY <1>1, <2>2
<1>5. CASE lf /\ p > s /\ input[p] = CR
  <2>1. StripCR(bytes, lf) = SubSeq(bytes, 1, (p - 1) - s)
    BY <1>1, <1>4, <1>5 DEF StripCR
  <2>2. SubSeq(bytes, 1, (p - 1) - s) = SubSeq(input, s + 1, p - 1)
    BY <1>2, <1>4, <1>5
  <2>. QED BY <1>5, <2>1, <2>2
<1>6. CASE ~(lf /\ p > s /\ input[p] = CR)
  <2>1. StripCR(bytes, lf) = bytes
    BY <1>1, <1>4, <1>6 DEF StripCR
  <2>2. bytes = SubSeq(input, s + 1, p)
    BY <1>2, <1>3
  <2>. QED BY <1>6, <2>1, <2>2
<1>. QED BY <1>5, <1>6

(* What read_repl_line returns of the bytes from s to p: them, without a   *)
(* carriage return before the line feed, or that they are too long.        *)
LEMMA LineReadAnswers ==
  ASSUME StreamTypes, NEW s \in Nat, NEW p \in Nat, s <= p, p <= Len(input),
         Gathered(reader, s, p), reader.any
  PROVE  /\ LineRead.kind # "Eof"
         /\ Answers(LineRead,
                    SubSeq(input, s + 1,
                           IF reader.lf /\ p > s /\ input[p] = CR THEN p - 1 ELSE p))
<1> DEFINE q == IF reader.lf /\ p > s /\ input[p] = CR THEN p - 1 ELSE p
           text == SubSeq(input, s + 1, q)
<1>1. /\ input \in Text /\ reader \in Reader /\ reader.bytes \in Text /\ reader.lf \in BOOLEAN
      /\ reader.rejection \in Rejections /\ MaxBytes \in Nat /\ Len(input) \in Nat
  BY HistoryAssumption DEF StreamTypes, Reader, Text
<1>2. CASE reader.rejection = "None"
  <2>1. StripCR(reader.bytes, reader.lf) = text
    <3>1. /\ Len(reader.bytes) = p - s
          /\ \A i \in 1..(p - s) : reader.bytes[i] = input[s + i]
      BY <1>2 DEF Gathered
    <3>. QED BY <1>1, <3>1, StrippedBytes
  <2> HIDE DEF text
  <2>2. LineRead = IF Len(text) > MaxBytes THEN [kind |-> "Oversized", text |-> <<>>]
                   ELSE IF \E i \in 1..Len(text) : text[i] = NotUtf8
                        THEN [kind |-> "NotUtf8", text |-> <<>>]
                   ELSE [kind |-> "Line", text |-> text]
    BY <1>2, <2>1 DEF LineRead
  <2>3. Len(text) \in Int
    <3>1. s + 1 \in Int /\ q \in Int /\ \A i \in (s + 1)..q : input[i] \in STRING
      <4>1. \A i \in 1..Len(input) : input[i] \in STRING
        BY <1>1, ElementOfSeq DEF Text
      <4>. QED BY <1>1, <4>1
    <3> HIDE DEF q
    <3>2. text \in Seq(STRING)
      BY <3>1, SubSeqProperties DEF text
    <3>. QED BY <3>2
  <2>4. LineRead.kind # "Eof" /\ Answers(LineRead, text)
    <3>1. CASE Len(text) > MaxBytes
      BY <2>2, <3>1 DEF Answers
    <3>2. CASE ~(Len(text) > MaxBytes) /\ \E i \in 1..Len(text) : text[i] = NotUtf8
      BY <2>2, <3>2 DEF Answers
    <3>3. CASE ~(Len(text) > MaxBytes) /\ ~ \E i \in 1..Len(text) : text[i] = NotUtf8
      <4>1. LineRead = [kind |-> "Line", text |-> text] /\ Len(text) <= MaxBytes
        BY <1>1, <2>2, <2>3, <3>3
      <4>. QED BY <4>1 DEF Answers
    <3>. QED BY <3>1, <3>2, <3>3
  <2>. QED BY <2>4 DEF text
<1>3. CASE reader.rejection = "Oversized"
  <2>1. LineRead.kind = "Oversized"
    BY <1>3 DEF LineRead
  <2>2. p - s > MaxBytes + 1 /\ q \in Int
    BY <1>3 DEF Gathered
  <2>3. Len(text) > MaxBytes
    <3>1. /\ s + 1 <= q /\ q - (s + 1) + 1 > MaxBytes /\ s + 1 \in Int /\ q \in Int
          /\ \A i \in (s + 1)..q : input[i] \in STRING
      <4>1. \A i \in 1..Len(input) : input[i] \in STRING
        BY <1>1, ElementOfSeq DEF Text
      <4>. QED BY <1>1, <2>2, <4>1
    <3> HIDE DEF q
    <3>2. Len(text) = IF s + 1 <= q THEN q - (s + 1) + 1 ELSE 0
      BY <3>1, SubSeqProperties DEF text
    <3>. QED BY <3>1, <3>2
  <2> HIDE DEF text
  <2>4. LineRead.kind # "Eof" /\ Answers(LineRead, text)
    BY <2>1, <2>3 DEF Answers
  <2>. QED BY <2>4 DEF text
<1>4. CASE reader.rejection = "AllocationUnavailable"
  <2>1. LineRead.kind = "AllocationUnavailable"
    BY <1>4 DEF LineRead
  <2>. QED BY <2>1 DEF Answers
<1>. QED BY <1>1, <1>2, <1>3, <1>4 DEF Rejections

(* The reader's answer is about the next line of the input, and the end of *)
(* the input comes after the last of them.                                 *)
LEMMA TheLineRead ==
  ASSUME StreamTypes, ReaderStands, phase = "Line"
  PROVE  \/ LineRead.kind = "Eof" /\ Len(handled) = Cardinality(LineEnds)
         \/ /\ LineRead.kind # "Eof"
            /\ Reached(Consumed, Len(handled) + 1)
            /\ Answers(LineRead, LineNumber(Len(handled) + 1))
<1>1. /\ input \in Text /\ Len(input) \in Nat /\ Consumed \in 0..Len(input)
      /\ reader \in Reader /\ reader.rejection \in Rejections
      /\ rest = <<>> => Consumed = Len(input)
  <2>1. Len(rest) \in Nat /\ Len(input) \in Nat /\ Len(rest) <= Len(input)
        /\ (rest = <<>> => Len(rest) = 0)
    BY DEF StreamTypes, Text
  <2>. QED BY <2>1 DEF StreamTypes, Reader, Consumed
<1> DEFINE n == Len(handled)
<1>2. CASE reader.lf /\ reader.any /\ \E s \in 0..(Consumed - 1) : AtFeed(s)
  <2>1. PICK s \in 0..(Consumed - 1) : AtFeed(s)
    BY <1>2
  <2> DEFINE e == Consumed
  <2>2. /\ e \in 1..Len(input) /\ s < e /\ s \in Nat /\ s # Len(input)
        /\ e \in Breaks /\ e \in LineEnds /\ s \in 0..Len(input)
    BY <1>1, <2>1 DEF AtFeed, Breaks, LineEnds
  <2>3. /\ s = 0 \/ input[s] = LF
        /\ n = Cardinality(EndsTo(s))
        /\ NoFeed(s, e - 1) /\ Gathered(reader, s, e - 1)
    BY <2>1, <2>2 DEF AtFeed, Reached
  <2> HIDE DEF e, n
  <2>4. /\ Cardinality(EndsTo(e)) = n + 1
        /\ LineNumber(n + 1)
             = SubSeq(input, s + 1, IF e \in Breaks /\ e > s + 1 /\ input[e - 1] = CR
                                    THEN e - 2 ELSE e - 1)
    BY <1>1, <2>2, <2>3, TheNextLine
  <2>5. LineNumber(n + 1)
          = SubSeq(input, s + 1, IF reader.lf /\ e - 1 > s /\ input[e - 1] = CR
                                 THEN (e - 1) - 1 ELSE e - 1)
    <3>1. (e - 1) - 1 = e - 2 /\ (e - 1 > s <=> e > s + 1)
      BY <2>2
    <3>. QED BY <1>2, <2>2, <2>4, <3>1
  <2>6. LineRead.kind # "Eof" /\ Answers(LineRead, LineNumber(n + 1))
    <3> DEFINE p == e - 1
    <3>1. p \in Nat /\ s <= p /\ p <= Len(input)
      BY <2>2
    <3>2. Gathered(reader, s, p) /\ reader.any
      BY <1>2, <2>3
    <3>3. LineNumber(n + 1)
            = SubSeq(input, s + 1, IF reader.lf /\ p > s /\ input[p] = CR THEN p - 1 ELSE p)
      BY <2>5
    <3> HIDE DEF p
    <3>. QED BY <2>2, <3>1, <3>2, <3>3, LineReadAnswers
  <2>7. Reached(e, n + 1)
    BY <2>2, <2>4 DEF Reached, Breaks
  <2>. QED BY <2>6, <2>7 DEF e, n
<1>3. CASE ~reader.lf /\ rest = <<>> /\ \E s \in 0..Consumed : WithinLine(s)
  <2>1. PICK s \in 0..Consumed : WithinLine(s)
    BY <1>3
  <2>2. /\ Consumed = Len(input) /\ Reached(s, n) /\ NoFeed(s, Len(input))
        /\ Gathered(reader, s, Len(input)) /\ s \in Nat /\ s <= Len(input)
        /\ reader.any <=> Len(input) > s
        /\ reader.rejection # "None" => reader.any
    BY <1>1, <1>3, <2>1 DEF WithinLine
  <2>3. CASE ~reader.any
    <3>1. s = Len(input)
      BY <1>1, <2>2, <2>3
    <3>2. n = Cardinality(LineEnds)
      BY <1>1, <2>2, <3>1, ReachedTheEnd
    <3>3. LineRead.kind = "Eof"
      BY <2>2, <2>3 DEF LineRead
    <3>. QED BY <3>2, <3>3
  <2>4. CASE reader.any
    <3> DEFINE e == Len(input) + 1
    <3>1. /\ s < Len(input) /\ input # <<>> /\ input[Len(input)] # LF
          /\ e \in LineEnds /\ e \notin Breaks /\ e > s /\ e - 1 = Len(input)
          /\ s \in 0..Len(input) /\ e \in Nat
      BY <1>1, <2>2, <2>4 DEF NoFeed, LineEnds, Breaks
    <3>2. (s = 0 \/ input[s] = LF) /\ n = Cardinality(EndsTo(s)) /\ NoFeed(s, e - 1)
      BY <1>1, <2>2, <3>1 DEF Reached
    <3> HIDE DEF e, n
    <3>3. /\ Cardinality(EndsTo(e)) = n + 1
          /\ LineNumber(n + 1)
               = SubSeq(input, s + 1, IF e \in Breaks /\ e > s + 1 /\ input[e - 1] = CR
                                      THEN e - 2 ELSE e - 1)
      BY <1>1, <3>1, <3>2, TheNextLine
    <3>4. EndsTo(e) = LineEnds
      <4>1. \A l \in LineEnds : l <= e
        BY <1>1, LineEndsAreFinite DEF e
      <4>. QED BY <4>1 DEF EndsTo
    <3>5. Reached(Consumed, n + 1)
      BY <2>2, <3>3, <3>4 DEF Reached
    <3>6. LineNumber(n + 1)
            = SubSeq(input, s + 1,
                     IF reader.lf /\ Len(input) > s /\ input[Len(input)] = CR
                     THEN Len(input) - 1 ELSE Len(input))
      BY <1>3, <3>1, <3>3
    <3>7. LineRead.kind # "Eof" /\ Answers(LineRead, LineNumber(n + 1))
      <4> DEFINE p == Len(input)
      <4>1. p \in Nat /\ s <= p /\ p <= Len(input) /\ Gathered(reader, s, p)
        BY <1>1, <2>2
      <4>2. LineNumber(n + 1)
              = SubSeq(input, s + 1, IF reader.lf /\ p > s /\ input[p] = CR
                                     THEN p - 1 ELSE p)
        BY <3>6
      <4> HIDE DEF p
      <4>. QED BY <2>2, <2>4, <4>1, <4>2, LineReadAnswers
    <3>. QED BY <3>5, <3>7 DEF n
  <2>. QED BY <2>3, <2>4
<1>. QED BY <1>2, <1>3 DEF ReaderStands

(* Steps that neither read nor answer: the lines met stay as they are.     *)
LEMMA SameLines ==
  ASSUME input' = input
  PROVE  /\ LineEnds' = LineEnds
         /\ \A s, n : Reached(s, n)' <=> Reached(s, n)
         /\ \A n : LineNumber(n)' = LineNumber(n)
<1>1. Breaks' = Breaks
  BY DEF Breaks
<1>2. LineEnds' = LineEnds
  BY <1>1 DEF LineEnds
<1>3. ASSUME NEW s PROVE EndsTo(s)' = EndsTo(s)
  BY <1>2 DEF EndsTo
<1>4. ASSUME NEW s, NEW n PROVE Reached(s, n)' <=> Reached(s, n)
  BY <1>2, <1>3 DEF Reached
<1>5. ASSUME NEW i PROVE LastBreakBefore(i)' = LastBreakBefore(i)
  BY <1>1 DEF LastBreakBefore
<1>6. ASSUME NEW n PROVE LineNumber(n)' = LineNumber(n)
  <2> DEFINE end == CHOOSE e \in LineEnds : Cardinality({l \in LineEnds : l <= e}) = n
             Bytes(e) == SubSeq(input, LastBreakBefore(e) + 1,
                                IF e \in Breaks /\ e > LastBreakBefore(e) + 1
                                     /\ input[e - 1] = CR
                                THEN e - 2 ELSE e - 1)
  <2>1. LineNumber(n) = Bytes(end) /\ LineNumber(n)' = Bytes(end)'
    BY DEF LineNumber
  <2>2. end' = end
    BY <1>2
  <2> HIDE DEF end
  <2>3. Bytes(end)' = Bytes(end)
    BY <1>1, <1>5, <2>2
  <2>. QED BY <2>1, <2>3
<1>. QED BY <1>2, <1>4, <1>6

(* What has been handled still answers its line while the input stands.  *)
LEMMA AnswersKept ==
  ASSUME input' = input, handled' = handled,
         \A n \in 1..Len(handled) : Answers(handled[n], LineNumber(n))
  PROVE  (\A n \in 1..Len(handled) : Answers(handled[n], LineNumber(n)))'
BY SameLines

(* A buffer leaves the reader within its line, or at its feed.             *)
LEMMA FillBufferStands ==
  ASSUME StreamTypes, ReaderStands, FillBuffer
  PROVE  ReaderStands'
<1>1. PICK content \in Text, refuses \in BOOLEAN, lf \in BOOLEAN :
           /\ reader' = [Keep(reader, content, refuses) EXCEPT !.any = TRUE, !.lf = lf]
           /\ \A i \in 1..Len(content) : content[i] = input[Consumed + i] /\ content[i] # LF
           /\ Consumed' = IF lf THEN Consumed + Len(content) + 1 ELSE Consumed + Len(content)
           /\ lf => input[Consumed + Len(content) + 1] = LF
           /\ ~lf => Len(content) > 0
           /\ phase' = IF lf THEN "Line" ELSE phase
  BY BufferOfInput
<1>2. /\ reader \in Reader /\ Len(reader.bytes) <= MaxBytes + 1 /\ Consumed \in Nat
      /\ Len(content) \in Nat /\ phase = "Reading"
      /\ input' = input /\ handled' = handled
  <2>1. Len(rest) \in Nat /\ Len(input) \in Nat /\ Len(rest) <= Len(input)
    BY DEF StreamTypes, Text
  <2>. QED BY <2>1 DEF StreamTypes, Consumed, FillBuffer, Text
<1>3. PICK s \in 0..Consumed : ~reader.lf /\ WithinLine(s)
  BY <1>2 DEF ReaderStands
<1>4. PICK c \in Nat : c = Consumed
  BY <1>2
<1>5. PICK p \in Nat : p = c + Len(content)
  BY <1>2
<1>6. PICK k \in Reader : k = Keep(reader, content, refuses)
  BY <1>2, KeepIsBounded
<1>7. /\ Reached(s, Len(handled)) /\ NoFeed(s, c) /\ Gathered(reader, s, c)
      /\ s \in Nat /\ s <= c /\ c <= p
  BY <1>2, <1>3, <1>4, <1>5 DEF WithinLine
<1>8. Gathered(k, s, p)
  <2>1. \A i \in 1..Len(content) : content[i] = input[c + i]
    BY <1>1, <1>4
  <2>. QED BY <1>2, <1>5, <1>6, <1>7, <2>1, KeepGathers
<1>9. reader'.bytes = k.bytes /\ reader'.rejection = k.rejection /\ reader'.any /\ reader'.lf = lf
  BY <1>1, <1>6 DEF Reader
<1>10. Gathered(reader, s, p)'
  BY <1>2, <1>8, <1>9 DEF Gathered
<1>11. NoFeed(s, p)'
  <2>1. ASSUME NEW i \in (s + 1)..p PROVE input[i] # LF
    <3>1. CASE i <= c
      BY <1>7, <3>1 DEF NoFeed
    <3>2. CASE ~(i <= c)
      <4>1. i - c \in 1..Len(content) /\ c + (i - c) = i
        BY <1>2, <1>5, <1>7, <3>2
      <4>. QED BY <1>1, <1>4, <4>1
    <3>. QED BY <3>1, <3>2
  <2>. QED BY <1>2, <2>1 DEF NoFeed
<1>12. Reached(s, Len(handled))'
  <2>1. Reached(s, Len(handled)) <=> Reached(s, Len(handled))'
    BY <1>2 DEF Reached, EndsTo, LineEnds, Breaks
  <2>. QED BY <1>7, <2>1
<1>13. CASE lf
  <2>1. /\ Consumed' = p + 1 /\ s \in 0..p /\ p \in Nat /\ input'[p + 1] = LF
        /\ phase' = "Line" /\ Consumed' - 1 = p
    BY <1>1, <1>2, <1>4, <1>5, <1>7, <1>13
  <2>2. AtFeed(s)'
    <3>1. NoFeed(s, Consumed - 1)'
      BY <1>11, <2>1 DEF NoFeed
    <3>2. Gathered(reader, s, Consumed - 1)'
      BY <1>10, <2>1 DEF Gathered
    <3>. QED BY <1>12, <2>1, <3>1, <3>2 DEF AtFeed
  <2>. QED BY <1>9, <1>13, <2>1, <2>2 DEF ReaderStands
<1>14. CASE ~lf
  <2>1. Consumed' = p /\ s \in 0..p /\ p > s /\ phase' = "Reading"
    BY <1>1, <1>2, <1>4, <1>5, <1>7, <1>14
  <2>2. WithinLine(s)'
    <3>1. NoFeed(s, Consumed)'
      BY <1>11, <2>1 DEF NoFeed
    <3>2. Gathered(reader, s, Consumed)'
      BY <1>10, <2>1 DEF Gathered
    <3>. QED BY <1>9, <1>12, <2>1, <3>1, <3>2 DEF WithinLine
  <2>. QED BY <1>9, <1>14, <2>1, <2>2 DEF ReaderStands
<1>. QED BY <1>13, <1>14

(* The end of a line: it is met, or the input was at its end.              *)
LEMMA EndLineMeets ==
  ASSUME StreamTypes, LinesMet, EndLine
  PROVE  LinesMet'
<1>1. /\ phase = "Line" /\ input' = input /\ rest' = rest /\ reader' = reader
      /\ phase' = After(LineRead)[1] /\ ended' = After(LineRead)[2]
      /\ handled' = IF LineRead.kind = "Eof" THEN handled ELSE Append(handled, LineRead)
  BY DEF EndLine
<1>2. /\ LineRead \in Met /\ handled \in Seq(Met) /\ Len(handled) \in Nat
  BY LineReadIsMet DEF StreamTypes
<1>3. /\ LineEnds' = LineEnds /\ \A n : LineNumber(n)' = LineNumber(n)
  BY <1>1, SameLines
<1>4. CASE LineRead.kind = "Eof"
  <2>1. Len(handled) = Cardinality(LineEnds)
    BY <1>1, <1>4, TheLineRead DEF LinesMet
  <2>2. After(LineRead) = <<"Ended", "Success">>
    BY <1>4 DEF After
  <2>3. handled' = handled /\ phase' = "Ended" /\ ended' = "Success"
    BY <1>1, <1>4, <2>2
  <2>4. (\A n \in 1..Len(handled) : Answers(handled[n], LineNumber(n)))'
    BY <1>1, <2>3, AnswersKept DEF LinesMet
  <2>5. ReaderStands'
    BY <2>3 DEF ReaderStands
  <2>6. EndedWell'
    BY <1>3, <2>1, <2>3 DEF EndedWell
  <2>. QED BY <2>4, <2>5, <2>6 DEF LinesMet
<1>5. CASE LineRead.kind # "Eof"
  <2>1. /\ Reached(Consumed, Len(handled) + 1)
        /\ Answers(LineRead, LineNumber(Len(handled) + 1))
    BY <1>1, <1>5, TheLineRead DEF LinesMet
  <2>2. /\ phase' \in {"Prompt", "Record", "Ended"}
        /\ ended' \in {"No", "Failure"}
    <3>1. \/ After(LineRead) = <<"Ended", "Failure">>
          \/ After(LineRead) = <<"Record", "No">>
          \/ After(LineRead) = <<"Prompt", "No">>
      BY <1>5 DEF After
    <3>. QED BY <1>1, <3>1
  <2>3. /\ handled' = Append(handled, LineRead)
        /\ Len(handled') = Len(handled) + 1
        /\ \A i \in 1..Len(handled) : handled'[i] = handled[i]
        /\ handled'[Len(handled) + 1] = LineRead
    BY <1>1, <1>2, <1>5, AppendProperties
  <2>4. ASSUME NEW n \in 1..Len(handled') PROVE Answers(handled'[n], LineNumber(n))
    <3>1. CASE n \in 1..Len(handled)
      BY <2>3, <3>1 DEF LinesMet
    <3>2. CASE n = Len(handled) + 1
      BY <2>1, <2>3, <3>2
    <3>. QED BY <1>2, <2>3, <3>1, <3>2
  <2>5. (\A n \in 1..Len(handled) : Answers(handled[n], LineNumber(n)))'
    BY <1>3, <2>4
  <2>6. ReaderStands'
    <3>1. Reached(Consumed, Len(handled))'
      BY <1>1, <2>1, <2>3 DEF Reached, Consumed, EndsTo, LineEnds, Breaks
    <3>. QED BY <2>2, <3>1 DEF ReaderStands
  <2>7. EndedWell'
    BY <2>2 DEF EndedWell
  <2>. QED BY <2>5, <2>6, <2>7 DEF LinesMet
<1>. QED BY <1>4, <1>5

(* At first nothing has been read and no line been met.                  *)
LEMMA InitMeetsNone == Init => LinesMet
<1> SUFFICES ASSUME Init PROVE LinesMet
  OBVIOUS
<1>1. input \in Text /\ Len(input) \in Nat /\ rest = input /\ handled = <<>>
      /\ phase = "Prompt" /\ ended = "No"
  BY InputsAssumption DEF Init, Text
<1>2. Consumed = 0
  BY <1>1 DEF Consumed
<1>3. EndsTo(0) = {}
  BY <1>1, LineEndsAreFinite DEF EndsTo
<1>4. Reached(Consumed, Len(handled))
  BY <1>1, <1>2, <1>3, FS_EmptySet DEF Reached
<1>. QED BY <1>1, <1>4 DEF LinesMet, ReaderStands, EndedWell

(* The steps between lines: the reader stands where it stood.              *)
LEMMA PromptMeets ==
  ASSUME StreamTypes, LinesMet, Prompt
  PROVE  LinesMet'
<1>1. /\ phase = "Prompt" /\ input' = input /\ rest' = rest /\ handled' = handled
      /\ reader' = FreshReader
      /\ \/ phase' = "Reading" /\ ended' = ended
         \/ phase' = "Ended" /\ ended' = "Failure"
  BY DEF Prompt, EndWith
<1>2. PICK c \in Nat : c = Consumed
  <2>1. Len(rest) \in Nat /\ Len(input) \in Nat /\ Len(rest) <= Len(input)
    BY DEF StreamTypes, Text
  <2>2. Consumed \in Nat
    BY <2>1 DEF Consumed
  <2>. QED BY <2>2
<1>3. Consumed' = c
  BY <1>1, <1>2 DEF Consumed
<1>4. (\A n \in 1..Len(handled) : Answers(handled[n], LineNumber(n)))'
  BY <1>1, AnswersKept DEF LinesMet
<1>5. EndedWell'
  BY <1>1 DEF LinesMet, EndedWell
<1>6. WithinLine(c)'
  <2>1. Reached(c, Len(handled))'
    BY <1>1, <1>2 DEF LinesMet, ReaderStands, Reached, EndsTo, LineEnds, Breaks
  <2>2. NoFeed(c, Consumed)'
    BY <1>3 DEF NoFeed
  <2>3. reader'.bytes = <<>> /\ reader'.rejection = "None" /\ ~reader'.any
    BY <1>1 DEF FreshReader
  <2>4. Gathered(reader, c, Consumed)'
    BY <1>3, <2>3 DEF Gathered
  <2>. QED BY <1>3, <2>1, <2>2, <2>3, <2>4 DEF WithinLine
<1>7. ReaderStands'
  <2>1. ~reader'.lf /\ c \in 0..Consumed'
    BY <1>1, <1>3 DEF FreshReader
  <2>. QED BY <1>1, <1>6, <2>1 DEF ReaderStands
<1>. QED BY <1>4, <1>5, <1>7 DEF LinesMet

(* Whatever the session does, each line handled is the next of the input. *)
LEMMA NextMeets ==
  ASSUME IInv, LinesMet, [Next]_vars
  PROVE  LinesMet'
<1>1. CASE Prompt
  BY <1>1, PromptMeets DEF IInv
<1>2. CASE FillBuffer
  <2>1. ReaderStands'
    BY <1>2, FillBufferStands DEF IInv, LinesMet
  <2>2. (\A n \in 1..Len(handled) : Answers(handled[n], LineNumber(n)))'
    BY <1>2, AnswersKept DEF FillBuffer, LinesMet
  <2>3. EndedWell'
    BY <1>2 DEF FillBuffer, LinesMet, EndedWell
  <2>. QED BY <2>1, <2>2, <2>3 DEF LinesMet
<1>3. CASE EndOfInput
  <2>1. /\ phase = "Reading" /\ phase' = "Line" /\ rest = <<>>
        /\ UNCHANGED <<input, rest, reader, handled, ended>>
    BY <1>3 DEF EndOfInput
  <2>2. PICK s \in 0..Consumed : ~reader.lf /\ WithinLine(s)
    BY <2>1 DEF LinesMet, ReaderStands
  <2>3. Consumed' = Consumed
    BY <2>1 DEF Consumed
  <2>4. WithinLine(s)'
    BY <2>1, <2>2, <2>3 DEF WithinLine, Reached, EndsTo, LineEnds, Breaks, NoFeed, Gathered
  <2>5. ReaderStands'
    BY <2>1, <2>2, <2>3, <2>4 DEF ReaderStands
  <2>6. (\A n \in 1..Len(handled) : Answers(handled[n], LineNumber(n)))'
    BY <2>1, AnswersKept DEF LinesMet
  <2>7. EndedWell'
    BY <2>1 DEF LinesMet, EndedWell
  <2>. QED BY <2>5, <2>6, <2>7 DEF LinesMet
<1>4. CASE ReadFails
  <2>1. phase' = "Ended" /\ ended' = "Failure" /\ input' = input /\ handled' = handled
    BY <1>4 DEF ReadFails, EndWith
  <2>2. (\A n \in 1..Len(handled) : Answers(handled[n], LineNumber(n)))'
    BY <2>1, AnswersKept DEF LinesMet
  <2>. QED BY <2>1, <2>2 DEF LinesMet, ReaderStands, EndedWell
<1>5. CASE EndLine
  BY <1>5, EndLineMeets DEF IInv
<1>6. CASE Record
  <2>1. /\ phase = "Record" /\ phase' = "Dispatch"
        /\ UNCHANGED <<input, rest, handled, ended>>
    BY <1>6 DEF Record
  <2>2. Reached(Consumed, Len(handled))'
    BY <2>1 DEF LinesMet, ReaderStands, Reached, Consumed, EndsTo, LineEnds, Breaks
  <2>3. (\A n \in 1..Len(handled) : Answers(handled[n], LineNumber(n)))'
    BY <2>1, AnswersKept DEF LinesMet
  <2>. QED BY <2>1, <2>2, <2>3 DEF LinesMet, ReaderStands, EndedWell
<1>7. CASE Dispatch
  <2>1. /\ phase = "Dispatch" /\ UNCHANGED <<input, rest, handled>>
        /\ \/ phase' = "Ended" /\ ended' = "Success" /\ Kind(line) = "Exit"
           \/ phase' = "Prompt" /\ ended' = ended
           \/ phase' = "Ended" /\ ended' = "Failure"
    BY <1>7 DEF Dispatch, EndWith
  <2>2. Reached(Consumed, Len(handled))'
    BY <2>1 DEF LinesMet, ReaderStands, Reached, Consumed, EndsTo, LineEnds, Breaks
  <2>3. (\A n \in 1..Len(handled) : Answers(handled[n], LineNumber(n)))'
    BY <2>1, AnswersKept DEF LinesMet
  <2>4. handled # <<>> /\ handled[Len(handled)].text = line
    BY <2>1 DEF IInv, LineIsLastMet
  <2>5. EndedWell'
    BY <2>1, <2>4 DEF LinesMet, EndedWell
  <2>. QED BY <2>1, <2>2, <2>3, <2>5 DEF LinesMet, ReaderStands
<1>8. CASE UNCHANGED vars
  <2>1. UNCHANGED <<input, rest, reader, handled, phase, ended>>
    BY <1>8 DEF vars
  <2>2. (\A n \in 1..Len(handled) : Answers(handled[n], LineNumber(n)))'
    BY <2>1, AnswersKept DEF LinesMet
  <2>3. ReaderStands'
    <3>1. Consumed' = Consumed
      BY <2>1 DEF Consumed
    <3>2. \A s, n : Reached(s, n)' <=> Reached(s, n)
      BY <2>1, SameLines
    <3>3. ASSUME NEW s PROVE AtFeed(s)' <=> AtFeed(s)
      BY <2>1, <3>1, <3>2 DEF AtFeed, NoFeed, Gathered
    <3>4. ASSUME NEW s PROVE WithinLine(s)' <=> WithinLine(s)
      BY <2>1, <3>1, <3>2 DEF WithinLine, NoFeed, Gathered
    <3>5. Reached(Consumed, Len(handled))' <=> Reached(Consumed, Len(handled))
      BY <2>1, <3>1 DEF Reached, EndsTo, LineEnds, Breaks
    <3>. QED BY <2>1, <3>1, <3>3, <3>4, <3>5 DEF LinesMet, ReaderStands
  <2>4. EndedWell'
    BY <2>1, SameLines DEF LinesMet, EndedWell
  <2>. QED BY <2>2, <2>3, <2>4 DEF LinesMet
<1>. QED BY <1>1, <1>2, <1>3, <1>4, <1>5, <1>6, <1>7, <1>8 DEF Next

(* However the input falls into buffers, each of its lines is met once, in *)
(* order and whole, or is rejected for what it is.                         *)
THEOREM LinesAreAlwaysMet == Spec => []LinesAreMet
<1>1. Init => LinesMet
  BY InitMeetsNone
<1>2. IInv /\ LinesMet /\ [Next]_vars => LinesMet'
  BY NextMeets
<1>3. ASSUME IInv, LinesMet PROVE LinesAreMet
  <2>1. phase \in {"Prompt", "Record", "Dispatch"} => Len(handled) = LinesConsumed
    BY <1>3, ReachedIsConsumed DEF IInv, LinesMet, ReaderStands
  <2>2. \A n \in 1..Len(handled) : Answers(handled[n], LineNumber(n))
    BY <1>3 DEF LinesMet
  <2>3. ASSUME NEW n \in 1..Len(handled)
        PROVE  CASE handled[n].kind = "Line" ->
                      handled[n].text = LineNumber(n) /\ Len(LineNumber(n)) <= MaxBytes
                 [] handled[n].kind = "Oversized" -> Len(LineNumber(n)) > MaxBytes
                 [] handled[n].kind = "NotUtf8" ->
                      \E i \in 1..Len(LineNumber(n)) : LineNumber(n)[i] = NotUtf8
                 [] OTHER -> TRUE
    BY <2>2 DEF Answers
  <2>. QED BY <1>3, <2>1, <2>3 DEF LinesAreMet, LinesMet, EndedWell
<1>. QED BY <1>1, <1>2, <1>3, IInvHolds, PTL DEF Spec
=============================================================================

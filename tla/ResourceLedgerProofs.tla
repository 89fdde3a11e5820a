------------------------- MODULE ResourceLedgerProofs -------------------------
(***************************************************************************)
(* Theorems of ResourceLedger, for every host word, every set of           *)
(* configurations and every finite set of owners.                          *)
(***************************************************************************)
EXTENDS ResourceLedger, FiniteSetTheorems, TLAPS

(***************************************************************************)
(* How TotalHeld changes when one holder's bytes change.                   *)
(***************************************************************************)
(* The bytes of one holder number what it holds.                           *)
LEMMA OneHolder ==
  ASSUME NEW o, NEW n \in Usize
  PROVE  /\ IsFiniteSet({o} \X (1 .. n))
         /\ Cardinality({o} \X (1 .. n)) = n
<1>1. n \in Nat
  BY UsizeAssumption DEF Usize
<1>2. IsFiniteSet(1 .. n) /\ Cardinality(1 .. n) = n
  BY <1>1, FS_Interval
<1>3. IsFiniteSet({o}) /\ Cardinality({o}) = 1
  BY FS_Singleton
<1>. QED BY <1>1, <1>2, <1>3, FS_Product

(* What the owners hold is a finite set of bytes, so it has a number.    *)
LEMMA BytesAreFinite ==
  ASSUME NEW H, IsFiniteSet(H), NEW h \in [H -> Usize]
  PROVE  /\ IsFiniteSet(BytesOf(h))
         /\ TotalHeld(h) \in Nat
<1>1. IsFiniteSet(1 .. MaxUsize)
  BY UsizeAssumption, FS_Interval
<1>2. IsFiniteSet(H \X (1 .. MaxUsize))
  BY <1>1, FS_Product
<1>3. BytesOf(h) \subseteq H \X (1 .. MaxUsize)
  BY DEF BytesOf
<1>4. IsFiniteSet(BytesOf(h))
  BY <1>2, <1>3, FS_Subset
<1>. QED BY <1>4, FS_CardinalityType DEF TotalHeld

(* Nobody holds anything: the total is zero.                               *)
LEMMA NothingHeld ==
  ASSUME NEW H, NEW h \in [H -> Usize], \A o \in H : h[o] = 0
  PROVE  TotalHeld(h) = 0
<1>1. BytesOf(h) = {}
  BY UsizeAssumption DEF BytesOf, Usize
<1>. QED BY <1>1, FS_EmptySet DEF TotalHeld

(* A holder of nothing takes hold of n bytes.                              *)
LEMMA TakeHold ==
  ASSUME NEW H, IsFiniteSet(H), NEW h \in [H -> Usize],
         NEW o \in H, h[o] = 0, NEW n \in Usize,
         NEW h2, h2 = [h EXCEPT ![o] = n]
  PROVE  TotalHeld(h2) = TotalHeld(h) + n
<1> DEFINE new == {o} \X (1 .. n)
<1>1. n \in Nat /\ n <= MaxUsize /\ MaxUsize \in Nat
  BY UsizeAssumption DEF Usize
<1>2. BytesOf(h2) = BytesOf(h) \union new
  <2>1. ASSUME NEW c \in BytesOf(h2) PROVE c \in BytesOf(h) \union new
    BY <1>1 DEF BytesOf, Usize
  <2>2. ASSUME NEW c \in BytesOf(h) PROVE c \in BytesOf(h2)
    BY <1>1 DEF BytesOf, Usize
  <2>3. ASSUME NEW c \in new PROVE c \in BytesOf(h2)
    BY <1>1 DEF BytesOf, Usize
  <2>. QED BY <2>1, <2>2, <2>3
<1>3. BytesOf(h) \intersect new = {}
  BY <1>1 DEF BytesOf, Usize
<1>4. IsFiniteSet(BytesOf(h)) /\ TotalHeld(h) \in Nat
  BY BytesAreFinite
<1>5. IsFiniteSet(new) /\ Cardinality(new) = n
  BY OneHolder
<1>6. Cardinality(BytesOf(h) \union new) = Cardinality(BytesOf(h)) + n - 0
  BY <1>3, <1>4, <1>5, FS_Union, FS_EmptySet
<1>7. TotalHeld(h2) = TotalHeld(h) + n - 0
  BY <1>2, <1>6 DEF TotalHeld
<1> HIDE DEF new
<1>. QED BY <1>1, <1>4, <1>7

(* A holder gives back everything it holds.                                *)
LEMMA GiveBack ==
  ASSUME NEW H, IsFiniteSet(H), NEW h \in [H -> Usize], NEW o \in H,
         NEW h2, h2 = [h EXCEPT ![o] = 0]
  PROVE  /\ TotalHeld(h2) = TotalHeld(h) - h[o]
         /\ h[o] <= TotalHeld(h)
<1>1. h2 \in [H -> Usize] /\ h2[o] = 0
  BY UsizeAssumption DEF Usize
<1>2. h[o] \in Usize
  OBVIOUS
<1>3. h = [h2 EXCEPT ![o] = h[o]]
  OBVIOUS
<1>4. TotalHeld(h) = TotalHeld(h2) + h[o]
  BY ONLY IsFiniteSet(H), o \in H, <1>1, <1>2, <1>3, TakeHold
<1>5. TotalHeld(h) \in Nat /\ TotalHeld(h2) \in Nat
  BY <1>1, BytesAreFinite
<1>6. h[o] \in Nat
  BY <1>2, UsizeAssumption DEF Usize
<1>. QED BY <1>4, <1>5, <1>6


(***************************************************************************)
(* What every decision of the ledger satisfies, whichever producer asked.  *)
(***************************************************************************)
SoundDecision(c, u, d) ==
  /\ d.usage \in ResourceUsage
  /\ d.verdict \in RefusalReason \union {Granted}
  /\ d.verdict = Granted =>
       /\ d.bytes \in Usize
       /\ d.usage.live = u.live + d.bytes
       /\ d.usage.peak = Larger(u.peak, d.usage.live)
       /\ d.usage.work >= u.work
       /\ d.usage.attempts = IF d.bytes = 0 THEN u.attempts ELSE u.attempts + 1
       /\ Within(d.usage.live, c.max_live_evaluation_bytes)
       /\ Within(d.usage.work, c.max_work_units)
  /\ d.verdict # Granted =>
       d.usage = [u EXCEPT !.attempts =
                    IF d.verdict = "AllocationUnavailable" THEN @ + 1 ELSE @]

(* A request of representable size is decided soundly: nothing is granted  *)
(* past a limit, nothing is charged by a refusal (admit_request).          *)
LEMMA DecideIsSound ==
  ASSUME NEW c \in Configuration, NEW u \in ResourceUsage,
         NEW limit, NEW bytes \in Nat, NEW work \in Nat
  PROVE  /\ SoundDecision(c, u, Decide(c, u, limit, bytes, work))
         /\ Decide(c, u, limit, bytes, work).bytes = bytes
<1> DEFINE d == Decide(c, u, limit, bytes, work)
           v == Verdict(c, u, limit, bytes, work)
<1> USE UsizeAssumption, NoneAssumption
<1>1. /\ u.live \in Nat /\ u.peak \in Nat /\ u.work \in Nat /\ u.attempts \in Nat
      /\ u.live <= MaxUsize /\ u.peak <= MaxUsize
      /\ u.work <= MaxUsize /\ u.attempts <= MaxUsize
  BY DEF ResourceUsage, Usize
<1>2. /\ d.verdict = v /\ d.bytes = bytes
      /\ d.usage = UsageAfter(u, v, bytes, work)
  BY DEF Decide
<1>3. v \in RefusalReason \union {Granted}
  BY DEF Verdict, RefusalReason, Granted
<1>4. CASE v = Granted
  <2>1. /\ u.live + bytes <= MaxUsize /\ u.work + work <= MaxUsize
        /\ Within(u.live + bytes, c.max_live_evaluation_bytes)
        /\ Within(u.work + work, c.max_work_units)
        /\ bytes # 0 => u.attempts # MaxUsize
    BY <1>1, <1>4 DEF Verdict, Granted
  <2>2. d.usage = [live |-> u.live + bytes, peak |-> Larger(u.peak, u.live + bytes),
                   work |-> u.work + work,
                   attempts |-> IF bytes = 0 THEN u.attempts ELSE u.attempts + 1]
    BY <1>2, <1>4 DEF UsageAfter, Granted
  <2>3. d.usage \in ResourceUsage
    BY <1>1, <2>1, <2>2 DEF ResourceUsage, Usize, Larger
  <2>. QED
    BY <1>1, <1>2, <1>3, <1>4, <2>1, <2>2, <2>3 DEF SoundDecision, Usize, Granted
<1>5. CASE v # Granted
  <2>1. v = "AllocationUnavailable" => bytes # 0 /\ u.attempts # MaxUsize
    BY DEF Verdict, Granted
  <2>2. d.usage = [u EXCEPT !.attempts =
                     IF v = "AllocationUnavailable" THEN @ + 1 ELSE @]
    BY <1>1, <1>2, <1>5, <2>1 DEF UsageAfter, ResourceUsage
  <2>3. d.usage \in ResourceUsage
    BY <1>1, <2>1, <2>2 DEF ResourceUsage, Usize
  <2>. QED
    BY <1>2, <1>3, <1>5, <2>2, <2>3 DEF SoundDecision
<1>. QED BY <1>2, <1>4, <1>5

(* A size past usize::MAX is refused before any request is formed.         *)
LEMMA DecideSizedIsSound ==
  ASSUME NEW c \in Configuration, NEW u \in ResourceUsage,
         NEW limit, NEW bytes \in Nat, NEW work \in Nat
  PROVE  SoundDecision(c, u, DecideSized(c, u, limit, bytes, work))
<1>1. CASE bytes > MaxUsize
  <2>1. DecideSized(c, u, limit, bytes, work) = Oversized(u, work)
    BY <1>1 DEF DecideSized
  <2>2. u = [u EXCEPT !.attempts = @]
    BY DEF ResourceUsage
  <2>. QED
    BY <2>1, <2>2 DEF Oversized, SoundDecision, RefusalReason, Granted
<1>2. CASE ~(bytes > MaxUsize)
  BY <1>2, DecideIsSound DEF DecideSized
<1>. QED BY <1>1, <1>2

(* The product of a length and a width is a number.                      *)
LEMMA ProductOfNaturals ==
  ASSUME NEW m \in Nat, NEW n \in Nat
  PROVE  m * n \in Nat
OBVIOUS

(***************************************************************************)
(* The three kinds of step the operations come to.                         *)
(***************************************************************************)
GrantStep(o, d) ==
  /\ held[o] = 0
  /\ SoundDecision(configuration, usage, d)
  /\ Commit(o, d)

ChargeStep(d) ==
  /\ SoundDecision(configuration, usage, d)
  /\ d.verdict = Granted => d.bytes = 0
  /\ usage' = d.usage
  /\ event' = DecisionEvent(d)
  /\ UNCHANGED <<configuration, held>>

GiveBackStep(o) ==
  /\ held[o] # 0
  /\ usage' = Refund(usage, held[o])
  /\ held' = [held EXCEPT ![o] = 0]
  /\ event' \in {ReleaseEvent, None}
  /\ UNCHANGED configuration

(* Every operation of the context is one of the three.                     *)
LEMMA StepKinds ==
  ASSUME TypeOK, Next
  PROVE  \/ \E o \in Owners : \E d : GrantStep(o, d)
         \/ \E d : ChargeStep(d)
         \/ \E o \in Owners : GiveBackStep(o)
<1>1. configuration \in Configuration /\ usage \in ResourceUsage
  BY ConfigurationAssumption DEF TypeOK
<1>2. /\ \A n \in Lengths : n \in Nat
      /\ \A w \in Widths : w \in Nat
      /\ SlotBytes \in Nat
  BY RequestAssumption, UsizeAssumption DEF Usize
<1>3. ASSUME NEW o \in Owners, AdmitVectorFor(o)
      PROVE  \E d : GrantStep(o, d)
  <2>1. PICK n \in Lengths, work \in Lengths, width \in Widths :
          Commit(o, AdmitVector(configuration, usage, n, width, work))
    BY <1>3 DEF AdmitVectorFor
  <2>2. n * width \in Nat
    BY <1>2, ProductOfNaturals
  <2>3. SoundDecision(configuration, usage,
                      AdmitVector(configuration, usage, n, width, work))
    BY <1>1, <1>2, <2>2, DecideSizedIsSound DEF AdmitVector
  <2>. QED BY <1>3, <2>1, <2>3 DEF AdmitVectorFor, GrantStep
<1>4. ASSUME NEW o \in Owners, AdmitStringFor(o)
      PROVE  \E d : GrantStep(o, d)
  <2>1. PICK n \in Lengths, work \in Lengths :
          Commit(o, AdmitString(configuration, usage, n, work))
    BY <1>4 DEF AdmitStringFor
  <2>2. SoundDecision(configuration, usage,
                      AdmitString(configuration, usage, n, work))
    BY <1>1, <1>2, DecideIsSound DEF AdmitString
  <2>. QED BY <1>4, <2>1, <2>2 DEF AdmitStringFor, GrantStep
<1>5. ASSUME NEW o \in Owners, AdmitStringVectorFor(o)
      PROVE  \E d : GrantStep(o, d)
  <2>1. PICK n \in Lengths, payload \in Lengths, work \in Lengths :
          Commit(o, AdmitStringVector(configuration, usage, n, payload, work))
    BY <1>5 DEF AdmitStringVectorFor
  <2>2. n * SlotBytes \in Nat /\ payload \in Nat
    BY <1>2, ProductOfNaturals
  <2>3. n * SlotBytes + payload \in Nat
    BY <2>2
  <2>4. SoundDecision(configuration, usage,
                      AdmitStringVector(configuration, usage, n, payload, work))
    BY <1>1, <1>2, <2>3, DecideSizedIsSound DEF AdmitStringVector
  <2>. QED BY <1>5, <2>1, <2>4 DEF AdmitStringVectorFor, GrantStep
<1>6. ASSUME NEW o \in Owners, AdmitTupleFor(o)
      PROVE  \E d : GrantStep(o, d)
  <2>1. PICK n \in Lengths : Commit(o, AdmitTuple(configuration, usage, n))
    BY <1>6 DEF AdmitTupleFor
  <2>2. n * SlotBytes \in Nat
    BY <1>2, ProductOfNaturals
  <2>3. AdmitTuple(configuration, usage, n)
          = DecideSized(configuration, usage,
                        configuration.max_tuple_table_bytes, n * SlotBytes, 0)
    BY <1>6 DEF AdmitTupleFor, AdmitTuple
  <2>4. SoundDecision(configuration, usage, AdmitTuple(configuration, usage, n))
    BY <1>1, <2>2, <2>3, DecideSizedIsSound
  <2>. QED BY <1>6, <2>1, <2>4 DEF AdmitTupleFor, GrantStep
<1>7. ASSUME Charge PROVE \E d : ChargeStep(d)
  <2>1. PICK amount \in Lengths :
          /\ usage' = ChargeWork(configuration, usage, amount).usage
          /\ event' = DecisionEvent(ChargeWork(configuration, usage, amount))
          /\ UNCHANGED <<configuration, held>>
    BY <1>7 DEF Charge
  <2>2. /\ SoundDecision(configuration, usage,
                         ChargeWork(configuration, usage, amount))
        /\ ChargeWork(configuration, usage, amount).bytes = 0
    BY <1>1, <1>2, DecideIsSound DEF ChargeWork
  <2>. QED BY <2>1, <2>2 DEF ChargeStep
<1>8. ASSUME ReportSizeOverflow PROVE \E d : ChargeStep(d)
  <2>1. usage = [usage EXCEPT !.attempts = @]
    BY <1>1 DEF ResourceUsage
  <2>2. SoundDecision(configuration, usage, Oversized(usage, 0))
    BY <1>1, <2>1 DEF SoundDecision, Oversized, RefusalReason, Granted
  <2>3. /\ Oversized(usage, 0).verdict # Granted
        /\ Oversized(usage, 0).usage = usage
    BY DEF Oversized, Granted
  <2>4. ChargeStep(Oversized(usage, 0))
    BY <1>8, <2>2, <2>3 DEF ReportSizeOverflow, ChargeStep
  <2>. QED BY <2>4
<1>9. ASSUME NEW o \in Owners, ReleaseOwned(o) \/ RefundOwned(o)
      PROVE  GiveBackStep(o)
  BY <1>9 DEF ReleaseOwned, RefundOwned, GiveBackStep
<1>. QED
  BY <1>3, <1>4, <1>5, <1>6, <1>7, <1>8, <1>9 DEF Next

(***************************************************************************)
(* The inductive invariant.  TypeOK alone does not carry the balance:      *)
(* Refund is exact only because no owner holds more than live, which the   *)
(* balance gives; and the high-water property needs live <= peak.          *)
(***************************************************************************)
PeakCoversLive == usage.live <= usage.peak

IInv == TypeOK /\ LedgerBalances /\ LimitsHold /\ PeakCoversLive

(* A ledger as constructed holds nothing and is within its limits.       *)
LEMMA InitEstablishesIInv == Init => IInv
<1> SUFFICES ASSUME Init PROVE IInv
  OBVIOUS
<1>1. held \in [Owners -> Usize] /\ \A o \in Owners : held[o] = 0
  BY UsizeAssumption DEF Init, Usize
<1>2. /\ usage \in ResourceUsage
      /\ usage.live = 0 /\ usage.peak = 0 /\ usage.work = 0
  BY UsizeAssumption DEF Init, InitialUsage, ResourceUsage, Usize
<1>3. TypeOK
  BY <1>1, <1>2 DEF Init, TypeOK, Optional
<1>4. LedgerBalances
  BY <1>1, <1>2, NothingHeld DEF LedgerBalances
<1>5. configuration \in Configuration
  BY <1>3, ConfigurationAssumption DEF TypeOK
<1>6. LimitsHold
  BY <1>2, <1>5 DEF LimitsHold, Within, Configuration, Optional
<1>. QED BY <1>2, <1>3, <1>4, <1>6 DEF IInv, PeakCoversLive

(* What an event looks like after a sound decision.                        *)
LEMMA DecisionEventIsEvent ==
  ASSUME NEW d, d.usage \in ResourceUsage,
         d.verdict \in RefusalReason \union {Granted}
  PROVE  DecisionEvent(d) \in Event
<1>1. d.usage.attempts \in Nat /\ d.usage.attempts <= MaxUsize
  BY UsizeAssumption DEF ResourceUsage, Usize
<1>2. LastOrdinal(d.usage) \in Usize
  BY <1>1, UsizeAssumption DEF LastOrdinal, Usize
<1>. QED BY <1>2 DEF DecisionEvent, Event, Optional, RefusalReason, Granted

(* Refunding what an owner holds is exact: nothing is saturated away.      *)
LEMMA RefundIsExact ==
  ASSUME NEW u \in ResourceUsage, NEW bytes \in Nat, bytes <= u.live
  PROVE  /\ Refund(u, bytes) \in ResourceUsage
         /\ Refund(u, bytes).live = u.live - bytes
         /\ Refund(u, bytes).peak = u.peak
         /\ Refund(u, bytes).work = u.work
         /\ Refund(u, bytes).attempts = u.attempts
BY UsizeAssumption DEF Refund, ResourceUsage, Usize

(* An admission keeps the invariant: what is charged is what is held.    *)
LEMMA GrantPreservesIInv ==
  ASSUME IInv, NEW o \in Owners, NEW d, GrantStep(o, d)
  PROVE  IInv'
<1>1. /\ configuration \in Configuration /\ configuration' = configuration
      /\ usage \in ResourceUsage
      /\ held \in [Owners -> Usize] /\ held[o] = 0
  BY ConfigurationAssumption DEF IInv, TypeOK, GrantStep, Commit
<1>2. /\ usage' = d.usage /\ event' = DecisionEvent(d)
      /\ usage' \in ResourceUsage
      /\ d.verdict \in RefusalReason \union {Granted}
  BY DEF GrantStep, Commit, SoundDecision
<1>3. CASE d.verdict = Granted
  <2>1. /\ d.bytes \in Usize
        /\ held' = [held EXCEPT ![o] = d.bytes]
        /\ usage'.live = usage.live + d.bytes
        /\ usage'.peak = Larger(usage.peak, usage'.live)
        /\ Within(usage'.live, configuration.max_live_evaluation_bytes)
        /\ Within(usage'.work, configuration.max_work_units)
    BY <1>2, <1>3 DEF GrantStep, Commit, SoundDecision
  <2>2. held' \in [Owners -> Usize]
    BY <1>1, <2>1
  <2>3. TotalHeld(held') = TotalHeld(held) + d.bytes
    <3>1. IsFiniteSet(Owners) /\ held \in [Owners -> Usize] /\ held[o] = 0
      BY <1>1, OwnersAssumption
    <3>2. d.bytes \in Usize /\ held' = [held EXCEPT ![o] = d.bytes]
      BY <2>1
    <3>. QED BY ONLY o \in Owners, <3>1, <3>2, TakeHold
  <2>4. TypeOK'
    BY <1>1, <1>2, <2>2, DecisionEventIsEvent DEF IInv, TypeOK, Optional
  <2>5. LedgerBalances'
    BY <2>1, <2>3 DEF IInv, LedgerBalances
  <2>6. LimitsHold'
    BY <1>1, <2>1 DEF IInv, LimitsHold, Larger
  <2>7. PeakCoversLive'
    BY <1>1, <1>2, <2>1, UsizeAssumption
       DEF PeakCoversLive, Larger, ResourceUsage, Usize
  <2>. QED BY <2>4, <2>5, <2>6, <2>7 DEF IInv
<1>4. CASE d.verdict # Granted
  <2>1. /\ held' = held
        /\ usage'.live = usage.live
        /\ usage'.peak = usage.peak
        /\ usage'.work = usage.work
    BY <1>1, <1>2, <1>4 DEF GrantStep, Commit, SoundDecision, ResourceUsage
  <2>2. TypeOK'
    BY <1>1, <1>2, <2>1, DecisionEventIsEvent DEF IInv, TypeOK, Optional
  <2>. QED
    BY <1>1, <2>1, <2>2
       DEF IInv, LedgerBalances, LimitsHold, PeakCoversLive
<1>. QED BY <1>3, <1>4

(* A charge of work keeps it: no byte moves.                             *)
LEMMA ChargePreservesIInv ==
  ASSUME IInv, NEW d, ChargeStep(d)
  PROVE  IInv'
<1>1. /\ configuration \in Configuration /\ configuration' = configuration
      /\ usage \in ResourceUsage /\ held' = held
  BY ConfigurationAssumption DEF IInv, TypeOK, ChargeStep
<1>2. /\ usage' = d.usage /\ event' = DecisionEvent(d)
      /\ usage' \in ResourceUsage
      /\ d.verdict \in RefusalReason \union {Granted}
  BY DEF ChargeStep, SoundDecision
<1>3. TypeOK'
  BY <1>1, <1>2, DecisionEventIsEvent DEF IInv, TypeOK, Optional
<1>4. /\ usage.live \in Nat /\ usage.peak \in Nat /\ usage.live <= usage.peak
  BY <1>1, UsizeAssumption DEF IInv, PeakCoversLive, ResourceUsage, Usize
<1>5. usage'.live = usage.live /\ usage'.peak = usage.peak
  <2>1. CASE d.verdict = Granted
    BY <1>1, <1>2, <1>4, <2>1 DEF ChargeStep, SoundDecision, Larger
  <2>2. CASE d.verdict # Granted
    BY <1>1, <1>2, <2>2 DEF ChargeStep, SoundDecision, ResourceUsage
  <2>. QED BY <2>1, <2>2
<1>6. \/ usage'.work = usage.work
      \/ Within(usage'.work, configuration.max_work_units)
  BY <1>1, <1>2 DEF ChargeStep, SoundDecision, ResourceUsage
<1>. QED
  BY <1>1, <1>3, <1>4, <1>5, <1>6
     DEF IInv, LedgerBalances, LimitsHold, PeakCoversLive

(* A refund or release gives back just what the owner held.              *)
LEMMA GiveBackPreservesIInv ==
  ASSUME IInv, NEW o \in Owners, GiveBackStep(o)
  PROVE  IInv' /\ usage' = Refund(usage, held[o]) /\ held[o] <= usage.live
<1>1. /\ configuration \in Configuration /\ configuration' = configuration
      /\ usage \in ResourceUsage
      /\ held \in [Owners -> Usize]
      /\ held' = [held EXCEPT ![o] = 0]
      /\ usage' = Refund(usage, held[o])
      /\ event' \in {ReleaseEvent, None}
  BY ConfigurationAssumption DEF IInv, TypeOK, GiveBackStep
<1>2. /\ TotalHeld(held') = TotalHeld(held) - held[o]
      /\ held[o] <= TotalHeld(held)
  BY <1>1, OwnersAssumption, GiveBack
<1>3. held[o] \in Nat /\ held[o] <= usage.live
  BY <1>1, <1>2, UsizeAssumption DEF IInv, LedgerBalances, Usize
<1>4. /\ usage' \in ResourceUsage
      /\ usage'.live = usage.live - held[o]
      /\ usage'.peak = usage.peak /\ usage'.work = usage.work
  BY <1>1, <1>3, RefundIsExact
<1>5. held' \in [Owners -> Usize]
  BY <1>1, UsizeAssumption DEF Usize
<1>6. TypeOK'
  BY <1>1, <1>4, <1>5 DEF IInv, TypeOK, Event, ReleaseEvent, Optional
<1>7. LedgerBalances'
  BY <1>2, <1>4 DEF IInv, LedgerBalances
<1>8. usage.live \in Nat /\ usage.peak \in Nat
  BY <1>1, UsizeAssumption DEF ResourceUsage, Usize
<1>9. LimitsHold' /\ PeakCoversLive'
  BY <1>1, <1>3, <1>4, <1>8
     DEF IInv, LimitsHold, PeakCoversLive, Within, Configuration, Optional
<1>. QED BY <1>1, <1>3, <1>6, <1>7, <1>9 DEF IInv

(* Together: whatever the operation, the invariant is kept.              *)
LEMMA IInvIsInductive == IInv /\ [Next]_vars => IInv'
<1> SUFFICES ASSUME IInv, [Next]_vars PROVE IInv'
  OBVIOUS
<1>1. CASE Next
  BY <1>1, StepKinds, GrantPreservesIInv, ChargePreservesIInv,
     GiveBackPreservesIInv DEF IInv
<1>2. CASE UNCHANGED vars
  BY <1>2 DEF vars, IInv, TypeOK, LedgerBalances, LimitsHold, PeakCoversLive
<1>. QED BY <1>1, <1>2

(* The invariant holds after any sequence of operations of any owners.   *)
THEOREM IInvHolds == Spec => []IInv
<1>. QED BY InitEstablishesIInv, IInvIsInductive, PTL DEF Spec

(* TypeOK for every host word: no reachable usage has wrapped.             *)
THEOREM LedgerTypeOK == Spec => []TypeOK
<1>1. IInv => TypeOK
  BY DEF IInv
<1>. QED BY <1>1, IInvHolds, PTL

(* live_evaluation_bytes is always exactly what the owners hold, for any   *)
(* number of owners and any sequence of requests.                          *)
THEOREM LedgerAlwaysBalances == Spec => []LedgerBalances
<1>1. IInv => LedgerBalances
  BY DEF IInv
<1>. QED BY <1>1, IInvHolds, PTL

(* No sequence of requests passes a configured live or work limit.         *)
THEOREM LimitsAlwaysHold == Spec => []LimitsHold
<1>1. IInv => LimitsHold
  BY DEF IInv
<1>. QED BY <1>1, IInvHolds, PTL

(***************************************************************************)
(* Action properties.  Each is split along the kinds of step.              *)
(***************************************************************************)
(* The peak moves only to a higher live value, on every step.              *)
THEOREM PeakOnlyClimbs == Spec => PeakIsHighWater
<1>1. ASSUME IInv, Next
      PROVE  usage'.peak = Larger(usage.peak, usage'.live)
  <2>1. /\ usage.live \in Nat /\ usage.peak \in Nat
        /\ usage.live <= usage.peak /\ usage \in ResourceUsage
    BY <1>1, UsizeAssumption
       DEF IInv, TypeOK, PeakCoversLive, ResourceUsage, Usize
  <2>2. ASSUME NEW d, SoundDecision(configuration, usage, d), usage' = d.usage
        PROVE  usage'.peak = Larger(usage.peak, usage'.live)
    <3>1. CASE d.verdict = Granted
      BY <2>2, <3>1 DEF SoundDecision
    <3>2. CASE d.verdict # Granted
      BY <2>1, <2>2, <3>2 DEF SoundDecision, ResourceUsage, Larger
    <3>. QED BY <3>1, <3>2
  <2>3. ASSUME NEW o \in Owners, GiveBackStep(o)
        PROVE  usage'.peak = Larger(usage.peak, usage'.live)
    <3>1. usage' = Refund(usage, held[o]) /\ held[o] <= usage.live
      BY <1>1, <2>3, GiveBackPreservesIInv
    <3>2. held[o] \in Nat
      BY <1>1, UsizeAssumption DEF IInv, TypeOK, Usize
    <3>3. usage'.peak = usage.peak /\ usage'.live <= usage.live /\ usage'.live \in Nat
      BY <2>1, <3>1, <3>2, RefundIsExact
    <3>. QED BY <2>1, <3>3 DEF Larger
  <2>. QED
    BY <1>1, <2>2, <2>3, StepKinds DEF IInv, GrantStep, Commit, ChargeStep
<1>2. IInv /\ [Next]_vars
        => [usage'.peak = Larger(usage.peak, usage'.live)]_vars
  BY <1>1
<1>. QED BY <1>2, IInvHolds, PTL DEF Spec, PeakIsHighWater

(* A refusal changes nothing but the attempt counter, and nothing ever     *)
(* takes charged work back.                                                *)
THEOREM RefusalsAreInert == Spec => RefusalIsInert
<1> DEFINE Inert ==
      /\ (event' # None /\ event'.kind = "Refusal") =>
           /\ usage' = [usage EXCEPT !.attempts = usage'.attempts]
           /\ held' = held
      /\ usage'.work >= usage.work
<1>1. ASSUME IInv, Next PROVE Inert
  <2>1. usage \in ResourceUsage /\ usage.work \in Nat
    BY <1>1, UsizeAssumption DEF IInv, TypeOK, ResourceUsage, Usize
  <2>2. ASSUME NEW d, SoundDecision(configuration, usage, d), usage' = d.usage,
               event' = DecisionEvent(d),
               d.verdict # Granted => held' = held
        PROVE  Inert
    <3>1. CASE d.verdict = Granted
      BY <2>2, <3>1 DEF SoundDecision, DecisionEvent
    <3>2. CASE d.verdict # Granted
      <4>1. /\ usage'.live = usage.live /\ usage'.peak = usage.peak
            /\ usage'.work = usage.work
            /\ usage' \in ResourceUsage
        BY <2>1, <2>2, <3>2 DEF SoundDecision, ResourceUsage
      <4>2. usage' = [usage EXCEPT !.attempts = usage'.attempts]
        BY <2>1, <4>1 DEF ResourceUsage
      <4>. QED BY <2>1, <2>2, <3>2, <4>1, <4>2
    <3>. QED BY <3>1, <3>2
  <2>3. ASSUME NEW o \in Owners, GiveBackStep(o) PROVE Inert
    <3>1. usage' = Refund(usage, held[o]) /\ held[o] <= usage.live
      BY <1>1, <2>3, GiveBackPreservesIInv
    <3>2. held[o] \in Nat
      BY <1>1, UsizeAssumption DEF IInv, TypeOK, Usize
    <3>3. usage'.work = usage.work
      BY <2>1, <3>1, <3>2, RefundIsExact
    <3>4. event' = None \/ event'.kind = "Release"
      BY <2>3 DEF GiveBackStep, ReleaseEvent
    <3>. QED BY <2>1, <3>3, <3>4
  <2> HIDE DEF Inert
  <2>. QED
    BY <1>1, <2>2, <2>3, StepKinds DEF IInv, GrantStep, Commit, ChargeStep
<1>2. IInv /\ [Next]_vars => [Inert]_vars
  BY <1>1
<1>. QED BY <1>2, IInvHolds, PTL DEF Spec, RefusalIsInert

(* Every reported ordinal is the counter's value before the decision and   *)
(* advances it by one; nothing else advances it.                           *)
THEOREM OrdinalsAreAlwaysFresh == Spec => OrdinalsAreFresh
<1> DEFINE Fresh ==
      IF event' # None /\ event'.ordinal # None
      THEN /\ event'.ordinal = usage.attempts
           /\ usage'.attempts = usage.attempts + 1
      ELSE usage'.attempts = usage.attempts
<1>1. ASSUME IInv, Next PROVE Fresh
  <2>1. usage \in ResourceUsage /\ usage.attempts \in Nat
    BY <1>1, UsizeAssumption DEF IInv, TypeOK, ResourceUsage, Usize
  <2>2. ASSUME NEW d, SoundDecision(configuration, usage, d), usage' = d.usage,
               event' = DecisionEvent(d)
        PROVE  Fresh
    <3>1. event' # None
      BY <2>2, DecisionEventIsEvent, EventAssumption DEF SoundDecision
    <3>2. CASE \/ d.verdict = Granted /\ d.bytes # 0
               \/ d.verdict = "AllocationUnavailable"
      <4>1. usage'.attempts = usage.attempts + 1
        BY <2>1, <2>2, <3>2 DEF SoundDecision, Granted, ResourceUsage
      <4>2. event'.ordinal = usage.attempts
        BY <2>1, <2>2, <3>2, <4>1 DEF DecisionEvent, LastOrdinal
      <4>3. event'.ordinal # None
        BY <2>1, <4>2, NoneAssumption
      <4>. QED BY <3>1, <4>1, <4>2, <4>3
    <3>3. CASE ~(\/ d.verdict = Granted /\ d.bytes # 0
                 \/ d.verdict = "AllocationUnavailable")
      <4>1. usage'.attempts = usage.attempts
        BY <2>1, <2>2, <3>3 DEF SoundDecision, Granted, ResourceUsage
      <4>2. event'.ordinal = None
        BY <2>2, <3>3 DEF DecisionEvent
      <4>. QED BY <4>1, <4>2
    <3>. QED BY <3>2, <3>3
  <2>3. ASSUME NEW o \in Owners, GiveBackStep(o) PROVE Fresh
    <3>1. usage' = Refund(usage, held[o]) /\ held[o] <= usage.live
      BY <1>1, <2>3, GiveBackPreservesIInv
    <3>2. held[o] \in Nat
      BY <1>1, UsizeAssumption DEF IInv, TypeOK, Usize
    <3>3. usage'.attempts = usage.attempts
      BY <2>1, <3>1, <3>2, RefundIsExact
    <3>4. event' = None \/ event'.ordinal = None
      BY <2>3 DEF GiveBackStep, ReleaseEvent
    <3>. QED BY <3>3, <3>4
  <2> HIDE DEF Fresh
  <2>. QED
    BY <1>1, <2>2, <2>3, StepKinds DEF IInv, GrantStep, Commit, ChargeStep
<1>2. IInv /\ [Next]_vars => [Fresh]_vars
  BY <1>1
<1>. QED BY <1>2, IInvHolds, PTL DEF Spec, OrdinalsAreFresh
=============================================================================

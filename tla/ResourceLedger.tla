---------------------------- MODULE ResourceLedger ----------------------------
(***************************************************************************)
(* The ResourceContext of one evaluation (src/src/resources.rs) and the    *)
(* producers that use it.  A producer that is granted bytes becomes their  *)
(* owner; it gives them back once, by release_owned/release_bytes (which   *)
(* the observer sees) or by refund (which it does not).                    *)
(***************************************************************************)
EXTENDS HeldBytes

CONSTANTS
  Owners,          (* the producers that may hold admitted bytes            *)
  Configurations,  (* the configurations an evaluation may be started with  *)
  Lengths,         (* the lengths, counts and works the producers ask for   *)
  Widths           (* the element widths of vectors                         *)

Event ==
  [kind    : {"Admission", "Refusal", "Release"},
   ordinal : Optional(Usize),
   reason  : Optional(RefusalReason)]

ASSUME EventAssumption == None \notin Event
ASSUME OwnersAssumption == IsFiniteSet(Owners)
ASSUME ConfigurationAssumption == Configurations \subseteq Configuration
ASSUME RequestAssumption == Lengths \subseteq Usize /\ Widths \subseteq Nat

VARIABLES
  configuration,  (* profile, limits and injection of this ResourceContext  *)
  usage,          (* ResourceContext::usage                                 *)
  held,           (* bytes each owner was granted and has not given back    *)
  event           (* what the observer was told by the last operation       *)

vars == <<configuration, usage, held, event>>

(***************************************************************************)
(* The event of a decision.  Ordinals are read back from the counter the   *)
(* request has already advanced.                                           *)
(***************************************************************************)
LastOrdinal(u) == IF u.attempts = 0 THEN 0 ELSE u.attempts - 1

DecisionEvent(d) ==
  [kind    |-> IF d.verdict = Granted THEN "Admission" ELSE "Refusal",
   ordinal |-> IF \/ d.verdict = Granted /\ d.bytes # 0
                  \/ d.verdict = "AllocationUnavailable"
               THEN LastOrdinal(d.usage) ELSE None,
   reason  |-> IF d.verdict = Granted THEN None ELSE d.verdict]

ReleaseEvent == [kind |-> "Release", ordinal |-> None, reason |-> None]

(***************************************************************************)
(* Operations.                                                             *)
(***************************************************************************)
Commit(o, d) ==
  /\ usage' = d.usage
  /\ event' = DecisionEvent(d)
  /\ held' = IF d.verdict = Granted THEN [held EXCEPT ![o] = d.bytes] ELSE held
  /\ UNCHANGED configuration

AdmitVectorFor(o) ==
  /\ held[o] = 0
  /\ \E n, work \in Lengths, width \in Widths :
       Commit(o, AdmitVector(configuration, usage, n, width, work))

AdmitStringFor(o) ==
  /\ held[o] = 0
  /\ \E n, work \in Lengths : Commit(o, AdmitString(configuration, usage, n, work))

AdmitStringVectorFor(o) ==
  /\ held[o] = 0
  /\ \E n, payload, work \in Lengths :
       Commit(o, AdmitStringVector(configuration, usage, n, payload, work))

AdmitTupleFor(o) ==
  /\ held[o] = 0
  /\ SupportsTuples(configuration.profile)
  /\ \E n \in Lengths : Commit(o, AdmitTuple(configuration, usage, n))

Charge ==
  \E amount \in Lengths :
    LET d == ChargeWork(configuration, usage, amount)
    IN /\ usage' = d.usage
       /\ event' = DecisionEvent(d)
       /\ UNCHANGED <<configuration, held>>

(* size_overflow: a producer could not even form its request.              *)
ReportSizeOverflow ==
  /\ event' = DecisionEvent(Oversized(usage, 0))
  /\ UNCHANGED <<configuration, usage, held>>

ReleaseOwned(o) ==
  /\ held[o] # 0
  /\ usage' = Refund(usage, held[o])
  /\ held' = [held EXCEPT ![o] = 0]
  /\ event' = ReleaseEvent
  /\ UNCHANGED configuration

RefundOwned(o) ==
  /\ held[o] # 0
  /\ usage' = Refund(usage, held[o])
  /\ held' = [held EXCEPT ![o] = 0]
  /\ event' = None
  /\ UNCHANGED configuration

(***************************************************************************)
(* Specification.                                                          *)
(***************************************************************************)
Init ==
  /\ configuration \in {c \in Configurations : ValidConfiguration(c)}
  /\ usage = InitialUsage
  /\ held = [o \in Owners |-> 0]
  /\ event = None

Next ==
  \/ \E o \in Owners :
       \/ AdmitVectorFor(o) \/ AdmitStringFor(o) \/ AdmitStringVectorFor(o)
       \/ AdmitTupleFor(o) \/ ReleaseOwned(o) \/ RefundOwned(o)
  \/ Charge
  \/ ReportSizeOverflow

Spec == Init /\ [][Next]_vars

(***************************************************************************)
(* Properties.                                                             *)
(***************************************************************************)
(* Every counter stays a usize: no sequence of legal calls makes           *)
(* ResourceContext wrap, the attempt counter at usize::MAX included.       *)
TypeOK ==
  /\ configuration \in {c \in Configurations : ValidConfiguration(c)}
  /\ usage \in ResourceUsage
  /\ held \in [Owners -> Usize]
  /\ event \in Optional(Event)

(* live_evaluation_bytes is exactly what the owners hold, so refund's      *)
(* saturating subtraction never hides a byte.                              *)
LedgerBalances == usage.live = TotalHeld(held)

(* The configured limits bound the usage at every moment, and the peak.    *)
LimitsHold ==
  /\ Within(usage.live, configuration.max_live_evaluation_bytes)
  /\ Within(usage.peak, configuration.max_live_evaluation_bytes)
  /\ Within(usage.work, configuration.max_work_units)

(* peak_live_evaluation_bytes is the highest live value so far: it moves   *)
(* only with live, and never down.                                         *)
PeakIsHighWater ==
  [][usage'.peak = Larger(usage.peak, usage'.live)]_vars

(* A refused request leaves live, peak and work as they were and grants    *)
(* nothing; work and attempts never go back, whatever is released.         *)
RefusalIsInert ==
  [][/\ (event' # None /\ event'.kind = "Refusal") =>
          /\ usage' = [usage EXCEPT !.attempts = usage'.attempts]
          /\ held' = held
     /\ usage'.work >= usage.work]_vars

(* Allocation ordinals are zero-based and consecutive: every decision that *)
(* reports one reports the counter's value before it and advances the      *)
(* counter, and nothing else advances it.  An injected failure therefore   *)
(* fires at most once.                                                     *)
OrdinalsAreFresh ==
  [][IF event' # None /\ event'.ordinal # None
     THEN /\ event'.ordinal = usage.attempts
          /\ usage'.attempts = usage.attempts + 1
     ELSE usage'.attempts = usage.attempts]_vars
=============================================================================

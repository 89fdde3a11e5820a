------------------------------ MODULE Resources ------------------------------
(***************************************************************************)
(* The arithmetic of the evaluation ledger, src/src/resources.rs: what one *)
(* admission, refund or release makes of a ResourceUsage record, under the *)
(* profile, the limits and the allocation-failure injection of a           *)
(* configuration.  Every function of ResourceContext that reads or changes *)
(* `usage` is an operator here; ResourceLedger and Interpreter drive them. *)
(***************************************************************************)
EXTENDS Integers

CONSTANTS
  MaxUsize,   (* usize::MAX of the host                                     *)
  SlotBytes,  (* bytes of a tuple slot or a String descriptor: 16           *)
  None        (* Option::None: no limit, no injection, no ordinal           *)

ASSUME UsizeAssumption == MaxUsize \in Nat /\ SlotBytes \in Nat \ {0}
ASSUME NoneAssumption  == None \notin Int

Usize    == 0 .. MaxUsize
Optional(S) == S \union {None}

(***************************************************************************)
(* Configurations.                                                         *)
(***************************************************************************)
ExecutionProfile ==
  {"TrustedLocalV1", "BoundedV1", "TrustedLocalV2", "BoundedV2"}

SupportsTuples(profile) == profile \in {"TrustedLocalV2", "BoundedV2"}

Configuration ==
  [profile                   : ExecutionProfile,
   max_vector_bytes          : Optional(Nat),
   max_tuple_table_bytes     : Optional(Nat),
   max_live_evaluation_bytes : Optional(Nat),
   max_work_units            : Optional(Nat),
   fail_at_ordinal           : Optional(Nat)]

AnyLimit(c) ==
  \/ c.max_vector_bytes # None
  \/ c.max_tuple_table_bytes # None
  \/ c.max_live_evaluation_bytes # None
  \/ c.max_work_units # None

(* ResourceContext::new_with_observer refuses every other configuration.  *)
ValidConfiguration(c) ==
  /\ (c.profile \in {"TrustedLocalV1", "TrustedLocalV2"}) <=> ~AnyLimit(c)
  /\ c.profile = "BoundedV1" => c.max_tuple_table_bytes = None

(***************************************************************************)
(* Usage, and one admission request against it.                            *)
(***************************************************************************)
ResourceUsage ==
  [live : Usize, peak : Usize, work : Usize, attempts : Usize]

InitialUsage == [live |-> 0, peak |-> 0, work |-> 0, attempts |-> 0]

Granted == "Granted"
RefusalReason == {"SizeOverflow", "ProfileLimit", "AllocationUnavailable"}

Within(amount, limit) == limit = None \/ amount <= limit

(* Faulty variants of Verdict and UsageAfter, for the mutation runs.       *)
VerdictWithoutCounterCheck(c, u, request_limit, bytes, work) ==
  IF u.live + bytes > MaxUsize \/ u.work + work > MaxUsize THEN "SizeOverflow"
  ELSE IF \/ ~Within(bytes, request_limit)
          \/ ~Within(u.live + bytes, c.max_live_evaluation_bytes)
          \/ ~Within(u.work + work, c.max_work_units) THEN "ProfileLimit"
  ELSE IF bytes # 0 /\ c.fail_at_ordinal = u.attempts THEN "AllocationUnavailable"
  ELSE Granted

VerdictOnUsageBefore(c, u, request_limit, bytes, work) ==
  IF u.live + bytes > MaxUsize \/ u.work + work > MaxUsize THEN "SizeOverflow"
  ELSE IF \/ ~Within(bytes, request_limit)
          \/ ~Within(u.live, c.max_live_evaluation_bytes)
          \/ ~Within(u.work, c.max_work_units) THEN "ProfileLimit"
  ELSE IF bytes # 0 /\ u.attempts = MaxUsize THEN "SizeOverflow"
  ELSE IF bytes # 0 /\ c.fail_at_ordinal = u.attempts THEN "AllocationUnavailable"
  ELSE Granted

(* The order of admit_request's early returns: representability, the       *)
(* producer's own limit, the live limit, the work limit, the attempt       *)
(* counter, and last the injected failure.                                 *)
Verdict(c, u, request_limit, bytes, work) ==
  IF u.live + bytes > MaxUsize \/ u.work + work > MaxUsize THEN "SizeOverflow"
  ELSE IF \/ ~Within(bytes, request_limit)
          \/ ~Within(u.live + bytes, c.max_live_evaluation_bytes)
          \/ ~Within(u.work + work, c.max_work_units) THEN "ProfileLimit"
  ELSE IF bytes # 0 /\ u.attempts = MaxUsize THEN "SizeOverflow"
  ELSE IF bytes # 0 /\ c.fail_at_ordinal = u.attempts THEN "AllocationUnavailable"
  ELSE Granted

Larger(a, b) == IF a < b THEN b ELSE a

UsageAfterEarlyCommit(u, verdict, bytes, work) ==
  LET attempts == IF bytes = 0 THEN u.attempts ELSE u.attempts + 1
  IN IF verdict \in {Granted, "AllocationUnavailable"}
     THEN [live |-> u.live + bytes, peak |-> Larger(u.peak, u.live + bytes),
           work |-> u.work + work, attempts |-> attempts]
     ELSE u

UsageAfterPeakOfRequest(u, verdict, bytes, work) ==
  LET attempts == IF bytes = 0 THEN u.attempts ELSE u.attempts + 1
  IN CASE verdict = Granted ->
            [live |-> u.live + bytes, peak |-> Larger(u.peak, bytes),
             work |-> u.work + work, attempts |-> attempts]
       [] verdict = "AllocationUnavailable" -> [u EXCEPT !.attempts = attempts]
       [] OTHER -> u

UsageAfterChargedRefusal(u, verdict, bytes, work) ==
  LET attempts == IF bytes = 0 THEN u.attempts ELSE u.attempts + 1
  IN CASE verdict = Granted ->
            [live |-> u.live + bytes, peak |-> Larger(u.peak, u.live + bytes),
             work |-> u.work + work, attempts |-> attempts]
       [] verdict = "AllocationUnavailable" ->
            [u EXCEPT !.attempts = attempts, !.work = u.work + work]
       [] OTHER -> u

UsageAfterFreeRefusal(u, verdict, bytes, work) ==
  LET attempts == IF bytes = 0 THEN u.attempts ELSE u.attempts + 1
  IN IF verdict = Granted
     THEN [live |-> u.live + bytes, peak |-> Larger(u.peak, u.live + bytes),
           work |-> u.work + work, attempts |-> attempts]
     ELSE u

(* A positive request that reaches the allocation step spends an ordinal   *)
(* even when the injection then refuses it.                                *)
UsageAfter(u, verdict, bytes, work) ==
  LET attempts == IF bytes = 0 THEN u.attempts ELSE u.attempts + 1
  IN CASE verdict = Granted ->
            [live |-> u.live + bytes, peak |-> Larger(u.peak, u.live + bytes),
             work |-> u.work + work, attempts |-> attempts]
       [] verdict = "AllocationUnavailable" -> [u EXCEPT !.attempts = attempts]
       [] OTHER -> u

(* A decision: the verdict, the usage it leaves, and the request it was.   *)
Decide(c, u, request_limit, bytes, work) ==
  LET verdict == Verdict(c, u, request_limit, bytes, work)
  IN [verdict |-> verdict, bytes |-> bytes, work |-> work,
      usage |-> UsageAfter(u, verdict, bytes, work)]

(* A size that does not fit a usize is refused before any request is made. *)
Oversized(u, work) ==
  [verdict |-> "SizeOverflow", bytes |-> None, work |-> work, usage |-> u]

DecideSized(c, u, request_limit, bytes, work) ==
  IF bytes > MaxUsize THEN Oversized(u, work)
  ELSE Decide(c, u, request_limit, bytes, work)

ChargeWork(c, u, amount) == Decide(c, u, None, 0, amount)

AdmitString(c, u, length, work) == Decide(c, u, None, length, work)

AdmitVector(c, u, length, width, work) ==
  DecideSized(c, u, c.max_vector_bytes, length * width, work)

AdmitStringVector(c, u, length, payload, work) ==
  DecideSized(c, u, c.max_vector_bytes, length * SlotBytes + payload, work)

(* Under a v1 profile admit_tuple is a ProfileError and makes no request.  *)
AdmitTuple(c, u, count) ==
  IF SupportsTuples(c.profile)
  THEN DecideSized(c, u, c.max_tuple_table_bytes, count * SlotBytes, 0)
  ELSE [verdict |-> "ProfileError", bytes |-> None, work |-> 0, usage |-> u]

(* refund subtracts with saturating_sub: an over-large refund is silent.   *)
Refund(u, bytes) ==
  [u EXCEPT !.live = IF bytes > u.live THEN 0 ELSE u.live - bytes]
=============================================================================

--------------------------- MODULE MCResourceLedger ---------------------------
(***************************************************************************)
(* A small instance of ResourceLedger: a host whose usize holds 0..5, so   *)
(* that every overflow check is reached, and configurations of all four    *)
(* profiles with each limit set alone and together, with and without an    *)
(* injected failure.                                                       *)
(***************************************************************************)
EXTENDS ResourceLedger, TLC

MCConfiguration(profile, vector, tuple, live, work, fail) ==
  [profile                   |-> profile,
   max_vector_bytes          |-> vector,
   max_tuple_table_bytes     |-> tuple,
   max_live_evaluation_bytes |-> live,
   max_work_units            |-> work,
   fail_at_ordinal           |-> fail]

(* ValidConfiguration refuses some of these, as the constructor does.      *)
MCConfigurations ==
  { MCConfiguration(profile, vector, tuple, live, work, fail) :
      profile \in ExecutionProfile, vector \in {None, 2}, tuple \in {None, 2},
      live \in {None, 4}, work \in {None, 3}, fail \in {None, 1} }

MCSymmetry == Permutations(Owners)
=============================================================================

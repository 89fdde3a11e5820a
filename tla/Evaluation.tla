------------------------------ MODULE Evaluation ------------------------------
(***************************************************************************)
(* What an evaluation promises its caller: all roots, meaning what the     *)
(* program means, with exactly their bytes still charged; or an error and  *)
(* nothing charged.  Until then only the usage moves, never down in work   *)
(* or attempts and never past a limit.  Interpreter implements this.       *)
(***************************************************************************)
EXTENDS Values, TypedProgram

CONSTANTS Programs, Configurations

VARIABLES
  program,
  configuration,
  usage,
  outcome   (* what the caller sees: status, and the values it received     *)

vars == <<program, configuration, usage, outcome>>

(***************************************************************************)
(* The meaning of a node: the label of the value it stands for, no matter  *)
(* which slot holds it, who moved it and how often it was copied.          *)
(***************************************************************************)
MeaningOfNodes(p) ==
  LET meaning[i \in Indices(p)] ==
        LET node == p.nodes[i]
            read(e) ==
              LET m == meaning[e.producer]
                  type == TypeOf(p, e.producer)
              IN IF /\ e.access \in {"TupleElement", "BindingBorrowElement",
                                     "ConnectedBindingElement"}
                    /\ type.tag = "tuple"
                 THEN m.operands[e.element + 1] ELSE m
            operands == [k \in DOMAIN node.edges |-> read(node.edges[k])]
        IN CASE node.kind = "ParameterBorrow" -> p.arguments[node.count].label
             [] node.kind \in HandoverKind -> operands[1]
             [] node.kind = "TupleConstruct" -> Label(0, operands)
             [] node.kind = "FanOut" ->
                  Label(0, [b \in DOMAIN node.branches |-> meaning[node.branches[b].root]])
             [] OTHER -> Label(i, operands)
  IN meaning

Promised(p) ==
  LET meaning == MeaningOfNodes(p) IN [r \in DOMAIN p.roots |-> meaning[p.roots[r]]]

LabelsIn(values) == [k \in DOMAIN values |-> values[k].label]
BytesOfAll(values) == Total("bytes", values)

Running == [status |-> "running", values |-> <<>>]
Failed  == [status |-> "failed", values |-> <<>>]

(***************************************************************************)
(* Steps.                                                                  *)
(***************************************************************************)
InLimits(u) ==
  /\ Within(u.live, configuration.max_live_evaluation_bytes)
  /\ Within(u.peak, configuration.max_live_evaluation_bytes)
  /\ Within(u.work, configuration.max_work_units)

Account ==
  /\ usage'.work >= usage.work
  /\ usage'.attempts >= usage.attempts
  /\ usage'.peak >= Larger(usage.peak, usage'.live)
  /\ InLimits(usage')
  /\ UNCHANGED <<program, configuration>>

Proceed == outcome = Running /\ Account /\ UNCHANGED outcome

Deliver ==
  /\ outcome = Running
  /\ outcome'.status = "delivered"
  /\ LabelsIn(outcome'.values) = Promised(program)
  /\ usage'.live = BytesOfAll(outcome'.values)
  /\ Account

Refuse ==
  /\ outcome = Running
  /\ outcome' = Failed
  /\ usage'.live = 0
  /\ Account

Init ==
  /\ program \in Programs
  /\ configuration \in {c \in Configurations : ValidConfiguration(c)}
  /\ usage = InitialUsage
  /\ outcome = Running

Next == Proceed \/ Deliver \/ Refuse

Spec == Init /\ [][Next]_vars
=============================================================================

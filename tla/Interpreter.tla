------------------------------ MODULE Interpreter ------------------------------
(***************************************************************************)
(* One evaluation of a verified program (src/src/interpreter.rs), step by  *)
(* step: a step makes at most one request to the ledger.  Whatever the     *)
(* code decides from data (the shape of a vector, a fault of a primitive,  *)
(* whether the host grants an allocation) is a choice here.                *)
(***************************************************************************)
EXTENDS Values, TypedProgram

CONSTANTS
  Programs,        (* the verified programs to evaluate                      *)
  Configurations,  (* the configurations to evaluate them under             *)
  FormatLengths,   (* lengths a formatted string may have                   *)
  ResultLengths    (* lengths of the vectors applications produce           *)

ASSUME ConfigurationAssumption == Configurations \subseteq Configuration
ASSUME ChoiceAssumption == FormatLengths \subseteq Nat /\ ResultLengths \subseteq Nat

(* What the interpreter is given: only an operation that takes a tuple     *)
(* apart or puts one together has to do with tuples, the arguments were    *)
(* made for the parameters (verify_apply, verify_parameters), and nothing  *)
(* is charged for a scalar.                                                *)
IsCharge(tag, own) ==
  tag \in {"scalar", "vector", "string"} /\ own \in Nat /\ (tag = "scalar" => own = 0)

IsArgument(v) == IsCharge(v.tag, v.own) /\ v = Plain(v.tag, v.own, v.label)

IsRunnable(p) ==
  /\ IsSequence(p.arguments) /\ \A k \in DOMAIN p.arguments : IsArgument(p.arguments[k])
  /\ \A i \in Indices(p) :
    CASE KindOf(p, i) = "Constant" -> IsCharge(TypeOf(p, i).tag, p.nodes[i].count)
      [] KindOf(p, i) = "SelectedApply" ->
           TypeOf(p, i).tag # "tuple" /\ p.nodes[i].plan \in {"scalar", "vector", "filter"}
      [] KindOf(p, i) = "ParameterBorrow" ->
           /\ p.nodes[i].count \in DOMAIN p.arguments
           /\ TypeOf(p, i).tag = p.arguments[p.nodes[i].count].tag
           /\ TypeOf(p, i).tag # "tuple"
      [] OTHER -> TRUE

ASSUME ProgramsAssumption ==
  \A p \in Programs : IsProgram(p) /\ Verified(p) /\ IsRunnable(p)

VARIABLES
  program,        (* which program                                          *)
  configuration,  (* profile, limits and injection                          *)
  usage,          (* ResourceContext::usage                                 *)
  slots,          (* Interpreter::slots                                     *)
  stage,          (* where evaluate_verified_program_observed stands        *)
  agenda,         (* the nodes yet to be executed, the current one first    *)
  gathered,       (* the values a tuple or the outputs have collected       *)
  table,          (* bytes of the tuple table under construction            *)
  copy,           (* the borrowed copy in progress                          *)
  loaned,         (* how many arguments have been charged to the ledger     *)
  error,          (* why the evaluation failed                              *)
  results         (* what the caller received                               *)

vars == <<program, configuration, usage, slots, stage, agenda, gathered, table,
          copy, loaned, error, results>>

Node(i) == program.nodes[i]

(***************************************************************************)
(* Slots.                                                                  *)
(***************************************************************************)
Empty == [kind |-> "Empty"]
Borrowed(parameter) == [kind |-> "Borrowed", parameter |-> parameter]
Alias(node) == [kind |-> "Alias", node |-> node]
Owned(value, accounted) ==
  [kind |-> "Owned", value |-> value, accounted |-> accounted]

(* slot_value follows aliases; an alias is younger than what it stands for. *)
Resolve(s, i) ==
  LET end[j \in DOMAIN s] == IF s[j].kind = "Alias" THEN end[s[j].node] ELSE j
  IN end[i]

HasValue(s, i) == s[Resolve(s, i)].kind \in {"Borrowed", "Owned"}

ValueIn(slot) ==
  IF slot.kind = "Borrowed" THEN program.arguments[slot.parameter] ELSE slot.value

SlotValue(s, i) == ValueIn(s[Resolve(s, i)])

TakesElement(value, e) ==
  \/ e.access \in {"TupleElement", "BindingBorrowElement"}
  \/ e.access = "ConnectedBindingElement" /\ value.tag = "tuple"

(* edge_value: whether the edge can be read, and what it reads.            *)
Readable(e) ==
  /\ HasValue(slots, e.producer)
  /\ LET value == SlotValue(slots, e.producer)
     IN IF TakesElement(value, e) THEN value.tag = "tuple" /\ e.element < Len(value.elems)
        ELSE e.access = "ConnectedBindingElement" => e.element = 0

(* A faulty variant, for the mutation runs: elements counted from the end. *)
EdgeValueFromTheEnd(e) ==
  LET value == SlotValue(slots, e.producer)
  IN IF TakesElement(value, e) THEN value.elems[Len(value.elems) - e.element] ELSE value

EdgeValue(e) ==
  LET value == SlotValue(slots, e.producer)
  IN IF TakesElement(value, e) THEN value.elems[e.element + 1] ELSE value

AllReadable(edges) == \A k \in DOMAIN edges : Readable(edges[k])
LabelsOf(edges) == [k \in DOMAIN edges |-> EdgeValue(edges[k]).label]

(***************************************************************************)
(* Releasing.                                                              *)
(***************************************************************************)
Accounted(s, owners) == {i \in owners : s[i].kind = "Owned" /\ s[i].accounted}

ReleasedBytes(s, owners) ==
  SumFunction([i \in Accounted(s, owners) |-> CanonicalBytes(s[i].value)])

(* release_after: the owners this sink releases.  The code empties them    *)
(* one by one, the youngest first; what is left is the same in any order.  *)
(* Faulty: a binding goes with its first reader.                           *)
OwnersReadBy(i) ==
  {o \in Indices(program) :
     \/ program.releases[o] = AtNode(i)
     \/ Node(o).kind = "Binding" /\ \E k \in DOMAIN Node(i).edges : Node(i).edges[k].producer = o}

OwnersReleasedBy(i) == {o \in Indices(program) : program.releases[o] = AtNode(i)}

Without(s, owners) == [i \in DOMAIN s |-> IF i \in owners THEN Empty ELSE s[i]]

ReleaseAfter(s, u, i) ==
  [slots |-> Without(s, OwnersReleasedBy(i)),
   usage |-> Refund(u, ReleasedBytes(s, OwnersReleasedBy(i)))]

(***************************************************************************)
(* The order of execution: nodes in order, but the nodes of a branch only  *)
(* when their fan-out runs, one branch after another.                      *)
(***************************************************************************)
InOrder(branch) == [k \in 1 .. branch.last - branch.first + 1 |-> branch.first + k - 1]

BranchSchedule(p, f) ==
  FlattenSeq([b \in DOMAIN Branches(p, f) |-> InOrder(Branches(p, f)[b])])

(* Faulty: the nodes of a branch run in their turn as well.                *)
ScheduleWithBranchesTwice(p) ==
  FlattenSeq([i \in Indices(p) |->
                IF KindOf(p, i) = "FanOut" THEN BranchSchedule(p, i) \o <<i>> ELSE <<i>>])

Schedule(p) ==
  FlattenSeq([i \in Indices(p) |->
                CASE i \in BranchNodes(p) -> <<>>
                  [] KindOf(p, i) = "FanOut" -> BranchSchedule(p, i) \o <<i>>
                  [] OTHER -> <<i>>])

Current == Head(agenda)
Executing(kinds) ==
  stage = "Nodes" /\ agenda # <<>> /\ Node(Current).kind \in kinds

(***************************************************************************)
(* Failing, and putting a value into the current node's slot.              *)
(***************************************************************************)
Fail(reason, u, s) ==
  /\ stage' = "Cleanup"
  /\ error' = reason
  /\ usage' = u
  /\ slots' = s
  /\ UNCHANGED <<program, configuration, agenda, gathered, table, copy, loaned, results>>

Proceed(u, s) ==
  /\ agenda' = Tail(agenda)
  /\ gathered' = <<>>
  /\ table' = 0
  /\ usage' = u
  /\ slots' = s
  /\ UNCHANGED <<program, configuration, stage, copy, loaned, error, results>>

(* put_slot, then release_after; a filled destination is an invariant error *)
PutThenRelease(slot, u, s) ==
  IF s[Current] # Empty THEN Fail("Invariant", u, s)
  ELSE LET st == ReleaseAfter([s EXCEPT ![Current] = slot], u, Current)
       IN Proceed(st.usage, st.slots)

PutOnly(slot, u, s) ==
  IF s[Current] # Empty THEN Fail("Invariant", u, s)
  ELSE Proceed(u, [s EXCEPT ![Current] = slot])

Admitted(d) == d.verdict = Granted

(* A producer that is granted bytes may still fail to allocate them.       *)
(* Faulty: the charge is forgotten.                                        *)
HostRefusesForGood(d) == Fail("Host", d.usage, slots)

HostRefuses(d) == Fail("Host", Refund(d.usage, d.bytes), slots)

(***************************************************************************)
(* Entry: the profile, the arguments' types, the interpreter's own tables  *)
(* (all may fail before anything is charged), then the arguments.          *)
(***************************************************************************)
Begin ==
  /\ stage = "Begin"
  /\ IF UsesTuples(program) /\ ~SupportsTuples(configuration.profile)
     THEN stage' = "Done" /\ error' = "Profile"
     ELSE \/ stage' = "Done" /\ error' \in {"ArgumentMismatch", "Host"}
          \/ stage' = "Arguments" /\ error' = error
  /\ UNCHANGED <<program, configuration, usage, slots, agenda, gathered, table,
                 copy, loaned, results>>

(* admit_string_parameters, one argument at a time.                        *)
AdmitArgument ==
  /\ stage = "Arguments"
  /\ loaned < Len(program.arguments)
  /\ LET argument == program.arguments[loaned + 1]
         d == AdmitString(configuration, usage, argument.own, 0)
     IN IF argument.tag # "string" \/ Admitted(d)
        THEN /\ loaned' = loaned + 1
             /\ usage' = IF argument.tag = "string" THEN d.usage ELSE usage
             /\ UNCHANGED <<stage, error>>
        ELSE /\ stage' = "Return"
             /\ error' = "Resource"
             /\ usage' = d.usage
             /\ UNCHANGED loaned
  /\ UNCHANGED <<program, configuration, slots, agenda, gathered, table, copy, results>>

EnterNodes ==
  /\ stage = "Arguments"
  /\ loaned = Len(program.arguments)
  /\ stage' = "Nodes"
  /\ agenda' = Schedule(program)
  /\ UNCHANGED <<program, configuration, usage, slots, gathered, table, copy,
                 loaned, error, results>>

(***************************************************************************)
(* execute_node, by kind.                                                  *)
(***************************************************************************)
(* A try_reserve of the interpreter's own tables, before any request: of a *)
(* node that copies its edges, of a fan-out about to run its branches, or  *)
(* of the outputs.                                                         *)
StartsFanOut(i) == \E f \in FanOuts(program) : Branches(program, f)[1].first = i

ReserveFails ==
  /\ stage = "Nodes"
  /\ \/ Executing({"TupleConstruct", "Format", "SelectedApply"})
     \/ agenda # <<>> /\ StartsFanOut(Current)
     \/ agenda = <<>>
  /\ Fail("Host", usage, slots)

ConstantDecision(node) ==
  IF node.type.tag = "string" THEN AdmitString(configuration, usage, node.count, 0)
  ELSE AdmitVector(configuration, usage, node.count, 1, 0)

ExecuteConstant ==
  /\ Executing({"Constant"})
  /\ LET node  == Node(Current)
         value == Plain(node.type.tag, node.count, Label(Current, <<>>))
         d     == ConstantDecision(node)
     IN CASE node.type.tag = "scalar" -> PutOnly(Owned(value, FALSE), usage, slots)
          [] node.type.tag # "scalar" /\ Admitted(d) ->
               \/ PutOnly(Owned(value, node.count # 0), d.usage, slots)
               \/ node.count # 0 /\ HostRefuses(d)
          [] OTHER -> Fail("Resource", d.usage, slots)

ExecuteParameter ==
  /\ Executing({"ParameterBorrow"})
  /\ PutOnly(Borrowed(Node(Current).count), usage, slots)

(* execute_spread_prepare, execute_binding, execute_user_binding and       *)
(* execute_binding_move: take the producer's slot, or alias it.            *)
ExecuteHandover ==
  /\ Executing(HandoverKind)
  /\ LET e == Node(Current).edges[1]
     IN CASE e.ownership = "InfallibleTransfer" /\ slots[e.producer] # Empty ->
               PutThenRelease(slots[e.producer], usage,
                              [slots EXCEPT ![e.producer] = Empty])
          [] e.ownership = "ImmutableBorrow" /\ Node(Current).kind # "BindingMove" ->
               PutThenRelease(Alias(e.producer), usage, slots)
          [] OTHER -> Fail("Invariant", usage, slots)

(* Measure, admit the bytes and as much work, reserve, render.             *)
ExecuteFormat ==
  /\ Executing({"Format"})
  /\ LET edges == Node(Current).edges
     IN IF ~AllReadable(edges) THEN Fail("Invariant", usage, slots)
        ELSE \E required \in FormatLengths :
               LET d == AdmitString(configuration, usage, required, required)
                   value == Plain("string", required, Label(Current, LabelsOf(edges)))
               IN IF ~Admitted(d) THEN Fail("Resource", d.usage, slots)
                  ELSE \/ PutThenRelease(Owned(value, required # 0), d.usage, slots)
                       \/ HostRefuses(d)

(***************************************************************************)
(* execute_apply: shapes are validated before anything is requested.  The  *)
(* request depends on the primitive: a scalar result charges work only, a  *)
(* vector result is admitted with its work, a filter charges its work and  *)
(* then admits what it kept.  A fault comes after the request and gives    *)
(* back the bytes, never the work.                                         *)
(***************************************************************************)
ApplyDecision(plan, n, u) ==
  CASE plan = "scalar" -> ChargeWork(configuration, u, 1)
    [] plan = "vector" -> AdmitVector(configuration, u, n, 1, n)
    [] plan = "filter" ->
         LET charged == ChargeWork(configuration, u, 1)
         IN IF Admitted(charged)
            THEN AdmitVector(configuration, charged.usage, n, 1, 0) ELSE charged

ApplyValue(plan, n, operands) ==
  IF plan = "scalar" THEN Plain("scalar", 0, Label(Current, operands))
  ELSE Plain("vector", n, Label(Current, operands))

ExecuteApply ==
  /\ Executing({"SelectedApply"})
  /\ LET edges == Node(Current).edges
         plan  == Node(Current).plan
     IN IF ~AllReadable(edges) THEN Fail("Invariant", usage, slots)
        ELSE \/ Fail("ShapeMismatch", usage, slots)
             \/ \E n \in (IF plan = "scalar" THEN {0} ELSE ResultLengths) :
                  LET d == ApplyDecision(plan, n, usage)
                      value == ApplyValue(plan, n, LabelsOf(edges))
                  IN IF ~Admitted(d) THEN Fail("Resource", d.usage, slots)
                     ELSE \/ PutThenRelease(Owned(value, plan # "scalar"), d.usage, slots)
                          \/ Fail("Fault", Refund(d.usage, d.bytes), slots)

(***************************************************************************)
(* execute_fan_out, once its branches have run: admit the result table,    *)
(* then take the branch roots.                                             *)
(***************************************************************************)
ExecuteFanOut ==
  /\ Executing({"FanOut"})
  /\ LET branches == Node(Current).branches
         taken    == {branches[b].root : b \in DOMAIN branches}
         d        == AdmitTuple(configuration, usage, Len(branches))
         rest     == Without(slots, taken)
     IN CASE ~Admitted(d) -> Fail("Resource", d.usage, slots)
          [] Admitted(d) /\ \A i \in taken : slots[i].kind = "Owned" ->
               LET value == TupleValue([b \in DOMAIN branches |-> slots[branches[b].root].value])
               IN PutThenRelease(Owned(value, TRUE), d.usage, rest)
          [] OTHER -> Fail("Invariant", d.usage, rest)

(***************************************************************************)
(* execute_tuple: admit the table, then collect the children.              *)
(***************************************************************************)
NoCopy == [kind |-> "NoCopy"]
Copying(value) == [kind |-> "Copy", value |-> value, pending |-> <<value>>, admitted |-> 0]

BeginTuple ==
  /\ Executing({"TupleConstruct"})
  /\ LET d == AdmitTuple(configuration, usage, Len(Node(Current).edges))
     IN IF Admitted(d)
        THEN /\ stage' = "Tuple"
             /\ table' = d.bytes
             /\ usage' = d.usage
             /\ UNCHANGED <<program, configuration, slots, agenda, gathered, copy,
                            loaned, error, results>>
        ELSE Fail("Resource", d.usage, slots)

(* Give up what was collected; Unwind then hands over to the cleanup.      *)
GiveUp(reason, u, s) ==
  /\ stage' = "Unwind"
  /\ error' = reason
  /\ usage' = u
  /\ slots' = s
  /\ copy' = NoCopy
  /\ UNCHANGED <<program, configuration, agenda, gathered, table, loaned, results>>

Collect(value, s) ==
  /\ gathered' = Append(gathered, value)
  /\ slots' = s
  /\ UNCHANGED <<program, configuration, usage, stage, agenda, table, copy,
                 loaned, error, results>>

(* clone_borrowed_value begins: every node of the value is still pending.  *)
StartCopy(value, s) ==
  /\ copy' = Copying(value)
  /\ slots' = s
  /\ UNCHANGED <<program, configuration, usage, stage, agenda, gathered, table,
                 loaned, error, results>>

(* take_infallible_transfer: an owned child moves, a borrowed or aliased   *)
(* one is copied unless it is a scalar.                                    *)
TakeTransfer(p) ==
  LET rest == [slots EXCEPT ![p] = Empty]
      readable == CASE slots[p].kind = "Alias" -> HasValue(rest, slots[p].node)
                    [] OTHER -> slots[p] # Empty
      value == IF slots[p].kind = "Alias" THEN SlotValue(rest, slots[p].node)
               ELSE ValueIn(slots[p])
  IN IF ~readable THEN GiveUp("Invariant", usage, rest)
     ELSE IF slots[p].kind = "Owned" \/ ~IsCopied(value) THEN Collect(value, rest)
     ELSE StartCopy(value, rest)

TakeChild ==
  /\ stage = "Tuple" /\ copy = NoCopy
  /\ Len(gathered) < Len(Node(Current).edges)
  /\ LET e == Node(Current).edges[Len(gathered) + 1]
     IN CASE e.ownership = "InfallibleTransfer" -> TakeTransfer(e.producer)
          [] e.ownership = "ImmutableBorrow" /\ Readable(e) -> StartCopy(EdgeValue(e), slots)
          [] OTHER -> GiveUp("Invariant", usage, slots)

EndTuple ==
  /\ stage = "Tuple" /\ copy = NoCopy
  /\ Len(gathered) = Len(Node(Current).edges)
  /\ IF slots[Current] # Empty THEN Fail("Invariant", usage, slots)
     ELSE LET value == TupleValue(gathered)
              st == ReleaseAfter([slots EXCEPT ![Current] = Owned(value, gathered # <<>>)],
                                 usage, Current)
          IN /\ stage' = "Nodes"
             /\ agenda' = Tail(agenda)
             /\ gathered' = <<>>
             /\ table' = 0
             /\ usage' = st.usage
             /\ slots' = st.slots
             /\ UNCHANGED <<program, configuration, copy, loaned, error, results>>

(***************************************************************************)
(* admit_borrowed_copy: one request for each node of the value, the last   *)
(* pending one first; then the clone itself.                               *)
(***************************************************************************)
CopyDecision(value) ==
  CASE value.tag = "string" -> AdmitString(configuration, usage, value.own, 0)
    [] value.tag = "vector" -> AdmitVector(configuration, usage, value.own, 1, 0)
    [] value.tag = "tuple"  -> AdmitTuple(configuration, usage, Len(value.elems))
    [] OTHER -> [verdict |-> Granted, bytes |-> 0, work |-> 0, usage |-> usage]

CopyNext ==
  /\ copy # NoCopy /\ copy.pending # <<>>
  /\ LET value == Last(copy.pending)
         d     == CopyDecision(value)
     IN IF Admitted(d)
        THEN /\ copy' = [copy EXCEPT !.pending = Front(@) \o value.elems,
                                     !.admitted = @ + d.bytes]
             /\ usage' = d.usage
             /\ UNCHANGED <<program, configuration, slots, stage, agenda, gathered,
                            table, loaned, error, results>>
        ELSE GiveUp("Resource", Refund(d.usage, copy.admitted), slots)

(* The worklist cannot be created, or cannot take the children of a tuple  *)
(* whose table has just been granted.                                      *)
CopyReserveFails ==
  /\ copy # NoCopy /\ copy.pending # <<>>
  /\ LET value == Last(copy.pending)
         d     == CopyDecision(value)
     IN \/ copy.pending = <<copy.value>> /\ GiveUp("Host", usage, slots)
        \/ /\ value.elems # <<>> /\ Admitted(d)
           /\ GiveUp("Host", Refund(d.usage, copy.admitted + d.bytes), slots)

CopyDone ==
  /\ copy # NoCopy /\ copy.pending = <<>>
  /\ \/ /\ gathered' = Append(gathered, copy.value)
        /\ copy' = NoCopy
        /\ UNCHANGED <<program, configuration, usage, slots, stage, agenda, table,
                       loaned, error, results>>
     \/ GiveUp("Host", Refund(usage, copy.admitted), slots)

(***************************************************************************)
(* take_output for each root, and the return.                              *)
(***************************************************************************)
EnterOutputs ==
  /\ stage = "Nodes" /\ agenda = <<>>
  /\ stage' = "Outputs"
  /\ UNCHANGED <<program, configuration, usage, slots, agenda, gathered, table,
                 copy, loaned, error, results>>

TakeOutput ==
  /\ stage = "Outputs" /\ copy = NoCopy
  /\ Len(gathered) < Len(program.roots)
  /\ LET at == Resolve(slots, program.roots[Len(gathered) + 1])
     IN CASE slots[at].kind = "Owned" ->
               Collect(slots[at].value, [slots EXCEPT ![at] = Empty])
          [] slots[at].kind = "Borrowed" -> StartCopy(ValueIn(slots[at]), slots)
          [] OTHER -> GiveUp("Invariant", usage, slots)

Deliver ==
  /\ stage = "Outputs" /\ copy = NoCopy
  /\ Len(gathered) = Len(program.roots)
  /\ stage' = "Return"
  /\ results' = gathered
  /\ gathered' = <<>>
  /\ UNCHANGED <<program, configuration, usage, slots, agenda, table, copy, loaned, error>>

(***************************************************************************)
(* Failure: the collected values, then the table, then every slot, in      *)
(* reverse.                                                                *)
(***************************************************************************)
(* Faulty: the table stays charged.                                        *)
UnwindValuesOnly ==
  /\ stage = "Unwind"
  /\ IF gathered # <<>>
     THEN /\ usage' = Refund(usage, CanonicalBytes(Last(gathered)))
          /\ gathered' = Front(gathered)
          /\ UNCHANGED <<stage, table>>
     ELSE /\ table' = 0
          /\ stage' = "Cleanup"
          /\ UNCHANGED <<usage, gathered>>
  /\ UNCHANGED <<program, configuration, slots, agenda, copy, loaned, error, results>>

Unwind ==
  /\ stage = "Unwind"
  /\ IF gathered # <<>>
     THEN /\ usage' = Refund(usage, CanonicalBytes(Last(gathered)))
          /\ gathered' = Front(gathered)
          /\ UNCHANGED <<stage, table>>
     ELSE /\ usage' = Refund(usage, table)
          /\ table' = 0
          /\ stage' = "Cleanup"
          /\ UNCHANGED gathered
  /\ UNCHANGED <<program, configuration, slots, agenda, copy, loaned, error, results>>

Filled == {i \in Indices(program) : slots[i] # Empty}

CleanupSlot ==
  /\ stage = "Cleanup" /\ Filled # {}
  /\ slots' = Without(slots, {Max(Filled)})
  /\ usage' = Refund(usage, ReleasedBytes(slots, {Max(Filled)}))
  /\ UNCHANGED <<program, configuration, stage, agenda, gathered, table, copy,
                 loaned, error, results>>

CleanupDone ==
  /\ stage = "Cleanup" /\ Filled = {}
  /\ stage' = "Return"
  /\ UNCHANGED <<program, configuration, usage, slots, agenda, gathered, table,
                 copy, loaned, error, results>>

(* release_string_parameters, the last argument first; then the caller has *)
(* its answer.                                                             *)
(* Faulty: only a successful evaluation returns its arguments.             *)
ReturnArgumentOnSuccess ==
  /\ stage = "Return" /\ loaned # 0 /\ error = None
  /\ loaned' = loaned - 1
  /\ usage' = IF program.arguments[loaned].tag = "string"
              THEN Refund(usage, program.arguments[loaned].own) ELSE usage
  /\ UNCHANGED <<program, configuration, slots, stage, agenda, gathered, table, copy,
                 error, results>>

ReturnArgument ==
  /\ stage = "Return" /\ loaned # 0
  /\ loaned' = loaned - 1
  /\ usage' = IF program.arguments[loaned].tag = "string"
              THEN Refund(usage, program.arguments[loaned].own) ELSE usage
  /\ UNCHANGED <<program, configuration, slots, stage, agenda, gathered, table,
                 copy, error, results>>

Finish ==
  /\ stage = "Return" /\ loaned = 0
  /\ stage' = "Done"
  /\ UNCHANGED <<program, configuration, usage, slots, agenda, gathered, table,
                 copy, loaned, error, results>>

(***************************************************************************)
(* Specification.  Nothing but the evaluation's own thread moves it, and   *)
(* no step of it waits: weak fairness of the whole is its running on.      *)
(***************************************************************************)
Init ==
  /\ program \in Programs
  /\ configuration \in {c \in Configurations : ValidConfiguration(c)}
  /\ usage = InitialUsage
  /\ slots = [i \in Indices(program) |-> Empty]
  /\ stage = "Begin"
  /\ agenda = <<>>
  /\ gathered = <<>>
  /\ table = 0
  /\ copy = NoCopy
  /\ loaned = 0
  /\ error = None
  /\ results = <<>>

Next ==
  \/ Begin \/ AdmitArgument \/ EnterNodes
  \/ ReserveFails \/ ExecuteConstant \/ ExecuteParameter \/ ExecuteHandover
  \/ ExecuteFormat \/ ExecuteApply \/ ExecuteFanOut
  \/ BeginTuple \/ TakeChild \/ CopyNext \/ CopyReserveFails \/ CopyDone \/ EndTuple
  \/ EnterOutputs \/ TakeOutput \/ Deliver
  \/ Unwind \/ CleanupSlot \/ CleanupDone \/ ReturnArgument \/ Finish

Spec == Init /\ [][Next]_vars /\ WF_vars(Next)

(***************************************************************************)
(* Properties.                                                             *)
(***************************************************************************)
Stage == {"Begin", "Arguments", "Nodes", "Tuple", "Outputs", "Unwind", "Cleanup",
          "Return", "Done"}

Reason == {"Profile", "ArgumentMismatch", "Resource", "Host", "ShapeMismatch", "Fault", "Invariant"}

ASSUME ReasonAssumption == None \notin Reason

SlotOK(slot) ==
  \/ slot = Empty
  \/ slot.kind = "Borrowed" /\ slot.parameter \in DOMAIN program.arguments
  \/ slot.kind = "Alias" /\ slot.node \in Indices(program)
  \/ slot.kind = "Owned" /\ slot.accounted \in BOOLEAN /\ WalkDone(Walk(slot.value))

(* The shapes of the state; and the loop that takes a value apart has      *)
(* enough turns for every value a slot may hold.                           *)
TypeOK ==
  /\ program \in Programs
  /\ configuration \in Configuration
  /\ usage \in ResourceUsage
  /\ DOMAIN slots = Indices(program) /\ \A i \in Indices(program) : SlotOK(slots[i])
  /\ stage \in Stage
  /\ agenda \in Seq(Indices(program))
  /\ loaned \in 0 .. Len(program.arguments)
  /\ error \in Optional(Reason)
  /\ copy = NoCopy \/ copy.admitted \in Usize

(***************************************************************************)
(* The bytes the evaluation really holds: in accounted slots, in the       *)
(* values and the table under construction, in the copy in progress, in    *)
(* its arguments, and in what it delivered.                                *)
(***************************************************************************)
BytesOfAll(values) == Total("bytes", values)

ArgumentBytes(k) == IF program.arguments[k].tag = "string" THEN program.arguments[k].own ELSE 0

Held ==
  SumFunction([i \in Accounted(slots, Indices(program)) |-> slots[i].value.bytes])
    + SumFunction([k \in 1 .. loaned |-> ArgumentBytes(k)])
    + BytesOfAll(gathered) + table + BytesOfAll(results)
    + (IF copy = NoCopy THEN 0 ELSE copy.admitted)

(* live_evaluation_bytes is what is held, at every step of every program,  *)
(* whatever fails where.                                                   *)
LiveIsHeld == usage.live = Held

(* A nonempty tuple that is not the first element of a tuple: the values   *)
(* for which into_canonical_bytes gives back more than was charged (see    *)
(* DeliveredStaysCharged).                                                 *)
NestsTupleLate(p) ==
  \E i \in Indices(p) : \E k \in DOMAIN TypeOf(p, i).elems :
    /\ k > 1
    /\ TypeOf(p, i).elems[k].elems # <<>>

(* A verified program never meets an execution invariant error: no slot is *)
(* read or taken after it was moved or released, none is filled twice      *)
(* (execution_invariant_error, all through the interpreter).               *)
NoInvariantFailure == error # "Invariant"

(* A successful evaluation leaves charged exactly what it delivered.  The  *)
(* specification charges a nonempty tuple n slots and releases as much     *)
(* (spec/typed-fwir-semantic-contract.md, section 10); into_canonical_bytes *)
(* releases more for a tuple that is taken apart while its elder siblings  *)
(* wait.                                                                   *)
DeliveredStaysCharged ==
  stage = "Done" /\ error = None => usage.live = BytesOfAll(results)

(* The same document, section 11: the table of a fan-out is admitted       *)
(* before its first branch starts, so a refused table finds no branch's    *)
(* value in a slot.  execute_fan_out admits it after the last.             *)
RefusedTableStartsNoBranch ==
  error = "Resource" /\ agenda # <<>> /\ Node(Current).kind = "FanOut" =>
    \A b \in DOMAIN Node(Current).branches : slots[Node(Current).branches[b].root] = Empty

(* Every alias leads to a value for as long as it stands.                  *)
NoDanglingAlias ==
  stage \in {"Nodes", "Tuple"} /\ copy = NoCopy /\ gathered = <<>> =>
    \A i \in Indices(program) : slots[i].kind = "Alias" => HasValue(slots, i)

Abstract == INSTANCE Evaluation
  WITH outcome <- [status |-> CASE stage # "Done" -> "running"
                                [] stage = "Done" /\ error = None -> "delivered"
                                [] OTHER -> "failed",
                   values |-> IF stage = "Done" THEN results ELSE <<>>]

(* A slot holds what its node means, however its value came there.         *)
SlotsHoldMeaning ==
  LET meaning == Abstract!MeaningOfNodes(program)
  IN \A i \in Indices(program) :
       HasValue(slots, i) => SlotValue(slots, i).label = meaning[i]

(* The evaluation keeps the promise of Evaluation: everything or nothing.  *)
ImplementsEvaluation == Abstract!Spec

(* Every evaluation ends, whatever is refused.                             *)
Terminates == <>(stage = "Done")
=============================================================================

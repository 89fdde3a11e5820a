# A formal model of Faraweave

Faraweave is an array language: a source file is parsed, its bindings are
analysed, it is lowered to a typed program in postorder, the program is
verified, and a verified program is interpreted or written to FWIR, a binary
format which a decoder turns back into a typed program and verifies again.
This directory holds TLA+ modules that model the parts in which state, order
and failure matter, and those where two components must compute the same thing
independently; the TLC instances that check them; and TLAPS proofs, for every
value of the constants, about the resource ledger, the REPL, the command line,
the FWIR directory and its limits, the ownership rules of the verifier, and the
interpreter: what its slots hold, what it delivers, and where every charged byte is.

Sources are named as in the repository (`src/interpreter.rs`,
`spec/typed-fwir-semantic-contract.md`).

## 1. Inventory

| Component | State it keeps | Operations | What makes it correct |
|---|---|---|---|
| Resource ledger, `resources.rs` | `usage`: live bytes, peak, work, allocation attempts; limits and injection | charge work; admit string, vector, string vector, tuple; refund; release; each tells an observer | live bytes equal what producers hold; limits bound the usage; a refusal charges nothing; ordinals are consecutive; no counter wraps |
| Interpreter, `interpreter.rs` | one slot per node (borrowed, alias, owned), the ledger, branch markers, releases per node | one handler per node kind, borrowed copy, outputs, cleanup | a value is read before it is released, moved once, charged once; failure leaves nothing charged; every evaluation ends |
| Verifier, `typed_program.rs` | none (a pure check of a `RawProgram`) | per-record checks, fan-out regions, ownership modes, sinks, releases | what it accepts, the interpreter can run without an execution invariant error |
| Program builder, `typed_program.rs` | arenas of records | push a record, finish | indices stay in range |
| Values, `value.rs` | tuples, vectors, strings | clone, canonical bytes by iterative release, format | a value is released for what it was charged |
| Lowering and binding analysis, `lowering.rs` | nodes registered so far, last consumer and move of each binding, shape errors | one lowering per expression kind | its output is verified; moves are last uses; the release of a binding agrees with the verifier's |
| Parser, `parser.rs` | token position | recursive descent | sequential text processing |
| Registry and overloads, `semantic_registry.rs`, `lowering.rs` | constant table | look up, rank | a call selects one overload whatever the order of the table |
| Primitives, `primitive.rs` | none | lifted, scalar, reducing, scanning, filtering, sorting applications | admit before allocate, refund on each fault, integer edges |
| Strict binary64, `strict_float.rs` | none | conversion, arithmetic, comparison on bits | round to nearest even, one NaN |
| FWIR encoder, `fwir_encoder.rs` | none (string pool and section plan of one call) | preflight, string pool, directory, records | decoding what was encoded gives it back |
| FWIR decoder, `fwir_decoder.rs` | decode plan: a directory of sections | preflight, limits, strings, records, reservation, rebuilding, verify | nothing is reserved before its size is known to fit; one artifact a program |
| Command line, `main.rs` | files; output position | run, compile-ir, inspect-ir, run-ir, atomic write | an output file is old or new, never half; reported prefix is the accepted prefix |
| REPL, `main.rs`, `repl_terminal.rs` | history: at most 100 entries and 65,536 bytes, numbered; the input buffer | read a line, record, dispatch | bounds hold, numbers increase, a rejected line is drained whole |
| Errors, APIs (`error.rs`, `evaluator.rs`, `fwir_api.rs`, `lib.rs`) | none | composition | |
| Release and validation tooling, `tools/` | none of the program's | scripts | outside the model |

How they interact. The evaluator calls the parser, lowering, the verifier and
the interpreter in turn, in one thread; each call's result is the next one's
input and no component calls back, except that the ledger notifies an observer.
The interpreter owns one `ResourceContext` and passes it by mutable reference
to the primitives and to the copy of values. `main.rs` shares the file system
with other processes, which is the only true concurrency.

What is hard. There are no threads inside an evaluation; the difficulty is
*partial failure* and *ownership over a long run*. Any request may be refused,
by a limit or by an injected failure, and any host allocation may fail, between
any two steps, while values sit in slots, in a half-built tuple, in a copy
halfway through or among the outputs. Each must be given back exactly once.
Values move out of slots while aliases of other nodes stand for them, and the
sink at which a slot is emptied was decided by another component (lowering),
checked by a third (the verifier). A second difficulty is *agreement*: lowering
and the verifier each compute ownership, releases, features, conversions, shapes
and cardinalities, the binding analysis and the arity validation foresee from
the syntax what lowering will do, and encoder, decoder and verifier share one
format. Where two of them disagree a legal source does not compile, or an
illegal artifact runs. `PROJECT.json` lists the hazards with the lines where
they bite.

## 2. Modules

    Resources --> HeldBytes --> ResourceLedger --> MCResourceLedger        run ledger
        |                             \
        |                              ResourceLedgerProofs
        |
        +--> Values, TypedProgram --> Evaluation
        |              |                 ^ refines
        |              |            Interpreter, ProgramCatalogue --> MCInterpreter
        |              |                        runs interpreter, nested_tuples,
        |              |                             fan_out_table, raw_programs
        |              +--> SourceForms, Features --> Lowering --> MCLowering
        |                       runs lowering, reread_operand, completed_by_tuple
        +--> Registry --> Kernels --> Application --> MCApplication    run application

    Registry, Fwir --> FwirEncoder --> FwirRecords --> FwirDecoder --> MCFwir  run fwir
                                                            \
                                          FwirDecoderProofs (with NumberInduction)
    ReplHistory --> Repl --> MCRepl                                     run repl
    CommandLine --> MCCommandLine                                       run command_line
              \
               CommandLineProofs

    NumberInduction --> ReplProofs (with Repl)
            \
             OwnershipProofs (with TypedProgram)
                 --> InterpreterProofs (with Interpreter) --> AccountingProofs

**Resources** is the arithmetic of `ResourceContext`: `Verdict` is the order of
the early returns of `admit_request`, `UsageAfter` what each outcome does to the
four counters, `AdmitVector` and its siblings the sizes the producers ask for,
`Refund` the saturating subtraction. `usize::MAX` is the constant `MaxUsize` and
16, the bytes of a tuple slot, is `SlotBytes`.

**ResourceLedger** drives it: owners are granted bytes, hold them, and give them
back by a release the observer sees or by a refund it does not. One action per
operation of `ResourceContext`; the variable `event` is what the observer was
told. A producer asks for bytes only while it holds none, which is how every
call in the interpreter and the primitives is written (one admission per new
value). Under a v1 profile `admit_tuple` is refused before a request is made, so
`AdmitTupleFor` needs a v2 profile. `HeldBytes` is the sum of what owners hold.

**Values** abstracts a value to a tag, the bytes it is charged for itself, its
children and a *label*, which says where its content came from. `CanonicalBytes`
is `into_canonical_bytes` step for step, with its current value, its pending
stack and the synthetic tuple in which it keeps displaced siblings. The reference
is the sum a value carries along for the specification (`bytes`, with the number of
its `nodes`): every node of the value once, added up when the value is made.

**TypedProgram** holds programs and the verifier. `Verified(p)` is the
conjunction of the checks of `verify_program` that concern what is modelled:
edges point backwards, each node kind has the edges it may have, spreads pass
all elements in order, fan-out branches tile the nodes before the fan-out and
read its operand at one hole, each edge carries the ownership mode its producer
and consumer imply, bindings are used and moved last, the cardinality of an
element can be found, each node has one sink and the release the verifier
computes. `AsLowered` is what lowering adds: only a fan-out borrows a binding
through a `BindingBorrow`, bindings are not spread through a preparation, a
binding is released by the last consumer lowering recorded, and what a branch
computes is read in the branch, all but its root (`BranchesAreClosed`).
`IsProgram` is what the records of a program are made of. The rest of the
verifier is in `Features` (features and versions of a lowered program),
`Application` (`verify_apply`) and `FwirRecords` (features, versions, roots and
strings of a program read from FWIR).

**Interpreter** is one evaluation. `slots` is `Interpreter::slots`; `agenda` is
the rest of the execution order (the loop of `execute` and the inner loop of
`execute_fan_out` unrolled by `Schedule`); `gathered` and `table` are the local
`values` and `table_bytes` of `execute_tuple` and of `execute`; `copy` is the
state of `admit_borrowed_copy`; `loaned` counts the arguments charged so far.
Handlers that make one request are one action; `execute_tuple`, the copies and
the outputs, which may be refused between their parts, are a sequence of
actions. Data decides by choice: a shape may mismatch, a kernel may fault, the
host may fail any `try_reserve` the code makes, formatted strings and vectors
have any of the lengths of two constants.

| Code | Actions |
|---|---|
| `evaluate_verified_program_observed` | `Begin`, `EnterNodes`, `Deliver`, `CleanupDone`, `Finish` |
| `admit_string_parameters`, `release_string_parameters` | `AdmitArgument`, `ReturnArgument` |
| `build_constant`, parameters | `ExecuteConstant`, `ExecuteParameter` |
| bindings, moves, borrows, spreads | `ExecuteHandover` |
| `execute_format`, `execute_apply`, `execute_fan_out` | `ExecuteFormat`, `ExecuteApply`, `ExecuteFanOut` |
| `execute_tuple`, `take_infallible_transfer` | `BeginTuple`, `TakeChild`, `EndTuple` |
| `admit_borrowed_copy`, `clone_borrowed_value` | `CopyNext`, `CopyReserveFails`, `CopyDone` |
| `take_output` | `EnterOutputs`, `TakeOutput` |
| failure | `ReserveFails`, `Unwind`, `CleanupSlot` |

`evaluate_verified_program_observed` gives back the arguments admitted so far
inside `admit_string_parameters` when one is refused, and all of them after
`execute`, whether it succeeded or not; both are `ReturnArgument`, last first.

**Evaluation** is what a caller may rely on: the usage moves within its limits
until, in one step, the caller receives either all roots, meaning what the
program means, with exactly their bytes charged, or an error with nothing
charged. `MeaningOfNodes` computes labels from the program alone, with no slots,
no moves and no copies. Interpreter implements Evaluation under the mapping
`outcome <- (stage, error, results)`.

**ProgramCatalogue** builds programs: from a few beginnings it appends nodes in
every way whose edges could be legal, completes roots and releases, and keeps
what `Verified` accepts. The run `interpreter` also asks `AsLowered` of them; the
run `lowering` shows that lowering meets that assumption.

**SourceForms** is what the parser hands over: an expression is a record of its
form and its parts, without spans. On it are defined the checks that come before
lowering: `FormatFault`, the binding analysis (`ReferencesIn` lists references in
the order of the worklist of `analyze_expression_bindings`, with the mark whether
the position owns; `BindingFault` the error reported), `MisplacedReferences`, and
the arity validation (`StructuralValue`, `ArityFault`).

**Lowering** is a source on its way through `compile_parsed_source`: one action
per check, then `LowerNextItem` per declaration or root, then `Verify`. The
record `lowering` is the `Lowerer`: nodes, releases, features, and the last
consumer of each binding. One operator per expression kind: `LowerName`,
`LowerLiteral`, `LowerTuple`, `LowerFormat`, `Apply`, `SpreadApply`,
`LowerConnected` (with `Filling` for the placeholders of its templates),
`LowerFanOut`, `TakeHole`. They recurse over the depth of an
expression. Operations are taken from a small table in `SourceForms`, because
which overload is chosen does not touch ownership; that is the next module.

**Registry** is the semantic registry: all rows in their order, with implementation,
behaviour, parameters, result and plan, and `ValidRegistry`, which is
`validate_registry_with_application_plans` and is assumed by name, so that TLC
evaluates it on the table. **Kernels** is `primitive.rs` over values of `IntBits`
bits: each behaviour with its charges, admissions, reservations, faults and refunds, on
the operators of `Resources`. The parameter `refused` numbers the reservation of the
application for which the host has no memory, after the ledger has admitted it: the
output (1), or what element k needs (k + 1), its list of operands or the copy of a
string. **Application** is one call: `Select` and `Resolve`
(overload and operation reference), `Lower` (conversions, shape plan, result),
or `Build`, which hands the verifier a node made by hand, then `Verify`, then
`Execute` under some configuration of the ledger.

**Fwir** has the tables both sides of the format share, **FwirEncoder** the
encoding as one operator, `Encoded`, and **FwirRecords** what the decoder asks of
the records of each section, what it rebuilds (`Decoded`), and the part of the
verifier that a changed artifact could trip. **FwirDecoder** is a program being
written (`Encode`), its artifact changed at most once (`Carry`), and read: `Header`,
one `Entry` at a time, `CloseDirectory`, `Strings`, `Totals`, `RecordsStep`,
`StringUse`, one `Reserve` an arena, `Rebuild`. An artifact is a directory of
sections with their byte offsets and lengths and the words of their records; no
byte is spelled.

**ReplHistory** is `ReplHistory::record` as an operator: `Refusal` is the order of
its early returns, `Evictions` the number of entries that must go. **Repl** drives
it: the input is a sequence of bytes, `FillBuffer` takes any nonempty part of what
is left as the next buffer, `EndLine`, `EndOfInput` and `ReadFails` end a line,
`Record` and `Dispatch` follow. **CommandLine** has two `compile-ir` processes and
one `run-ir` on a directory of names and a table of inodes: `Compile` (with the
alias check), `Create`, `Write`, `Sync`, `Look`, `Publish`, `Remove`;
`OpenArtifact`, `ReadArtifact`, `Evaluate`, `PublishStdout`; and the surroundings,
`Crash`, `PowerFails`, `Vanish`. `result` is the local of that name in `write_atomically`,
which the rename sets; `outcome` is what the command reports, which it does only after
`Remove`. `Remove` may fail, and then leaves the temporary file and reports `result` all
the same. `dir` is the directory the processes see, and `had` the entries each name has
had since the power last failed. Nobody syncs the directory, so a loss of power settles
each name on any of them: a rename may be lost, half done or kept, and a removal too.

| Code | Actions or operators |
|---|---|
| `compile_parsed_source_with_name` | `ValidateFormats`, `AnalyzeBindings`, `ValidateReferences`, `ValidateArities`, `LowerNextItem`, `Verify` |
| `select_descriptor`, `resolve_operation_reference`, `lower_selected_call` | `Select`, `Resolve`, `Lower` |
| `verify_apply` | `VerifyApply` |
| `execute_apply`, `apply_implementation` | `Execute`, `ApplyImplementation`, `ApplyReferenceConsumer` |
| `preflight` (decoder) | `Header`, `Entry`, `CloseDirectory`, `Strings`, `Totals` |
| `validate_record_canonicality`, `validate_string_use`, `reconstruct_program` | `RecordsStep`, `StringUse`, `Reserve`, `Rebuild` |
| `read_repl_line`, `ReplHistory::record`, `repl` | `FillBuffer`, `EndLine`, `Record`, `Dispatch` |
| `write_atomically`, `publish_file_atomically` | `Create`, `Write`, `Sync`, `Look`, `Publish`, `Remove` |
| `read_verified_artifact`, `run_ir_command`, `publish_to` | `OpenArtifact`, `ReadArtifact`, `Evaluate`, `PublishStdout` |

## 3. Runs

| Run | Question | Result |
|---|---|---|
| `ledger` | any order of operations of two owners on a host whose usize ends at 5 | all six properties hold; 95,658 states |
| `interpreter` | about 500 lowered programs under eight configurations | all seven properties hold; 158,640 states |
| `nested_tuples` | are delivered bytes what stays charged, for nested tuples too? | no: see finding 1 |
| `fan_out_table` | is the table of a fan-out admitted before its branches, as documented? | no: see finding 2 |
| `raw_programs` | does the verifier alone keep the interpreter from invariant errors? | no: see finding 3 |
| `lowering` | 6,366 sources: is each refused for cause, or lowered to a verified program with the same meaning? | all five properties hold; 30,408 states |
| `reread_operand` | may a branch read again the binding its fan-out is over? | no: see finding 4 |
| `completed_by_tuple` | does the tuple that completes a call borrow its names? | no: see finding 5 |
| `application` | calls of operations of every behaviour, from selection to the ledger | all seven properties hold; 462,631 states |
| `fwir` | six programs written and read, limits, refusals, and one change of the artifact | all four properties hold; 86,012 states |
| `repl` | a session over any input, in any buffers | all six properties hold; 168,114 states |
| `command_line` | two compilers and a runner, links, crashes, lost changes of the directory | all five properties hold; 403,843 states |

**Bounds of `ledger`.** Lengths, works and payloads are 0, 1 or 3, widths 1 or 2,
slots 2 bytes: with usize ending at 5 every overflow of a product, of the live
bytes, of the work and of the attempt counter is reached, and limits of 2, 3 and
4 are hit from below, at and above. All four profiles with every combination of
limits and an injected failure at ordinal 1 or none; the constructor's refusals
are `ValidConfiguration`. Two owners are enough for one to hold while another
asks; the proofs cover any number. Owners are symmetric.

**Bounds of `interpreter`.** Six families of programs: vectors and scalars used
directly, filters, strings, tuples of none, one and two elements (bound, spread,
passed on), fan-outs of one and two branches over a borrowed binding and over a
tuple that a branch spreads, and string parameters; each grown by one to three
nodes in every way. Eight configurations refuse nothing, or the tuple profile,
or the allocation at ordinal 0 to 3, or live bytes above 7, or a table above 2,
or work above 2. The loop over a value's nodes gets two turns for each of them;
`TypeOK` checks, and `TypeCorrect` proves, that they suffice. `MaxUsize` is 60, out
of reach, because overflow is the subject of the ledger run.

The run `interpreter` leaves out programs with a nonempty tuple as the second
element of a tuple (`NestsTupleLate`): finding 1 shows their release to be
wrong, and with them nothing else could be checked about the live bytes.

**Bounds of `lowering`.** One or two declarations (a scalar, a vector or a pair), one
or two roots, one parameter, over every form of expression with operands that are
names, literals or, in `Nested`, applications, tuples and fan-outs; templates with
no, one, two and repeated slots; names forward, repeated, shadowing and unused. A
disagreement about ownership needs two references of one binding and one nesting,
which these have. `LoweredVerifies` leaves out the forms of findings 4 and 5 and of
those listed after them (`Contested`), each named by an operator of its own.

**Bounds of `application`.** The calls sample the operations of every behaviour
(`MCApplication` lists them). Integers have 2 bits, so minimum, overflow and division
by minus one occur; vectors have up to two elements of every content, three where
the order of a sum matters; scalars, vectors of known and of unknown length of all
four types for the operations that differ in selection or behaviour; wrong arities
and an unknown name. Binary64 operations are constants: the instance keeps signs.
Hand-made nodes alter one part of what lowering builds. Four ledgers refuse
nothing, two bytes, one unit of work, or the first request. The host refuses no
reservation, the output, or what the first or the second element needs; the vectors of
`TypedCalls` are as long as that.

**Bounds of `fwir`.** Six programs that between them have a record of every section
and both root formats; limits at and one below what each needs; each allocation
refused; and for each program under ordinary limits every artifact, 3,999 in all, with one
field of a record, one field of the directory, a section, a feature or the header
changed. `MaxU32` is 1000 and `MaxUsize` 5000, and offsets and lengths run up to the
end of usize. Of the changed artifacts 553 are accepted: 387 are other programs,
the others differ in what a reader passes over.

**Bounds of `repl`.** History of two entries and three bytes, numbers up to 4; inputs
of up to five bytes over a line feed, a carriage return and a letter, and sessions
of up to four lines that are commands, comments, blank, too long or not UTF-8. Each
limit is passed by one, a line evicts none, one and both older ones, and the
numbers run out.

**Bounds of `command_line`.** Two compilers, contents of two parts, an artifact limit
of two parts, one link, one crash each, one power failure and one removal of the
output. Two nonces, which may coincide: see "what the checks assume" below. Compilers and
nonces are symmetric. After the loss of power the directory may be any combination of
the entries its names have had.

**Fairness.** `Repl` assumes weak fairness of its next-state relation, for the same
reason: one thread, finite input. `Interpreter` assumes weak fairness of its next-state relation as a
whole. An evaluation is a call: one thread runs it, no step waits for anything,
and every loop is bounded by the program or by the size of a value. So a step
that can be taken is taken; no fairness between different steps is assumed, and
`Terminates` has to hold whichever choice is made at every step. The deadlock
check is off wherever a call comes to its end; the ledger alone goes on for ever.
The other modules state no liveness: they are straight lines of a few steps, and
`CommandLine` has crashes, after which nothing is promised.

**What the checks assume.** The temporary name of `write_atomically` is the clock in
nanoseconds. Processes that read the same time share a name: the second one's
`create_new` fails and its cleanup removes the first one's file. The run lets its two
compilers share a name (`TimesDiffer = FALSE`); what happens then is that one of them
reports a failure. With three compilers of one name TLC finds an output that is half
written: the first has synced, the second removes its file, the third creates its
own, and the first renames that. It takes three processes in one nanosecond; that no
three share a name (`AtMostTwoShare`) is the hypothesis under which the theorems say,
for any number of processes, what the run says of two.

Of the file system the checks assume that a rename shows in one step to other processes,
and that the contents of a synced file survive a loss of power. They do not assume that
the directory does: `write_atomically` syncs the file and never the directory, so a
publication that was reported as a success may be taken back by a loss of power, and
`OutputTellsOutcome` then promises no more than that the output is something that was
under its name before; no document of the repository promises more. Nor do they assume
that `remove_file` succeeds: its failure is discarded (`let _`, `main.rs:914`), and the
file stays (`unremoved`).

The interpreter's run and theorems take the outcome of an application as a choice
(`ExecuteApply`): a value with its bytes, a refusal, or a fault after the bytes were given
back. That the kernels do give them back, at every exit, is what `HeldIsAnswered` checks
in the run `application`.

## 4. Properties

Ledger: `LedgerBalances` (the live bytes are the sum of what owners hold, so the
saturation of `refund` never cuts), `LimitsHold`, `PeakIsHighWater`,
`RefusalIsInert`, `OrdinalsAreFresh`, and `TypeOK`, in which the range of the
counters is the absence of overflow.

Interpreter: `LiveIsHeld` is the main invariant: at every step the ledger's live
bytes are those in accounted slots, the values collected, the table, the copy in
progress, the charged arguments and the results. `NoInvariantFailure` says that
a verified, lowered program never meets `execution_invariant_error`: nothing is
read, moved or filled twice. `NoDanglingAlias`: each alias leads to a value
whenever the interpreter is between handlers. `SlotsHoldMeaning`: a slot holds
what its node means, through moves, aliases, elements and copies.
`ImplementsEvaluation` is the refinement, `Terminates` the liveness property.

Lowering: `LoweredVerifies` (what passes the checks before lowering is lowered to a
program the verifier accepts), `MeaningKept` (the value of each root, read back from
the nodes, is the value the source gives it), `LoweredAsAssumed` (the assumption of
the run `interpreter`), `AritiesAgree` (the validation on the syntax and lowering on
the types refuse the same calls).

Application: `LoweredApplyVerifies`, `SelectionIsCanonical` (no tie, so the order of
the table never decides), `AnswerIsAsDeclared` (so a static length may be trusted),
`NoLateTypeError`, `LengthsAgreeOrAreReported`, `HeldIsAnswered` (whatever fails, the
ledger, a kernel, or the host after the admission, the ledger holds the answer's bytes and
nothing else), `IntegersAreExact` (an integer operation answers what its equation says
whenever an `Int` holds that, the minimum negated or divided by minus one included, and
reports an overflow exactly where none does; `sum` is a fold of `add`, `scanl` ends where
`foldl` does, faults included).

FWIR: `RoundTrip`, `AcceptedIsCanonical` (encoding what was read gives back the records
that were read), `SectionsTile`, `LimitsComeFirst`.

REPL: `LinesAreMet` (each line of the input is met once, whole and in order, and it is
its length alone that makes it rejected), `HistoryIsLongestSuffix`, `NumbersTellPlace`,
`DispatchesTheLineRead`, `Terminates`.

Command line: `OutputIsWhole`; `OutputTellsOutcome` (who reports a failure has left the
output alone, who reports success has replaced it, and what is there is what the last
rename put there, what was there first if there was none, or nothing if somebody removed
it; after a loss of power it is one of the things that were there); `NoLitter` (a
temporary file that is there belongs to a process of its name that is under way, was
killed, or could not remove it, or the power has failed); `SourceIsKept`;
`RunnerReportsTruth`.

Each property of a passing run has a mutant, a faulty variant of a mapped
operator placed before the original (its comment begins with "Faulty" or "Mutant"), with which
TLC finds the property violated.

## 5. Findings

1. **Releasing a nested tuple gives back too much** (`value.rs:286`). While
   taking a tuple apart, `into_canonical_bytes` parks pending elder siblings in a
   synthetic `Value::Tuple`, and charges it 16 bytes a sibling when it reaches
   it. For `[2 [1]]`, 48 bytes were admitted and 64 are released.
   Because `refund` saturates nothing fails; a later limit check sees too few
   live bytes.
2. **Fan-out tables are admitted last** (`interpreter.rs:548`). The contract
   (`spec/typed-fwir-semantic-contract.md`, section 11) has the table admitted
   before branch 0 and no branch start when it is refused; the code runs all
   branches first.
3. **A binding may be released under a borrow that is a root**
   (`typed_program.rs:3748`). `verify_ownership` follows a binding's borrows
   while they have consumers; a `BindingBorrow` that is a root has none, so the
   verifier demands a release at the borrow itself and the root then reads an
   empty slot. Lowering does not produce such programs; hand-made FWIR can.
   `doc/architecture.md` says the verifier checks the exact logical release.
4. **A branch may not read the binding its fan-out is over** (`lowering.rs:3799`).
   For `let v = iota[3]` and `fanout[v {add[_ v]}]`, lowering records the fan-out as
   the last consumer, the verifier finds another release, and the user reads
   "source compilation produced an invalid verified program".
5. **A completing tuple moves what it names** (`lowering.rs:504`). For `let v = 20` and
   `add[10] [v]` the analysis takes `v` to be moved into a tuple, but the tuple is
   never built and its elements become operands; the verifier refuses the program.

Found on the way and excluded from the properties by name, or listed only:

- `format["{} {}" v [v]]` and `add[_ v] [v]` (`BorrowsBeforeMoved`): the analysis takes
  the second reference for the move; what the program holds is then refused.
- `fanout[v {equals[format["{}" _] ""]}]` (`FormatsHole`): lowering lets a format read
  the hole, `typed_program.rs:3117` admits only applications and spreads, and section 5
  of the contract lists `FanOutOperandBorrow` among the accesses of a format.
- `let t = [1 2]` with `add[_] t` is refused by the arity validation, which takes any
  name for one operand, where lowering would spread it (`Deferred`).
- `let t = [1 2]`, `let u = t`, `add u` (`ReadsBehindTwo`): the verifier looks behind one
  binding only for the cardinality of an element.
- `foldl[@add (1 2) (3 4)]` compiles, verifies and faults with a type error when it runs
  (`SeededByVector`); the documents promise a scalar initializer.
- `verify_apply` accepts `iota` of a vector, which lowering refuses (`IotaOfVector`).
- `verify_fan_out` (`typed_program.rs:2981`) does not ask that what a branch computes is
  read in that branch. A program made by hand whose later branch moves the value of an
  earlier branch's inner node, or whose root reads one, passes `Verified` and meets an
  execution invariant error; hence `BranchesAreClosed`, which lowering ensures
  (`LoweredAsAssumed`) and the theorems of the interpreter assume.
- The decoder reports some faults in another order than `spec/fwir-v1-encoding.md`,
  section 8: string descriptors (step 6) come before the total of records (step 5),
  string use (step 6) after the tags of records (step 7), and the application plans
  of section 17 before sections 15 and 16.

## 6. Proofs

Eight modules hold theorems. All are about the specifications the runs check, for every
value of the constants that meets the named assumptions.

| Module | Theorems | For any |
|---|---|---|
| `ResourceLedgerProofs` | every property of the run `ledger` | usize, owners, configurations, lengths |
| `ReplProofs` | every safety property of the run `repl` | stream, split into buffers, limits |
| `CommandLineProofs` | every property of the run `command_line` | processes, parts, names, links to begin with |
| `FwirDecoderProofs` | `SectionsTile`, `LimitsComeFirst` | artifact, usize, limits, refusals |
| `OwnershipProofs` | `ConsumerFindsValue`, `BorrowerGoesFirst` | verified, lowered program |
| `InterpreterProofs` | `ScheduleIsPostorder`, `NoInvariantFailure`, `NoDanglingAlias`, `SlotsHoldMeaning`, `DeliversWhatWasPromised` | verified, lowered program, configuration, choice of the data |
| `AccountingProofs` | `EveryByteHasItsPlace`, `LiveIsHeld`, `TypeOK`, `ImplementsEvaluation` | verified, lowered program that nests no tuple late, configuration, choice of the data |
| `NumberInduction` | lemmas only | |

**Ledger.** `IInv == TypeOK /\ LedgerBalances /\ LimitsHold /\ PeakCoversLive` is
inductive. None of its parts is alone: that a refund stays in range and exact needs the
balance, the balance after a grant needs the types, and the peak's limit after a refund
needs that it covered the live bytes. `DecideIsSound` states once what a decision does to
a typed usage; `StepKinds` reduces the eight operations to three kinds of step (a decision
for an owner, a charge without one, a give-back), and one lemma each shows that the kind
preserves `IInv`. `TakeHold` and `GiveBack` show that the sum over owners moves by what
one owner takes or gives.

**REPL.** Two invariants. `IInv` keeps types and bounds, and ties the history to the lines
recorded so far: it is their longest end within both limits, numbered on from its place.
That recording keeps it so is `RecordKeepsTheLast`; its core is that the number of
evictions `record` computes is the least that makes room (`EvictedIsLeast`). `LinesMet`
ties the reader to the stream: the line at hand started after some place `s` that is a
line feed or the beginning, exactly as many lines end up to `s` as have been handled, no
line feed was met since, and the reader holds the bytes since `s` or has counted more than
fit. It has to speak of the places of the whole input, because a buffer may end anywhere.

**Induction over data.** The library's induction theorems take an operator as a parameter
and cannot be used. `LeastNumber` obtains induction from a fact about sets instead
(the strict subsets of finite sets are well founded), and from it `NumberInduction` proves
that a recursive function on an interval exists and is what its equation says
(`PrefixSumsExist`, `SolutionIsSums`), what `FlattenSeq` computes (`FlattenIs`), and that
a chain of aliases, each leading to a smaller number, ends (`ChainsEnd`). The folds of the
community modules take one element out at a time, in an order of their own (`TakesOut`);
they are shown to be sums over a sequence (`FoldedSequence`), over a function
(`SummedFunction`) and over a set put anywhere among the numbers (`ItAddsUpElsewhere`).
From there, what a state adds up is a sum over an interval, which changes by what one
place changes.

**Command line.** `IInv` says how far each process is, what its file then holds and what
it has reported; that a temporary name has only ever led to files of processes it is the
name of (`TemporariesHaveOwners`, about `had`, because a loss of power may bring any of
these entries back), and that who is done and left one could not remove it; and that the
source keeps its entry. `NoLitter` and `SourceIsKept` follow, for any number of processes
and whatever names coincide. `OutputIsWhole` and `OutputTellsOutcome` need more
(`SharedInv`): all that the output's name has led to is what was there first or the file
of a process whose rename was done, which is synced (`OutputStands`), and the name
a process writes to leads to its own file, or to none and then the only other process of
that name is done (`TemporaryIsMine`). This is preserved because of two processes that share
a name the second fails in `create_new`; with three it is false, and so would be the
theorem, as TLC shows. So `AtMostTwoShare` is the hypothesis; it speaks of the clock only,
and `DistinctTimesSuffice` shows it to be less than what the code hopes for.

**FWIR.** `PrefixTiles(m)`: the first m entries lie one behind the other from the end of
the directory to the cursor, their ids ascend, and no sum of offset and length has wrapped.
Each accepted entry extends it, because its offset is compared with the cursor and its end
is computed modulo usize only after it was seen to fit.

`LimitsComeFirst` compares what the reader has counted when it first reserves memory
with what the artifact, looked at as a whole, exceeds (`Exceeded`). `LInv` says which limits
the stages behind have passed: each entry read is kept, sound and of no more records than
allowed (`PrefixCounted`), so are the strings (`StringsWithin`), then the total. Two ways
to count have to agree. What a directory entry claims is what its section holds, because
the sections tile the artifact and an artifact holds as many records in a section as there
is room for (`CountIsCounted`, from `HasRoomFor`); the total of the reader, a sum over a set
of entries, is the sum over section numbers, because no two entries have the same id
(`CountsAgree`). And the bytes of strings that are sound, so lie tightly one behind the
other, are the area they lie in (`TightStrings`). `NothingExceeded` puts these together.

**Ownership.** `Takes(p, j, i)` says that node j moves the value of node i out of its slot,
`Gone(p, i, c)` that it was moved or released before node c. From the verifier's rules,
`ConsumerFindsValue`: what a node reads is not gone; `FanOutFindsRoots`: the roots of
branches are there when the fan-out collects them, each its own; `BorrowerGoesFirst`: a
borrow is gone before what it stands for is. The last two rest on
`BranchesAreClosed` and the other parts of `AsLowered`: finding 3 shows that the
verifier's rules alone do not give them.

**Interpreter.** `ScheduleIsPostorder` proves that the agenda, in which branches are run
by their fan-outs, is the numbers of the nodes in order. So the state before node c is told
by the program: `Holds` says that the slot of a node is filled exactly if the node has run
and its value is not gone, that aliases are those of borrows and lead to filled slots, and
that a value fits the type the verifier gave it (whether it is a tuple, and of how many
elements). `IInv` adds where the evaluation stands in a tuple, a copy or
the outputs; that part says which children or outputs were already taken. One lemma per
action shows that it is kept (`...Keeps`), and that the error is never "Invariant" is one of its
conjuncts: whenever a handler tests a slot or an edge, `Holds` and the rules of ownership
tell what it finds. `NoDanglingAlias` follows from `Holds`.

**Meaning.** `MeaningOfNodes` is a recursion over the nodes; by the verifier's rules it
looks only at earlier nodes (`MeaningLooksBack`), so it has a solution (`MeaningSolves`),
and `MeaningIs` tells the meaning of a node by its operands'. `MInv` adds to `IInv`: an owned
value in a slot carries the label of its node, the elements of an owned tuple those the
label of its tuple lists, and an alias leads to a node that means the same (`AllMean`); what
is collected for a tuple, a call or the outputs means, place by place, what its edge reads
or its root is (`CollectedMean`, `ResultsMean`); and a copy in progress is of the value its
node means (`CopyMeans`). Taking a value out of a slot disturbs what no
other slot means (`RemovingKeepsMeaning`); that an alias still leads to a value is `IInv`'s.
`SlotsHoldMeaning` follows, and `DeliversWhatWasPromised`: a successful evaluation delivers
what the abstract `Evaluation` promises, one value for each root in their order. What a
kernel computes is abstract in both: the label is the node with what its operands mean.

**Accounting.** `AInv` says where every live byte is: in an accounted slot, in an argument
lent to the call, among the values collected for a tuple, a call or the outputs, in the table
of a tuple or fan-out under construction, in the results, or in a copy under way
(`Balanced`). It says besides that a value in a slot was put together as values are, all
the way down, and weighs nothing if it is not accounted (`Sized`), what is lent in which stage (`Staged`), that the
slots which own something among the outputs are roots not taken yet (`RootsOwn`), and that
after cleanup nothing is left (`NothingLeft`). One lemma per action shows that the
bytes a request grants or a release gives back are those that appear or disappear in one
of the places. A release gives back what `into_canonical_bytes` counts, and
`CanonicalBytesAre` proves that this is what the value was charged, and that two turns for
each node suffice, if no tuple but the first element of a tuple has elements. So the theorems
assume `~NestsTupleLate(program)`; for other programs the claim is false, which is finding 1
(what their slots mean and that they meet no invariant error is proved for them as well).
`RequestsDecide` says once what a request does to the ledger.

`LiveIsHeld` and `TypeOK` follow. So does the refinement `ImplementsEvaluation`: every step
before the end is a stutter, or moves the usage within its limits, with work, attempts and
peak never falling (`Climbs`); the step that ends delivers what was promised with exactly
its bytes charged, or an error with nothing charged.

The theorems about the interpreter's state, those of accounting included, past `ScheduleIsPostorder`, assume
`AsLowered(program)`: for programs the verifier accepts and lowering
does not make, the claim is false (finding 3, run `raw_programs`). That lowering makes
only such programs is checked by TLC (`LoweredAsAssumed`), not proved.

**Assumptions** on the constants, all evaluated by TLC for the instances: usize is a
natural number and a slot has a positive size (`UsizeAssumption`); markers are not values
(`NoneAssumption`, `EventAssumption`, `ReasonAssumption`); owners are finitely many
(`OwnersAssumption`); configurations are ones the constructor accepts
(`ConfigurationAssumption`, of the ledger and of the interpreter); lengths and widths are
numbers (`RequestAssumption`, `ChoiceAssumption`, `CommandLineAssumption`,
`HistoryAssumption`); a stream is a sequence (`InputsAssumption`); the writers before are
not among the compilers, and the directory to begin with holds files, links or nothing
(`WritersAssumption`, `DirectoriesAssumption`); an artifact's directory holds numbers, and
where its sections tile, as many records are found in one as there is room for, and the
descriptors of strings are numbers (`ArtifactsAssumption`, which says nothing of which
numbers or records); the limits of a reader are numbers (`LimitsAssumption`); the
interpreter is given programs the verifier accepts, whose arguments were made for their
parameters (`ProgramsAssumption`).

**Only model-checked**, and why:

- `Terminates` of the interpreter and of the REPL: liveness and `ENABLED` are beyond TLAPS.
- The properties of the runs `lowering` and `application`: their modules define expressions
  and kernels by recursion over data, `Lowering` with `RECURSIVE` operators, which the
  provers refuse.
- That lowering makes programs that are `AsLowered` (`LoweredAsAssumed`), on which the
  theorems of the interpreter rest: for the same reason.
- `RoundTrip`, `AcceptedIsCanonical`: they compare the two sides of the format record by
  record, on the tables of `Registry`.

## 7. Not modelled

- **Text**: tokens, layout, syntax errors, rendering of values and diagnostics, what a
  session prints. A model of it would be the program again.
- **Strict binary64 arithmetic** and backend-native mathematics: functions of 64-bit
  words; the kernels take their results as parameters.
- **Allocation failures inside the compiler, the encoder's stream output and the
  verifier**: each is one early return of a call that holds nothing; the ones of the
  interpreter, the primitives and the decoder, which do hold something, are modelled.
- **Arena ranges, origins, counts beyond u32**: range checks one record at a time.
- **The evaluator and FWIR APIs, errors, terminal control, release and validation
  tooling**: composition, records, the host's, or not part of the program.
- **Windows**: `ReplaceFileW` is taken to replace the output in one step.

## 8. Plan

Done: the ledger with its proofs, values, the verifier, the interpreter and its
abstract evaluation, source forms, lowering, the registry, applications, FWIR in both
directions, the REPL and the command line.

Proved: the ledger, the REPL, the command line, the tiling and the limits of FWIR, the
rules of ownership, that the interpreter meets no invariant error, what its slots hold,
which values it delivers, where its charged bytes are, and that it refines its abstract
evaluation.

What could come next: a lowering written with recursive functions in place of
`RECURSIVE` operators, about which `LoweredAsAssumed` could be proved; then the theorems of
the interpreter would speak of every source. And the inverse of the encoder, record by
record, for `RoundTrip`.

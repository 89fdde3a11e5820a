---------------------------- MODULE CommandLine ----------------------------
(***************************************************************************)
(* The file-producing and file-consuming commands of src/main.rs on one    *)
(* directory: several `compile-ir` write the same artifact through a       *)
(* temporary file each while a `run-ir` reads it and publishes what the    *)
(* program it holds evaluates to.  Processes interleave at every system    *)
(* call, may be killed between two, and the power may fail.                *)
(*                                                                         *)
(* A name leads to an inode or, as a symbolic link, to another name; an    *)
(* inode holds parts.  A program's bytes are whole when all its parts are  *)
(* there in order.                                                         *)
(***************************************************************************)
EXTENDS Naturals, Sequences, FiniteSets

CONSTANTS
    Compilers,       \* the compile-ir processes
    OldWriter,       \* who wrote the artifact that was there before
    SourceText,      \* who wrote the source
    Nonces,          \* the times at which a temporary file may be named
    TimesDiffer,     \* no two processes read the same time
    Parts,           \* parts of an artifact, each written by one system call
    MaxArtifact,     \* FwirDecodeLimits::max_artifact_bytes, in parts
    OutputLength,    \* bytes run-ir publishes
    Platforms,       \* subset of {"unix", "windows"}
    Directories      \* directories to begin with

ASSUME CommandLineAssumption ==
    /\ Parts \in Nat \ {0}
    /\ MaxArtifact \in Nat
    /\ OutputLength \in Nat
    /\ TimesDiffer \in BOOLEAN

ASSUME WritersAssumption == {OldWriter, SourceText} \intersect Compilers = {}

Source == <<"source", 0>>
Output == <<"output", 0>>
Nowhere == <<"nowhere", 0>>

Absent == [kind |-> "absent", to |-> Source]
LinkTo(name) == [kind |-> "link", to |-> name]
FileOf(inode) == [kind |-> "file", to |-> inode]

\* What the two names may lead to before anything runs.
Given == {Absent, FileOf(OldWriter), FileOf(SourceText), LinkTo(Source), LinkTo(Output)}

ASSUME DirectoriesAssumption ==
    \A given \in Directories :
        /\ DOMAIN given \subseteq {Source, Output}
        /\ \A name \in DOMAIN given : given[name] \in Given

TemporaryName(nonce) == <<"temporary", nonce>>
Names == {Source, Output} \union {TemporaryName(n) : n \in Nonces}
Inodes == Compilers \union {OldWriter, SourceText}

WholeOf(writer) == [i \in 1..Parts |-> <<writer, i>>]

VARIABLES
    platform,
    dir,         \* Names -> entry
    had,         \* Names -> the entries a name may have on the disk
    data,        \* inode -> [content, synced]
    pc,          \* where each compiler stands
    nonce,       \* the time its temporary file is named after
    result,      \* what write_atomically is to return
    outcome,     \* what each compiler has reported
    sawOutput,   \* publish_file_atomically's look at the output
    runner,      \* the run-ir process
    device,      \* what standard output accepted from it
    powerFailed,
    vanished,    \* somebody removed the output
    first,       \* history: what was under the output's name to begin with,
    latest,      \* who renamed onto it last, OldWriter before anybody did,
    unremoved    \* and whose remove_file failed

compilerVars == <<pc, nonce, result, outcome, sawOutput>>
runnerVars == <<runner, device>>
historyVars == <<first, latest, unremoved>>
vars == <<platform, dir, had, data, compilerVars, runnerVars, powerFailed, vanished,
          historyVars>>

\* Where a name leads after one link, which is all the directories have.
Resolve(d, name) ==
    LET target == IF d[name].kind = "link" THEN d[name].to ELSE name
    IN  IF d[target].kind = "file" THEN target ELSE Nowhere

Exists(d, name) == Resolve(d, name) # Nowhere
InodeOf(d, name) == d[Resolve(d, name)].to
ContentOf(name) == data[InodeOf(dir, name)].content

Init ==
    /\ platform \in Platforms
    /\ dir \in {[name \in Names |->
                    IF name \in DOMAIN given THEN given[name] ELSE Absent]
                        : given \in Directories}
    /\ had = [name \in Names |-> {dir[name]}]
    /\ data = [i \in Inodes |->
                  [content |-> IF i \in Compilers THEN <<>> ELSE WholeOf(i),
                   synced |-> i \notin Compilers]]
    /\ pc = [p \in Compilers |-> "CheckAlias"]
    /\ nonce \in [Compilers -> Nonces]
    /\ TimesDiffer => \A p, q \in Compilers : nonce[p] = nonce[q] => p = q
    /\ result = [p \in Compilers |-> "None"]
    /\ outcome = [p \in Compilers |-> "None"]
    /\ sawOutput = [p \in Compilers |-> FALSE]
    /\ runner = [pc |-> "Open", inode |-> OldWriter, bytes |-> <<>>,
                 accepted |-> 0, report |-> "None"]
    /\ device = 0
    /\ powerFailed = FALSE
    /\ vanished = FALSE
    /\ first = dir[Output]
    /\ latest = OldWriter
    /\ unremoved = {}

\* The directory changes.  Nobody ever syncs it: which of the entries a name
\* has had is the one on the disk is the file system's choice.
Redirect(d) ==
    /\ dir' = d
    /\ had' = [name \in Names |-> had[name] \union {d[name]}]

KeepDirectory == UNCHANGED <<dir, had>>

-----------------------------------------------------------------------------
(* compile-ir *)

Temporary(p) == TemporaryName(nonce[p])

Goto(p, where) == pc' = [pc EXCEPT ![p] = where]

\* What write_atomically holds in `result` until it has cleaned up.
FailTo(p, where) ==
    /\ Goto(p, where)
    /\ result' = [result EXCEPT ![p] = "Failure"]

Report(p, report) == outcome' = [outcome EXCEPT ![p] = report]

\* Faulty: aliases are looked for in the spelling alone.
AliasesByName(source, output) == source = output

\* reject_alias, on names that are normalised already.
Aliases(source, output) ==
    \/ source = output
    \/ /\ Exists(dir, output)
       /\ Exists(dir, source)
       /\ Resolve(dir, source) = Resolve(dir, output)

\* compile_ir_command up to write_atomically: the alias, the source and the
\* compilation may each end it before anything is written.
Compile(p) ==
    /\ pc[p] = "CheckAlias"
    /\ \/ /\ ~Aliases(Source, Output)
          /\ Exists(dir, Source)
          /\ Goto(p, "Create")
          /\ outcome' = outcome
       \/ Goto(p, "Done") /\ Report(p, "Failure")
    /\ KeepDirectory
    /\ UNCHANGED <<platform, data, nonce, result, sawOutput, runnerVars,
                   powerFailed, vanished, historyVars>>

\* create_new refuses a name that is taken.
Create(p) ==
    /\ pc[p] = "Create"
    /\ \/ /\ dir[Temporary(p)] = Absent
          /\ Redirect([dir EXCEPT ![Temporary(p)] = FileOf(p)])
          /\ Goto(p, "Write")
          /\ result' = result
       \/ FailTo(p, "Remove") /\ KeepDirectory
    /\ UNCHANGED <<platform, data, nonce, outcome, sawOutput, runnerVars,
                   powerFailed, vanished, historyVars>>

\* write_all, one part a system call.
Write(p) ==
    /\ pc[p] = "Write"
    /\ \/ LET written == Len(data[p].content) + 1
          IN  /\ data' = [data EXCEPT ![p].content = Append(@, <<p, written>>)]
              /\ Goto(p, IF written = Parts THEN "Sync" ELSE "Write")
              /\ result' = result
       \/ FailTo(p, "Remove") /\ data' = data
    /\ KeepDirectory
    /\ UNCHANGED <<platform, nonce, outcome, sawOutput, runnerVars, powerFailed,
                   vanished, historyVars>>

\* Faulty: the file is closed without being synced.
CloseOnly(p) ==
    /\ pc[p] = "Sync"
    /\ Goto(p, "Look")
    /\ KeepDirectory
    /\ UNCHANGED <<platform, data, nonce, result, outcome, sawOutput, runnerVars,
                   powerFailed, vanished, historyVars>>

\* The file is synced, its directory is not.
Sync(p) ==
    /\ pc[p] = "Sync"
    /\ \/ /\ data' = [data EXCEPT ![p].synced = TRUE]
          /\ Goto(p, "Look")
          /\ result' = result
       \/ FailTo(p, "Remove") /\ data' = data
    /\ KeepDirectory
    /\ UNCHANGED <<platform, nonce, outcome, sawOutput, runnerVars, powerFailed,
                   vanished, historyVars>>

\* publish_file_atomically looks whether there is an output,
Look(p) ==
    /\ pc[p] = "Look"
    /\ sawOutput' = [sawOutput EXCEPT ![p] = Exists(dir, Output)]
    /\ Goto(p, "Publish")
    /\ KeepDirectory
    /\ UNCHANGED <<platform, data, nonce, result, outcome, runnerVars, powerFailed,
                   vanished, historyVars>>

\* and then renames onto it, which replaces an entry that appeared meanwhile.
\* ReplaceFileW, for an output that was there, needs one still.
CanPublish(p) ==
    /\ dir[Temporary(p)].kind = "file"
    /\ platform = "windows" /\ sawOutput[p] => Exists(dir, Output)

Renamed(p) == [dir EXCEPT ![Output] = dir[Temporary(p)], ![Temporary(p)] = Absent]

\* Faulty: a publication that fails takes the old output away.
PublishAfterRemoval(p) ==
    /\ pc[p] = "Publish"
    /\ \/ /\ CanPublish(p)
          /\ Redirect(Renamed(p))
          /\ Goto(p, "Remove")
          /\ result' = [result EXCEPT ![p] = "Success"]
          /\ latest' = p
       \/ /\ FailTo(p, "Remove")
          /\ Redirect([dir EXCEPT ![Output] = Absent])
          /\ latest' = latest
    /\ UNCHANGED <<platform, data, nonce, outcome, sawOutput, runnerVars,
                   powerFailed, vanished, first, unremoved>>

Publish(p) ==
    /\ pc[p] = "Publish"
    /\ \/ /\ CanPublish(p)
          /\ Redirect(Renamed(p))
          /\ Goto(p, "Remove")
          /\ result' = [result EXCEPT ![p] = "Success"]
          /\ latest' = p
       \/ FailTo(p, "Remove") /\ KeepDirectory /\ latest' = latest
    /\ UNCHANGED <<platform, data, nonce, outcome, sawOutput, runnerVars,
                   powerFailed, vanished, first, unremoved>>

\* Faulty: a temporary file that was published no more is left where it is.
RemoveNothing(p) ==
    /\ pc[p] = "Remove"
    /\ Goto(p, "Done")
    /\ Report(p, result[p])
    /\ KeepDirectory
    /\ UNCHANGED <<platform, data, nonce, result, sawOutput, runnerVars,
                   powerFailed, vanished, historyVars>>

\* The temporary name is removed whatever happened, and whoever created it.
\* Should that fail, nobody hears of it.  Only then is the result returned.
Remove(p) ==
    /\ pc[p] = "Remove"
    /\ \/ /\ Redirect([dir EXCEPT ![Temporary(p)] = Absent])
          /\ unremoved' = unremoved
       \/ /\ dir[Temporary(p)] # Absent
          /\ KeepDirectory
          /\ unremoved' = unremoved \union {p}
    /\ Goto(p, "Done")
    /\ Report(p, result[p])
    /\ UNCHANGED <<platform, data, nonce, result, sawOutput, runnerVars,
                   powerFailed, vanished, first, latest>>

-----------------------------------------------------------------------------
(* run-ir *)

RunnerUnchanged == UNCHANGED <<platform, dir, had, data, compilerVars,
                               powerFailed, vanished, historyVars>>

RunnerFails == /\ runner' = [runner EXCEPT !.pc = "Done", !.report = "Refused"]
               /\ device' = device

\* read_verified_artifact holds the file open from here on.
OpenArtifact ==
    /\ runner.pc = "Open"
    /\ \/ /\ Exists(dir, Output)
          /\ runner' = [runner EXCEPT !.pc = "Read", !.inode = InodeOf(dir, Output)]
          /\ device' = device
       \/ RunnerFails
    /\ RunnerUnchanged

\* It reads until the end, or one past what an artifact may have.
ReadArtifact ==
    /\ runner.pc = "Read"
    /\ LET from == Len(runner.bytes) + 1
           content == data[runner.inode].content
       IN  \/ /\ from <= Len(content)
              /\ from <= MaxArtifact + 1
              /\ \E to \in from..Len(content) :
                    /\ to <= MaxArtifact + 1
                    /\ runner' = [runner EXCEPT !.bytes =
                                    @ \o SubSeq(content, from, to)]
              /\ device' = device
           \/ /\ from > Len(content) \/ from > MaxArtifact + 1
              /\ runner' = [runner EXCEPT !.pc = "Evaluate"]
              /\ device' = device
           \/ RunnerFails
    /\ RunnerUnchanged

\* What decode_fwir accepts: all parts of one artifact, within the limit.
Decodes(bytes) ==
    /\ Len(bytes) <= MaxArtifact
    /\ \E w \in Inodes : bytes = WholeOf(w)

\* The arguments are collected, the program evaluated and its output put
\* together in memory before any of it is published.
Evaluate ==
    /\ runner.pc = "Evaluate"
    /\ \/ /\ Decodes(runner.bytes)
          /\ runner' = [runner EXCEPT !.pc = "Publish"]
          /\ device' = device
       \/ RunnerFails
    /\ RunnerUnchanged

\* Faulty: each write is taken to accept all that is left.
PublishStdoutAtOnce ==
    /\ runner.pc = "Publish"
    /\ \/ /\ runner.accepted < OutputLength
          /\ \E count \in 1..(OutputLength - runner.accepted) :
                /\ device' = device + count
                /\ runner' = [runner EXCEPT !.accepted = OutputLength]
       \/ /\ runner.accepted = OutputLength
          /\ \E report \in {"Success", "FlushFailed"} :
                runner' = [runner EXCEPT !.pc = "Done", !.report = report]
          /\ device' = device
    /\ RunnerUnchanged

\* publish_to: a write accepts some of what it is offered, or nothing, or
\* fails; the flush comes when all is accepted.
PublishStdout ==
    /\ runner.pc = "Publish"
    /\ \/ /\ runner.accepted < OutputLength
          /\ \/ \E count \in 1..(OutputLength - runner.accepted) :
                  /\ device' = device + count
                  /\ runner' = [runner EXCEPT !.accepted = @ + count]
             \/ /\ device' = device
                /\ runner' = [runner EXCEPT !.pc = "Done", !.report = "WriteFailed"]
       \/ /\ runner.accepted = OutputLength
          /\ \E report \in {"Success", "FlushFailed"} :
                runner' = [runner EXCEPT !.pc = "Done", !.report = report]
          /\ device' = device
    /\ RunnerUnchanged

-----------------------------------------------------------------------------
(* The surroundings *)

\* A process is killed: its files stay as they are.
Crash(p) ==
    /\ pc[p] \notin {"Done", "Crashed"}
    /\ Goto(p, "Crashed")
    /\ KeepDirectory
    /\ UNCHANGED <<platform, data, nonce, result, outcome, sawOutput, runnerVars,
                   powerFailed, vanished, historyVars>>

\* What the disk may hold of the directory: any entry a name has had.
Unsettled == {name \in Names : had[name] # {dir[name]}}
Settlements ==
    {d \in [Unsettled -> UNION {had[name] : name \in Unsettled}] :
        \A name \in Unsettled : d[name] \in had[name]}

\* The files that may lose their end, and what is left of one.
Unsynced == {p \in Compilers : ~data[p].synced /\ data[p].content # <<>>}
Shortened(file, lost) ==
    [file EXCEPT !.content = SubSeq(@, 1, IF lost > Len(@) THEN 0 ELSE Len(@) - lost)]

\* The power fails, once: a file that was not synced may lose its end, and a
\* name that was created, renamed or removed may be what it was before.  What
\* the processes had in memory is gone, but for the record of what the runner
\* published.
PowerFails ==
    /\ ~powerFailed
    /\ powerFailed' = TRUE
    /\ \E lost \in [Unsynced -> 0..Parts] :
          data' = [i \in Inodes |-> IF i \in Unsynced THEN Shortened(data[i], lost[i])
                                                     ELSE data[i]]
    /\ \E d \in Settlements :
          dir' = [name \in Names |-> IF name \in Unsettled THEN d[name] ELSE dir[name]]
    /\ had' = [name \in Names |-> {dir'[name]}]
    /\ pc' = [p \in Compilers |-> IF pc[p] = "Done" THEN "Done" ELSE "Crashed"]
    /\ sawOutput' = [p \in Compilers |-> FALSE]
    /\ runner' = [runner EXCEPT !.pc = "Done", !.inode = OldWriter,
                                !.bytes = IF device = 0 THEN <<>> ELSE @]
    /\ UNCHANGED <<platform, nonce, result, outcome, device, vanished, historyVars>>

\* Somebody removes the output, once.
Vanish ==
    /\ ~vanished
    /\ dir[Output] # Absent
    /\ vanished' = TRUE
    /\ Redirect([dir EXCEPT ![Output] = Absent])
    /\ UNCHANGED <<platform, data, compilerVars, runnerVars, powerFailed, historyVars>>

Step(p) == \/ Compile(p) \/ Create(p) \/ Write(p) \/ Sync(p) \/ Look(p)
           \/ Publish(p) \/ Remove(p)

Next ==
    \/ \E p \in Compilers : Step(p) \/ Crash(p)
    \/ OpenArtifact \/ ReadArtifact \/ Evaluate \/ PublishStdout
    \/ PowerFails
    \/ Vanish

Spec == Init /\ [][Next]_vars

-----------------------------------------------------------------------------
\* Whoever opens the output at any moment, after a crash or a power failure
\* too, finds the whole of some artifact.
OutputIsWhole ==
    Exists(dir, Output) =>
        \E w \in Inodes : ContentOf(Output) = WholeOf(w)

\* The compilers whose rename was done, and what the last of them left.
Replaced == {p \in Compilers : result[p] = "Success"}
Left == IF latest \in Compilers THEN FileOf(latest) ELSE first

\* All that may have been under the output's name.
OnceOutput == {first} \union {FileOf(p) : p \in Replaced}
                      \union (IF vanished THEN {Absent} ELSE {})

\* A compile-ir that reports a failure has left the output alone, one that
\* reports success has replaced it, and the last to replace it is what is
\* there, or what was there at first if nobody did, unless somebody removed
\* it.  After a loss of power it is one of these, not always the last.
OutputTellsOutcome ==
    /\ \A p \in Compilers :
          /\ outcome[p] = "Failure" => p \notin Replaced
          /\ outcome[p] = "Success" => p \in Replaced /\ latest \in Replaced
    /\ dir[Output] \in OnceOutput
    /\ ~powerFailed => dir[Output] = Left \/ (vanished /\ dir[Output] = Absent)

\* A temporary file that stays behind has a cause: its process was killed or
\* could not remove it, or the power failed.  Processes of one name do not
\* leave each other's file behind.
NoLitter ==
    \A n \in Nonces :
        dir[TemporaryName(n)] # Absent =>
            \E p \in Compilers :
                /\ nonce[p] = n /\ dir[TemporaryName(n)] = FileOf(p)
                /\ pc[p] # "Done" \/ p \in unremoved \/ powerFailed

\* What the source's name leads to is never replaced.
SourceIsKept == Exists(dir, Source) => InodeOf(dir, Source) \in {SourceText, OldWriter}

\* The runner publishes nothing of an artifact it did not read whole, and the
\* count it reports is what standard output accepted.
RunnerReportsTruth ==
    /\ device = runner.accepted
    /\ device > 0 => \E w \in Inodes : runner.bytes = WholeOf(w)
    /\ runner.report = "Success" => device = OutputLength
    /\ runner.report = "Refused" => device = 0
=============================================================================

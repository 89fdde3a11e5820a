------------------------- MODULE CommandLineProofs -------------------------
(***************************************************************************)
(* Theorems of the commands, for any number of processes, parts and        *)
(* directories to begin with.                                              *)
(***************************************************************************)
EXTENDS CommandLine, SequenceTheorems, TLAPS

\* The first k parts of what a process writes.
Written(w, k) == [i \in 1..k |-> <<w, i>>]

Part == Inodes \X (1..Parts)
Entry == Given \union {FileOf(p) : p \in Compilers}

Places == {"CheckAlias", "Create", "Write", "Sync", "Look", "Publish", "Remove",
           "Done", "Crashed"}

\* Where a process has created its temporary file and not yet let it go.
Writing == {"Write", "Sync", "Look", "Publish"}

Verdicts == {"None", "Failure", "Success"}

Types ==
  /\ dir \in [Names -> Entry]
  /\ had \in [Names -> SUBSET Entry]
  /\ \A name \in Names : dir[name] \in had[name]
  /\ data \in [Inodes -> [content : Seq(Part), synced : BOOLEAN]]
  /\ pc \in [Compilers -> Places]
  /\ nonce \in [Compilers -> Nonces]
  /\ result \in [Compilers -> Verdicts]
  /\ outcome \in [Compilers -> Verdicts]
  /\ sawOutput \in [Compilers -> BOOLEAN]

IsSynced(i) == data[i].content = WholeOf(i) /\ data[i].synced

\* How far a process is, what it has written by then, and what it has said.
Progress(p) ==
  /\ pc[p] \in {"CheckAlias", "Create"} => data[p].content = Written(p, 0)
  /\ pc[p] = "Write" => \E k \in 0..(Parts - 1) : data[p].content = Written(p, k)
  /\ pc[p] = "Sync" => data[p].content = WholeOf(p)
  /\ pc[p] \in {"Look", "Publish"} => IsSynced(p)
  /\ result[p] = "Success" => IsSynced(p) /\ pc[p] \in {"Remove", "Done", "Crashed"}
  /\ outcome[p] # "None" => pc[p] = "Done"
  /\ outcome[p] = "Failure" => result[p] # "Success"
  /\ outcome[p] = "Success" => result[p] = "Success"

\* A temporary name has only ever led to files of processes it is the name of.
TemporariesHaveOwners ==
  \A n \in Nonces : \A e \in had[TemporaryName(n)] \ {Absent} :
    \E p \in Compilers : /\ nonce[p] = n
                         /\ e = FileOf(p)
                         /\ pc[p] \notin {"CheckAlias", "Create"}

\* The source keeps its entry.  Were it not a file, nobody would get past the
\* first test, and the output would not be written.
SourceStands ==
  /\ dir[Source] \in Given /\ had[Source] = {dir[Source]}
  /\ \/ dir[Source].kind = "file"
     \/ /\ had[Output] \subseteq Given
        /\ \A p \in Compilers : pc[p] \in {"CheckAlias", "Done", "Crashed"}

IInv ==
  /\ Types
  /\ \A w \in {OldWriter, SourceText} : data[w].content = WholeOf(w)
  /\ \A p \in Compilers : Progress(p)
  /\ TemporariesHaveOwners
  /\ NoLitter
  /\ SourceStands

\* No three processes have read one time: the names of at most two are equal.
AtMostTwoShare ==
  \A p, q, r \in Compilers :
    nonce[p] = nonce[q] /\ nonce[q] = nonce[r] => p = q \/ q = r \/ p = r

\* Then nobody else's file gets under the name a process is writing to: the
\* only other process that could have put it there is at its end.
TemporaryIsMine ==
  \A p \in Compilers : pc[p] \in Writing =>
    \/ dir[Temporary(p)] = FileOf(p)
    \/ /\ dir[Temporary(p)] = Absent
       /\ \A q \in Compilers :
            q # p /\ nonce[q] = nonce[p] => pc[q] \in {"Done", "Crashed"}

\* The output is what it was, or what the last who replaced it has left, or
\* gone; the disk has nothing else for it either.
OutputStands ==
  /\ first \in Given
  /\ had[Output] \subseteq OnceOutput
  /\ latest \in Replaced \/ (latest = OldWriter /\ Replaced = {})
  /\ ~powerFailed => dir[Output] = Left \/ (vanished /\ dir[Output] = Absent)

SharedInv == AtMostTwoShare /\ TemporaryIsMine /\ OutputStands

-----------------------------------------------------------------------------
(* Names and entries are told apart.                                       *)
LEMMA NamesDiffer ==
  /\ Source \in Names /\ Output \in Names /\ Source # Output
  /\ Nowhere \notin {Source, Output}
  /\ \A n \in Nonces : TemporaryName(n) \in Names /\ TemporaryName(n) \notin {Source, Output}
  /\ \A m, n \in Nonces : TemporaryName(m) = TemporaryName(n) => m = n
BY DEF Source, Output, Nowhere, TemporaryName, Names

(* What is under a name tells which kind of thing it is and where it leads. *)
LEMMA EntriesDiffer ==
  /\ Absent \in Given /\ Absent.kind # "file" /\ Absent.kind # "link"
  /\ \A i : FileOf(i) # Absent /\ FileOf(i).kind = "file" /\ FileOf(i).to = i
  /\ \A i, j : FileOf(i) = FileOf(j) => i = j
  /\ \A n : LinkTo(n).kind = "link" /\ LinkTo(n).to = n /\ LinkTo(n) # Absent
  /\ \A p \in Compilers : FileOf(p) \notin Given
  /\ \A e \in Given : e.kind = "file" => e.to \in {OldWriter, SourceText}
<1>1. /\ Absent \in Given /\ Absent.kind # "file" /\ Absent.kind # "link"
      /\ \A i : FileOf(i) # Absent /\ FileOf(i).kind = "file" /\ FileOf(i).to = i
      /\ \A n : LinkTo(n).kind = "link" /\ LinkTo(n).to = n /\ LinkTo(n) # Absent
  BY DEF Absent, FileOf, LinkTo, Given
<1>2. ASSUME NEW i, NEW j, FileOf(i) = FileOf(j) PROVE i = j
  BY <1>1, <1>2
<1>3. ASSUME NEW e \in Given, e.kind = "file" PROVE e \in {FileOf(OldWriter), FileOf(SourceText)}
  BY <1>1, <1>3 DEF Given
<1>4. \A e \in Given : e.kind = "file" => e.to \in {OldWriter, SourceText}
  BY <1>1, <1>3
<1>5. \A p \in Compilers : FileOf(p) \notin Given
  BY <1>1, <1>4, WritersAssumption
<1>. QED BY <1>1, <1>2, <1>4, <1>5

(* A process writes its parts one after the other.                         *)
LEMMA WrittenParts ==
  ASSUME NEW w \in Inodes
  PROVE  /\ Written(w, 0) = <<>> /\ Written(w, Parts) = WholeOf(w)
         /\ WholeOf(w) \in Seq(Part) /\ Written(w, 0) \in Seq(Part)
         /\ \A k \in 0..(Parts - 1) :
              /\ Len(Written(w, k)) = k
              /\ Append(Written(w, k), <<w, k + 1>>) = Written(w, k + 1)
              /\ <<w, k + 1>> \in Part
<1> USE CommandLineAssumption
<1>1. ASSUME NEW k \in 0..Parts PROVE Written(w, k) \in Seq(Part) /\ Len(Written(w, k)) = k
  BY DEF Written, Part
<1>2. Written(w, 0) = <<>>
  BY <1>1, EmptySeq
<1>3. ASSUME NEW k \in 0..(Parts - 1)
      PROVE  /\ Append(Written(w, k), <<w, k + 1>>) = Written(w, k + 1)
             /\ <<w, k + 1>> \in Part
  <2>1. <<w, k + 1>> \in Part
    BY DEF Part
  <2>2. /\ Written(w, k) \in Seq(Part) /\ Len(Written(w, k)) = k
        /\ Written(w, k + 1) \in Seq(Part) /\ Len(Written(w, k + 1)) = k + 1
    BY <1>1
  <2>3. /\ Append(Written(w, k), <<w, k + 1>>) \in Seq(Part)
        /\ Len(Append(Written(w, k), <<w, k + 1>>)) = k + 1
        /\ \A i \in 1..k : Append(Written(w, k), <<w, k + 1>>)[i] = Written(w, k)[i]
        /\ Append(Written(w, k), <<w, k + 1>>)[k + 1] = <<w, k + 1>>
    BY <2>1, <2>2, AppendProperties
  <2>4. ASSUME NEW i \in 1..(k + 1)
        PROVE  Append(Written(w, k), <<w, k + 1>>)[i] = Written(w, k + 1)[i]
    <3>1. CASE i = k + 1
      BY <2>3, <3>1 DEF Written
    <3>2. CASE i \in 1..k
      BY <2>3, <3>2 DEF Written
    <3>3. i = k + 1 \/ i \in 1..k
      OBVIOUS
    <3>. QED BY <3>1, <3>2, <3>3
  <2>. QED BY <2>1, <2>2, <2>3, <2>4, SeqEqual
<1>4. Written(w, Parts) = WholeOf(w)
  BY DEF Written, WholeOf
<1>5. /\ WholeOf(w) \in Seq(Part) /\ Written(w, 0) \in Seq(Part)
      /\ \A k \in 0..(Parts - 1) : Len(Written(w, k)) = k
  BY <1>1, <1>4
<1>. QED BY <1>2, <1>3, <1>4, <1>5

(* It holds of the directory and the files the processes find.           *)
LEMMA InitIsGood == Init => IInv
<1> SUFFICES ASSUME Init PROVE IInv
  OBVIOUS
<1>1. PICK given \in Directories :
        dir = [name \in Names |-> IF name \in DOMAIN given THEN given[name] ELSE Absent]
  BY DEF Init
<1>2. /\ DOMAIN given \subseteq {Source, Output}
      /\ \A name \in DOMAIN given : given[name] \in Given
  BY DirectoriesAssumption
<1>3. dir \in [Names -> Given]
  BY <1>1, <1>2, EntriesDiffer
<1>4. \A n \in Nonces : dir[TemporaryName(n)] = Absent
  BY <1>1, <1>2, NamesDiffer
<1>5. /\ pc = [p \in Compilers |-> "CheckAlias"]
      /\ nonce \in [Compilers -> Nonces]
      /\ had = [name \in Names |-> {dir[name]}]
      /\ result = [p \in Compilers |-> "None"]
      /\ outcome = [p \in Compilers |-> "None"]
      /\ sawOutput = [p \in Compilers |-> FALSE]
      /\ data = [i \in Inodes |->
                  [content |-> IF i \in Compilers THEN <<>> ELSE WholeOf(i),
                   synced |-> i \notin Compilers]]
  BY DEF Init
<1>6. Types
  <2>1. data \in [Inodes -> [content : Seq(Part), synced : BOOLEAN]]
    <3>1. \A i \in Inodes : (IF i \in Compilers THEN <<>> ELSE WholeOf(i)) \in Seq(Part)
      BY WrittenParts
    <3>. QED BY <1>5, <3>1
  <2>2. /\ dir \in [Names -> Entry] /\ had \in [Names -> SUBSET Entry]
        /\ \A name \in Names : dir[name] \in had[name]
    BY <1>3, <1>5 DEF Entry
  <2>. QED BY <1>5, <2>1, <2>2 DEF Types, Verdicts, Places
<1>7. ASSUME NEW w \in {OldWriter, SourceText} PROVE data[w].content = WholeOf(w)
  BY <1>5, WritersAssumption DEF Inodes
<1>8. ASSUME NEW p \in Compilers PROVE Progress(p)
  <2>1. data[p].content = Written(p, 0)
    BY <1>5, WrittenParts DEF Inodes
  <2>. QED BY <1>5, <2>1 DEF Progress
<1>9. SourceStands
  BY <1>3, <1>5, NamesDiffer DEF SourceStands
<1>10. TemporariesHaveOwners /\ NoLitter
  BY <1>4, <1>5, NamesDiffer DEF TemporariesHaveOwners, NoLitter
<1>. QED BY <1>6, <1>7, <1>8, <1>9, <1>10 DEF IInv

-----------------------------------------------------------------------------
(* The steps of a compile-ir.                                              *)

(* What a name's test says of the directory.                               *)
LEMMA SourceIsThere ==
  ASSUME SourceStands, Exists(dir, Source), ~Aliases(Source, Output),
         dir[Output] \in Given
  PROVE  dir[Source].kind = "file"
<1> SUFFICES ASSUME dir[Source].kind # "file" PROVE FALSE
  OBVIOUS
<1>1. CASE dir[Source].kind # "link"
  BY <1>1, NamesDiffer DEF Exists, Resolve
<1>2. CASE dir[Source].kind = "link"
  <2>1. dir[Source] \in {LinkTo(Source), LinkTo(Output)}
    BY <1>2, EntriesDiffer DEF SourceStands, Given
  <2>2. CASE dir[Source] = LinkTo(Source)
    BY <2>2, EntriesDiffer, NamesDiffer DEF Exists, Resolve
  <2>3. CASE dir[Source] = LinkTo(Output)
    <3>1. Resolve(dir, Source) = Output /\ dir[Output].kind = "file"
      BY <2>3, EntriesDiffer, NamesDiffer DEF Exists, Resolve
    <3>2. Resolve(dir, Output) = Output
      BY <3>1 DEF Resolve
    <3>. QED BY <3>1, <3>2, NamesDiffer DEF Aliases, Exists
  <2>. QED BY <2>1, <2>2, <2>3
<1>. QED BY <1>1, <1>2

\* What a step that is p's alone leaves of the others.
Own(p) ==
  /\ UNCHANGED <<nonce, powerFailed, vanished, first>>
  /\ unremoved \subseteq unremoved'
  /\ pc' \in [Compilers -> Places]
  /\ result' \in [Compilers -> Verdicts] /\ outcome' \in [Compilers -> Verdicts]
  /\ \A q \in Compilers :
       q # p => pc'[q] = pc[q] /\ result'[q] = result[q] /\ outcome'[q] = outcome[q]
  /\ \A i \in Inodes : i # p => data'[i] = data[i]

(* A step of a process, and its crash, touches nothing but its own files. *)
LEMMA StepIsOwn ==
  ASSUME Types, NEW p \in Compilers, Progress(p), Step(p) \/ Crash(p)
  PROVE  /\ Own(p)
         /\ data' \in [Inodes -> [content : Seq(Part), synced : BOOLEAN]]
<1> USE DEF Types, Verdicts, historyVars
<1>1. CASE Compile(p)
  BY <1>1 DEF Compile, Own, Goto, Report, Places
<1>2. CASE Create(p)
  BY <1>2 DEF Create, Own, Goto, FailTo, Places
<1>3. CASE Write(p)
  <2>1. PICK k \in 0..(Parts - 1) : data[p].content = Written(p, k)
    BY <1>3 DEF Write, Progress
  <2>2. p \in Inodes /\ Len(data[p].content) + 1 = k + 1 /\ <<p, k + 1>> \in Part
    BY <2>1, WrittenParts DEF Inodes
  <2>3. \/ data' = data
        \/ data' = [data EXCEPT ![p].content = Append(@, <<p, k + 1>>)]
    BY <1>3, <2>2 DEF Write
  <2>4. data' \in [Inodes -> [content : Seq(Part), synced : BOOLEAN]]
    <3> DEFINE longer == Append(data[p].content, <<p, k + 1>>)
    <3>1. longer \in Seq(Part)
      BY <2>2, AppendProperties
    <3> HIDE DEF longer
    <3>2. data' = data \/ data' = [data EXCEPT ![p].content = longer]
      BY <2>3 DEF longer
    <3>. QED BY <2>2, <3>1, <3>2
  <2>5. \A i \in Inodes : i # p => data'[i] = data[i]
    BY <2>2, <2>3
  <2>6. /\ UNCHANGED <<nonce, powerFailed, vanished, first, unremoved, outcome>>
        /\ \/ \E where \in {"Sync", "Write"} :
                pc' = [pc EXCEPT ![p] = where] /\ result' = result
           \/ /\ pc' = [pc EXCEPT ![p] = "Remove"]
              /\ result' = [result EXCEPT ![p] = "Failure"]
    BY <1>3 DEF Write, Goto, FailTo
  <2>. QED BY <2>4, <2>5, <2>6 DEF Own, Places
<1>4. CASE Sync(p)
  <2>1. data' = data \/ data' = [data EXCEPT ![p].synced = TRUE]
    BY <1>4 DEF Sync
  <2>2. p \in Inodes
    BY DEF Inodes
  <2>3. /\ data' \in [Inodes -> [content : Seq(Part), synced : BOOLEAN]]
        /\ \A i \in Inodes : i # p => data'[i] = data[i]
    BY <2>1, <2>2
  <2>. QED BY <1>4, <2>3 DEF Sync, Own, Goto, FailTo, Places
<1>5. CASE Look(p)
  BY <1>5 DEF Look, Own, Goto, Places
<1>6. CASE Publish(p)
  BY <1>6 DEF Publish, Own, Goto, FailTo, Places
<1>7. CASE Remove(p)
  BY <1>7 DEF Remove, Own, Goto, Report, Places
<1>8. CASE Crash(p)
  BY <1>8 DEF Crash, Own, Goto, Places
<1>. QED BY <1>1, <1>2, <1>3, <1>4, <1>5, <1>6, <1>7, <1>8 DEF Step

(* The others' progress is theirs, and p's follows what p does.            *)
LEMMA StepProgresses ==
  ASSUME IInv, NEW p \in Compilers, Step(p) \/ Crash(p)
  PROVE  \A q \in Compilers : Progress(q)'
<1>1. /\ Own(p) /\ Types /\ Progress(p) /\ p \in Inodes
      /\ data' \in [Inodes -> [content : Seq(Part), synced : BOOLEAN]]
  BY StepIsOwn DEF IInv, Inodes
<1>2. ASSUME NEW q \in Compilers, q # p PROVE Progress(q)'
  <2>1. /\ Progress(q) /\ data'[q] = data[q] /\ pc'[q] = pc[q]
        /\ result'[q] = result[q] /\ outcome'[q] = outcome[q]
    BY <1>1, <1>2 DEF IInv, Own, Inodes
  <2>. QED BY <2>1 DEF Progress, IsSynced
<1>3. Progress(p)'
  <2> USE <1>1 DEF Types
  <2>1. CASE Compile(p)
    BY <2>1 DEF Compile, Goto, Report, Progress
  <2>2. CASE Create(p)
    <3>1. /\ pc[p] = "Create" /\ data' = data /\ outcome' = outcome
          /\ \/ pc'[p] = "Write" /\ result'[p] = result[p]
             \/ pc'[p] = "Remove" /\ result'[p] = "Failure"
      BY <2>2 DEF Create, Goto, FailTo
    <3>2. 0 \in 0..(Parts - 1)
      BY CommandLineAssumption
    <3>. QED BY <3>1, <3>2 DEF Progress
  <2>3. CASE Write(p)
    <3>1. PICK k \in 0..(Parts - 1) : data[p].content = Written(p, k)
      BY <2>3 DEF Write, Progress
    <3>2. /\ Len(data[p].content) + 1 = k + 1
          /\ Append(data[p].content, <<p, k + 1>>) = Written(p, k + 1)
      BY <3>1, WrittenParts
    <3>3. \/ /\ data'[p].content = Written(p, k + 1)
             /\ pc'[p] = IF k + 1 = Parts THEN "Sync" ELSE "Write"
             /\ result'[p] = result[p]
          \/ pc'[p] = "Remove" /\ result'[p] = "Failure"
      <4>1. CASE /\ data' = [data EXCEPT ![p].content =
                                Append(@, <<p, Len(data[p].content) + 1>>)]
                 /\ Goto(p, IF Len(data[p].content) + 1 = Parts THEN "Sync" ELSE "Write")
                 /\ result' = result
        <5>1. data'[p].content = Written(p, k + 1)
          BY <3>2, <4>1
        <5>2. pc'[p] = IF k + 1 = Parts THEN "Sync" ELSE "Write"
          BY <3>2, <4>1 DEF Goto
        <5>. QED BY <4>1, <5>1, <5>2
      <4>2. CASE FailTo(p, "Remove")
        BY <4>2 DEF FailTo, Goto
      <4>. QED BY <2>3, <4>1, <4>2 DEF Write
    <3>4. result[p] # "Success" /\ outcome[p] = "None" /\ outcome' = outcome
      BY <2>3 DEF Write, Progress
    <3>5. k + 1 = Parts \/ k + 1 \in 0..(Parts - 1)
      BY CommandLineAssumption
    <3>. QED BY <3>3, <3>4, <3>5, WrittenParts DEF Progress
  <2>4. CASE Sync(p)
    BY <2>4 DEF Sync, Goto, FailTo, Progress, IsSynced
  <2>5. CASE Look(p)
    BY <2>5 DEF Look, Goto, Progress, IsSynced
  <2>6. CASE Publish(p)
    BY <2>6 DEF Publish, Goto, FailTo, Progress, IsSynced
  <2>7. CASE Remove(p)
    BY <2>7 DEF Remove, Goto, Report, Progress, IsSynced
  <2>8. CASE Crash(p)
    BY <2>8 DEF Crash, Goto, Progress, IsSynced
  <2>. QED BY <2>1, <2>2, <2>3, <2>4, <2>5, <2>6, <2>7, <2>8 DEF Step
<1>. QED BY <1>2, <1>3

(* What a step does to the directory, and what it says of it.             *)
LEMMA StepOnNames ==
  ASSUME Types, NEW p \in Compilers, Step(p) \/ Crash(p)
  PROVE  \/ /\ UNCHANGED <<dir, had, latest>>
            /\ result'[p] = result[p] \/ (result'[p] = "Failure" /\ pc[p] \in Writing \union {"Create"})
            /\ pc[p] \in {"CheckAlias", "Create"} => pc'[p] \in {"Create", "Done", "Remove", "Crashed"}
            /\ pc[p] \notin {"CheckAlias", "Create"} =>
                 /\ pc'[p] \notin {"CheckAlias", "Create"}
                 /\ pc'[p] = "Done" => pc[p] = "Remove" /\ p \in unremoved'
         \/ /\ pc[p] = "Create" /\ pc'[p] = "Write"
            /\ dir[Temporary(p)] = Absent
            /\ Redirect([dir EXCEPT ![Temporary(p)] = FileOf(p)])
            /\ UNCHANGED <<result, latest>>
         \/ /\ pc[p] = "Publish" /\ pc'[p] = "Remove"
            /\ result'[p] = "Success" /\ latest' = p
            /\ dir[Temporary(p)].kind = "file"
            /\ Redirect([dir EXCEPT ![Output] = dir[Temporary(p)], ![Temporary(p)] = Absent])
         \/ /\ pc[p] = "Remove" /\ pc'[p] = "Done"
            /\ Redirect([dir EXCEPT ![Temporary(p)] = Absent])
            /\ UNCHANGED <<result, latest>>
<1> USE DEF Types, historyVars, KeepDirectory
<1>1. CASE Compile(p)
  BY <1>1 DEF Compile, Goto
<1>2. CASE Create(p)
  BY <1>2 DEF Create, Goto, FailTo
<1>3. CASE Write(p)
  <2>1. /\ UNCHANGED <<dir, had, latest>> /\ pc[p] = "Write"
        /\ pc'[p] \in {"Sync", "Write", "Remove"}
        /\ result'[p] = result[p] \/ result'[p] = "Failure"
    BY <1>3 DEF Write, Goto, FailTo
  <2>. QED BY <2>1 DEF Writing
<1>4. CASE Sync(p)
  BY <1>4 DEF Sync, Goto, FailTo, Writing
<1>5. CASE Look(p)
  BY <1>5 DEF Look, Goto
<1>6. CASE Publish(p)
  BY <1>6 DEF Publish, CanPublish, Renamed, Goto, FailTo, Writing
<1>7. CASE Remove(p)
  <2>1. CASE Redirect([dir EXCEPT ![Temporary(p)] = Absent])
    BY <1>7, <2>1 DEF Remove, Goto
  <2>2. CASE KeepDirectory /\ unremoved' = unremoved \union {p}
    BY <1>7, <2>2 DEF Remove, Goto
  <2>. QED BY <1>7, <2>1, <2>2 DEF Remove
<1>8. CASE Crash(p)
  BY <1>8 DEF Crash, Goto
<1>. QED BY <1>1, <1>2, <1>3, <1>4, <1>5, <1>6, <1>7, <1>8 DEF Step

(* What a step makes of each name, in the directory and on the disk.       *)
LEMMA StepOnEntries ==
  ASSUME Types, NEW p \in Compilers, Step(p) \/ Crash(p)
  PROVE  /\ dir' \in [Names -> Entry] /\ had' \in [Names -> SUBSET Entry]
         /\ \A name \in Names :
              /\ dir'[name] \in had'[name]
              /\ had'[name] \in {had[name], had[name] \union {dir'[name]}}
              /\ name \notin {Output, Temporary(p)} =>
                   dir'[name] = dir[name] /\ had'[name] = had[name]
<1> DEFINE created == [dir EXCEPT ![Temporary(p)] = FileOf(p)]
           renamed == [dir EXCEPT ![Output] = dir[Temporary(p)], ![Temporary(p)] = Absent]
           removed == [dir EXCEPT ![Temporary(p)] = Absent]
<1>1. /\ FileOf(p) \in Entry /\ Absent \in Entry
      /\ Temporary(p) \in Names /\ Output \in Names
      /\ dir \in [Names -> Entry] /\ had \in [Names -> SUBSET Entry]
      /\ \A name \in Names : dir[name] \in had[name]
  BY EntriesDiffer, NamesDiffer DEF Entry, Types, Temporary
<1>2. created \in [Names -> Entry] /\ renamed \in [Names -> Entry] /\ removed \in [Names -> Entry]
  BY <1>1
<1>3. \A name \in Names \ {Output, Temporary(p)} :
        created[name] = dir[name] /\ renamed[name] = dir[name] /\ removed[name] = dir[name]
  BY <1>1
<1> HIDE DEF created, renamed, removed
<1>4. \/ UNCHANGED <<dir, had>>
      \/ \E d \in {created, renamed, removed} : Redirect(d)
  BY StepOnNames DEF created, renamed, removed
<1>5. CASE \E d \in {created, renamed, removed} : Redirect(d)
  <2>1. PICK d \in {created, renamed, removed} : Redirect(d)
    BY <1>5
  <2>2. /\ d \in [Names -> Entry] /\ dir' = d
        /\ had' = [name \in Names |-> had[name] \union {d[name]}]
        /\ \A name \in Names \ {Output, Temporary(p)} : d[name] = dir[name]
    BY <1>2, <1>3, <2>1 DEF Redirect
  <2>. QED BY <1>1, <2>2
<1>. QED BY <1>1, <1>4, <1>5

(* A step puts nothing but a process's own file under its temporary name,  *)
(* and a process that comes to its end has removed it or could not.        *)
LEMMA StepKeepsOwners ==
  ASSUME IInv, NEW p \in Compilers, Step(p) \/ Crash(p)
  PROVE  TemporariesHaveOwners' /\ NoLitter'
<1>1. Own(p) /\ Types /\ Progress(p)
  BY StepIsOwn DEF IInv
<1>2. /\ nonce' = nonce /\ nonce \in [Compilers -> Nonces] /\ dir \in [Names -> Entry]
      /\ Temporary(p) = TemporaryName(nonce[p]) /\ nonce[p] \in Nonces
      /\ Temporary(p) \in Names /\ Temporary(p) # Output
  BY <1>1, NamesDiffer DEF Own, Types, Temporary
<1>3. ASSUME NEW n \in Nonces
      PROVE  /\ TemporaryName(n) \in Names /\ TemporaryName(n) # Output
             /\ TemporaryName(n) = Temporary(p) <=> n = nonce[p]
             /\ dir[TemporaryName(n)] \in had[TemporaryName(n)]
  BY <1>1, <1>2, NamesDiffer DEF Types
<1>4. ASSUME NEW n \in Nonces, NEW e \in had[TemporaryName(n)] \ {Absent}
      PROVE  \E q \in Compilers : /\ nonce'[q] = n /\ e = FileOf(q)
                                  /\ pc[q] \notin {"CheckAlias", "Create"}
                                  /\ pc'[q] \notin {"CheckAlias", "Create"}
  <2>1. PICK q \in Compilers : /\ nonce[q] = n /\ e = FileOf(q)
                               /\ pc[q] \notin {"CheckAlias", "Create"}
    BY DEF IInv, TemporariesHaveOwners
  <2>2. pc'[q] \notin {"CheckAlias", "Create"}
    <3>1. CASE q # p
      BY <1>1, <2>1, <3>1 DEF Own
    <3>2. CASE q = p
      BY <1>1, <2>1, <3>2, StepOnNames
    <3>. QED BY <3>1, <3>2
  <2>. QED BY <1>2, <2>1, <2>2
\* What is new under a temporary name is p's file, just created.
<1>5. ASSUME NEW n \in Nonces, dir'[TemporaryName(n)] # Absent,
             dir'[TemporaryName(n)] # dir[TemporaryName(n)]
      PROVE  n = nonce[p] /\ dir'[TemporaryName(n)] = FileOf(p) /\ pc'[p] = "Write"
  <2>1. TemporaryName(n) = Temporary(p)
    BY <1>1, <1>3, <1>5, StepOnEntries
  <2>2. CASE pc'[p] = "Write" /\ dir' = [dir EXCEPT ![Temporary(p)] = FileOf(p)]
    BY <1>2, <1>3, <2>1, <2>2
  <2>3. CASE dir' = [dir EXCEPT ![Output] = dir[Temporary(p)], ![Temporary(p)] = Absent]
    BY <1>2, <1>5, <2>1, <2>3
  <2>4. CASE dir' = [dir EXCEPT ![Temporary(p)] = Absent]
    BY <1>2, <1>5, <2>1, <2>4
  <2>. QED BY <1>1, <1>5, <2>2, <2>3, <2>4, StepOnNames DEF Redirect
<1>6. TemporariesHaveOwners'
  <2>1. ASSUME NEW n \in Nonces, NEW e \in had'[TemporaryName(n)] \ {Absent}
        PROVE  \E q \in Compilers : /\ nonce'[q] = n /\ e = FileOf(q)
                                    /\ pc'[q] \notin {"CheckAlias", "Create"}
    <3>1. CASE e \in had[TemporaryName(n)]
      BY <1>4, <3>1
    <3>2. CASE e \notin had[TemporaryName(n)]
      <4>1. e = dir'[TemporaryName(n)]
        BY <1>1, <1>3, <3>2, StepOnEntries
      <4>2. dir'[TemporaryName(n)] # dir[TemporaryName(n)]
        BY <1>3, <3>2, <4>1
      <4>. QED BY <1>2, <1>5, <4>1, <4>2
    <3>. QED BY <3>1, <3>2
  <2>. QED BY <2>1 DEF TemporariesHaveOwners
<1>7. NoLitter'
  <2>1. ASSUME NEW n \in Nonces, dir'[TemporaryName(n)] # Absent
        PROVE  \E q \in Compilers :
                 /\ nonce'[q] = n /\ dir'[TemporaryName(n)] = FileOf(q)
                 /\ pc'[q] # "Done" \/ q \in unremoved' \/ powerFailed'
    <3>1. CASE dir'[TemporaryName(n)] = dir[TemporaryName(n)]
      <4>1. PICK q \in Compilers :
              /\ nonce[q] = n /\ dir[TemporaryName(n)] = FileOf(q)
              /\ pc[q] # "Done" \/ q \in unremoved \/ powerFailed
        BY <2>1, <3>1 DEF IInv, NoLitter
      <4>2. CASE q # p
        BY <1>1, <1>2, <3>1, <4>1, <4>2 DEF Own
      <4>3. CASE q = p
        <5>1. pc[p] \notin {"CheckAlias", "Create"}
          <6>1. PICK r \in Compilers : /\ dir[TemporaryName(n)] = FileOf(r)
                                       /\ pc[r] \notin {"CheckAlias", "Create"}
            BY <1>3, <1>4, <2>1, <3>1
          <6>. QED BY <4>1, <4>3, <6>1, EntriesDiffer
        <5>2. ~Redirect([dir EXCEPT ![Temporary(p)] = Absent])
          BY <1>2, <1>3, <2>1, <4>1, <4>3 DEF Redirect
        <5>3. pc'[p] = "Done" => p \in unremoved'
          BY <1>1, <5>1, <5>2, StepOnNames
        <5>. QED BY <1>2, <3>1, <4>1, <4>3, <5>3
      <4>. QED BY <4>2, <4>3
    <3>2. CASE dir'[TemporaryName(n)] # dir[TemporaryName(n)]
      BY <1>2, <1>5, <2>1, <3>2
    <3>. QED BY <3>1, <3>2
  <2>. QED BY <2>1 DEF NoLitter
<1>. QED BY <1>6, <1>7

(* Once past the alias test no name a process writes is the source.      *)
LEMMA StepKeepsSource ==
  ASSUME IInv, NEW p \in Compilers, Step(p) \/ Crash(p)
  PROVE  SourceStands'
<1>1. /\ Own(p) /\ Types /\ Progress(p) /\ SourceStands
      /\ Temporary(p) \notin {Source, Output} /\ Source # Output
      /\ Source \in Names /\ Output \in Names
  BY StepIsOwn, NamesDiffer DEF IInv, Types, Temporary
<1>2. dir'[Source] = dir[Source] /\ had'[Source] = had[Source]
  BY <1>1, StepOnEntries
<1>3. CASE dir[Source].kind = "file"
  BY <1>1, <1>2, <1>3 DEF SourceStands
<1>4. CASE dir[Source].kind # "file"
  <2>1. /\ had[Output] \subseteq Given
        /\ \A q \in Compilers : pc[q] \in {"CheckAlias", "Done", "Crashed"}
    BY <1>1, <1>4 DEF SourceStands
  <2>2. pc[p] \notin {"Create", "Publish", "Remove"} /\ pc[p] \notin Writing
    BY <2>1 DEF Writing
  <2>3. dir' = dir /\ had' = had
    BY <1>1, <2>2, StepOnNames
  <2>4. pc'[p] \in {"CheckAlias", "Done", "Crashed"}
    <3>1. CASE Compile(p)
      <4>1. ~(~Aliases(Source, Output) /\ Exists(dir, Source))
        BY <1>1, <1>4, <2>1, SourceIsThere DEF Types
      <4>. QED BY <1>1, <3>1, <4>1 DEF Compile, Goto, Types
    <3>2. CASE Crash(p)
      BY <1>1, <3>2 DEF Crash, Goto, Types
    <3>. QED BY <2>2, <3>1, <3>2 DEF Step, Create, Write, Sync, Look, Publish, Remove, Writing
  <2>5. \A q \in Compilers : pc'[q] \in {"CheckAlias", "Done", "Crashed"}
    BY <1>1, <2>1, <2>4 DEF Own
  <2>. QED BY <1>1, <2>1, <2>3, <2>5 DEF SourceStands
<1>. QED BY <1>3, <1>4

(* So a step of a compiler, or its crash, keeps the whole invariant.     *)
LEMMA StepKeepsGood ==
  ASSUME IInv, NEW p \in Compilers, Step(p) \/ Crash(p)
  PROVE  IInv'
<1>1. /\ Own(p) /\ Types
      /\ data' \in [Inodes -> [content : Seq(Part), synced : BOOLEAN]]
  BY StepIsOwn DEF IInv
<1>2. \A w \in {OldWriter, SourceText} : data'[w].content = WholeOf(w)
  BY <1>1, WritersAssumption DEF IInv, Own, Inodes
<1>3. sawOutput' \in [Compilers -> BOOLEAN]
  <2>1. Exists(dir, Output) \in BOOLEAN
    BY DEF Exists
  <2>. QED BY <1>1, <2>1 DEF Types, Step, Crash, Compile, Create, Write, Sync, Look, Publish, Remove
<1>4. Types'
  BY <1>1, <1>3, StepOnEntries DEF Types, Own
<1>. QED BY <1>2, <1>4, StepKeepsOwners, StepKeepsSource, StepProgresses DEF IInv

(* Whatever the disk settles on for a name is an entry the name has had.   *)
LEMMA SettledEntries ==
  ASSUME Types, PowerFails
  PROVE  /\ dir' \in [Names -> Entry] /\ had' = [name \in Names |-> {dir'[name]}]
         /\ \A name \in Names : dir'[name] \in had[name]
<1>1. PICK d \in Settlements :
        dir' = [name \in Names |-> IF name \in Unsettled THEN d[name] ELSE dir[name]]
  BY DEF PowerFails
<1>2. \A name \in Unsettled : d[name] \in had[name]
  BY DEF Settlements
<1>3. \A name \in Names : dir[name] \in had[name] /\ had[name] \subseteq Entry
  BY DEF Types
<1>4. \A name \in Names : dir'[name] \in had[name]
  BY <1>1, <1>2, <1>3
<1>5. dir' = [name \in Names |-> dir'[name]]
  BY <1>1
<1>6. dir' \in [Names -> Entry]
  BY <1>3, <1>4, <1>5
<1>. QED BY <1>4, <1>6 DEF PowerFails

(* The power fails: what was synced stays, and nobody goes on.             *)
LEMMA PowerFailsKeepsGood ==
  ASSUME IInv, PowerFails
  PROVE  IInv'
<1>1. PICK lost \in [Unsynced -> 0..Parts] :
        data' = [i \in Inodes |-> IF i \in Unsynced THEN Shortened(data[i], lost[i])
                                                   ELSE data[i]]
  BY DEF PowerFails
<1>2. /\ UNCHANGED <<nonce, result, outcome>>
      /\ pc' = [p \in Compilers |-> IF pc[p] = "Done" THEN "Done" ELSE "Crashed"]
      /\ sawOutput' = [p \in Compilers |-> FALSE] /\ powerFailed'
      /\ Types
  BY DEF PowerFails, IInv
<1>3. \A i \in Inodes : data[i].synced \/ i \notin Compilers => data'[i] = data[i]
  BY <1>1 DEF Unsynced
<1>4. data' \in [Inodes -> [content : Seq(Part), synced : BOOLEAN]]
  <2>1. ASSUME NEW c \in Seq(Part), NEW n \in 0..Parts
        PROVE  SubSeq(c, 1, IF n > Len(c) THEN 0 ELSE Len(c) - n) \in Seq(Part)
    <3> DEFINE m == IF n > Len(c) THEN 0 ELSE Len(c) - n
    <3>1. 1 \in Int /\ m \in Int /\ \A i \in 1..m : c[i] \in Part
      BY CommandLineAssumption, ElementOfSeq
    <3> HIDE DEF m
    <3>2. SubSeq(c, 1, m) \in Seq(Part)
      BY <3>1, SubSeqProperties
    <3>. QED BY <3>2 DEF m
  <2>2. ASSUME NEW i \in Inodes PROVE data'[i] \in [content : Seq(Part), synced : BOOLEAN]
    <3>1. data[i] \in [content : Seq(Part), synced : BOOLEAN]
      BY <1>2 DEF Types
    <3>2. CASE i \in Unsynced
      <4> DEFINE shorter == SubSeq(data[i].content, 1,
                                   IF lost[i] > Len(data[i].content) THEN 0
                                   ELSE Len(data[i].content) - lost[i])
      <4>1. shorter \in Seq(Part)
        BY <2>1, <3>1, <3>2
      <4>2. data'[i] = [data[i] EXCEPT !.content = shorter]
        BY <1>1, <3>2 DEF Shortened
      <4> HIDE DEF shorter
      <4>. QED BY <3>1, <4>1, <4>2
    <3>3. CASE i \notin Unsynced
      BY <1>1, <3>1, <3>3
    <3>. QED BY <3>2, <3>3
  <2>3. data' = [i \in Inodes |-> data'[i]]
    BY <1>1
  <2>. QED BY <2>2, <2>3
<1>5. \A w \in {OldWriter, SourceText} : data'[w].content = WholeOf(w)
  BY <1>3, WritersAssumption DEF IInv, Inodes
<1>6. ASSUME NEW p \in Compilers PROVE Progress(p)'
  <2>1. /\ pc'[p] = "Done" \/ pc'[p] = "Crashed"
        /\ pc[p] = "Done" => pc'[p] = "Done"
        /\ result'[p] = result[p] /\ outcome'[p] = outcome[p] /\ Progress(p)
    BY <1>2 DEF IInv
  <2>2. result[p] = "Success" => IsSynced(p) /\ data'[p] = data[p]
    BY <1>3, <2>1 DEF Progress, IsSynced, Inodes
  <2>. QED BY <2>1, <2>2 DEF Progress, IsSynced
<1>7. /\ dir' \in [Names -> Entry] /\ had' = [name \in Names |-> {dir'[name]}]
      /\ \A name \in Names : dir'[name] \in had[name]
  BY <1>2, SettledEntries
<1>8. ASSUME NEW n \in Nonces, dir'[TemporaryName(n)] # Absent
      PROVE  \E p \in Compilers : /\ nonce'[p] = n
                                  /\ dir'[TemporaryName(n)] = FileOf(p)
                                  /\ pc'[p] \notin {"CheckAlias", "Create"}
  <2>1. dir'[TemporaryName(n)] \in had[TemporaryName(n)] \ {Absent}
    BY <1>7, <1>8, NamesDiffer
  <2>. QED BY <1>2, <2>1 DEF IInv, TemporariesHaveOwners
<1>9. TemporariesHaveOwners' /\ NoLitter'
  <2>1. \A n \in Nonces : had'[TemporaryName(n)] = {dir'[TemporaryName(n)]}
    BY <1>7, NamesDiffer
  <2>2. TemporariesHaveOwners'
    BY <1>8, <2>1 DEF TemporariesHaveOwners
  <2>. QED BY <1>2, <1>8, <2>2 DEF NoLitter
<1>10. SourceStands'
  <2>1. SourceStands /\ Source \in Names /\ Output \in Names
    BY NamesDiffer DEF IInv
  <2>2. /\ dir'[Source] = dir[Source] /\ had'[Source] = {dir'[Source]}
        /\ dir'[Output] \in had[Output] /\ had'[Output] = {dir'[Output]}
    BY <1>7, <2>1 DEF SourceStands
  <2>3. \A p \in Compilers : pc'[p] \in {"Done", "Crashed"}
    BY <1>2
  <2>. QED BY <2>1, <2>2, <2>3 DEF SourceStands
<1>11. Types'
  <2>1. had' \in [Names -> SUBSET Entry] /\ \A name \in Names : dir'[name] \in had'[name]
    BY <1>7
  <2>. QED BY <1>2, <1>4, <1>7, <2>1 DEF Types, Places
<1>. QED BY <1>5, <1>6, <1>9, <1>10, <1>11 DEF IInv

(* Somebody removes the output, and nothing else.                          *)
LEMMA VanishOnEntries ==
  ASSUME Types, Vanish
  PROVE  /\ dir' \in [Names -> Entry] /\ had' \in [Names -> SUBSET Entry]
         /\ dir'[Output] = Absent /\ had'[Output] = had[Output] \union {Absent}
         /\ \A name \in Names :
              /\ dir'[name] \in had'[name]
              /\ name # Output => dir'[name] = dir[name] /\ had'[name] = had[name]
<1> DEFINE without == [dir EXCEPT ![Output] = Absent]
<1>1. /\ dir \in [Names -> Entry] /\ had \in [Names -> SUBSET Entry]
      /\ \A name \in Names : dir[name] \in had[name]
      /\ Absent \in Entry /\ Output \in Names
  BY EntriesDiffer, NamesDiffer DEF Types, Entry
<1>2. /\ without \in [Names -> Entry] /\ without[Output] = Absent
      /\ \A name \in Names : name # Output => without[name] = dir[name]
  BY <1>1
<1>3. dir' = without /\ had' = [name \in Names |-> had[name] \union {without[name]}]
  BY DEF Vanish, Redirect
<1> HIDE DEF without
<1>. QED BY <1>1, <1>2, <1>3

(* And so does every step of the system: the invariant is inductive.     *)
LEMMA NextKeepsGood ==
  ASSUME IInv, [Next]_vars
  PROVE  IInv'
<1>1. CASE \E p \in Compilers : Step(p) \/ Crash(p)
  BY <1>1, StepKeepsGood
<1>2. CASE PowerFails
  BY <1>2, PowerFailsKeepsGood
<1>3. CASE Vanish
  <2>1. UNCHANGED <<data, pc, nonce, result, outcome, sawOutput, powerFailed, unremoved>>
    BY <1>3 DEF Vanish, compilerVars, historyVars
  <2>2. /\ dir' \in [Names -> Entry] /\ had' \in [Names -> SUBSET Entry]
        /\ dir'[Output] = Absent /\ had'[Output] = had[Output] \union {Absent}
        /\ \A name \in Names :
             /\ dir'[name] \in had'[name]
             /\ name # Output => dir'[name] = dir[name] /\ had'[name] = had[name]
    BY <1>3, VanishOnEntries DEF IInv
  <2>3. /\ \A n \in Nonces : /\ dir'[TemporaryName(n)] = dir[TemporaryName(n)]
                             /\ had'[TemporaryName(n)] = had[TemporaryName(n)]
        /\ dir'[Source] = dir[Source] /\ had'[Source] = had[Source]
    BY <2>2, NamesDiffer
  <2>4. Types'
    BY <2>1, <2>2 DEF IInv, Types
  <2>5. TemporariesHaveOwners' /\ NoLitter'
    BY <2>1, <2>3 DEF IInv, TemporariesHaveOwners, NoLitter
  <2>6. SourceStands'
    BY <2>1, <2>2, <2>3, EntriesDiffer DEF IInv, SourceStands
  <2>7. \A p \in Compilers : Progress(p)'
    BY <2>1 DEF IInv, Progress, IsSynced
  <2>. QED BY <2>1, <2>4, <2>5, <2>6, <2>7 DEF IInv
<1>4. CASE UNCHANGED <<dir, had, data, pc, nonce, result, outcome, sawOutput, powerFailed,
                       unremoved>>
  <2>1. Types' /\ TemporariesHaveOwners' /\ NoLitter' /\ SourceStands'
    BY <1>4 DEF IInv, Types, TemporariesHaveOwners, NoLitter, SourceStands
  <2>2. \A p \in Compilers : Progress(p)'
    BY <1>4 DEF IInv, Progress, IsSynced
  <2>. QED BY <1>4, <2>1, <2>2 DEF IInv
<1>. QED BY <1>1, <1>2, <1>3, <1>4 DEF Next, vars, compilerVars, historyVars, OpenArtifact,
            ReadArtifact, Evaluate, PublishStdout, RunnerUnchanged

(* The invariant holds whenever commands, crashes, failing removals and    *)
(* losses of power interleave, whatever part of the directory's changes    *)
(* the disk has taken.                                                     *)
THEOREM IInvHolds == Spec => []IInv
<1>1. Init => IInv
  BY InitIsGood
<1>2. IInv /\ [Next]_vars => IInv'
  BY NextKeepsGood
<1>. QED BY <1>1, <1>2, PTL DEF Spec

(* A temporary file that is there has a process of its name that is under  *)
(* way, was killed or could not remove it, unless the power has failed.    *)
THEOREM NoLitterEver == Spec => []NoLitter
<1>1. IInv => NoLitter
  BY DEF IInv
<1>. QED BY <1>1, IInvHolds, PTL

(* The source's name goes on leading to what it led to, aliases included.  *)
THEOREM SourceIsAlwaysKept == Spec => []SourceIsKept
<1>1. ASSUME IInv, Exists(dir, Source) PROVE InodeOf(dir, Source) \in {SourceText, OldWriter}
  <2>1. /\ dir[Source] \in Given /\ SourceStands
    BY <1>1 DEF IInv, SourceStands
  <2>2. CASE dir[Source].kind = "file"
    <3>1. Resolve(dir, Source) = Source
      BY <2>2 DEF Resolve
    <3>. QED BY <2>1, <2>2, <3>1, EntriesDiffer DEF InodeOf
  <2>3. CASE dir[Source].kind # "file"
    <3>1. dir[Output] \in Given
      BY <1>1, <2>1, <2>3, NamesDiffer DEF SourceStands, IInv, Types
    <3>2. dir[Source] \in {LinkTo(Source), LinkTo(Output)}
      BY <1>1, <2>1, <2>3, EntriesDiffer DEF Given, Exists, Resolve
    <3>3. Resolve(dir, Source) = Output /\ dir[Output].kind = "file"
      BY <1>1, <2>3, <3>2, EntriesDiffer DEF Exists, Resolve
    <3>. QED BY <3>1, <3>3, EntriesDiffer DEF InodeOf
  <2>. QED BY <2>2, <2>3
<1>. QED BY <1>1, IInvHolds, PTL DEF SourceIsKept

-----------------------------------------------------------------------------
(* Two processes may have read one time; three may not.                    *)

(* What Init says meets the invariant.                                     *)
LEMMA InitIsShared == Init /\ AtMostTwoShare => SharedInv
<1> SUFFICES ASSUME Init, AtMostTwoShare PROVE SharedInv
  OBVIOUS
<1>1. /\ pc = [p \in Compilers |-> "CheckAlias"] /\ result = [p \in Compilers |-> "None"]
      /\ had = [name \in Names |-> {dir[name]}] /\ first = dir[Output] /\ latest = OldWriter
  BY DEF Init
<1>2. TemporaryIsMine
  BY <1>1 DEF TemporaryIsMine, Writing
<1>3. dir[Output] \in Given
  <2>1. PICK given \in Directories :
          dir = [name \in Names |-> IF name \in DOMAIN given THEN given[name] ELSE Absent]
    BY DEF Init
  <2>. QED BY <2>1, DirectoriesAssumption, EntriesDiffer, NamesDiffer
<1>4. Replaced = {} /\ Left = first /\ had[Output] = {first}
  BY <1>1, NamesDiffer, WritersAssumption DEF Replaced, Left
<1>. QED BY <1>1, <1>2, <1>3, <1>4 DEF SharedInv, OutputStands, OnceOutput

(* A step takes no temporary name from one that is writing to it.        *)
LEMMA StepKeepsMine ==
  ASSUME IInv, AtMostTwoShare, TemporaryIsMine, NEW p \in Compilers, Step(p) \/ Crash(p)
  PROVE  TemporaryIsMine'
<1>1. /\ Own(p) /\ Types /\ Progress(p)
  BY StepIsOwn DEF IInv
<1>2. /\ nonce' = nonce /\ nonce \in [Compilers -> Nonces] /\ dir \in [Names -> Entry]
      /\ pc \in [Compilers -> Places]
  BY <1>1 DEF Own, Types
<1>3. ASSUME NEW q \in Compilers
      PROVE  /\ Temporary(q) \in Names /\ Temporary(q) # Output /\ Temporary(q)' = Temporary(q)
             /\ \A r \in Compilers : Temporary(q) = Temporary(r) <=> nonce[q] = nonce[r]
  BY <1>2, NamesDiffer DEF Temporary
<1>4. pc[p] \notin {"Done", "Crashed"}
  <2>1. Step(p) => pc[p] \notin {"Done", "Crashed"}
    BY DEF Step, Compile, Create, Write, Sync, Look, Publish, Remove
  <2>. QED BY <2>1 DEF Crash
<1>5. ASSUME NEW q \in Compilers, pc'[q] \in Writing
      PROVE  \/ dir'[Temporary(q)] = FileOf(q)
             \/ /\ dir'[Temporary(q)] = Absent
                /\ \A r \in Compilers :
                     r # q /\ nonce[r] = nonce[q] => pc'[r] \in {"Done", "Crashed"}
  <2>1. CASE q # p
    <3>1. pc[q] \in Writing /\ pc'[q] = pc[q]
      BY <1>1, <1>5, <2>1 DEF Own
    <3>2. \/ dir[Temporary(q)] = FileOf(q)
          \/ /\ dir[Temporary(q)] = Absent
             /\ \A r \in Compilers :
                  r # q /\ nonce[r] = nonce[q] => pc[r] \in {"Done", "Crashed"}
      BY <3>1 DEF TemporaryIsMine
    <3>3. CASE nonce[p] # nonce[q]
      <4>1. dir'[Temporary(q)] = dir[Temporary(q)]
        BY <1>1, <1>3, <3>3, StepOnEntries
      <4>2. \A r \in Compilers : nonce[r] = nonce[q] => pc'[r] = pc[r]
        BY <1>1, <3>3 DEF Own
      <4>. QED BY <3>2, <4>1, <4>2
    <3>4. CASE nonce[p] = nonce[q]
      <4>1. dir[Temporary(q)] = FileOf(q) /\ Temporary(p) = Temporary(q)
        BY <1>3, <1>4, <2>1, <3>2, <3>4
      <4>2. \/ dir' = dir
            \/ pc'[p] = "Done" /\ dir' = [dir EXCEPT ![Temporary(p)] = Absent]
        <5>1. dir[Temporary(p)] # Absent
          BY <4>1, EntriesDiffer
        <5>2. pc[p] # "Publish"
          <6>1. FileOf(q) # FileOf(p)
            BY <2>1, EntriesDiffer
          <6>. QED BY <4>1, <5>1, <6>1 DEF TemporaryIsMine, Writing
        <5>. QED BY <1>1, <5>1, <5>2, StepOnNames DEF Redirect
      <4>3. CASE dir' = dir
        BY <4>1, <4>3
      <4>4. CASE pc'[p] = "Done" /\ dir' = [dir EXCEPT ![Temporary(p)] = Absent]
        <5>1. dir'[Temporary(q)] = Absent
          BY <1>2, <1>3, <4>1, <4>4
        <5>2. \A r \in Compilers : r # q /\ nonce[r] = nonce[q] => r = p
          BY <2>1, <3>4 DEF AtMostTwoShare
        <5>. QED BY <4>4, <5>1, <5>2
      <4>. QED BY <4>2, <4>3, <4>4
    <3>. QED BY <3>3, <3>4
  <2>2. CASE q = p
    <3>1. CASE pc[p] = "Create"
      <4>1. dir' = [dir EXCEPT ![Temporary(p)] = FileOf(p)]
        <5>1. pc'[p] # "Done" /\ pc'[p] # "Remove" /\ pc'[p] # "Create" /\ pc'[p] # "Crashed"
          BY <1>5, <2>2 DEF Writing
        <5>. QED BY <1>1, <3>1, <5>1, StepOnNames DEF Redirect
      <4>. QED BY <1>2, <1>3, <2>2, <4>1
    <3>2. CASE pc[p] # "Create"
      <4>1. pc[p] \in Writing /\ dir' = dir
        <5>1. dir' = dir
          BY <1>1, <1>5, <2>2, <3>2, StepOnNames DEF Writing
        <5>2. pc[p] \in Writing
          <6>1. ~Crash(p)
            BY <1>2, <1>5, <2>2 DEF Crash, Goto, Writing
          <6>2. ~Compile(p) /\ ~Create(p) /\ ~Remove(p)
            BY <1>2, <1>5, <2>2, <3>2 DEF Compile, Create, Remove, Goto, Writing
          <6>. QED BY <6>1, <6>2 DEF Step, Write, Sync, Look, Publish, Writing
        <5>. QED BY <5>1, <5>2
      <4>2. \A r \in Compilers : r # p => pc'[r] = pc[r]
        BY <1>1 DEF Own
      <4>. QED BY <2>2, <4>1, <4>2 DEF TemporaryIsMine
    <3>. QED BY <3>1, <3>2
  <2>. QED BY <2>1, <2>2
<1>. QED BY <1>2, <1>3, <1>5 DEF TemporaryIsMine

(* The output changes only by the publication of a synced file.          *)
LEMMA StepKeepsOutput ==
  ASSUME IInv, TemporaryIsMine, OutputStands, NEW p \in Compilers, Step(p) \/ Crash(p)
  PROVE  OutputStands'
<1>1. /\ Own(p) /\ Types /\ Progress(p)
      /\ dir \in [Names -> Entry] /\ had \in [Names -> SUBSET Entry]
  BY StepIsOwn DEF IInv, Types
<1>2. /\ Temporary(p) \in Names /\ Temporary(p) # Output /\ Output \in Names
  BY <1>1, NamesDiffer DEF Temporary, Types
<1>3. UNCHANGED <<vanished, powerFailed, first>>
  BY <1>1 DEF Own
<1>4. CASE /\ pc[p] = "Publish" /\ result'[p] = "Success" /\ latest' = p
           /\ dir[Temporary(p)].kind = "file"
           /\ Redirect([dir EXCEPT ![Output] = dir[Temporary(p)], ![Temporary(p)] = Absent])
  <2>1. dir[Temporary(p)] = FileOf(p)
    BY <1>4, EntriesDiffer DEF TemporaryIsMine, Writing
  <2>2. dir'[Output] = FileOf(p) /\ had'[Output] = had[Output] \union {FileOf(p)}
    BY <1>1, <1>2, <1>4, <2>1 DEF Redirect
  <2>3. Replaced' = Replaced \union {p}
    BY <1>1, <1>4 DEF Own, Replaced
  <2>4. Left' = FileOf(p) /\ OnceOutput' = OnceOutput \union {FileOf(p)}
    BY <1>3, <1>4, <2>3 DEF Left, OnceOutput
  <2>. QED BY <1>3, <1>4, <2>2, <2>3, <2>4 DEF OutputStands
<1>5. CASE /\ dir'[Output] = dir[Output] /\ had'[Output] = had[Output] /\ latest' = latest
           /\ Replaced' = Replaced
  <2>1. Left' = Left /\ OnceOutput' = OnceOutput
    BY <1>3, <1>5 DEF Left, OnceOutput
  <2>. QED BY <1>3, <1>5, <2>1 DEF OutputStands
<1>6. ASSUME result'[p] = result[p]
             \/ (result'[p] = "Failure" /\ pc[p] \in Writing \union {"Create"})
      PROVE  Replaced' = Replaced
  <2>1. result'[p] = "Success" <=> result[p] = "Success"
    BY <1>1, <1>6 DEF Progress, Writing
  <2>. QED BY <1>1, <2>1 DEF Own, Replaced
<1>7. ASSUME NEW entry, Redirect([dir EXCEPT ![Temporary(p)] = entry])
      PROVE  dir'[Output] = dir[Output] /\ had'[Output] = had[Output]
  BY <1>1, <1>2, <1>7 DEF Redirect, Types
<1>. QED BY <1>1, <1>4, <1>5, <1>6, <1>7, StepOnNames

(* The second invariant is inductive beside the first.                   *)
LEMMA NextKeepsShared ==
  ASSUME IInv, SharedInv, [Next]_vars
  PROVE  SharedInv'
<1>1. CASE \E p \in Compilers : Step(p) \/ Crash(p)
  <2>1. PICK p \in Compilers : Step(p) \/ Crash(p)
    BY <1>1
  <2>2. Own(p)
    BY <2>1, StepIsOwn DEF IInv
  <2>3. AtMostTwoShare'
    BY <2>2 DEF SharedInv, AtMostTwoShare, Own
  <2>. QED BY <2>1, <2>3, StepKeepsMine, StepKeepsOutput DEF SharedInv
<1>2. CASE PowerFails
  <2>1. /\ UNCHANGED <<nonce, result, vanished, first, latest>> /\ powerFailed'
        /\ \A p \in Compilers : pc'[p] \in {"Done", "Crashed"}
    BY <1>2 DEF PowerFails, historyVars
  <2>2. TemporaryIsMine'
    BY <2>1 DEF TemporaryIsMine, Writing
  <2>3. Replaced' = Replaced /\ OnceOutput' = OnceOutput
    BY <2>1 DEF Replaced, OnceOutput
  <2>4. dir'[Output] \in had[Output] /\ had'[Output] = {dir'[Output]}
    BY <1>2, SettledEntries, NamesDiffer DEF IInv
  <2>. QED BY <2>1, <2>2, <2>3, <2>4 DEF SharedInv, AtMostTwoShare, OutputStands
<1>3. CASE Vanish
  <2>1. /\ vanished' /\ UNCHANGED <<pc, nonce, result, first, latest, powerFailed>>
        /\ nonce \in [Compilers -> Nonces]
    BY <1>3 DEF Vanish, compilerVars, historyVars, IInv, Types
  <2>2. /\ dir'[Output] = Absent /\ had'[Output] = had[Output] \union {Absent}
        /\ \A name \in Names : name # Output => dir'[name] = dir[name]
    BY <1>3, VanishOnEntries DEF IInv
  <2>3. \A p \in Compilers : Temporary(p)' = Temporary(p) /\ dir'[Temporary(p)] = dir[Temporary(p)]
    BY <2>1, <2>2, NamesDiffer DEF Temporary
  <2>4. TemporaryIsMine'
    BY <2>1, <2>3 DEF SharedInv, TemporaryIsMine
  <2>5. Replaced' = Replaced /\ OnceOutput' = OnceOutput \union {Absent}
    BY <2>1 DEF Replaced, OnceOutput
  <2>6. OutputStands'
    BY <2>1, <2>2, <2>5 DEF SharedInv, OutputStands
  <2>. QED BY <2>1, <2>4, <2>6 DEF SharedInv, AtMostTwoShare
<1>4. CASE UNCHANGED <<dir, had, pc, nonce, result, powerFailed, vanished, first, latest>>
  BY <1>4 DEF SharedInv, AtMostTwoShare, TemporaryIsMine, Temporary, OutputStands, Replaced,
              OnceOutput, Left
<1>. QED BY <1>1, <1>2, <1>3, <1>4 DEF Next, vars, compilerVars, historyVars, OpenArtifact,
            ReadArtifact, Evaluate, PublishStdout, RunnerUnchanged

(* It holds if no three processes read the clock in the same nanosecond. *)
THEOREM SharedInvHolds == Spec /\ AtMostTwoShare => []SharedInv
<1>1. Init /\ AtMostTwoShare => SharedInv
  BY InitIsShared
<1>2. IInv /\ SharedInv /\ [Next]_vars => SharedInv'
  BY NextKeepsShared
<1>. QED BY <1>1, <1>2, IInvHolds, PTL DEF Spec

(* What the output leads to: a file that was there, or one that is synced. *)
LEMMA OutputLeads ==
  ASSUME IInv, SharedInv, Exists(dir, Output)
  PROVE  \/ InodeOf(dir, Output) \in {OldWriter, SourceText}
         \/ InodeOf(dir, Output) \in Replaced
<1>1. dir[Output] \in OnceOutput
  BY NamesDiffer DEF SharedInv, OutputStands, IInv, Types
<1>2. CASE dir[Output] \in Given
  <2>1. CASE dir[Output].kind = "file"
    <3>1. Resolve(dir, Output) = Output
      BY <2>1 DEF Resolve
    <3>. QED BY <1>2, <2>1, <3>1, EntriesDiffer DEF InodeOf
  <2>2. CASE dir[Output].kind # "file"
    <3>1. dir[Output] \in {LinkTo(Source), LinkTo(Output)}
      BY <1>2, <2>2, EntriesDiffer DEF Given, Exists, Resolve
    <3>2. Resolve(dir, Output) = Source /\ dir[Source].kind = "file"
      BY <2>2, <3>1, EntriesDiffer DEF Exists, Resolve
    <3>3. dir[Source] \in Given
      BY DEF IInv, SourceStands
    <3>. QED BY <3>2, <3>3, EntriesDiffer DEF InodeOf
  <2>. QED BY <2>1, <2>2
<1>3. CASE \E p \in Replaced : dir[Output] = FileOf(p)
  <2>1. PICK p \in Replaced : dir[Output] = FileOf(p)
    BY <1>3
  <2>2. Resolve(dir, Output) = Output
    BY <2>1, EntriesDiffer DEF Resolve
  <2>. QED BY <2>1, <2>2, EntriesDiffer DEF InodeOf
<1>. QED BY <1>1, <1>2, <1>3, EntriesDiffer DEF SharedInv, OutputStands, OnceOutput

(* Whoever opens the output, after whatever crash or loss of power, finds  *)
(* it whole.                                                               *)
THEOREM OutputIsAlwaysWhole == Spec /\ AtMostTwoShare => []OutputIsWhole
<1>1. ASSUME IInv, SharedInv, Exists(dir, Output)
      PROVE  \E w \in Inodes : ContentOf(Output) = WholeOf(w)
  <2>1. CASE InodeOf(dir, Output) \in {OldWriter, SourceText}
    BY <1>1, <2>1 DEF IInv, ContentOf, Inodes
  <2>2. CASE InodeOf(dir, Output) \in Replaced
    <3>1. PICK p \in Replaced : InodeOf(dir, Output) = p
      BY <2>2
    <3>2. data[p].content = WholeOf(p) /\ p \in Inodes
      BY <1>1 DEF IInv, Progress, IsSynced, Replaced, Inodes
    <3>. QED BY <3>1, <3>2 DEF ContentOf
  <2>. QED BY <1>1, <2>1, <2>2, OutputLeads
<1>. QED BY <1>1, IInvHolds, SharedInvHolds, PTL DEF OutputIsWhole

(* A failure left the output alone, a success replaced it, and what is     *)
(* there is what the last to replace it left; after a loss of power it is  *)
(* something that was there at some time.                                  *)
THEOREM OutputAlwaysTellsOutcome == Spec /\ AtMostTwoShare => []OutputTellsOutcome
<1>1. ASSUME IInv, SharedInv PROVE OutputTellsOutcome
  <2>1. /\ OutputStands /\ dir[Output] \in had[Output]
        /\ \A p \in Compilers : Progress(p)
    BY <1>1, NamesDiffer DEF SharedInv, IInv, Types
  <2>2. ASSUME NEW p \in Compilers
        PROVE  /\ outcome[p] = "Failure" => p \notin Replaced
               /\ outcome[p] = "Success" => p \in Replaced /\ latest \in Replaced
    <3>1. outcome[p] = "Success" => p \in Replaced
      BY <2>1 DEF Progress, Replaced
    <3>2. outcome[p] = "Failure" => p \notin Replaced
      BY <2>1 DEF Progress, Replaced
    <3>. QED BY <2>1, <3>1, <3>2 DEF OutputStands
  <2>. QED BY <2>1, <2>2 DEF OutputTellsOutcome, OutputStands
<1>. QED BY <1>1, IInvHolds, SharedInvHolds, PTL

(* The clock that tells all processes apart is more than is needed.        *)
THEOREM DistinctTimesSuffice ==
  TimesDiffer => (Spec => [](OutputIsWhole /\ OutputTellsOutcome))
<1>1. TimesDiffer /\ Init => AtMostTwoShare
  BY DEF Init, AtMostTwoShare
<1>. QED BY <1>1, OutputIsAlwaysWhole, OutputAlwaysTellsOutcome, PTL DEF Spec

-----------------------------------------------------------------------------
(* run-ir, and what it publishes.                                          *)

Reports == {"None", "Refused", "WriteFailed", "FlushFailed", "Success"}

Runners == [pc : {"Open", "Read", "Evaluate", "Publish", "Done"}, inode : Inodes,
            bytes : Seq(Part), accepted : 0..OutputLength, report : Reports]

RunnerStands ==
  /\ runner \in Runners
  /\ device = runner.accepted
  /\ runner.pc \in {"Open", "Read", "Evaluate"} => device = 0
  /\ runner.pc = "Publish" \/ device > 0 => Decodes(runner.bytes)
  /\ runner.pc # "Done" => runner.report = "None"
  /\ runner.report = "Success" => device = OutputLength
  /\ runner.report = "Refused" => device = 0

(* At first the runner has accepted and reported nothing.                *)
LEMMA InitRunner == Init => RunnerStands
<1> SUFFICES ASSUME Init PROVE RunnerStands
  OBVIOUS
<1>1. runner = [pc |-> "Open", inode |-> OldWriter, bytes |-> <<>>,
                accepted |-> 0, report |-> "None"] /\ device = 0
  BY DEF Init
<1>2. <<>> \in Seq(Part) /\ OldWriter \in Inodes /\ 0 \in 0..OutputLength /\ "None" \in Reports
  BY CommandLineAssumption DEF Inodes, Reports
<1>. QED BY <1>1, <1>2 DEF RunnerStands, Runners

(* What the output leads to is an inode, whoever wrote it.                 *)
LEMMA OutputIsInode ==
  ASSUME Types, Exists(dir, Output), dir[Source] \in Given
  PROVE  InodeOf(dir, Output) \in Inodes
<1>1. \A e \in Entry : e.kind = "file" => e.to \in Inodes
  BY EntriesDiffer DEF Entry, Inodes
<1>2. \A e \in Entry : e.kind = "link" => e \in {LinkTo(Source), LinkTo(Output)}
  BY EntriesDiffer DEF Entry, Given
<1>3. dir[Output] \in Entry /\ dir[Source] \in Entry
  BY NamesDiffer DEF Types
<1>4. Resolve(dir, Output) \in {Source, Output} /\ dir[Resolve(dir, Output)].kind = "file"
  BY <1>2, <1>3, EntriesDiffer, NamesDiffer DEF Exists, Resolve
<1>. QED BY <1>1, <1>3, <1>4 DEF InodeOf

(* What the runner has reported stays true of what it read and wrote.    *)
LEMMA NextRunner ==
  ASSUME IInv, RunnerStands, [Next]_vars
  PROVE  RunnerStands'
<1>1. /\ runner \in Runners /\ OutputLength \in Nat /\ runner.accepted \in 0..OutputLength
      /\ runner.bytes \in Seq(Part) /\ runner.inode \in Inodes
      /\ data \in [Inodes -> [content : Seq(Part), synced : BOOLEAN]]
  BY CommandLineAssumption DEF RunnerStands, Runners, IInv, Types
<1>2. ASSUME NEW b PROVE Decodes(b)' <=> Decodes(b)
  BY DEF Decodes
<1>3. CASE RunnerFails /\ runner.pc \in {"Open", "Read", "Evaluate"}
  BY <1>1, <1>3 DEF RunnerFails, RunnerStands, Reports, Runners
<1>4. CASE OpenArtifact
  <2>1. CASE /\ Exists(dir, Output)
             /\ runner' = [runner EXCEPT !.pc = "Read", !.inode = InodeOf(dir, Output)]
             /\ device' = device
    <3>1. InodeOf(dir, Output) \in Inodes
      BY <2>1, OutputIsInode DEF IInv, SourceStands
    <3>. QED BY <1>1, <1>4, <2>1, <3>1 DEF RunnerStands, Runners, OpenArtifact
  <2>. QED BY <1>3, <1>4, <2>1 DEF OpenArtifact
<1>5. CASE ReadArtifact
  <2> DEFINE from == Len(runner.bytes) + 1
             content == data[runner.inode].content
  <2>1. CASE \E to \in from..Len(content) :
                runner' = [runner EXCEPT !.bytes = @ \o SubSeq(content, from, to)]
                /\ device' = device
    <3>1. PICK to \in from..Len(content) :
                runner' = [runner EXCEPT !.bytes = @ \o SubSeq(content, from, to)]
                /\ device' = device
      BY <2>1
    <3>2. SubSeq(content, from, to) \in Seq(Part)
      <4>1. content \in Seq(Part) /\ Len(content) \in Nat /\ Len(runner.bytes) \in Nat
        BY <1>1
      <4>2. from \in Int /\ to \in Int /\ \A i \in from..to : content[i] \in Part
        BY <4>1, ElementOfSeq
      <4> HIDE DEF from, content
      <4>. QED BY <4>2, SubSeqProperties
    <3> DEFINE more == runner.bytes \o SubSeq(content, from, to)
    <3>3. more \in Seq(Part)
      BY <1>1, <3>2, ConcatProperties
    <3>4. runner' = [runner EXCEPT !.bytes = more]
      BY <3>1
    <3> HIDE DEF more, from, content
    <3>5. runner.pc = "Read"
      BY <1>5 DEF ReadArtifact
    <3>6. /\ runner' \in Runners /\ runner'.pc = "Read" /\ device' = device
          /\ runner'.accepted = runner.accepted /\ runner'.report = runner.report
      BY <1>1, <3>1, <3>3, <3>4, <3>5 DEF Runners
    <3>. QED BY <3>5, <3>6 DEF RunnerStands
  <2>2. CASE runner' = [runner EXCEPT !.pc = "Evaluate"] /\ device' = device
    BY <1>1, <1>5, <2>2 DEF RunnerStands, Runners, ReadArtifact
  <2>. QED BY <1>3, <1>5, <2>1, <2>2 DEF ReadArtifact
<1>6. CASE Evaluate
  <2>1. CASE /\ Decodes(runner.bytes) /\ device' = device
             /\ runner' = [runner EXCEPT !.pc = "Publish"]
    <3>1. runner'.bytes = runner.bytes /\ Decodes(runner'.bytes)
      BY <1>1, <2>1 DEF Runners
    <3>. QED BY <1>1, <1>2, <1>6, <2>1, <3>1 DEF RunnerStands, Runners, Evaluate
  <2>. QED BY <1>3, <1>6, <2>1 DEF Evaluate
<1>7. CASE PublishStdout
  <2>1. Decodes(runner.bytes) /\ runner.report = "None" /\ runner.pc = "Publish"
    BY <1>7 DEF PublishStdout, RunnerStands
  <2>2. CASE \E count \in 1..(OutputLength - runner.accepted) :
                  /\ device' = device + count
                  /\ runner' = [runner EXCEPT !.accepted = @ + count]
    <3>1. PICK count \in 1..(OutputLength - runner.accepted) :
                  /\ device' = device + count
                  /\ runner' = [runner EXCEPT !.accepted = @ + count]
      BY <2>2
    <3>2. runner.accepted + count \in 0..OutputLength
      BY <1>1
    <3>3. runner'.bytes = runner.bytes /\ Decodes(runner'.bytes)
      BY <1>1, <2>1, <3>1 DEF Runners
    <3>. QED BY <1>1, <1>2, <2>1, <3>1, <3>2, <3>3 DEF RunnerStands, Runners
  <2>3. CASE /\ device' = device
             /\ runner' = [runner EXCEPT !.pc = "Done", !.report = "WriteFailed"]
    <3>1. runner'.bytes = runner.bytes /\ Decodes(runner'.bytes)
      BY <1>1, <2>1, <2>3 DEF Runners
    <3>. QED BY <1>1, <1>2, <2>1, <2>3, <3>1 DEF RunnerStands, Runners, Reports
  <2>4. CASE /\ runner.accepted = OutputLength /\ device' = device
             /\ \E report \in {"Success", "FlushFailed"} :
                  runner' = [runner EXCEPT !.pc = "Done", !.report = report]
    <3>1. runner'.bytes = runner.bytes /\ Decodes(runner'.bytes)
      BY <1>1, <2>1, <2>4 DEF Runners
    <3>. QED BY <1>1, <1>2, <2>1, <2>4, <3>1 DEF RunnerStands, Runners, Reports
  <2>. QED BY <1>7, <2>2, <2>3, <2>4 DEF PublishStdout
<1>8. CASE PowerFails
  <2> DEFINE kept == IF device = 0 THEN <<>> ELSE runner.bytes
  <2>1. /\ runner' = [runner EXCEPT !.pc = "Done", !.inode = OldWriter, !.bytes = kept]
        /\ device' = device
    BY <1>8 DEF PowerFails
  <2>2. kept \in Seq(Part) /\ (device > 0 => kept = runner.bytes) /\ OldWriter \in Inodes
    BY <1>1, EmptySeq DEF Inodes, RunnerStands
  <2> HIDE DEF kept
  <2>3. /\ runner' \in Runners /\ runner'.pc = "Done" /\ runner'.bytes = kept
        /\ runner'.accepted = runner.accepted /\ runner'.report = runner.report
    BY <1>1, <2>1, <2>2 DEF Runners
  <2>4. device > 0 => Decodes(kept)
    BY <2>2 DEF RunnerStands
  <2>5. /\ device' = device /\ device = runner'.accepted
        /\ runner'.report = "Success" => device = OutputLength
        /\ runner'.report = "Refused" => device = 0
    BY <2>1, <2>3 DEF RunnerStands
  <2>6. (Decodes(runner.bytes))' <=> Decodes(kept)
    BY <2>3 DEF Decodes
  <2>. QED BY <2>3, <2>4, <2>5, <2>6 DEF RunnerStands
<1>9. CASE UNCHANGED <<runner, device>>
  <2>1. Decodes(runner.bytes)' <=> Decodes(runner.bytes)
    BY <1>9 DEF Decodes
  <2>. QED BY <1>9, <2>1 DEF RunnerStands
<1>10. ASSUME NEW p \in Compilers, Step(p) \/ Crash(p) PROVE UNCHANGED <<runner, device>>
  BY <1>10 DEF Step, Crash, Compile, Create, Write, Sync, Look, Publish, Remove, runnerVars
<1>. QED BY <1>4, <1>5, <1>6, <1>7, <1>8, <1>9, <1>10 DEF Next, vars, runnerVars, Vanish

(* What run-ir publishes is of a whole artifact, and counted as accepted.  *)
THEOREM RunnerAlwaysReportsTruth == Spec => []RunnerReportsTruth
<1>1. Init => RunnerStands
  BY InitRunner
<1>2. IInv /\ RunnerStands /\ [Next]_vars => RunnerStands'
  BY NextRunner
<1>3. RunnerStands => RunnerReportsTruth
  BY DEF RunnerStands, RunnerReportsTruth, Decodes
<1>. QED BY <1>1, <1>2, <1>3, IInvHolds, PTL DEF Spec
=============================================================================

-------------------------- MODULE FwirDecoderProofs --------------------------
(***************************************************************************)
(* The sections a reader goes on with tile the artifact, whatever the      *)
(* directory claims and however far the reader comes.  The invariant       *)
(* follows the cursor of preflight through the directory: the entries read *)
(* so far ascend, each begins where the one before ends, and the cursor    *)
(* stands behind the last of them.                                         *)
(***************************************************************************)
EXTENDS FwirDecoder, NumberInduction

(* A sum that does not pass usize::MAX does not wrap.                      *)
LEMMA NoWrap ==
  ASSUME NEW m \in Nat, NEW n \in 0..m
  PROVE  n % (m + 1) = n
OBVIOUS

Entries == Len(artifact.directory)
EndOf(e) == e.offset + e.length

(* What is known of the first m entries when they have been accepted.      *)
PrefixTiles(m) ==
  /\ cursor = BehindEntry(m)
  /\ cursor \in DirectoryEnd(Entries) .. artifact.bytes
  /\ \A k \in 1 .. m :
       /\ artifact.directory[k].offset = BehindEntry(k - 1)
       /\ artifact.directory[k].offset >= DirectoryEnd(Entries)
       /\ EndOf(artifact.directory[k]) <= cursor
  /\ \A j, k \in 1 .. m :
       j < k => /\ artifact.directory[j].id < artifact.directory[k].id
                /\ EndOf(artifact.directory[j]) <= artifact.directory[k].offset
  /\ sections \subseteq {artifact.directory[k] : k \in 1 .. m}

SectionsLieWell ==
  /\ \A e \in sections : e.offset >= DirectoryEnd(Entries) /\ EndOf(e) <= artifact.bytes
  /\ \A e, f \in sections : e.id < f.id => EndOf(e) <= f.offset

BehindDirectory == {"strings", "totals", "records", "use", "reserve"}

IInv ==
  /\ case \in Cases
  /\ stage \notin {"encode", "done"} => IsArtifact(artifact)
  /\ stage = "carry" => artifact = Encoded(case.program, case.producer)
  /\ stage \in {"encode", "carry", "header"} => sections = {} /\ next = 1
  /\ stage = "entry" => next \in 1 .. Entries + 1 /\ PrefixTiles(next - 1)
  /\ stage \in BehindDirectory => PrefixTiles(Entries) /\ cursor = artifact.bytes
  /\ stage = "done" => SectionsLieWell
  /\ stage \in {"encode", "carry", "header", "entry", "done"} \union BehindDirectory

(***************************************************************************)
(* The directory, entry by entry.                                          *)
(***************************************************************************)
(* The entries of a directory hold numbers.                                *)
LEMMA EntryHoldsNumbers ==
  ASSUME IsArtifact(artifact), NEW k \in 1 .. Entries
  PROVE  /\ artifact.directory[k] \in DirectoryEntry
         /\ artifact.directory[k].id \in Nat
         /\ artifact.directory[k].offset \in Nat
         /\ artifact.directory[k].length \in Nat
<1>1. artifact.directory[k] \in DirectoryEntry
  BY DEF IsArtifact, Entries
<1> QED
  BY <1>1 DEF DirectoryEntry

(* Accepted sections are accepted entries, and those lie well.             *)
LEMMA PrefixLiesWell ==
  ASSUME IsArtifact(artifact), NEW m \in 0 .. Entries, PrefixTiles(m)
  PROVE  SectionsLieWell
<1>1. artifact.bytes \in Nat /\ Entries \in Nat /\ DirectoryEnd(Entries) \in Nat
  BY DEF IsArtifact, DirectoryEnd, HeaderSize, EntrySize, Entries
<1>2. cursor \in Int /\ cursor <= artifact.bytes
  BY <1>1 DEF PrefixTiles
<1>3. ASSUME NEW e \in sections
      PROVE  e.offset >= DirectoryEnd(Entries) /\ EndOf(e) <= artifact.bytes
  <2>1. PICK k \in 1 .. m : e = artifact.directory[k]
    BY DEF PrefixTiles
  <2>2. e.offset \in Nat /\ e.length \in Nat
    BY <2>1, <1>1, EntryHoldsNumbers
  <2>3. e.offset >= DirectoryEnd(Entries) /\ EndOf(e) <= cursor
    BY <2>1 DEF PrefixTiles
  <2> QED
    BY <2>2, <2>3, <1>1, <1>2 DEF EndOf
<1>4. ASSUME NEW e \in sections, NEW f \in sections, e.id < f.id
      PROVE  EndOf(e) <= f.offset
  <2>1. PICK j \in 1 .. m : e = artifact.directory[j]
    BY DEF PrefixTiles
  <2>2. PICK k \in 1 .. m : f = artifact.directory[k]
    BY DEF PrefixTiles
  <2>3. e.id \in Nat /\ f.id \in Nat
    BY <2>1, <2>2, <1>1, EntryHoldsNumbers
  <2>4. \A i, n \in 1 .. m :
          i < n => /\ artifact.directory[i].id < artifact.directory[n].id
                   /\ EndOf(artifact.directory[i]) <= artifact.directory[n].offset
    BY DEF PrefixTiles
  <2>5. ~(k < j)
    <3>1. CASE k < j
      BY <3>1, <2>1, <2>2, <2>3, <2>4, <1>4
    <3> QED
      BY <3>1
  <2>6. j # k
    BY <2>1, <2>2, <2>3, <1>4
  <2>7. j < k
    BY <2>5, <2>6
  <2> QED
    BY <2>1, <2>2, <2>4, <2>7
<1> QED
  BY <1>3, <1>4 DEF SectionsLieWell

(* Before anything is accepted, the cursor stands behind the directory.    *)
LEMMA DirectoryEndIsStart ==
  ASSUME NEW a, IsArtifact(a), DirectoryEnd(Len(a.directory)) <= a.bytes
  PROVE  DirectoryEnd(Len(a.directory)) \in DirectoryEnd(Len(a.directory)) .. a.bytes
BY DEF IsArtifact, DirectoryEnd, HeaderSize, EntrySize

(* An accepted entry leaves the cursor where its payload ends.             *)
LEMMA AcceptedEntryTiles ==
  ASSUME IsArtifact(artifact), NEW n \in 1 .. Entries, next = n, PrefixTiles(n - 1),
         WellPlaced(artifact.directory[n]),
         cursor' = PayloadEnd(artifact.directory[n]),
         sections' \subseteq sections \union {artifact.directory[n]},
         UNCHANGED artifact
  PROVE  PrefixTiles(n)'
<1> DEFINE dir == artifact.directory
           start == DirectoryEnd(Entries)
           bytes == artifact.bytes
<1>1. bytes \in Nat /\ Entries \in Nat /\ start \in Nat
  BY DEF IsArtifact, DirectoryEnd, HeaderSize, EntrySize, Entries
<1>2. \A k \in 1 .. n : dir[k].id \in Nat /\ dir[k].offset \in Nat /\ dir[k].length \in Nat
  BY <1>1, EntryHoldsNumbers
<1>3. cursor \in start .. bytes
  BY DEF PrefixTiles
<1>4. dir[n].offset = cursor /\ EndOf(dir[n]) <= bytes
  BY DEF WellPlaced, PayloadFits, EndOf
<1>5. cursor' = EndOf(dir[n])
  <2>1. EndOf(dir[n]) \in 0 .. MaxUsize
    BY <1>2, UsizeAssumption DEF WellPlaced, PayloadFits, EndOf
  <2> QED
    BY <2>1, NoWrap, UsizeAssumption DEF PayloadEnd, EndOf
<1>6. \A j \in 1 .. n - 1 : dir[j].id < dir[n].id
  <2>1. n # 1 => dir[n - 1].id < dir[n].id
    BY <1>2 DEF WellPlaced, PreviousId
  <2>2. \A j \in 1 .. n - 1 : j < n - 1 => dir[j].id < dir[n - 1].id
    BY DEF PrefixTiles
  <2> QED
    BY <1>2, <2>1, <2>2
<1>7. \A j \in 1 .. n - 1 : EndOf(dir[j]) <= cursor
  BY DEF PrefixTiles
<1>8. cursor' \in start .. bytes /\ cursor <= cursor'
  BY <1>1, <1>2, <1>3, <1>4, <1>5 DEF EndOf
<1>9. cursor = BehindEntry(n - 1) /\ cursor' = BehindEntry(n)
  BY <1>5 DEF PrefixTiles, BehindEntry, EndOf
<1>10. \A k \in 1 .. n :
         dir[k].offset = BehindEntry(k - 1) /\ dir[k].offset >= start /\ EndOf(dir[k]) <= cursor'
  <2>1. \A k \in 1 .. n - 1 :
          dir[k].offset = BehindEntry(k - 1) /\ dir[k].offset >= start /\ EndOf(dir[k]) <= cursor
    BY DEF PrefixTiles
  <2>2. \A k \in 1 .. n : EndOf(dir[k]) \in Nat
    BY <1>2 DEF EndOf
  <2>3. dir[n].offset = BehindEntry(n - 1) /\ dir[n].offset >= start /\ EndOf(dir[n]) <= cursor'
    <3>1. EndOf(dir[n]) \in Nat
      BY <1>1, <2>2
    <3>2. EndOf(dir[n]) <= cursor'
      BY <3>1, <1>5
    <3>3. dir[n].offset = BehindEntry(n - 1)
      BY <1>4, <1>9
    <3> QED
      BY <3>2, <3>3, <1>1, <1>3, <1>4
  <2>4. ASSUME NEW k \in 1 .. n
        PROVE  dir[k].offset = BehindEntry(k - 1) /\ dir[k].offset >= start /\ EndOf(dir[k]) <= cursor'
    <3>1. CASE k = n
      BY <3>1, <2>3
    <3>2. CASE k # n
      <4>1. k \in 1 .. n - 1
        BY <3>2
      <4>2. EndOf(dir[k]) <= cursor
        BY <4>1, <2>1
      <4>3. EndOf(dir[k]) <= cursor'
        BY <4>2, <2>2, <1>1, <1>3, <1>8
      <4> QED
        BY <4>1, <4>3, <2>1
    <3> QED
      BY <3>1, <3>2
  <2> QED
    BY <2>4
<1>11. \A j, k \in 1 .. n : j < k => dir[j].id < dir[k].id /\ EndOf(dir[j]) <= dir[k].offset
  <2>1. \A j, k \in 1 .. n - 1 :
          j < k => dir[j].id < dir[k].id /\ EndOf(dir[j]) <= dir[k].offset
    BY DEF PrefixTiles
  <2>2. ASSUME NEW j \in 1 .. n, NEW k \in 1 .. n, j < k
        PROVE  dir[j].id < dir[k].id /\ EndOf(dir[j]) <= dir[k].offset
    <3>1. j \in 1 .. n - 1
      BY <2>2
    <3>2. CASE k = n
      BY <3>1, <3>2, <1>4, <1>6, <1>7
    <3>3. CASE k # n
      BY <3>1, <3>3, <2>1, <2>2
    <3> QED
      BY <3>2, <3>3
  <2> QED
    BY <2>2
<1>12. sections' \subseteq {dir[k] : k \in 1 .. n}
  <2>1. sections \subseteq {dir[k] : k \in 1 .. n - 1}
    BY DEF PrefixTiles
  <2> QED
    BY <2>1
<1> QED
  BY <1>8, <1>9, <1>10, <1>11, <1>12 DEF PrefixTiles, Entries, BehindEntry

(***************************************************************************)
(* Every step.                                                             *)
(***************************************************************************)
(* A reader that gives up, or is done, keeps what it had accepted.         *)
LEMMA EndKeeps ==
  ASSUME NEW r, End(r), case \in Cases, SectionsLieWell
  PROVE  IInv'
BY DEF End, IInv, SectionsLieWell, BehindDirectory, Entries, EndOf

(* At every stage the accepted sections lie well.                          *)
LEMMA AlwaysLieWell ==
  ASSUME IInv
  PROVE  SectionsLieWell
<1>1. CASE stage \in {"encode", "carry", "header"}
  BY <1>1 DEF IInv, SectionsLieWell
<1>2. CASE stage = "entry"
  <2>1. IsArtifact(artifact) /\ PrefixTiles(next - 1) /\ next \in 1 .. Entries + 1
    BY <1>2 DEF IInv
  <2>2. next - 1 \in 0 .. Entries
    BY <2>1 DEF IsArtifact, Entries
  <2> QED
    BY <2>1, <2>2, PrefixLiesWell
<1>3. CASE stage \in BehindDirectory
  <2>1. IsArtifact(artifact) /\ PrefixTiles(Entries)
    BY <1>3 DEF IInv, BehindDirectory
  <2>2. Entries \in 0 .. Entries
    BY <2>1 DEF IsArtifact, Entries
  <2> QED
    BY <2>1, <2>2, PrefixLiesWell
<1>4. CASE stage = "done"
  BY <1>4 DEF IInv
<1> QED
  BY <1>1, <1>2, <1>3, <1>4 DEF IInv
(* A step that only moves on within the records keeps what is known.       *)
LEMMA MovingOnKeeps ==
  ASSUME IInv, stage \in BehindDirectory, stage' \in BehindDirectory,
         UNCHANGED <<case, artifact, cursor, sections>>
  PROVE  IInv'
BY DEF IInv, BehindDirectory, PrefixTiles, BehindEntry, Entries, EndOf, IsArtifact

(* The initial states.                                                     *)
LEMMA InitTiles == Init => IInv
BY DEF Init, IInv, BehindDirectory

(* Every step of the writer, the carrier and the reader keeps IInv.        *)
LEMMA NextTiles ==
  ASSUME IInv, Next
  PROVE  IInv'
<1>0. case \in Cases /\ SectionsLieWell
  BY AlwaysLieWell DEF IInv
<1>1. CASE Encode
  <2>1. CASE \E r : End(r)
    BY <2>1, <1>0, EndKeeps
  <2>2. CASE /\ artifact' = Encoded(case.program, case.producer)
             /\ stage' = "carry"
             /\ UNCHANGED <<case, edited, next, cursor, sections, reserved, outcome>>
    <3>1. IsArtifact(artifact')
      BY <2>2, <1>0, ArtifactsAssumption
    <3>2. sections = {} /\ next = 1
      BY <1>1 DEF Encode, IInv
    <3> QED
      BY <2>2, <3>1, <3>2, <1>0 DEF IInv, BehindDirectory, IsArtifact
  <2> QED
    BY <1>1, <2>1, <2>2 DEF Encode, Checked
<1>2. CASE Carry
  <2>1. artifact = Encoded(case.program, case.producer)
    BY <1>2 DEF Carry, IInv
  <2>2. artifact' = artifact \/ artifact' \in Edits(case, artifact)
    BY <1>2 DEF Carry
  <2>3. IsArtifact(artifact')
    BY <2>1, <2>2, <1>0, ArtifactsAssumption
  <2>4. sections = {} /\ next = 1
    BY <1>2 DEF Carry, IInv
  <2>5. stage' = "header" /\ UNCHANGED <<case, next, sections>>
    BY <1>2 DEF Carry
  <2> QED
    BY <2>3, <2>4, <2>5, <1>0 DEF IInv, BehindDirectory, IsArtifact
<1>3. CASE Header
  <2>1. CASE \E r : End(r)
    BY <2>1, <1>0, EndKeeps
  <2>2. CASE /\ DirectoryEnd(Len(artifact.directory)) <= artifact.bytes
             /\ cursor' = DirectoryEnd(Len(artifact.directory))
             /\ stage' = "entry"
             /\ UNCHANGED <<case, artifact, edited, next, sections, reserved, outcome>>
    <3>1. IsArtifact(artifact) /\ sections = {} /\ next = 1
      BY <1>3 DEF Header, IInv
    <3>2. next' - 1 = 0 /\ next' \in 1 .. Entries' + 1
      BY <2>2, <3>1 DEF IsArtifact, Entries
    <3>3. cursor' \in DirectoryEnd(Entries') .. artifact'.bytes
      BY <2>2, <3>1, DirectoryEndIsStart DEF Entries
    <3>4. PrefixTiles(0)'
      BY <2>2, <3>1, <3>3 DEF PrefixTiles, BehindEntry, Entries
    <3> QED
      BY <2>2, <3>1, <3>2, <3>4, <1>0 DEF IInv, BehindDirectory, IsArtifact, PrefixTiles, BehindEntry, Entries, EndOf
  <2> DEFINE count == Len(artifact.directory)
             checks == <<Fails(artifact.bytes > limits.artifact, Beyond("ArtifactBytes")),
                         Fails(artifact.bytes < HeaderSize \/ artifact.major # 1, Rejected),
                         Fails(count > limits.sections, Beyond("Sections")),
                         Fails(DirectoryEnd(count) > artifact.bytes, Rejected)>>
  <2>3. ASSUME ~checks[4].fails
        PROVE  DirectoryEnd(count) <= artifact.bytes
    <3>1. ~(DirectoryEnd(count) > artifact.bytes)
      BY <2>3 DEF Fails
    <3> QED
      BY <3>1, <1>3 DEF Header, IInv, IsArtifact, DirectoryEnd, HeaderSize, EntrySize
  <2>4. 4 \in DOMAIN checks
    OBVIOUS
  <2>5. \/ \E r : End(r)
        \/ /\ ~checks[4].fails
           /\ cursor' = DirectoryEnd(count)
           /\ stage' = "entry"
           /\ UNCHANGED <<case, artifact, edited, next, sections, reserved, outcome>>
    BY <1>3, <2>4, Zenon DEF Header, Checked
  <2> QED
    BY <2>1, <2>2, <2>3, <2>5
<1>4. CASE Entry
  <2> DEFINE e == artifact.directory[next]
  <2>1. CASE \E r : End(r)
    BY <2>1, <1>0, EndKeeps
  <2>2. CASE /\ WellPlaced(e)
             /\ cursor' = PayloadEnd(e)
             /\ next' = next + 1
             /\ sections' = IF IsKnown(e) THEN sections \union {e} ELSE sections
             /\ UNCHANGED <<case, artifact, edited, stage, reserved, outcome>>
    <3>1. /\ IsArtifact(artifact) /\ PrefixTiles(next - 1) /\ next \in 1 .. Entries + 1
          /\ next <= Entries /\ stage = "entry" /\ Entries \in Nat
      BY <1>4 DEF Entry, IInv, IsArtifact, Entries
    <3>2. PICK n \in 1 .. Entries : n = next
      BY <3>1
    <3>3. PrefixTiles(n)'
      BY <2>2, <3>1, <3>2, AcceptedEntryTiles
    <3>4. next' - 1 = n /\ next' \in 1 .. Entries' + 1
      BY <2>2, <3>1, <3>2 DEF Entries
    <3> QED
      BY <2>2, <3>1, <3>3, <3>4, <1>0 DEF IInv, BehindDirectory, IsArtifact, PrefixTiles
  <2> DEFINE checks == <<Fails(~WellPlaced(e), Rejected),
                         Fails(IsKnown(e) /\ ~WellFormed(e), Rejected),
                         Fails(~IsKnown(e) /\ ~Skippable(e), Rejected),
                         Fails(IsKnown(e) /\ RecordCount(e) > limits.records,
                               Beyond("RecordsPerSection"))>>
  <2>3. ASSUME ~checks[1].fails
        PROVE  WellPlaced(e)
    BY <2>3 DEF Fails
  <2>4. 1 \in DOMAIN checks
    OBVIOUS
  <2>5. \/ \E r : End(r)
        \/ /\ ~checks[1].fails
           /\ cursor' = PayloadEnd(e)
           /\ next' = next + 1
           /\ sections' = IF IsKnown(e) THEN sections \union {e} ELSE sections
           /\ UNCHANGED <<case, artifact, edited, stage, reserved, outcome>>
    BY <1>4, <2>4, Zenon DEF Entry, Checked
  <2> QED
    BY <2>1, <2>2, <2>3, <2>5
<1>5. CASE CloseDirectory
  <2>1. CASE \E r : End(r)
    BY <2>1, <1>0, EndKeeps
  <2>2. CASE /\ cursor = artifact.bytes
             /\ stage' = "strings"
             /\ next' = 1
             /\ UNCHANGED <<case, artifact, edited, cursor, sections, reserved, outcome>>
    <3>1. /\ IsArtifact(artifact) /\ PrefixTiles(next - 1) /\ next \in 1 .. Entries + 1
          /\ next > Entries /\ Entries \in Nat
      BY <1>5 DEF CloseDirectory, IInv, IsArtifact, Entries
    <3>2. next - 1 = Entries
      BY <3>1
    <3>3. PrefixTiles(Entries)
      BY <3>1, <3>2
    <3> QED
      BY <2>2, <3>1, <3>3, <1>0 DEF IInv, BehindDirectory, IsArtifact, PrefixTiles, BehindEntry, Entries, EndOf
  <2> DEFINE checks == <<Fails(cursor # artifact.bytes, Rejected),
                         Fails(~HasSection(artifact, 1), Rejected)>>
  <2>3. ASSUME ~checks[1].fails
        PROVE  cursor = artifact.bytes
    BY <2>3 DEF Fails
  <2>4. 1 \in DOMAIN checks
    OBVIOUS
  <2>5. \/ \E r : End(r)
        \/ /\ ~checks[1].fails
           /\ stage' = "strings"
           /\ next' = 1
           /\ UNCHANGED <<case, artifact, edited, cursor, sections, reserved, outcome>>
    BY <1>5, <2>4, Zenon DEF CloseDirectory, Checked
  <2> QED
    BY <2>1, <2>2, <2>3, <2>5
<1>6. CASE Strings \/ Totals \/ RecordsStep \/ StringUse \/ Reserve \/ Rebuild
  <2>1. CASE \E r : End(r)
    BY <2>1, <1>0, EndKeeps
  <2>2. CASE \E following \in BehindDirectory : Goto(following)
    BY <2>2, <1>6, MovingOnKeeps
       DEF Goto, BehindDirectory, Strings, Totals, RecordsStep, StringUse, Reserve, Rebuild
  <2>3. CASE stage = "reserve" /\ UNCHANGED <<case, artifact, stage, cursor, sections>>
    BY <2>3, MovingOnKeeps DEF BehindDirectory
  <2>4. CASE Strings
    BY <2>4, <2>1, <2>2 DEF Strings, Checked, BehindDirectory
  <2>5. CASE Totals
    BY <2>5, <2>1, <2>2 DEF Totals, Checked, BehindDirectory
  <2>6. CASE RecordsStep
    BY <2>6, <2>1, <2>2 DEF RecordsStep, Checked, BehindDirectory
  <2>7. CASE StringUse
    BY <2>7, <2>1, <2>2 DEF StringUse, Checked, BehindDirectory
  <2>8. CASE Reserve
    BY <2>8, <2>1, <2>3 DEF Reserve, Checked
  <2>9. CASE Rebuild
    BY <2>9, <2>1 DEF Rebuild, Checked
  <2> QED
    BY <1>6, <2>4, <2>5, <2>6, <2>7, <2>8, <2>9
<1> QED
  BY <1>1, <1>2, <1>3, <1>4, <1>5, <1>6 DEF Next

(* Stuttering changes nothing IInv speaks of.                              *)
LEMMA StutterTiles ==
  ASSUME IInv, UNCHANGED vars
  PROVE  IInv'
BY DEF IInv, vars, BehindDirectory, PrefixTiles, BehindEntry, Entries, EndOf, IsArtifact,
       SectionsLieWell

(* The invariant holds in every behaviour.                                 *)
THEOREM IInvHolds == Spec => []IInv
<1>1. IInv /\ [Next]_vars => IInv'
  BY NextTiles, StutterTiles
<1> QED
  BY InitTiles, <1>1, PTL DEF Spec

(* Whatever bytes arrive as a directory: the payloads the reader goes on   *)
(* with lie behind it, inside the artifact and one behind the other, and   *)
(* when the directory is read no byte is left over.                        *)
THEOREM SectionsAlwaysTile == Spec => []SectionsTile
<1>1. IInv => SectionsTile
  <2> SUFFICES ASSUME IInv PROVE SectionsTile
    OBVIOUS
  <2>1. SectionsLieWell
    BY AlwaysLieWell
  <2>2. ASSUME stage \in BehindDirectory
        PROVE  /\ \A k \in DOMAIN artifact.directory :
                    artifact.directory[k].offset = BehindEntry(k - 1)
               /\ BehindEntry(Len(artifact.directory)) = artifact.bytes
    <3>1. PrefixTiles(Entries) /\ cursor = artifact.bytes /\ IsArtifact(artifact)
      BY <2>2 DEF IInv, BehindDirectory
    <3>2. DOMAIN artifact.directory = 1 .. Entries
      BY <3>1 DEF IsArtifact, Entries
    <3> QED
      BY <3>1, <3>2 DEF PrefixTiles, Entries
  <2> QED
    BY <2>1, <2>2 DEF SectionsTile, SectionsLieWell, Entries, EndOf, BehindDirectory
<1> QED
  BY IInvHolds, <1>1, PTL

(***************************************************************************)
(* The limits, taken before anything is reserved: what the directory says  *)
(* of a section's records is what is found in it, so that the counts the   *)
(* reader keeps are those an artifact really holds.                        *)
(***************************************************************************)
(* The sections of records, and the room of one record in each.            *)
LEMMA SectionIds ==
  /\ DOMAIN RecordSize = 1 .. 18
  /\ RecordSize[3] = 0
  /\ \A id \in 1 .. 18 : RecordSize[id] \in Nat /\ (id # 3 => RecordSize[id] > 0)
BY DEF RecordSize

(* The known among the first m entries are kept, sound and within limits.  *)
PrefixCounted(m) ==
  /\ \A k \in 1 .. m :
       IsKnown(artifact.directory[k]) =>
         /\ artifact.directory[k] \in sections
         /\ WellFormed(artifact.directory[k])
         /\ RecordCount(artifact.directory[k]) <= limits.records
  /\ \A e \in sections : \E k \in 1 .. m : e = artifact.directory[k] /\ IsKnown(e)

(* The strings are sound and within limits.                                *)
StringsWithin ==
  /\ Len(StringsOf(artifact)) <= limits.records
  /\ HasSection(artifact, 3) =>
       /\ StringsOf(artifact) # <<>>
       /\ StringArea <= limits.strings
       /\ SoundStrings(StringsOf(artifact), StringArea)

(* What the whole directory, read and counted, tells of the artifact.      *)
DirectoryRead ==
  /\ case \in Cases /\ IsArtifact(artifact)
  /\ PrefixTiles(Entries) /\ cursor = artifact.bytes /\ PrefixCounted(Entries)

(* No two entries have the same id.                                        *)
LEMMA OneEntryEach ==
  ASSUME IsArtifact(artifact), PrefixTiles(Entries),
         NEW j \in 1 .. Entries, NEW k \in 1 .. Entries,
         artifact.directory[j].id = artifact.directory[k].id
  PROVE  j = k
<1>1. artifact.directory[j].id \in Nat /\ Entries \in Nat
  BY EntryHoldsNumbers DEF IsArtifact, Entries
<1>2. \A i, n \in 1 .. Entries : i < n => artifact.directory[i].id < artifact.directory[n].id
  BY DEF PrefixTiles
<1>3. ~(j < k)
  BY <1>1, <1>2
<1>4. ~(k < j)
  BY <1>1, <1>2
<1> QED
  BY <1>1, <1>3, <1>4

(* The records of an id are those its entry's section holds.               *)
LEMMA RecordsAreThere ==
  ASSUME IsArtifact(artifact), PrefixTiles(Entries), NEW k \in 1 .. Entries
  PROVE  Records(artifact, artifact.directory[k].id) = artifact.contents[k]
<1> DEFINE id == artifact.directory[k].id
           places == {j \in DOMAIN artifact.directory : artifact.directory[j].id = id}
<1>1. Entries \in Nat /\ DOMAIN artifact.directory = 1 .. Entries
  BY DEF IsArtifact, Entries
<1>2. places = {k}
  BY <1>1, OneEntryEach
<1>3. Min({k}) = k
  BY <1>1 DEF Min
<1> QED
  BY <1>2, <1>3 DEF Records

(* An id without an entry has none.                                        *)
LEMMA NoRecordsElsewhere ==
  ASSUME NEW id, ~HasSection(artifact, id)
  PROVE  Records(artifact, id) = <<>>
BY DEF HasSection, Records

(* In every section there is room for what is found.                       *)
LEMMA RoomIsThere ==
  ASSUME DirectoryRead, NEW k \in 1 .. Entries
  PROVE  HasRoomFor(artifact, artifact.directory[k], artifact.contents[k])
<1>1. Entries \in Nat /\ DOMAIN artifact.directory = 1 .. Entries
  BY DEF DirectoryRead, IsArtifact, Entries
<1>2. Tiled(artifact)
  <2>1. \A j \in 1 .. Entries : artifact.directory[j].offset = BehindEntry(j - 1)
    BY DEF DirectoryRead, PrefixTiles
  <2>2. BehindEntry(Entries) = artifact.bytes
    BY DEF DirectoryRead, PrefixTiles
  <2> QED
    BY <1>1, <2>1, <2>2 DEF Tiled, BehindEntry, Entries
<1> QED
  BY <1>1, <1>2 DEF DirectoryRead, IsArtifact

(* So the records found are as many as the directory's entry says.         *)
LEMMA CountIsCounted ==
  ASSUME DirectoryRead, NEW id \in 1 .. 18
  PROVE  /\ Len(Records(artifact, id)) \in Nat
         /\ ~HasSection(artifact, id) => Len(Records(artifact, id)) = 0
         /\ id # 3 => \A e \in sections : e.id = id => Len(Records(artifact, id)) = RecordCount(e)
<1>1. CASE ~HasSection(artifact, id)
  <2>1. Records(artifact, id) = <<>>
    BY <1>1, NoRecordsElsewhere
  <2>2. \A e \in sections : e.id # id
    <3>1. \A e \in sections : \E k \in 1 .. Entries : e = artifact.directory[k]
      BY DEF DirectoryRead, PrefixCounted
    <3>2. DOMAIN artifact.directory = 1 .. Entries
      BY DEF DirectoryRead, IsArtifact, Entries
    <3> QED
      BY <1>1, <3>1, <3>2 DEF HasSection
  <2>3. Len(<<>>) = 0
    OBVIOUS
  <2> QED
    BY <2>1, <2>2, <2>3
<1>2. CASE HasSection(artifact, id)
  <2>1. PICK k \in 1 .. Entries : artifact.directory[k].id = id
    BY <1>2 DEF HasSection, DirectoryRead, IsArtifact, Entries
  <2> DEFINE d == artifact.directory[k]
             found == artifact.contents[k]
  <2>2. Records(artifact, id) = found
    BY <2>1, RecordsAreThere DEF DirectoryRead
  <2>3. HasRoomFor(artifact, d, found)
    BY RoomIsThere
  <2>4. Len(found) \in Nat
    BY <2>3 DEF HasRoomFor
  <2>5. d \in DirectoryEntry /\ d.length \in Nat
    BY EntryHoldsNumbers DEF DirectoryRead
  <2>6. IsKnown(d)
    BY <2>1, SectionIds DEF IsKnown, KnownSections
  <2>7. WellFormed(d)
    BY <2>6 DEF DirectoryRead, PrefixCounted
  <2>8. ASSUME id # 3 PROVE Len(found) = RecordCount(d)
    <3>1. d.size = SizeOf(id, artifact.minor >= 5)
      BY <2>1, <2>7 DEF WellFormed
    <3>2. d.size \in Nat /\ d.size > 0
      <4>1. id # ProducerSection /\ RecordSize[id] \in Nat /\ RecordSize[id] > 0
        BY <2>8, SectionIds DEF ProducerSection
      <4> QED
        BY <3>1, <4>1 DEF SizeOf, WideRoot
    <3>3. d.length % d.size = 0
      BY <2>7, <3>2 DEF WellFormed
    <3>4. id \in DOMAIN RecordSize \ {3}
      BY <2>8, SectionIds
    <3>5. Len(found) = d.length \div d.size
      BY <2>1, <2>3, <3>1, <3>3, <3>4 DEF HasRoomFor
    <3> QED
      BY <3>2, <3>5 DEF RecordCount
  <2>9. ASSUME NEW e \in sections, e.id = id PROVE e = d
    <3>1. PICK j \in 1 .. Entries : e = artifact.directory[j]
      BY DEF DirectoryRead, PrefixCounted
    <3>2. j = k
      BY <2>1, <2>9, <3>1, OneEntryEach DEF DirectoryRead
    <3> QED
      BY <3>1, <3>2
  <2> QED
    BY <1>2, <2>2, <2>4, <2>8, <2>9
<1> QED
  BY <1>1, <1>2

(* The counts of the sections: none for strings and the producer.          *)
LEMMA SectionCounts ==
  ASSUME DirectoryRead, NEW e \in sections
  PROVE  /\ e.id \in 1 .. 18 \union {ProducerSection}
         /\ e.id \in {3, ProducerSection} => RecordCount(e) = 0
         /\ RecordCount(e) \in Nat /\ RecordCount(e) <= limits.records
<1>1. PICK k \in 1 .. Entries : e = artifact.directory[k] /\ IsKnown(e)
  BY DEF DirectoryRead, PrefixCounted
<1>2. WellFormed(e) /\ RecordCount(e) <= limits.records
  BY <1>1 DEF DirectoryRead, PrefixCounted
<1>3. e.id \in 1 .. 18 \union {ProducerSection}
  BY <1>1, SectionIds DEF IsKnown, KnownSections
<1>4. e.length \in Nat /\ e \in DirectoryEntry
  BY <1>1, EntryHoldsNumbers DEF DirectoryRead
<1>5. e.size \in Nat
  BY <1>4 DEF DirectoryEntry
<1>6. e.id \in {3, ProducerSection} => RecordCount(e) = 0
  <2>1. e.size = SizeOf(e.id, artifact.minor >= 5)
    BY <1>2 DEF WellFormed
  <2>2. e.id \in {3, ProducerSection} => e.size = 0
    BY <2>1, SectionIds DEF SizeOf, ProducerSection
  <2> QED
    BY <2>2 DEF RecordCount
<1>7. RecordCount(e) \in Nat
  BY <1>4, <1>5 DEF RecordCount
<1> QED
  BY <1>2, <1>3, <1>6, <1>7

(* The place of a section in the sums below: its id, and 19 for producers. *)
PlaceOf(e) == IF e.id = ProducerSection THEN 19 ELSE e.id

(* Each section has a place of its own.                                    *)
LEMMA SectionsArePlaced ==
  ASSUME DirectoryRead
  PROVE  \E T \in SUBSET (1 .. 19) : \E at, who :
           Placed(sections, T, at, who) /\ \A e \in sections : at[e] = PlaceOf(e)
<1> DEFINE T == {PlaceOf(e) : e \in sections}
           at == [e \in sections |-> PlaceOf(e)]
           who == [k \in T |-> CHOOSE e \in sections : PlaceOf(e) = k]
<1>1. ASSUME NEW e \in sections, NEW d \in sections, PlaceOf(e) = PlaceOf(d)
      PROVE  e = d
  <2>1. e.id = d.id
    BY <1>1, SectionCounts DEF PlaceOf, ProducerSection
  <2>2. PICK j \in 1 .. Entries, k \in 1 .. Entries :
          e = artifact.directory[j] /\ d = artifact.directory[k]
    BY DEF DirectoryRead, PrefixCounted
  <2> QED
    BY <2>1, <2>2, OneEntryEach DEF DirectoryRead
<1>2. \A e \in sections : PlaceOf(e) \in 1 .. 19
  BY SectionCounts DEF PlaceOf, ProducerSection
<1>3. \A k \in T : who[k] \in sections /\ PlaceOf(who[k]) = k
  OBVIOUS
<1>4. \A e \in sections : at[e] \in T /\ at[e] = PlaceOf(e)
  OBVIOUS
<1>5. T \in SUBSET (1 .. 19)
  BY <1>2
<1> HIDE DEF T, at, who
<1>6. Placed(sections, T, at, who)
  BY <1>1, <1>3, <1>4 DEF Placed
<1> QED
  BY <1>4, <1>5, <1>6

(* A place counts the records of its section.                              *)
CountsRecords(w, n, T, who) ==
  \A k \in 1 .. n : w[k] = IF k \in T THEN RecordCount(who[k]) ELSE 0

(* The reader's count is the sum over those places.                        *)
LEMMA FoldedSections ==
  ASSUME NEW S, NEW n \in Nat, NEW T \in SUBSET (1 .. n), NEW at, NEW who, Placed(S, T, at, who),
         NEW w \in [1 .. n -> Nat], CountsRecords(w, n, T, who)
  PROVE  RecordsIn(S) = SumOf(w, n)
<1> DEFINE f == [e \in S |-> RecordCount(e)]
           pick == [t \in SUBSET S |-> CHOOSE x \in t : TRUE]
           Solves(it) == it = [t \in SUBSET S |->
                                 IF t = {} THEN 0
                                 ELSE RecordCount(CHOOSE x \in t : TRUE)
                                        + it[t \ {CHOOSE x \in t : TRUE}]]
<1>1. Picks(pick, S)
  BY DEF Picks
<1>2. \A it : Solves(it) <=> TakesOut(it, S, f, pick, FALSE)
  <2>1. ASSUME NEW it, NEW t \in SUBSET S
        PROVE  (IF t = {} THEN 0
                ELSE RecordCount(CHOOSE x \in t : TRUE) + it[t \ {CHOOSE x \in t : TRUE}])
               = (IF t = {} THEN 0 ELSE f[pick[t]] + it[t \ {pick[t]}])
    OBVIOUS
  <2> HIDE DEF pick, f
  <2> QED
    BY <2>1 DEF TakesOut
<1>3. Weighs(w, n, T, f, who)
  BY DEF Placed, Weighs, CountsRecords
<1>4. /\ \E it : TakesOut(it, S, f, pick, FALSE)
      /\ \A it : TakesOut(it, S, f, pick, FALSE) => it[S] = SumOf(w, n)
  <2> HIDE DEF f, pick
  <2>1. AddsUpElsewhere(n, S, T, at, who, f, w, pick)
    BY ItAddsUpElsewhere
  <2> QED
    BY <1>1, <1>3, <2>1 DEF AddsUpElsewhere
<1> DEFINE sum == CHOOSE it : Solves(it)
<1>5. Solves(sum)
  <2> HIDE DEF Solves, f, pick
  <2> QED
    BY <1>2, <1>4
<1>6. RecordsIn(S) = sum[S]
  BY DEF RecordsIn, FoldSet, MapThenFoldSet
<1> HIDE DEF sum, Solves, f, pick
<1> QED
  BY <1>2, <1>4, <1>5, <1>6

(* The sum over the sections of an artifact, and over its strings, as      *)
(* Exceeded writes them.                                                   *)
CountedIn(a) == FoldSet(LAMBDA id, sum : Len(Records(a, id)) + sum, 0, DOMAIN RecordSize)
BytesOf(strings) == FoldSeq(LAMBDA s, sum : s.length + sum, 0, strings)

(* The former is a sum over the same places,                               *)
LEMMA FoldedCounts ==
  ASSUME NEW a, NEW c \in [1 .. 19 -> Nat], c[19] = 0,
         \A id \in 1 .. 18 : c[id] = Len(Records(a, id))
  PROVE  CountedIn(a) = SumOf(c, 19)
<1> DEFINE S == 1 .. 18
           pick == [t \in SUBSET S |-> CHOOSE x \in t : TRUE]
           Solves(it) == it = [t \in SUBSET S |->
                                 IF t = {} THEN 0
                                 ELSE Len(Records(a, CHOOSE x \in t : TRUE))
                                        + it[t \ {CHOOSE x \in t : TRUE}]]
<1>1. Picks(pick, S)
  BY DEF Picks
<1>2. \A it : Solves(it) <=> TakesOut(it, S, c, pick, FALSE)
  <2>1. ASSUME NEW it, NEW t \in SUBSET S
        PROVE  (IF t = {} THEN 0
                ELSE Len(Records(a, CHOOSE x \in t : TRUE)) + it[t \ {CHOOSE x \in t : TRUE}])
               = (IF t = {} THEN 0 ELSE c[pick[t]] + it[t \ {pick[t]}])
    <3>1. t # {} => pick[t] = (CHOOSE x \in t : TRUE) /\ pick[t] \in S
      OBVIOUS
    <3> HIDE DEF pick, S
    <3> QED
      BY <3>1 DEF S
  <2> HIDE DEF pick, S
  <2> QED
    BY <2>1 DEF TakesOut
<1>3. 19 \in Nat /\ S \in SUBSET (1 .. 19) /\ \A k \in S : c[k] \in Nat
  OBVIOUS
<1>4. \E it : TakesOut(it, S, c, pick, FALSE)
  <2> HIDE DEF pick, S
  <2> QED
    BY <1>1, <1>3, TakingOutEnds
<1> DEFINE sum == CHOOSE it : Solves(it)
<1>5. Solves(sum)
  <2> HIDE DEF Solves, pick, S
  <2> QED
    BY <1>2, <1>4
<1>6. CountedIn(a) = sum[S]
  <2>1. DOMAIN RecordSize = S
    BY SectionIds
  <2> QED
    BY <2>1 DEF CountedIn, FoldSet, MapThenFoldSet
<1>7. sum[S] = SumOf(Only(c, S, 19), 19)
  <2>1. TakesOut(sum, S, c, pick, FALSE)
    <3> HIDE DEF sum, Solves, pick, S
    <3> QED
      BY <1>2, <1>5
  <2> HIDE DEF sum, Solves, pick, S
  <2>2. AddsUp(19, S, c, pick)
    BY ItAddsUp
  <2> QED
    BY <1>1, <1>3, <2>1, <2>2 DEF AddsUp
<1>8. Only(c, S, 19) = c
  BY DEF Only
<1> HIDE DEF sum, S
<1> QED
  BY <1>6, <1>7, <1>8

(* and the latter a sum over the strings;                                  *)
LEMMA FoldedBytes ==
  ASSUME NEW n \in Nat, NEW s, DOMAIN s = 1 .. n,
         NEW w \in [1 .. n -> Nat], \A k \in 1 .. n : w[k] = s[k].length
  PROVE  BytesOf(s) = SumOf(w, n)
<1> DEFINE S == 1 .. n
           pick == [t \in SUBSET S |-> CHOOSE x \in t : TRUE]
           Solves(it) == it = [t \in SUBSET S |->
                                 IF t = {} THEN 0
                                 ELSE s[CHOOSE x \in t : TRUE].length
                                        + it[t \ {CHOOSE x \in t : TRUE}]]
<1>1. Picks(pick, S)
  BY DEF Picks
<1>2. \A it : Solves(it) <=> TakesOut(it, S, w, pick, FALSE)
  <2>1. ASSUME NEW it, NEW t \in SUBSET S
        PROVE  (IF t = {} THEN 0
                ELSE s[CHOOSE x \in t : TRUE].length + it[t \ {CHOOSE x \in t : TRUE}])
               = (IF t = {} THEN 0 ELSE w[pick[t]] + it[t \ {pick[t]}])
    <3>1. t # {} => pick[t] = (CHOOSE x \in t : TRUE) /\ pick[t] \in S
      OBVIOUS
    <3> HIDE DEF pick
    <3> QED
      BY <3>1
  <2> HIDE DEF pick, S
  <2> QED
    BY <2>1 DEF TakesOut
<1>3. S \in SUBSET (1 .. n) /\ \A k \in S : w[k] \in Nat
  OBVIOUS
<1>4. \E it : TakesOut(it, S, w, pick, FALSE)
  <2> HIDE DEF pick, S
  <2> QED
    BY <1>1, <1>3, TakingOutEnds
<1> DEFINE sum == CHOOSE it : Solves(it)
<1>5. Solves(sum)
  <2> HIDE DEF Solves, pick, S
  <2> QED
    BY <1>2, <1>4
<1>6. BytesOf(s) = sum[S]
  BY DEF BytesOf, FoldSeq, FoldFunction, FoldFunctionOnSet, MapThenFoldSet
<1>7. sum[S] = SumOf(Only(w, S, n), n)
  <2>1. TakesOut(sum, S, w, pick, FALSE)
    <3> HIDE DEF sum, Solves, pick, S
    <3> QED
      BY <1>2, <1>5
  <2> HIDE DEF sum, Solves, pick, S
  <2>2. AddsUp(n, S, w, pick)
    BY ItAddsUp
  <2> QED
    BY <1>1, <1>3, <2>1, <2>2 DEF AddsUp
<1>8. Only(w, S, n) = w
  BY DEF Only
<1> HIDE DEF sum, S
<1> QED
  BY <1>6, <1>7, <1>8

(* strings without a gap between them end where their bytes are used up.   *)
LEMMA TightStrings ==
  ASSUME NEW n \in Nat \ {0}, NEW s, DOMAIN s = 1 .. n, Len(s) = n, NEW area, Tight(s, area),
         \A k \in 1 .. n : s[k].offset \in Nat /\ s[k].length \in Nat
  PROVE  BytesOf(s) = area
<1> DEFINE w == [k \in 1 .. n |-> s[k].length]
           b == [k \in 0 .. n |-> IF k = 0 THEN 0 ELSE s[k].offset + s[k].length]
<1>1. w \in [1 .. n -> Nat] /\ \A k \in 1 .. n : w[k] = s[k].length
  OBVIOUS
<1>2. b \in [0 .. n -> Nat] /\ b[0] = 0
  OBVIOUS
<1>3. ASSUME NEW k \in 1 .. n PROVE b[k] = b[k - 1] + w[k]
  <2>1. s[k].offset = (IF k = 1 THEN 0 ELSE s[k - 1].offset + s[k - 1].length)
    BY DEF Tight
  <2> QED
    BY <2>1
<1>4. b[n] = area
  BY DEF Tight
<1> HIDE DEF w, b
<1>5. IsSums(b, w, n)
  BY <1>1, <1>2, <1>3 DEF IsSums
<1>6. SumOf(w, n) = area
  BY <1>1, <1>4, <1>5, SumIs
<1> QED
  BY <1>1, <1>6, FoldedBytes

(* The records of an artifact are those of its sections and its strings.   *)
LEMMA CountsAgree ==
  ASSUME DirectoryRead
  PROVE  CountedIn(artifact) = TotalRecords /\ CountedIn(artifact) \in Nat
<1> DEFINE c == [k \in 1 .. 19 |-> IF k = 19 THEN 0 ELSE Len(Records(artifact, k))]
           u == [k \in 1 .. 19 |-> IF k = 3 THEN 0 ELSE c[k]]
<1>1. /\ c \in [1 .. 19 -> Nat] /\ c[19] = 0
      /\ \A id \in 1 .. 18 : c[id] = Len(Records(artifact, id))
  <2>1. \A id \in 1 .. 18 : Len(Records(artifact, id)) \in Nat
    BY CountIsCounted
  <2>2. 1 .. 19 = 1 .. 18 \union {19} /\ 19 \notin 1 .. 18
    OBVIOUS
  <2>3. \A k \in 1 .. 19 : (IF k = 19 THEN 0 ELSE Len(Records(artifact, k))) \in Nat
    BY <2>1, <2>2
  <2>4. c[19] = 0 /\ \A id \in 1 .. 18 : c[id] = Len(Records(artifact, id))
    BY <2>2
  <2>5. c \in [1 .. 19 -> Nat]
    BY <2>3
  <2> QED
    BY <2>4, <2>5
<1>2. u \in [1 .. 19 -> Nat] /\ u[3] = 0 /\ \A k \in 1 .. 19 : k # 3 => u[k] = c[k]
  BY <1>1
<1>3. \A id \in 1 .. 18 : u[id] = IF id = 3 THEN 0 ELSE Len(Records(artifact, id))
  <2> HIDE DEF c
  <2>1. \A id \in 1 .. 18 : c[id] = Len(Records(artifact, id))
    BY <1>1
  <2>2. \A k \in 1 .. 19 : u[k] = IF k = 3 THEN 0 ELSE c[k]
    OBVIOUS
  <2> HIDE DEF u
  <2>3. ASSUME NEW id \in 1 .. 18
        PROVE  u[id] = IF id = 3 THEN 0 ELSE Len(Records(artifact, id))
    <3>1. id \in 1 .. 19
      OBVIOUS
    <3>2. u[id] = IF id = 3 THEN 0 ELSE c[id]
      BY <2>2, <3>1
    <3>3. c[id] = Len(Records(artifact, id))
      BY <2>1
    <3> QED
      BY <3>2, <3>3
  <2> QED
    BY <2>3
<1>4. PICK T \in SUBSET (1 .. 19) :
        \E at, who : Placed(sections, T, at, who) /\ \A e \in sections : at[e] = PlaceOf(e)
  BY SectionsArePlaced
<1>5. PICK at, who : Placed(sections, T, at, who) /\ \A e \in sections : at[e] = PlaceOf(e)
  BY <1>4
<1> DEFINE w == [k \in 1 .. 19 |-> IF k \in T THEN RecordCount(who[k]) ELSE 0]
<1>6. \A k \in T : who[k] \in sections /\ PlaceOf(who[k]) = k
  BY <1>5 DEF Placed
<1>7. w \in [1 .. 19 -> Nat]
  <2>1. \A k \in T : RecordCount(who[k]) \in Nat
    BY <1>6, SectionCounts
  <2> QED
    BY <2>1
<1>8. \A k \in 1 .. 19 : w[k] = IF k \in T THEN RecordCount(who[k]) ELSE 0
  OBVIOUS
<1>9. CountsRecords(w, 19, T, who)
  BY <1>8 DEF CountsRecords
<1> HIDE DEF c, u, w
<1>10. RecordsIn(sections) = SumOf(w, 19)
  <2>1. Placed(sections, T, at, who) /\ 19 \in Nat
    BY <1>5
  <2> QED
    BY <1>9, <1>7, <2>1, FoldedSections
<1>11. w[19] = 0
  <2>1. ASSUME 19 \in T PROVE RecordCount(who[19]) = 0
    <3>1. who[19] \in sections /\ PlaceOf(who[19]) = 19
      BY <1>6, <2>1
    <3>2. who[19].id \in 1 .. 18 \union {ProducerSection}
      BY <3>1, SectionCounts
    <3>3. who[19].id = ProducerSection
      BY <3>1, <3>2 DEF PlaceOf
    <3> QED
      BY <3>1, <3>3, SectionCounts
  <2> QED
    BY <1>8, <2>1
<1>12. ASSUME NEW id \in 1 .. 18 PROVE w[id] = u[id]
  <2>1. CASE id \in T
    <3> DEFINE e == who[id]
    <3>1. e \in sections /\ PlaceOf(e) = id
      BY <1>6, <2>1
    <3>2. e.id = id
      BY <3>1 DEF PlaceOf
    <3>3. id = 3 => RecordCount(e) = 0
      BY <3>1, <3>2, SectionCounts
    <3>4. id # 3 => RecordCount(e) = Len(Records(artifact, id))
      BY <3>1, <3>2, CountIsCounted
    <3>5. w[id] = RecordCount(e)
      BY <1>8, <2>1
    <3> QED
      BY <1>3, <3>3, <3>4, <3>5
  <2>2. CASE id \notin T
    <3>1. w[id] = 0
      BY <1>8, <2>2
    <3>2. \A e \in sections : e.id # id
      <4>1. \A e \in sections : PlaceOf(e) \in T
        BY <1>5 DEF Placed
      <4> QED
        BY <2>2, <4>1 DEF PlaceOf, ProducerSection
    <3>3. ~HasSection(artifact, id)
      <4>1. DOMAIN artifact.directory = 1 .. Entries
        BY DEF DirectoryRead, IsArtifact, Entries
      <4>2. \A k \in 1 .. Entries :
              IsKnown(artifact.directory[k]) => artifact.directory[k] \in sections
        BY DEF DirectoryRead, PrefixCounted
      <4>3. \A d : d.id = id => IsKnown(d)
        BY SectionIds DEF IsKnown, KnownSections
      <4> QED
        BY <3>2, <4>1, <4>2, <4>3 DEF HasSection
    <3>4. Len(Records(artifact, id)) = 0
      BY <3>3, CountIsCounted
    <3> QED
      BY <1>3, <3>1, <3>4
  <2> QED
    BY <2>1, <2>2
<1>13. w = u
  <2>1. u[19] = 0
    BY <1>1, <1>2
  <2>2. ASSUME NEW k \in 1 .. 19 PROVE w[k] = u[k]
    <3>1. k = 19 \/ k \in 1 .. 18
      OBVIOUS
    <3> QED
      BY <1>11, <1>12, <2>1, <3>1
  <2> QED
    BY <1>2, <1>7, <2>2
<1>14. SumOf(c, 19) = SumOf(u, 19) + c[3] /\ SumOf(c, 19) \in Nat
  <2>1. 19 \in Nat /\ 3 \in 1 .. 19 /\ c[3] \in Nat /\ c[3] = u[3] + c[3]
    BY <1>1, <1>2
  <2>2. SumOf(c, 19) \in Nat
    BY <1>1, <2>1, SumIs
  <2>3. \A k \in 1 .. 19 : k # 3 => c[k] = u[k]
    BY <1>2
  <2>4. SumOf(c, 19) = SumOf(u, 19) + c[3]
    BY <1>1, <1>2, <2>1, <2>3, SumRaised
  <2> QED
    BY <2>2, <2>4
<1>15. c[3] = Len(StringsOf(artifact))
  BY <1>1 DEF StringsOf
<1>16. CountedIn(artifact) = SumOf(c, 19)
  BY <1>1, FoldedCounts
<1> QED
  BY <1>10, <1>13, <1>14, <1>15, <1>16 DEF TotalRecords

(* An artifact that has passed the reader's limits exceeds none.           *)
LEMMA NothingExceeded ==
  ASSUME DirectoryRead, StringsWithin, TotalRecords <= limits.total,
         artifact.bytes <= limits.artifact, Entries <= limits.sections
  PROVE  Exceeded(artifact, limits) = {}
<1>1. /\ limits.artifact \in Nat /\ limits.sections \in Nat /\ limits.records \in Nat
      /\ limits.total \in Nat /\ limits.strings \in Nat
  BY LimitsAssumption DEF DirectoryRead, limits
<1>2. artifact.bytes \in Nat /\ Entries \in Nat
  BY DEF DirectoryRead, IsArtifact, Entries
<1>3. ASSUME NEW id \in 1 .. 18 PROVE ~(Len(Records(artifact, id)) > limits.records)
  <2>1. Len(Records(artifact, id)) \in Nat
    BY CountIsCounted
  <2>2. CASE id = 3
    BY <1>1, <2>1, <2>2 DEF StringsWithin, StringsOf
  <2>3. CASE id # 3 /\ HasSection(artifact, id)
    <3>1. PICK k \in 1 .. Entries : artifact.directory[k].id = id
      BY <2>3 DEF HasSection, DirectoryRead, IsArtifact, Entries
    <3>2. artifact.directory[k] \in sections
      <4>1. IsKnown(artifact.directory[k])
        BY <3>1, SectionIds DEF IsKnown, KnownSections
      <4> QED
        BY <4>1 DEF DirectoryRead, PrefixCounted
    <3>3. Len(Records(artifact, id)) = RecordCount(artifact.directory[k])
      BY <2>3, <3>1, <3>2, CountIsCounted
    <3> QED
      BY <1>1, <2>1, <3>2, <3>3, SectionCounts
  <2>4. CASE ~HasSection(artifact, id)
    <3>1. Len(Records(artifact, id)) = 0
      BY <2>4, CountIsCounted
    <3> QED
      BY <1>1, <3>1
  <2> QED
    BY <2>2, <2>3, <2>4
<1>4. ~(BytesOf(StringsOf(artifact)) > limits.strings)
  <2>1. CASE HasSection(artifact, 3)
    <3>1. PICK k \in 1 .. Entries : artifact.directory[k].id = 3
      BY <2>1 DEF HasSection, DirectoryRead, IsArtifact, Entries
    <3> DEFINE s == StringsOf(artifact)
               n == Len(s)
    <3>2. s = artifact.contents[k]
      BY <3>1, RecordsAreThere DEF DirectoryRead, StringsOf
    <3>3. HasRoomFor(artifact, artifact.directory[k], s)
      BY <3>2, RoomIsThere
    <3>4. /\ n \in Nat /\ DOMAIN s = 1 .. n
          /\ \A i \in 1 .. n : s[i].offset \in Nat /\ s[i].length \in Nat
      BY <3>1, <3>3 DEF HasRoomFor
    <3>5. Tight(s, StringArea) /\ StringArea <= limits.strings
      BY <2>1 DEF StringsWithin, SoundStrings
    <3> HIDE DEF s
    <3>6. CASE n # 0
      <4>1. BytesOf(s) = StringArea
        BY <3>4, <3>5, <3>6, TightStrings
      <4>2. StringArea \in Nat
        BY <3>4, <3>5, <3>6 DEF Tight
      <4> QED
        BY <1>1, <3>5, <4>1, <4>2 DEF s
    <3>7. CASE n = 0
      <4> DEFINE w == [i \in 1 .. n |-> 0]
      <4>1. w \in [1 .. n -> Nat] /\ \A i \in 1 .. n : w[i] = s[i].length /\ w[i] = 0
        BY <3>7
      <4> HIDE DEF w
      <4>2. BytesOf(s) = 0
        BY <3>4, <4>1, FoldedBytes, SumOfNothing
      <4> QED
        BY <1>1, <4>2 DEF s
    <3> QED
      BY <3>4, <3>6, <3>7
  <2>2. CASE ~HasSection(artifact, 3)
    <3> DEFINE s == StringsOf(artifact)
               w == [i \in 1 .. 0 |-> 0]
    <3>1. s = <<>>
      BY <2>2, NoRecordsElsewhere DEF StringsOf
    <3>2. /\ DOMAIN s = 1 .. 0 /\ 0 \in Nat
          /\ w \in [1 .. 0 -> Nat] /\ \A i \in 1 .. 0 : w[i] = s[i].length /\ w[i] = 0
      BY <3>1
    <3> HIDE DEF s, w
    <3>3. BytesOf(s) = SumOf(w, 0)
      BY <3>2, FoldedBytes
    <3>4. SumOf(w, 0) = 0
      BY <3>2, SumOfNothing
    <3> QED
      BY <1>1, <3>3, <3>4 DEF s
  <2> QED
    BY <2>1, <2>2
<1>5. ~(CountedIn(artifact) > limits.total)
  <2>1. CountedIn(artifact) = TotalRecords /\ CountedIn(artifact) \in Nat
    BY CountsAgree
  <2> QED
    BY <1>1, <2>1
<1>6. DOMAIN RecordSize = 1 .. 18
  BY SectionIds
<1>7. ~(artifact.bytes > limits.artifact) /\ ~(Entries > limits.sections)
  BY <1>1, <1>2
<1> QED
  BY <1>3, <1>4, <1>5, <1>6, <1>7 DEF Exceeded, CountedIn, BytesOf, Entries

(***************************************************************************)
(* Every step, again: the limits are passed one by one, and before the     *)
(* last of them nothing is reserved.                                       *)
(***************************************************************************)
LInv ==
  /\ stage \notin {"reserve", "done"} => reserved = <<>>
  /\ stage # "done" => outcome = NoOutcome
  /\ stage \in {"entry"} \union BehindDirectory =>
       artifact.bytes <= limits.artifact /\ Entries <= limits.sections
  /\ stage = "entry" => PrefixCounted(next - 1)
  /\ stage \in BehindDirectory => PrefixCounted(Entries)
  /\ stage \in BehindDirectory \ {"strings"} => StringsWithin
  /\ stage \in {"records", "use", "reserve"} => TotalRecords <= limits.total
  /\ stage = "done" => LimitsComeFirst

(* The limits are numbers.                                                 *)
LEMMA LimitsAreNumbers ==
  ASSUME case \in Cases
  PROVE  /\ limits.artifact \in Nat /\ limits.sections \in Nat /\ limits.records \in Nat
         /\ limits.total \in Nat /\ limits.strings \in Nat
BY LimitsAssumption DEF limits

(* Behind the directory it is read.                                        *)
LEMMA DirectoryIsRead ==
  ASSUME IInv, LInv, stage \in BehindDirectory
  PROVE  DirectoryRead
BY DEF IInv, LInv, BehindDirectory, DirectoryRead

(* What is exceeded depends on the artifact and the limits alone.          *)
LEMMA ExceededStays ==
  ASSUME UNCHANGED <<case, artifact>>
  PROVE  Exceeded(artifact, limits)' = Exceeded(artifact, limits)
BY DEF limits

(* To give up is to end without a program.                                 *)
GivesUp == \E r : End(r) /\ r.kind # "program"

(* Giving up before anything is reserved keeps the limits' order.          *)
LEMMA GivingUpKeeps ==
  ASSUME GivesUp, reserved = <<>>
  PROVE  LInv'
BY DEF GivesUp, End, LInv, LimitsComeFirst, BehindDirectory

(* With every limit kept, any end does.                                    *)
LEMMA EndingKeeps ==
  ASSUME NEW r, End(r), Exceeded(artifact, limits) = {}
  PROVE  LInv'
<1>1. Exceeded(artifact, limits)' = {}
  BY ExceededStays DEF End
<1> QED
  BY <1>1 DEF End, LInv, LimitsComeFirst, BehindDirectory

(* Moving on behind the directory keeps what is known; what the step has   *)
(* checked is known from then on.                                          *)
LEMMA LimitsStayKept ==
  ASSUME IInv, LInv, stage \in BehindDirectory, stage' \in BehindDirectory,
         UNCHANGED <<case, artifact, cursor, sections, outcome>>,
         stage' = "reserve" \/ reserved' = <<>>,
         stage' # "strings" => StringsWithin,
         stage' \in {"records", "use", "reserve"} => TotalRecords <= limits.total
  PROVE  LInv'
<1>1. PrefixCounted(Entries) /\ artifact.bytes <= limits.artifact /\ Entries <= limits.sections
      /\ outcome = NoOutcome /\ stage' # "done" /\ stage' # "entry"
  BY DEF LInv, BehindDirectory
<1>2. PrefixCounted(Entries)' /\ Entries' = Entries /\ limits' = limits
  BY <1>1 DEF PrefixCounted, Entries, limits, WellFormed
<1>3. StringsWithin => StringsWithin'
  BY DEF StringsWithin, StringArea, limits
<1>4. TotalRecords' = TotalRecords
  BY DEF TotalRecords
<1> QED
  BY <1>1, <1>2, <1>3, <1>4 DEF LInv

(* The initial states.                                                     *)
LEMMA InitWithin == Init => LInv
BY DEF Init, LInv, BehindDirectory

(* Every step of the writer, the carrier and the reader keeps LInv.        *)
LEMMA NextWithin ==
  ASSUME IInv, LInv, Next
  PROVE  LInv'
<1>0. case \in Cases /\ (stage \notin {"reserve", "done"} => reserved = <<>>)
  BY DEF IInv, LInv
<1>1. CASE Encode
  <2> DEFINE checks == <<Fails(Refused("StringPool"), Unavailable("StringPool")),
                         Fails(Refused("Artifact"), Unavailable("Artifact"))>>
  <2>1. \A k \in DOMAIN checks : checks[k].result.kind # "program"
    BY DEF Fails, Unavailable
  <2>2. \/ \E k \in DOMAIN checks : End(checks[k].result)
        \/ stage' = "carry" /\ UNCHANGED <<reserved, outcome>>
    BY <1>1, Zenon DEF Encode, Checked
  <2>3. reserved = <<>> /\ stage = "encode"
    BY <1>0, <1>1 DEF Encode
  <2> HIDE DEF checks
  <2>4. CASE \E k \in DOMAIN checks : End(checks[k].result)
    BY <2>1, <2>3, <2>4, GivingUpKeeps DEF GivesUp
  <2>5. CASE stage' = "carry" /\ UNCHANGED <<reserved, outcome>>
    BY <2>3, <2>5 DEF LInv, BehindDirectory
  <2> QED
    BY <2>2, <2>4, <2>5
<1>2. CASE Carry
  BY <1>2 DEF Carry, LInv, BehindDirectory
<1>3. CASE Header
  <2> DEFINE count == Len(artifact.directory)
             checks == <<Fails(artifact.bytes > limits.artifact, Beyond("ArtifactBytes")),
                         Fails(artifact.bytes < HeaderSize \/ artifact.major # 1, Rejected),
                         Fails(count > limits.sections, Beyond("Sections")),
                         Fails(DirectoryEnd(count) > artifact.bytes, Rejected)>>
             Proceeds == /\ cursor' = DirectoryEnd(count)
                         /\ stage' = "entry"
                         /\ UNCHANGED <<case, artifact, edited, next, sections, reserved, outcome>>
  <2>1. \A k \in DOMAIN checks : checks[k].result.kind # "program"
    BY DEF Fails, Beyond, Rejected
  <2>2. \/ \E k \in DOMAIN checks : End(checks[k].result)
        \/ (\A k \in DOMAIN checks : ~checks[k].fails) /\ Proceeds
    BY <1>3, Zenon DEF Header, Checked
  <2>3. /\ reserved = <<>> /\ stage = "header" /\ IsArtifact(artifact)
        /\ sections = {} /\ next = 1 /\ outcome = NoOutcome
    BY <1>0, <1>3 DEF Header, IInv, LInv
  <2>4. ASSUME \A k \in DOMAIN checks : ~checks[k].fails
        PROVE  artifact.bytes <= limits.artifact /\ Entries <= limits.sections
    <3>1. ~checks[1].fails /\ ~checks[3].fails
      BY <2>4
    <3>2. ~(artifact.bytes > limits.artifact) /\ ~(count > limits.sections)
      BY <3>1 DEF Fails
    <3>3. artifact.bytes \in Nat /\ count \in Nat
      BY <2>3 DEF IsArtifact
    <3> QED
      BY <1>0, <3>2, <3>3, LimitsAreNumbers DEF Entries
  <2> HIDE DEF checks
  <2>5. CASE \E k \in DOMAIN checks : End(checks[k].result)
    BY <2>1, <2>3, <2>5, GivingUpKeeps DEF GivesUp
  <2>6. CASE (\A k \in DOMAIN checks : ~checks[k].fails) /\ Proceeds
    <3>1. PrefixCounted(next - 1)'
      BY <2>3, <2>6 DEF PrefixCounted
    <3> QED
      BY <2>3, <2>4, <2>6, <3>1 DEF LInv, BehindDirectory, Entries, limits
  <2> QED
    BY <2>2, <2>5, <2>6

<1>4. CASE Entry
  <2> DEFINE e == artifact.directory[next]
             checks == <<Fails(~WellPlaced(e), Rejected),
                         Fails(IsKnown(e) /\ ~WellFormed(e), Rejected),
                         Fails(~IsKnown(e) /\ ~Skippable(e), Rejected),
                         Fails(IsKnown(e) /\ RecordCount(e) > limits.records,
                               Beyond("RecordsPerSection"))>>
             Proceeds == /\ cursor' = PayloadEnd(e)
                         /\ next' = next + 1
                         /\ sections' = IF IsKnown(e) THEN sections \union {e} ELSE sections
                         /\ UNCHANGED <<case, artifact, edited, stage, reserved, outcome>>
  <2>1. \A k \in DOMAIN checks : checks[k].result.kind # "program"
    BY DEF Fails, Beyond, Rejected
  <2>2. \/ \E k \in DOMAIN checks : End(checks[k].result)
        \/ (\A k \in DOMAIN checks : ~checks[k].fails) /\ Proceeds
    BY <1>4, Zenon DEF Entry, Checked
  <2>3. /\ reserved = <<>> /\ stage = "entry" /\ IsArtifact(artifact) /\ outcome = NoOutcome
        /\ next \in 1 .. Entries /\ PrefixCounted(next - 1)
        /\ artifact.bytes <= limits.artifact /\ Entries <= limits.sections
    <3>1. stage = "entry" /\ next <= Entries
      BY <1>4 DEF Entry, Entries
    <3> QED
      BY <1>0, <3>1 DEF IInv, LInv, IsArtifact, Entries
  <2>4. ASSUME \A k \in DOMAIN checks : ~checks[k].fails, IsKnown(e)
        PROVE  WellFormed(e) /\ RecordCount(e) <= limits.records
    <3>1. ~checks[2].fails /\ ~checks[4].fails
      BY <2>4
    <3>2. WellFormed(e) /\ ~(RecordCount(e) > limits.records)
      BY <2>4, <3>1 DEF Fails
    <3>3. e \in DirectoryEntry
      BY <2>3, EntryHoldsNumbers
    <3>4. RecordCount(e) \in Nat
      BY <3>3 DEF RecordCount, DirectoryEntry
    <3> QED
      BY <1>0, <3>2, <3>4, LimitsAreNumbers
  <2> HIDE DEF checks
  <2>5. CASE \E k \in DOMAIN checks : End(checks[k].result)
    BY <2>1, <2>3, <2>5, GivingUpKeeps DEF GivesUp
  <2>6. CASE (\A k \in DOMAIN checks : ~checks[k].fails) /\ Proceeds
    <3>1. next' - 1 = next /\ 1 .. next = 1 .. next - 1 \union {next}
      BY <2>3, <2>6
    <3>2. UNCHANGED <<artifact, limits>> /\ sections \subseteq sections'
      BY <2>6 DEF limits
    <3>3. ASSUME NEW k \in 1 .. next, IsKnown(artifact.directory[k])
          PROVE  /\ artifact.directory[k] \in sections'
                 /\ WellFormed(artifact.directory[k])
                 /\ RecordCount(artifact.directory[k]) <= limits.records
      <4>1. CASE k = next
        BY <2>4, <2>6, <3>3, <4>1
      <4>2. CASE k \in 1 .. next - 1
        BY <2>3, <3>2, <3>3, <4>2 DEF PrefixCounted
      <4> QED
        BY <3>1, <4>1, <4>2
    <3>4. \A d \in sections' : \E k \in 1 .. next : d = artifact.directory[k] /\ IsKnown(d)
      <4>1. \A d \in sections : \E k \in 1 .. next - 1 : d = artifact.directory[k] /\ IsKnown(d)
        BY <2>3 DEF PrefixCounted
      <4>2. \A d \in sections' : d \in sections \/ (d = e /\ IsKnown(e))
        BY <2>6
      <4> QED
        BY <3>1, <4>1, <4>2
    <3>5. PICK n \in 1 .. Entries : n = next
      BY <2>3
    <3>6. PrefixCounted(n)'
      BY <3>2, <3>3, <3>4, <3>5 DEF PrefixCounted, WellFormed
    <3>7. PrefixCounted(next - 1)'
      BY <3>1, <3>5, <3>6 DEF PrefixCounted
    <3> QED
      BY <2>3, <2>6, <3>2, <3>7 DEF LInv, BehindDirectory, Entries
  <2> QED
    BY <2>2, <2>5, <2>6
<1>5. CASE CloseDirectory
  <2> DEFINE checks == <<Fails(cursor # artifact.bytes, Rejected),
                         Fails(~HasSection(artifact, 1), Rejected)>>
             Proceeds == /\ stage' = "strings"
                         /\ next' = 1
                         /\ UNCHANGED <<case, artifact, edited, cursor, sections, reserved, outcome>>
  <2>1. \A k \in DOMAIN checks : checks[k].result.kind # "program"
    BY DEF Fails, Rejected
  <2>2. (\E k \in DOMAIN checks : End(checks[k].result)) \/ Proceeds
    BY <1>5, Zenon DEF CloseDirectory, Checked
  <2>3. /\ reserved = <<>> /\ stage = "entry" /\ outcome = NoOutcome
        /\ PrefixCounted(Entries)
        /\ artifact.bytes <= limits.artifact /\ Entries <= limits.sections
    <3>1. stage = "entry" /\ next > Entries
      BY <1>5 DEF CloseDirectory, Entries
    <3>2. Entries \in Nat /\ next \in 1 .. Entries + 1
      BY <3>1 DEF IInv, IsArtifact, Entries
    <3>3. next - 1 = Entries
      BY <3>1, <3>2
    <3> QED
      BY <1>0, <3>1, <3>3 DEF LInv
  <2> HIDE DEF checks
  <2>4. CASE \E k \in DOMAIN checks : End(checks[k].result)
    BY <2>1, <2>3, <2>4, GivingUpKeeps DEF GivesUp
  <2>5. CASE Proceeds
    <3>1. PrefixCounted(Entries)' /\ Entries' = Entries /\ limits' = limits
      BY <2>3, <2>5 DEF PrefixCounted, Entries, limits, WellFormed
    <3> QED
      BY <2>3, <2>5, <3>1 DEF LInv, BehindDirectory
  <2> QED
    BY <2>2, <2>4, <2>5
<1>6. CASE Strings
  <2> DEFINE strings == StringsOf(artifact)
             present == HasSection(artifact, 3)
             checks == <<Fails(present /\ strings = <<>>, Rejected),
                         Fails(Len(strings) > limits.records, Beyond("RecordsPerSection")),
                         Fails(present /\ StringArea < 0, Rejected),
                         Fails(present /\ StringArea > limits.strings, Beyond("StringBytes")),
                         Fails(present /\ strings # <<>> /\ ~SoundStrings(strings, StringArea),
                               Rejected)>>
  <2>1. \A k \in DOMAIN checks : checks[k].result.kind # "program"
    BY DEF Fails, Beyond, Rejected
  <2>2. \/ \E k \in DOMAIN checks : End(checks[k].result)
        \/ (\A k \in DOMAIN checks : ~checks[k].fails) /\ Goto("totals")
    BY <1>6, Zenon DEF Strings, Checked
  <2>3. reserved = <<>> /\ stage = "strings" /\ DirectoryRead
    BY <1>0, <1>6, DirectoryIsRead DEF Strings, BehindDirectory
  <2>4. ASSUME \A k \in DOMAIN checks : ~checks[k].fails
        PROVE  StringsWithin
    <3>1. ~checks[1].fails /\ ~checks[2].fails /\ ~checks[4].fails /\ ~checks[5].fails
      BY <2>4
    <3>2. /\ ~(present /\ strings = <<>>) /\ ~(Len(strings) > limits.records)
          /\ ~(present /\ StringArea > limits.strings)
          /\ ~(present /\ strings # <<>> /\ ~SoundStrings(strings, StringArea))
      BY <3>1 DEF Fails
    <3>3. Len(strings) \in Nat
      BY <2>3, CountIsCounted DEF StringsOf
    <3>4. present => StringArea \in Int
      <4>1. ASSUME present PROVE \E d \in sections : d.id = 3 /\ d.length \in Nat
        <5>1. PICK k \in 1 .. Entries : artifact.directory[k].id = 3
          BY <2>3, <4>1 DEF HasSection, DirectoryRead, IsArtifact, Entries
        <5>2. IsKnown(artifact.directory[k])
          BY <5>1, SectionIds DEF IsKnown, KnownSections
        <5>3. artifact.directory[k].length \in Nat
          BY <2>3, EntryHoldsNumbers DEF DirectoryRead
        <5> QED
          BY <2>3, <5>1, <5>2, <5>3 DEF DirectoryRead, PrefixCounted
      <4>2. \A d \in sections : d.length \in Nat
        BY <2>3, EntryHoldsNumbers DEF DirectoryRead, PrefixCounted
      <4> DEFINE length == CHOOSE n \in {d.length : d \in sections} :
                             \E d \in sections : d.id = 3 /\ d.length = n
      <4>3. present => length \in Nat
        BY <4>1, <4>2
      <4> HIDE DEF length
      <4>4. StringArea = length - (4 + 8 * Len(strings))
        BY DEF StringArea, length
      <4> QED
        BY <3>3, <4>3, <4>4
    <3> QED
      BY <1>0, <3>2, <3>3, <3>4, LimitsAreNumbers DEF StringsWithin
  <2> HIDE DEF checks
  <2>5. CASE \E k \in DOMAIN checks : End(checks[k].result)
    BY <2>1, <2>3, <2>5, GivingUpKeeps DEF GivesUp
  <2>6. CASE (\A k \in DOMAIN checks : ~checks[k].fails) /\ Goto("totals")
    BY <2>3, <2>4, <2>6, LimitsStayKept DEF Goto, BehindDirectory
  <2> QED
    BY <2>2, <2>5, <2>6
<1>7. CASE Totals
  <2> DEFINE checks == <<Fails(TotalRecords > limits.total, Beyond("TotalRecords")),
                         Fails(~ProducerSound, Rejected)>>
  <2>1. \A k \in DOMAIN checks : checks[k].result.kind # "program"
    BY DEF Fails, Beyond, Rejected
  <2>2. \/ \E k \in DOMAIN checks : End(checks[k].result)
        \/ (\A k \in DOMAIN checks : ~checks[k].fails) /\ Goto("records")
    BY <1>7, Zenon DEF Totals, Checked
  <2>3. reserved = <<>> /\ stage = "totals" /\ DirectoryRead /\ StringsWithin
    BY <1>0, <1>7, DirectoryIsRead DEF Totals, LInv, BehindDirectory
  <2>4. ASSUME \A k \in DOMAIN checks : ~checks[k].fails
        PROVE  TotalRecords <= limits.total
    <3>1. ~checks[1].fails
      BY <2>4
    <3>2. ~(TotalRecords > limits.total)
      BY <3>1 DEF Fails
    <3>3. TotalRecords \in Nat
      BY <2>3, CountsAgree
    <3> QED
      BY <1>0, <3>2, <3>3, LimitsAreNumbers
  <2> HIDE DEF checks
  <2>5. CASE \E k \in DOMAIN checks : End(checks[k].result)
    BY <2>1, <2>3, <2>5, GivingUpKeeps DEF GivesUp
  <2>6. CASE (\A k \in DOMAIN checks : ~checks[k].fails) /\ Goto("records")
    BY <2>3, <2>4, <2>6, LimitsStayKept DEF Goto, BehindDirectory
  <2> QED
    BY <2>2, <2>5, <2>6
<1>8. CASE RecordsStep \/ StringUse
  <2>1. /\ reserved = <<>> /\ stage \in {"records", "use"}
        /\ StringsWithin /\ TotalRecords <= limits.total
    BY <1>0, <1>8 DEF RecordsStep, StringUse, LInv, BehindDirectory
  <2>2. CASE GivesUp
    BY <2>1, <2>2, GivingUpKeeps
  <2>3. CASE Goto("use") \/ Goto("reserve")
    BY <2>1, <2>3, LimitsStayKept DEF Goto, BehindDirectory
  <2>4. CASE RecordsStep
    <3> DEFINE checks == <<Fails(~SoundRecords(artifact), Rejected)>>
    <3>1. \A k \in DOMAIN checks : checks[k].result.kind # "program"
      BY DEF Fails, Rejected
    <3>2. (\E k \in DOMAIN checks : End(checks[k].result)) \/ Goto("use")
      BY <2>4, Zenon DEF RecordsStep, Checked
    <3> HIDE DEF checks
    <3> QED
      BY <2>2, <2>3, <3>1, <3>2 DEF GivesUp
  <2>5. CASE StringUse
    <3> DEFINE checks == <<Fails(StringsOf(artifact) # <<>> /\ Refused("StringUse"),
                                 Unavailable("StringUse")),
                           Fails(~StringsAllUsed(artifact), Rejected)>>
    <3>1. \A k \in DOMAIN checks : checks[k].result.kind # "program"
      BY DEF Fails, Unavailable, Rejected
    <3>2. (\E k \in DOMAIN checks : End(checks[k].result)) \/ Goto("reserve")
      BY <2>5, Zenon DEF StringUse, Checked
    <3> HIDE DEF checks
    <3> QED
      BY <2>2, <2>3, <3>1, <3>2 DEF GivesUp
  <2> QED
    BY <1>8, <2>4, <2>5
<1>9. CASE Reserve \/ Rebuild
  <2>1. /\ stage = "reserve" /\ StringsWithin /\ TotalRecords <= limits.total
        /\ artifact.bytes <= limits.artifact /\ Entries <= limits.sections /\ DirectoryRead
    BY <1>9, DirectoryIsRead DEF Reserve, Rebuild, LInv, BehindDirectory
  <2>2. Exceeded(artifact, limits) = {}
    BY <2>1, NothingExceeded
  <2>3. CASE \E r : End(r)
    BY <2>2, <2>3, EndingKeeps
  <2>4. CASE Reserve
    <3>1. \/ \E r : End(r)
          \/ UNCHANGED <<case, artifact, edited, stage, cursor, sections, outcome>>
      BY <2>4 DEF Reserve, Checked
    <3> QED
      BY <2>1, <2>3, <3>1, LimitsStayKept DEF BehindDirectory
  <2>5. CASE Rebuild
    BY <2>3, <2>5 DEF Rebuild, Checked
  <2> QED
    BY <1>9, <2>4, <2>5
<1> QED
  BY <1>1, <1>2, <1>3, <1>4, <1>5, <1>6, <1>7, <1>8, <1>9 DEF Next

(* Stuttering changes nothing LInv speaks of.                              *)
LEMMA StutterWithin ==
  ASSUME LInv, UNCHANGED vars
  PROVE  LInv'
<1>1. Exceeded(artifact, limits)' = Exceeded(artifact, limits)
  BY ExceededStays DEF vars
<1>2. LimitsComeFirst' <=> LimitsComeFirst
  BY <1>1 DEF LimitsComeFirst, vars
<1>3. Entries' = Entries /\ limits' = limits /\ TotalRecords' = TotalRecords
  BY DEF Entries, limits, TotalRecords, vars
<1>4. StringsWithin' <=> StringsWithin
  BY DEF StringsWithin, StringArea, limits, vars
<1> QED
  BY <1>2, <1>3, <1>4 DEF LInv, BehindDirectory, PrefixCounted, WellFormed, vars

(* Whatever artifact arrives: before the reader reserves anything for it,  *)
(* it has found that none of the configured limits is exceeded, neither by *)
(* what the directory claims nor by what the sections hold.                *)
THEOREM LimitsAlwaysComeFirst == Spec => []LimitsComeFirst
<1>1. Init => IInv /\ LInv
  BY InitTiles, InitWithin
<1>2. IInv /\ LInv /\ [Next]_vars => (IInv /\ LInv)'
  BY NextTiles, StutterTiles, NextWithin, StutterWithin
<1>3. IInv /\ LInv => LimitsComeFirst
  <2> SUFFICES ASSUME IInv, LInv PROVE LimitsComeFirst
    OBVIOUS
  <2>1. CASE stage \notin {"reserve", "done"}
    BY <2>1 DEF LInv, LimitsComeFirst, NoOutcome
  <2>2. CASE stage = "reserve"
    <3>1. /\ DirectoryRead /\ StringsWithin /\ TotalRecords <= limits.total
          /\ artifact.bytes <= limits.artifact /\ Entries <= limits.sections
      BY <2>2, DirectoryIsRead DEF LInv, BehindDirectory
    <3> QED
      BY <3>1, NothingExceeded DEF LimitsComeFirst
  <2>3. CASE stage = "done"
    BY <2>3 DEF LInv
  <2> QED
    BY <2>1, <2>2, <2>3
<1> QED
  BY <1>1, <1>2, <1>3, PTL DEF Spec
=============================================================================

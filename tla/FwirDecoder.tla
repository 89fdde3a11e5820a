----------------------------- MODULE FwirDecoder ------------------------------
(***************************************************************************)
(* A program is encoded, the artifact may change on its way, and decode_fwir*)
(* (src/src/fwir_decoder.rs) reads it: the header, one directory entry     *)
(* after the other, the strings, the totals and the producer, the records, *)
(* the use of the strings, then one arena after the other is reserved, the *)
(* program is rebuilt and verified.  One allocation may be refused.        *)
(* Which of several faults of a record is named is not modelled.           *)
(***************************************************************************)
EXTENDS FwirRecords

CONSTANTS
  Cases,        (* the [program, producer, limits, refusal] to start from  *)
  Edits(_, _)   (* what may become of a case's artifact                    *)

(* Whatever bytes are read as a directory, its entries hold numbers.       *)
DirectoryEntry == [id : Nat, flags : Nat, size : Nat, offset : Nat, length : Nat]

(* Sections one behind the other, up to the end of the artifact.           *)
Tiled(a) ==
  LET end(k) == IF k = 0 THEN DirectoryEnd(Len(a.directory))
                ELSE a.directory[k].offset + a.directory[k].length
  IN /\ \A k \in DOMAIN a.directory : a.directory[k].offset = end(k - 1)
     /\ end(Len(a.directory)) = a.bytes

(* In those as many records are found as there is room for; strings, which *)
(* have no fixed size, are found by the numbers that lead to them.         *)
HasRoomFor(a, e, found) ==
  /\ Len(found) \in Nat /\ DOMAIN found = 1 .. Len(found)
  /\ e.id = 3 =>
       \A i \in DOMAIN found : found[i].offset \in Nat /\ found[i].length \in Nat
  /\ e.id \in DOMAIN RecordSize \ {3} /\ e.size = SizeOf(e.id, a.minor >= 5)
       /\ e.length % e.size = 0 => Len(found) = e.length \div e.size

IsArtifact(a) ==
  /\ a.directory \in Seq(DirectoryEntry) /\ a.bytes \in Nat
  /\ Tiled(a) => \A k \in DOMAIN a.directory : HasRoomFor(a, a.directory[k], a.contents[k])

ASSUME UsizeAssumption == MaxUsize \in Nat

ASSUME ArtifactsAssumption ==
  \A c \in Cases :
    LET written == Encoded(c.program, c.producer)
    IN IsArtifact(written) /\ \A a \in Edits(c, written) : IsArtifact(a)

ASSUME LimitsAssumption ==
  \A c \in Cases :
    c.limits \in [artifact : Nat, sections : Nat, records : Nat, total : Nat, strings : Nat]

NoRefusal == "none"

VARIABLES
  case,         (* the program, producer, limits and refusal               *)
  artifact,     (* the bytes                                               *)
  edited,       (* whether they changed after they were written            *)
  stage,        (* the next step of the reader                             *)
  next,         (* the directory entry, or the arena, it comes to          *)
  cursor,       (* expected_payload                                        *)
  sections,     (* the known sections accepted so far                      *)
  reserved,     (* the arenas reserved so far, and their lengths           *)
  outcome       (* what the caller is told                                 *)

vars == <<case, artifact, edited, stage, next, cursor, sections, reserved, outcome>>

limits == case.limits
Refused(site) == case.refusal = site

NoOutcome == [kind |-> "none"]
Accepted(raw) == [kind |-> "program", program |-> raw]
Rejected == [kind |-> "rejected"]
Beyond(limit) == [kind |-> "limit", of |-> limit]
Unavailable(site) == [kind |-> "unavailable", of |-> site]

End(result) ==
  /\ stage' = "done"
  /\ outcome' = result
  /\ UNCHANGED <<case, artifact, edited, next, cursor, sections, reserved>>

Goto(following) ==
  /\ stage' = following
  /\ UNCHANGED <<case, artifact, edited, next, cursor, sections, reserved, outcome>>

(* Checks in the order they are made: the first that fails ends it.        *)
Fails(condition, result) == [fails |-> condition, result |-> result]

Checked(checks, Proceed) ==
  \/ (\A k \in DOMAIN checks : ~checks[k].fails) /\ Proceed
  \/ \E k \in DOMAIN checks :
       /\ checks[k].fails
       /\ \A j \in 1 .. k - 1 : ~checks[j].fails
       /\ End(checks[k].result)

Init ==
  /\ case \in Cases
  /\ artifact = Laid(0, <<>>)
  /\ edited = FALSE
  /\ stage = "encode"
  /\ next = 1
  /\ cursor = 0
  /\ sections = {}
  /\ reserved = <<>>
  /\ outcome = NoOutcome

(***************************************************************************)
(* encode_fwir, and what may happen to its artifact.                       *)
(***************************************************************************)
Encode ==
  /\ stage = "encode"
  /\ Checked(<<Fails(Refused("StringPool"), Unavailable("StringPool")),
               Fails(Refused("Artifact"), Unavailable("Artifact"))>>,
       /\ artifact' = Encoded(case.program, case.producer)
       /\ stage' = "carry"
       /\ UNCHANGED <<case, edited, next, cursor, sections, reserved, outcome>>)

Carry ==
  /\ stage = "carry"
  /\ \/ UNCHANGED <<artifact, edited>>
     \/ artifact' \in Edits(case, artifact) /\ edited' = TRUE
  /\ stage' = "header"
  /\ UNCHANGED <<case, next, cursor, sections, reserved, outcome>>

(***************************************************************************)
(* preflight: the header and the directory.                                *)
(***************************************************************************)
Header ==
  /\ stage = "header"
  /\ LET count == Len(artifact.directory)
     IN Checked(<<Fails(artifact.bytes > limits.artifact, Beyond("ArtifactBytes")),
                  Fails(artifact.bytes < HeaderSize \/ artifact.major # 1, Rejected),
                  Fails(count > limits.sections, Beyond("Sections")),
                  Fails(DirectoryEnd(count) > artifact.bytes, Rejected)>>,
          /\ cursor' = DirectoryEnd(count)
          /\ stage' = "entry"
          /\ UNCHANGED <<case, artifact, edited, next, sections, reserved, outcome>>)

(* A slip to guard against: the sum of offset and length may wrap.         *)
PayloadFitsWrapping(e) == (e.offset + e.length) % (MaxUsize + 1) <= artifact.bytes

PayloadFits(e) ==
  /\ e.offset + e.length <= MaxUsize
  /\ e.offset + e.length <= artifact.bytes

PayloadEnd(e) == (e.offset + e.length) % (MaxUsize + 1)

PreviousId == IF next = 1 THEN 0 ELSE artifact.directory[next - 1].id

WellPlaced(e) ==
  /\ e.offset <= MaxUsize /\ e.length <= MaxUsize
  /\ e.id > PreviousId
  /\ e.flags \in 0 .. IdentityFlags
  /\ e.offset = cursor
  /\ PayloadFits(e)

WellFormed(e) ==
  /\ e.flags = FlagsOf(e.id)
  /\ e.size = SizeOf(e.id, artifact.minor >= 5)
  /\ e.id = 1 => e.length = RecordSize[1]
  /\ e.id \notin {1, ProducerSection} => e.length # 0
  /\ e.size # 0 => e.length % e.size = 0

(* An extension is passed over if it is neither mandatory nor part of the  *)
(* identity, and the format is later than the first.                       *)
Skippable(e) == e.flags = 0 /\ artifact.minor # 0

IsKnown(e) == e.id \in KnownSections
RecordCount(e) == IF e.size = 0 THEN 0 ELSE e.length \div e.size

Entry ==
  /\ stage = "entry" /\ next <= Len(artifact.directory)
  /\ LET e == artifact.directory[next]
     IN Checked(<<Fails(~WellPlaced(e), Rejected),
                  Fails(IsKnown(e) /\ ~WellFormed(e), Rejected),
                  Fails(~IsKnown(e) /\ ~Skippable(e), Rejected),
                  Fails(IsKnown(e) /\ RecordCount(e) > limits.records,
                        Beyond("RecordsPerSection"))>>,
          /\ cursor' = PayloadEnd(e)
          /\ next' = next + 1
          /\ sections' = IF IsKnown(e) THEN sections \union {e} ELSE sections
          /\ UNCHANGED <<case, artifact, edited, stage, reserved, outcome>>)

CloseDirectory ==
  /\ stage = "entry" /\ next > Len(artifact.directory)
  /\ Checked(<<Fails(cursor # artifact.bytes, Rejected),
               Fails(~HasSection(artifact, 1), Rejected)>>,
       /\ stage' = "strings"
       /\ next' = 1
       /\ UNCHANGED <<case, artifact, edited, cursor, sections, reserved, outcome>>)

(***************************************************************************)
(* validate_strings, the totals and validate_producer.                     *)
(***************************************************************************)
StringArea ==
  LET length == CHOOSE n \in {e.length : e \in sections} :
                  \E e \in sections : e.id = 3 /\ e.length = n
  IN length - (4 + 8 * Len(StringsOf(artifact)))

Strings ==
  /\ stage = "strings"
  /\ LET strings == StringsOf(artifact)
         present == HasSection(artifact, 3)
     IN Checked(<<Fails(present /\ strings = <<>>, Rejected),
                  Fails(Len(strings) > limits.records, Beyond("RecordsPerSection")),
                  Fails(present /\ StringArea < 0, Rejected),
                  Fails(present /\ StringArea > limits.strings, Beyond("StringBytes")),
                  Fails(present /\ strings # <<>> /\ ~SoundStrings(strings, StringArea), Rejected)>>,
          Goto("totals"))

RecordsIn(some) == FoldSet(LAMBDA e, sum : RecordCount(e) + sum, 0, some)

(* A slip to guard against: strings are not counted as records.            *)
TotalWithoutStrings == RecordsIn(sections)

TotalRecords == RecordsIn(sections) + Len(StringsOf(artifact))

ProducerSound ==
  \A e \in sections : e.id = ProducerSection => SoundProducer(artifact, e.length)

Totals ==
  /\ stage = "totals"
  /\ Checked(<<Fails(TotalRecords > limits.total, Beyond("TotalRecords")),
               Fails(~ProducerSound, Rejected)>>,
       Goto("records"))

(***************************************************************************)
(* validate_record_canonicality and validate_string_use.                   *)
(***************************************************************************)
RecordsStep ==
  /\ stage = "records"
  /\ Checked(<<Fails(~SoundRecords(artifact), Rejected)>>, Goto("use"))

StringUse ==
  /\ stage = "use"
  /\ Checked(<<Fails(StringsOf(artifact) # <<>> /\ Refused("StringUse"), Unavailable("StringUse")),
               Fails(~StringsAllUsed(artifact), Rejected)>>,
       Goto("reserve"))

(***************************************************************************)
(* reconstruct_program: the arenas in the order they are reserved; an empty*)
(* one asks for nothing.  Then names are copied and the program is built.  *)
(***************************************************************************)
Arenas ==
  <<<<"Features", 2>>, <<"StringUse", 3>>, <<"SourceUnits", 4>>, <<"Parameters", 5>>,
    <<"Types", 6>>, <<"TypeElements", 7>>, <<"Constants", 8>>, <<"ConstantElements", 9>>,
    <<"Origins", 10>>, <<"OperationReferences", 18>>, <<"Edges", 11>>, <<"ShapeChecks", 12>>,
    <<"Branches", 13>>, <<"Nodes", 14>>, <<"Ownership", 15>>, <<"Roots", 16>>>>

Asks(a, id) == Records(a, id) # <<>>

Reserve ==
  /\ stage = "reserve" /\ next <= Len(Arenas)
  /\ LET site == Arenas[next][1]
         id == Arenas[next][2]
     IN Checked(<<Fails(Asks(artifact, id) /\ Refused(site), Unavailable(site))>>,
          /\ reserved' = Append(reserved, Len(Records(artifact, id)))
          /\ next' = next + 1
          /\ UNCHANGED <<case, artifact, edited, stage, cursor, sections, outcome>>)

Rebuild ==
  /\ stage = "reserve" /\ next > Len(Arenas)
  /\ LET raw == Decoded(artifact)
     IN Checked(<<Fails(Asks(artifact, 4) /\ Refused("SourceName"), Unavailable("SourceName")),
                  Fails(Asks(artifact, 5) /\ Refused("ParameterName"), Unavailable("ParameterName")),
                  Fails(~RawVerifies(raw), Rejected)>>,
          End(Accepted(raw)))

Next ==
  \/ Encode \/ Carry
  \/ Header \/ Entry \/ CloseDirectory \/ Strings \/ Totals
  \/ RecordsStep \/ StringUse \/ Reserve \/ Rebuild

Spec == Init /\ [][Next]_vars

(***************************************************************************)
(* What a program means: strings in place of their indices.                *)
(***************************************************************************)
Meant(raw, scalar) ==
  IF scalar.type = "String" THEN [scalar EXCEPT !.value = raw.strings[scalar.value + 1]] ELSE scalar

Meaning(raw) ==
  [raw EXCEPT
     !.strings = <<>>,
     !.constants = Mapped(@, LAMBDA c : [c EXCEPT !.value = Meant(raw, @)]),
     !.elements = Mapped(@, LAMBDA s : Meant(raw, s)),
     !.nodes = Mapped(@, LAMBDA n : IF n.kind = "Format"
                                   THEN [n EXCEPT !.words[1] = raw.strings[@ + 1]] ELSE n)]

(* Which of the given limits an artifact exceeds, told from its records.   *)
Exceeded(a, most) ==
  LET count(id) == Len(Records(a, id))
      total == FoldSet(LAMBDA id, sum : count(id) + sum, 0, DOMAIN RecordSize)
      bytes == FoldSeq(LAMBDA s, sum : s.length + sum, 0, StringsOf(a))
  IN {limit \in {"ArtifactBytes", "Sections", "RecordsPerSection", "StringBytes", "TotalRecords"} :
        CASE limit = "ArtifactBytes" -> a.bytes > most.artifact
          [] limit = "Sections" -> Len(a.directory) > most.sections
          [] limit = "RecordsPerSection" -> \E id \in DOMAIN RecordSize : count(id) > most.records
          [] limit = "StringBytes" -> bytes > most.strings
          [] limit = "TotalRecords" -> total > most.total}

(* The allocations that decoding the case's program asks for.              *)
AskedFor(raw) ==
  {"StringPool", "Artifact"}
    \union {Arenas[k][1] : k \in {j \in DOMAIN Arenas : RecordsOf(raw, Arenas[j][2]) # <<>>}}
    \union (IF raw.sources = <<>> THEN {} ELSE {"SourceName"})
    \union (IF raw.parameters = <<>> THEN {} ELSE {"ParameterName"})

(* A program that is written and read back means the same, unless one of   *)
(* the reader's limits is below what the artifact holds, or an allocation  *)
(* that this very program needs is refused; then that is what is reported, *)
(* and no program.  encode_fwir against decode_fwir.                       *)
RoundTrip ==
  stage = "done" /\ ~edited =>
    LET raw == case.program
    IN CASE outcome.kind = "limit" -> outcome.of \in Exceeded(artifact, limits)
         [] case.refusal \in AskedFor(raw) /\ Exceeded(artifact, limits) = {} ->
              outcome = Unavailable(case.refusal)
         [] OTHER -> outcome.kind = "program" /\ Meaning(outcome.program) = Meaning(raw)

(* What the reader keeps of an artifact: the known sections, the known     *)
(* features, and presentations only where they were written.               *)
Kept(a) ==
  [id \in DOMAIN RecordSize |->
     CASE id = 2 -> SelectSeq(Records(a, 2), LAMBDA f : f.id \in CurrentFeatures)
       [] id = 16 -> Mapped(Records(a, 16), LAMBDA r : RootOf(a, r))
       [] OTHER -> Records(a, id)]

(* There is one way to write a program: whatever artifact is accepted,     *)
(* encoding the program read from it gives its records again, apart from   *)
(* what the reader is meant to pass over.  validate_record_canonicality,   *)
(* validate_string_use and the verifier together.                          *)
AcceptedIsCanonical ==
  outcome.kind = "program" => Kept(artifact) = Kept(Encoded(outcome.program, NoProducer))

(* The payloads the reader goes on with lie behind the directory, inside   *)
(* the artifact, one behind the other, and when the directory is read its  *)
(* payloads, those passed over too, leave no byte over.  The directory     *)
(* loop of preflight.                                                      *)
BehindEntry(k) ==
  IF k = 0 THEN DirectoryEnd(Len(artifact.directory))
  ELSE artifact.directory[k].offset + artifact.directory[k].length

SectionsTile ==
  /\ \A e \in sections :
       e.offset >= DirectoryEnd(Len(artifact.directory)) /\ e.offset + e.length <= artifact.bytes
  /\ \A e, f \in sections : e.id < f.id => e.offset + e.length <= f.offset
  /\ stage \in {"strings", "totals", "records", "use", "reserve"} =>
       /\ \A k \in DOMAIN artifact.directory :
            artifact.directory[k].offset = BehindEntry(k - 1)
       /\ BehindEntry(Len(artifact.directory)) = artifact.bytes

(* Nothing is reserved, and no program built, from an artifact beyond one  *)
(* of the configured limits.  preflight against reconstruct_program.       *)
LimitsComeFirst ==
  reserved # <<>> \/ outcome.kind = "program" => Exceeded(artifact, limits) = {}
=============================================================================

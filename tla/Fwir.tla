--------------------------------- MODULE Fwir ---------------------------------
(***************************************************************************)
(* The binary form of a program as its writer (src/src/fwir_encoder.rs)    *)
(* and its reader (src/src/fwir_decoder.rs) see it: the section table, the *)
(* tags, and the layout of an artifact.  An artifact is                    *)
(*   major, minor : the format version;                                    *)
(*   directory    : its entries [id, flags, size, offset, length];         *)
(*   contents     : for each entry, the records found in that section;     *)
(*   bytes        : its length.                                            *)
(* A record holds its tags and the words they govern.  Words that are only *)
(* copied are left out; sections made of nothing else hold opaque records. *)
(* A string is a number: its place in the order of bytes.                  *)
(***************************************************************************)
EXTENDS Registry, FiniteSetsExt, Functions

CONSTANTS
  MaxUsize,         (* usize::MAX                                          *)
  MaxU32,           (* u32::MAX, which also stands for an absent index     *)
  StringBytes(_),   (* the length of a string                              *)
  MalformedText,    (* a string that is not UTF-8                          *)
  OddNaN            (* the bits of a NaN that is not the canonical one     *)

NoIndex == MaxU32

(***************************************************************************)
(* Sections.                                                               *)
(***************************************************************************)
HeaderSize == 32
EntrySize == 24
ProducerSection == 32769
IdentityFlags == 3

RecordSize == <<8, 4, 0, 8, 20, 12, 4, 20, 12, 28, 24, 4, 20, 56, 12, 8, 8, 16>>

KnownSections == DOMAIN RecordSize \union {ProducerSection}

FlagsOf(id) == IF id = ProducerSection THEN 0 ELSE IdentityFlags

(* Roots carry a presentation from format minor 5 on.                      *)
WideRoot == 12
SizeOf(id, wide) ==
  CASE id = ProducerSection -> 0
    [] id = 16 /\ wide -> WideRoot
    [] OTHER -> RecordSize[id]

(***************************************************************************)
(* Features: their numbers and the format minor each asks for.             *)
(***************************************************************************)
FeatureId ==
  [StableSemanticIds |-> 1, Tuples |-> 2, PrefixSpread |-> 3, FanOut |-> 4,
   ApplicationPlans |-> 5, OperationReferences |-> 6, BackendNativeMathV1 |-> 7,
   ConnectedApplicationBindings |-> 8, ImmutableBindings |-> 9, Strings |-> 10,
   ValueFormatting |-> 11]

CurrentFeatures == 1 .. FeatureId.ValueFormatting

FormatMinor == <<0, 0, 0, 0, 1, 1, 0, 2, 3, 4, 5>>

Declares(features, name) == FeatureId[name] \in Range(features)

(***************************************************************************)
(* Tags.                                                                   *)
(***************************************************************************)
TypeTag == [Bool |-> 1, Int |-> 2, Double |-> 3, String |-> 4]
AccessTag ==
  [WholeValue |-> 1, TupleElement |-> 2, FanOutOperandBorrow |-> 3,
   ConnectedBindingWhole |-> 4, ConnectedBindingElement |-> 5,
   BindingBorrowWhole |-> 6, BindingBorrowElement |-> 7, BindingMove |-> 8]
CardinalityTag == [None |-> 0, StaticScalar |-> 1, StaticVector |-> 2, DynamicVector |-> 3]
ConversionTag == [Identity |-> 1, PromoteIntToDouble |-> 2]
OwnershipTag == [OwnedInput |-> 1, ImmutableBorrow |-> 2, InfallibleTransfer |-> 3]
KindTag ==
  [Constant |-> 1, ParameterBorrow |-> 2, TupleConstruct |-> 3, SelectedApply |-> 4,
   PrefixSpreadPrepare |-> 5, FanOut |-> 6, ConnectedBinding |-> 7, Binding |-> 8,
   BindingMove |-> 9, BindingBorrow |-> 10, Format |-> 11]
LiftTag ==
  [Scalar |-> 1, Vector |-> 2, DynamicVector |-> 3, ContainerScalar |-> 4,
   ContainerVector |-> 5]
ReleaseTag == [Node |-> 1, Root |-> 2]
PresentationTag == [CanonicalValue |-> 1, RawString |-> 2]

Tags(table) == Range(table)
Named(table, tag) == CHOOSE name \in DOMAIN table : table[name] = tag

(* The words of a node that its kind uses, out of eight.                   *)
NodeWords == 8
UsedWords ==
  [Constant |-> 1, ParameterBorrow |-> 1, TupleConstruct |-> 0, SelectedApply |-> 8,
   PrefixSpreadPrepare |-> 0, FanOut |-> 3, ConnectedBinding |-> 0, Binding |-> 3,
   BindingMove |-> 0, BindingBorrow |-> 0, Format |-> 3]

(* A set of numbers in order; and an operator applied along a sequence.    *)
Ascending(S) ==
  [k \in 1 .. Cardinality(S) |-> CHOOSE x \in S : Cardinality({y \in S : y < x}) = k - 1]

Mapped(seq, Op(_)) == [k \in DOMAIN seq |-> Op(seq[k])]

(***************************************************************************)
(* Layout.  Payloads follow the directory in its order, without a gap.     *)
(* Offsets are usize: a length made up beyond it wraps.                    *)
(***************************************************************************)
DirectoryEnd(count) == HeaderSize + count * EntrySize

Offsets(lengths) ==
  LET offset[k \in 1 .. Len(lengths) + 1] ==
        IF k = 1 THEN DirectoryEnd(Len(lengths))
        ELSE (offset[k - 1] + lengths[k - 1]) % (MaxUsize + 1)
  IN offset

Laid(minor, sections) ==
  LET offset == Offsets(Mapped(sections, LAMBDA s : s.length))
  IN [major |-> 1, minor |-> minor,
      directory |->
        [k \in DOMAIN sections |->
           [id |-> sections[k].id, flags |-> sections[k].flags, size |-> sections[k].size,
            offset |-> offset[k], length |-> sections[k].length]],
      contents |-> Mapped(sections, LAMBDA s : s.records),
      bytes |-> offset[Len(sections) + 1]]

(* The records of a section; a section that is missing has none.           *)
Records(a, id) ==
  LET places == {k \in DOMAIN a.directory : a.directory[k].id = id}
  IN IF places = {} THEN <<>> ELSE a.contents[Min(places)]

HasSection(a, id) == \E k \in DOMAIN a.directory : a.directory[k].id = id

FeaturesOf(a) == Mapped(Records(a, 2), LAMBDA r : r.id)
=============================================================================

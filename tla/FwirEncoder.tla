----------------------------- MODULE FwirEncoder ------------------------------
(***************************************************************************)
(* encode_fwir (src/src/fwir_encoder.rs).  A raw program is a record of    *)
(* its arenas:                                                             *)
(*   semantic, features, strings (string_values);                          *)
(*   sources, names of source units; parameters [name, type];              *)
(*   types [shape, type, range]; constants [shape, value, type, range];    *)
(*   elements, scalars [type, value], a string's value being its index;    *)
(*   edges [access, element, cardinality, length, conversion, ownership];  *)
(*   nodes [kind, words, cardinality, length, lift, result, plan,          *)
(*     reference, anchor], words being those its kind uses: for an         *)
(*     application its identifiers, and zero for anchor and reference;     *)
(*   ownership, roots [node, presentation],                                *)
(*   references <<primitive, signature, implementation>>;                  *)
(*   typeElements, origins, shapeChecks and branches, opaque.              *)
(* Counts beyond u32 are out of the model's bounds.                        *)
(***************************************************************************)
EXTENDS Fwir

(***************************************************************************)
(* The string pool: every name and string once, in the order of bytes.     *)
(***************************************************************************)
PoolSet(raw) ==
  Range(raw.sources) \union Range(Mapped(raw.parameters, LAMBDA q : q.name))
    \union Range(raw.strings)

Pool(raw) == Ascending(PoolSet(raw))

StringIndex(raw, string) == Cardinality({s \in PoolSet(raw) : s < string})

PoolBytes(strings) == FoldSeq(LAMBDA s, sum : StringBytes(s) + sum, 0, strings)

PoolLength(strings) == 4 + 8 * Len(strings) + PoolBytes(strings)

StringRecords(strings) ==
  [k \in DOMAIN strings |->
     [offset |-> PoolBytes(SubSeq(strings, 1, k - 1)), length |-> StringBytes(strings[k]),
      value |-> strings[k]]]

(* A slip to guard against: the index among the program's own strings.     *)
ScalarPartsUnmapped(raw, scalar) ==
  [tag |-> TypeTag[scalar.type], payload |-> scalar.value]

ScalarParts(raw, scalar) ==
  [tag |-> TypeTag[scalar.type],
   payload |-> IF scalar.type = "String" THEN StringIndex(raw, raw.strings[scalar.value + 1])
               ELSE scalar.value]

(***************************************************************************)
(* encode_sections: one operator per kind of record.                       *)
(***************************************************************************)
FeatureRecord(id) == [id |-> id, class |-> 0, reserved |-> 0]

ParameterRecord(raw, q) ==
  [name |-> StringIndex(raw, q.name), type |-> TypeTag[q.type], reserved |-> 0]

ShapeTag == [Scalar |-> 1, Vector |-> 2, Tuple |-> 3]

TypeRecord(t) ==
  [kind |-> ShapeTag[t.shape], type |-> IF t.shape = "Tuple" THEN 0 ELSE TypeTag[t.type],
   range |-> IF t.shape = "Tuple" THEN t.range ELSE 0, reserved |-> 0]

ConstantRecord(raw, c) ==
  IF c.shape = "Scalar"
  THEN [kind |-> 1, type |-> ScalarParts(raw, c.value).tag, range |-> 0,
        payload |-> ScalarParts(raw, c.value).payload, reserved |-> 0]
  ELSE [kind |-> 2, type |-> TypeTag[c.type], range |-> c.range, payload |-> 0, reserved |-> 0]

ElementRecord(raw, scalar) ==
  [type |-> ScalarParts(raw, scalar).tag, payload |-> ScalarParts(raw, scalar).payload,
   reserved |-> 0]

EdgeRecord(e) ==
  [access |-> AccessTag[e.access], element |-> e.element,
   cardinality |-> CardinalityTag[e.cardinality], length |-> e.length,
   conversion |-> ConversionTag[e.conversion], ownership |-> OwnershipTag[e.ownership]]

Padded(words) == [k \in 1 .. NodeWords |-> IF k \in DOMAIN words THEN words[k] ELSE 0]

(* Word 5 is the static anchor, word 8 one more than the reference.        *)
ApplicationWords(n) ==
  [Padded(n.words) EXCEPT ![5] = n.anchor,
                          ![8] = IF n.reference = NoIndex THEN 0 ELSE n.reference + 1]

WordsOf(raw, n) ==
  CASE n.kind = "SelectedApply" -> ApplicationWords(n)
    [] n.kind = "Format" ->
         [Padded(n.words) EXCEPT ![1] = StringIndex(raw, raw.strings[n.words[1] + 1])]
    [] OTHER -> Padded(n.words)

NodeRecord(raw, n) ==
  LET applied == n.kind = "SelectedApply"
  IN [kind |-> KindTag[n.kind], cardinality |-> CardinalityTag[n.cardinality],
      length |-> n.length, lift |-> IF applied THEN LiftTag[n.lift] ELSE 0,
      result |-> IF applied THEN TypeTag[n.result] ELSE 0, words |-> WordsOf(raw, n)]

OwnershipRecord(o) == [after |-> ReleaseTag[o.after], index |-> o.index, reserved |-> 0]

RootRecord(wide, r) ==
  [node |-> r.node, presentation |-> IF wide THEN PresentationTag[r.presentation] ELSE 0,
   reserved |-> 0]

Applications(nodes, IsApplication(_)) ==
  Ascending({i \in DOMAIN nodes : IsApplication(nodes[i])})

PlanRecords(raw) ==
  IF ~Declares(raw.features, "ApplicationPlans") THEN <<>>
  ELSE Mapped(Applications(raw.nodes, LAMBDA n : n.kind = "SelectedApply"),
             LAMBDA i : [node |-> i - 1, plan |-> raw.nodes[i].plan, reserved |-> 0])

ReferenceRecord(r) == [ids |-> r, reserved |-> 0]

RecordsOf(raw, id) ==
  LET wide == Declares(raw.features, "ValueFormatting")
  IN CASE id = 1 -> <<[semantic |-> raw.semantic]>>
       [] id = 2 -> Mapped(raw.features, FeatureRecord)
       [] id = 3 -> StringRecords(Pool(raw))
       [] id = 4 -> Mapped(raw.sources, LAMBDA s : [name |-> StringIndex(raw, s)])
       [] id = 5 -> Mapped(raw.parameters, LAMBDA q : ParameterRecord(raw, q))
       [] id = 6 -> Mapped(raw.types, TypeRecord)
       [] id = 7 -> raw.typeElements
       [] id = 8 -> Mapped(raw.constants, LAMBDA c : ConstantRecord(raw, c))
       [] id = 9 -> Mapped(raw.elements, LAMBDA s : ElementRecord(raw, s))
       [] id = 10 -> raw.origins
       [] id = 11 -> Mapped(raw.edges, EdgeRecord)
       [] id = 12 -> raw.shapeChecks
       [] id = 13 -> raw.branches
       [] id = 14 -> Mapped(raw.nodes, LAMBDA n : NodeRecord(raw, n))
       [] id = 15 -> Mapped(raw.ownership, OwnershipRecord)
       [] id = 16 -> Mapped(raw.roots, LAMBDA r : RootRecord(wide, r))
       [] id = 17 -> PlanRecords(raw)
       [] id = 18 -> Mapped(raw.references, ReferenceRecord)

(***************************************************************************)
(* preflight: the format version and the sections, empty ones left out.    *)
(***************************************************************************)
MinorOf(raw) == Max({0} \union {FormatMinor[f] : f \in Range(raw.features)})

SectionLength(raw, id) ==
  IF id = 3 THEN PoolLength(Pool(raw))
  ELSE Len(RecordsOf(raw, id)) * SizeOf(id, Declares(raw.features, "ValueFormatting"))

SectionOf(raw, id) ==
  [id |-> id, flags |-> FlagsOf(id),
   size |-> SizeOf(id, Declares(raw.features, "ValueFormatting")),
   length |-> SectionLength(raw, id), records |-> RecordsOf(raw, id)]

(* Producer metadata, if asked for: a name, a version, perhaps a digest.   *)
NoProducer == <<>>
DigestLength == <<0, 32>>
ProducerLength(p) == 4 + 9 + 4 + p.version + 4 + p.digest

ProducerOf(p) ==
  [id |-> ProducerSection, flags |-> FlagsOf(ProducerSection), size |-> 0,
   length |-> ProducerLength(p), records |-> <<p>>]

SectionsOf(raw, producer) ==
  LET ids == Ascending({id \in DOMAIN RecordSize : RecordsOf(raw, id) # <<>>})
  IN Mapped(ids, LAMBDA id : SectionOf(raw, id))
       \o Mapped(producer, ProducerOf)

Encoded(raw, producer) == Laid(MinorOf(raw), SectionsOf(raw, producer))
=============================================================================

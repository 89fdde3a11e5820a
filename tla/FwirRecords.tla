----------------------------- MODULE FwirRecords ------------------------------
(***************************************************************************)
(* What decode_fwir asks of the records of an artifact, and the program it *)
(* rebuilds from them (src/src/fwir_decoder.rs).                           *)
(***************************************************************************)
EXTENDS FwirEncoder

All(records, Test(_)) == \A k \in DOMAIN records : Test(records[k])

DeclaresIn(a, feature) == Declares(FeaturesOf(a), feature)

(***************************************************************************)
(* validate_strings: the extents fill the area, the strings ascend.        *)
(***************************************************************************)
StringsOf(a) == Records(a, 3)

Tight(strings, area) ==
  LET end(k) == strings[k].offset + strings[k].length
  IN /\ \A k \in DOMAIN strings :
          /\ strings[k].offset = (IF k = 1 THEN 0 ELSE end(k - 1))
          /\ end(k) <= area
          /\ strings[k].length = StringBytes(strings[k].value)
     /\ end(Len(strings)) = area

InOrder(strings) ==
  \A k \in DOMAIN strings : k > 1 => strings[k - 1].value < strings[k].value

SoundStrings(strings, area) ==
  /\ Tight(strings, area)
  /\ All(strings, LAMBDA s : s.value # MalformedText)
  /\ InOrder(strings)

(* validate_producer: a lower-case v may not begin the version; a version  *)
(* is told by its length here.                                             *)
SoundProducer(a, length) ==
  /\ Records(a, ProducerSection) # <<>>
  /\ LET p == Records(a, ProducerSection)[1]
     IN /\ p.name = "faraweave" /\ p.version > 0
        /\ p.algorithm \in {0, 1} /\ p.digest = DigestLength[p.algorithm + 1]
        /\ length = ProducerLength(p)

(***************************************************************************)
(* validate_features.                                                      *)
(***************************************************************************)
SoundFeature(a, f) ==
  /\ f.id # 0 /\ f.reserved = 0
  /\ IF f.id \in CurrentFeatures
     THEN f.class = 0 /\ FormatMinor[f.id] <= a.minor
     ELSE f.class = 1

SoundFeatures(a) ==
  LET features == Records(a, 2)
  IN /\ All(features, LAMBDA f : SoundFeature(a, f))
     /\ \A k \in DOMAIN features : k > 1 => features[k - 1].id < features[k].id

(***************************************************************************)
(* validate_record_canonicality, section by section.                       *)
(***************************************************************************)
NamesString(a, index) == index < Len(StringsOf(a))
IsType(tag) == tag \in Tags(TypeTag)

(* cardinality_from_parts and scalar_constant_from_parts.                  *)
IsCardinality(tag, length) ==
  /\ tag \in Tags(CardinalityTag)
  /\ tag # CardinalityTag.StaticVector => length = 0

IsScalar(tag, payload) ==
  /\ IsType(tag)
  /\ tag = TypeTag.Bool => payload <= 1
  /\ tag = TypeTag.Double => payload # OddNaN
  /\ tag = TypeTag.String => payload <= MaxU32

SoundParameter(a, q) == NamesString(a, q.name) /\ IsType(q.type) /\ q.reserved = 0

SoundType(t) ==
  /\ t.reserved = 0
  /\ \/ t.kind \in {ShapeTag.Scalar, ShapeTag.Vector} /\ IsType(t.type) /\ t.range = 0
     \/ t.kind = ShapeTag.Tuple /\ t.type = 0

SoundConstant(c) ==
  /\ c.reserved = 0
  /\ \/ c.kind = ShapeTag.Scalar /\ IsScalar(c.type, c.payload) /\ c.range = 0
     \/ c.kind = ShapeTag.Vector /\ IsType(c.type) /\ c.payload = 0

SoundElement(e) == IsScalar(e.type, e.payload) /\ e.reserved = 0

(* The accesses and kinds that ask for a feature of their own.             *)
AccessFeature ==
  [ConnectedBindingWhole |-> "ConnectedApplicationBindings",
   ConnectedBindingElement |-> "ConnectedApplicationBindings",
   BindingBorrowWhole |-> "ImmutableBindings", BindingBorrowElement |-> "ImmutableBindings",
   BindingMove |-> "ImmutableBindings"]

KindFeature ==
  [ConnectedBinding |-> "ConnectedApplicationBindings", Binding |-> "ImmutableBindings",
   BindingMove |-> "ImmutableBindings", BindingBorrow |-> "ImmutableBindings",
   Format |-> "ValueFormatting"]

Allowed(a, table, name) == name \in DOMAIN table => DeclaresIn(a, table[name])

ElementAccess == {"TupleElement", "ConnectedBindingElement", "BindingBorrowElement"}

SoundEdge(a, e) ==
  /\ e.access \in Tags(AccessTag)
  /\ LET access == Named(AccessTag, e.access)
     IN Allowed(a, AccessFeature, access) /\ (access \notin ElementAccess => e.element = 0)
  /\ IsCardinality(e.cardinality, e.length)
  /\ e.conversion \in Tags(ConversionTag)
  /\ e.ownership \in Tags(OwnershipTag)

(* A slip to guard against: unused words are not looked at.                *)
UnusedWordsAnything(n) == TRUE

UnusedWordsZero(n) ==
  \A k \in 1 .. NodeWords : k > UsedWords[Named(KindTag, n.kind)] => n.words[k] = 0

SoundPlainNode(n) == n.lift = 0 /\ n.result = 0 /\ UnusedWordsZero(n)

NamesOperation(primitive, signature, implementation) ==
  /\ implementation \in Implementations
  /\ signature = implementation
  /\ primitive = PrimitiveId(Descriptor(implementation).name)

TakesReference(implementation) ==
  Descriptor(implementation).behavior \in {"Foldl", "Scanl", "VectorFilter"}

SoundReference(a, n) ==
  IF TakesReference(n.words[3])
  THEN DeclaresIn(a, "OperationReferences") /\ n.words[8] \in 1 .. Len(Records(a, 18))
  ELSE n.words[8] = 0

SoundApplication(a, n) ==
  /\ n.lift \in Tags(LiftTag)
  /\ n.lift \in {LiftTag.ContainerScalar, LiftTag.ContainerVector} => DeclaresIn(a, "ApplicationPlans")
  /\ IsType(n.result)
  /\ NamesOperation(n.words[1], n.words[2], n.words[3])
  /\ SoundReference(a, n)

IsApplication(n) == n.kind = KindTag.SelectedApply

SoundNode(a, n) ==
  /\ IsCardinality(n.cardinality, n.length)
  /\ n.kind \in Tags(KindTag)
  /\ Allowed(a, KindFeature, Named(KindTag, n.kind))
  /\ IF IsApplication(n) THEN SoundApplication(a, n) ELSE SoundPlainNode(n)

(* One plan for each application, in the order of the nodes.               *)
SoundPlans(a) ==
  LET plans == Records(a, 17)
      nodes == Records(a, 14)
      applied == Applications(nodes, IsApplication)
  IN IF DeclaresIn(a, "ApplicationPlans")
     THEN /\ Len(plans) = Len(applied)
          /\ \A k \in DOMAIN plans :
               /\ plans[k].node = applied[k] - 1 /\ plans[k].reserved = 0
               /\ plans[k].plan = Descriptor(nodes[applied[k]].words[3]).plan
     ELSE ~HasSection(a, 17)

SoundOwnership(o) == o.after \in Tags(ReleaseTag) /\ o.reserved = 0

SoundRoot(a, r) ==
  a.minor >= 5 => r.presentation \in Tags(PresentationTag) /\ r.reserved = 0

SoundOperationReference(r) ==
  /\ r.reserved = 0
  /\ NamesOperation(r.ids[1], r.ids[2], r.ids[3])
  /\ Descriptor(r.ids[3]).behavior = "Elementwise"

SoundRecords(a) ==
  /\ SoundFeatures(a)
  /\ All(Records(a, 4), LAMBDA s : NamesString(a, s.name))
  /\ All(Records(a, 5), LAMBDA q : SoundParameter(a, q))
  /\ All(Records(a, 6), SoundType)
  /\ All(Records(a, 8), SoundConstant)
  /\ All(Records(a, 9), SoundElement)
  /\ All(Records(a, 11), LAMBDA e : SoundEdge(a, e))
  /\ All(Records(a, 14), LAMBDA n : SoundNode(a, n))
  /\ SoundPlans(a)
  /\ All(Records(a, 15), SoundOwnership)
  /\ All(Records(a, 16), LAMBDA r : SoundRoot(a, r))
  /\ All(Records(a, 18), SoundOperationReference)

(***************************************************************************)
(* validate_string_use: every string is named by some record, and no       *)
(* constant or template names one that is not there.                       *)
(***************************************************************************)
StringsNamed(a) ==
  {s.name : s \in Range(Records(a, 4))} \union {q.name : q \in Range(Records(a, 5))}

StringsMeant(a) ==
  LET scalars == Range(Records(a, 8)) \union Range(Records(a, 9))
  IN {c.payload : c \in {x \in scalars : x.type = TypeTag.String}}
     \union {n.words[1] : n \in {x \in Range(Records(a, 14)) : x.kind = KindTag.Format}}

StringsAllUsed(a) ==
  LET pool == 0 .. Len(StringsOf(a)) - 1
  IN StringsOf(a) # <<>> => /\ StringsMeant(a) \subseteq pool
                            /\ pool \subseteq StringsNamed(a) \union StringsMeant(a)

(***************************************************************************)
(* reconstruct_program.                                                    *)
(***************************************************************************)
StringAt(a, index) == StringsOf(a)[index + 1].value

ScalarOf(tag, payload) == [type |-> Named(TypeTag, tag), value |-> payload]

NoScalar == [type |-> "Bool", value |-> 0]

TypeOfRecord(t) ==
  [shape |-> Named(ShapeTag, t.kind),
   type |-> IF t.kind = ShapeTag.Tuple THEN "None" ELSE Named(TypeTag, t.type),
   range |-> t.range]

ConstantOf(c) ==
  IF c.kind = ShapeTag.Scalar
  THEN [shape |-> "Scalar", value |-> ScalarOf(c.type, c.payload), type |-> "None", range |-> 0]
  ELSE [shape |-> "Vector", value |-> NoScalar, type |-> Named(TypeTag, c.type), range |-> c.range]

EdgeOf(e) ==
  [access |-> Named(AccessTag, e.access), element |-> e.element,
   cardinality |-> Named(CardinalityTag, e.cardinality), length |-> e.length,
   conversion |-> Named(ConversionTag, e.conversion),
   ownership |-> Named(OwnershipTag, e.ownership)]

(* Without explicit plans a plan is the one of its operation.              *)
PlanFor(a, i) ==
  IF DeclaresIn(a, "ApplicationPlans")
  THEN LET before == {j \in 1 .. i : IsApplication(Records(a, 14)[j])}
       IN Records(a, 17)[Cardinality(before)].plan
  ELSE Descriptor(Records(a, 14)[i].words[3]).plan

PlainNodeOf(n) ==
  LET kind == Named(KindTag, n.kind)
  IN [kind |-> kind, words |-> SubSeq(n.words, 1, UsedWords[kind]),
      cardinality |-> Named(CardinalityTag, n.cardinality), length |-> n.length,
      lift |-> "None", result |-> "None", plan |-> 0, reference |-> NoIndex,
      anchor |-> NoIndex]

NodeOf(a, i) ==
  LET n == Records(a, 14)[i]
  IN IF IsApplication(n)
     THEN [PlainNodeOf(n) EXCEPT !.words = [n.words EXCEPT ![5] = 0, ![8] = 0],
                                 !.lift = Named(LiftTag, n.lift),
                                 !.result = Named(TypeTag, n.result),
                                 !.plan = PlanFor(a, i),
                                 !.reference = IF n.words[8] = 0 THEN NoIndex ELSE n.words[8] - 1,
                                 !.anchor = n.words[5]]
     ELSE PlainNodeOf(n)

RootOf(a, r) ==
  [node |-> r.node,
   presentation |-> IF a.minor >= 5 THEN Named(PresentationTag, r.presentation)
                    ELSE "CanonicalValue"]

Decoded(a) ==
  [semantic |-> Records(a, 1)[1].semantic,
   features |-> SelectSeq(FeaturesOf(a), LAMBDA f : f \in CurrentFeatures),
   strings |-> Mapped(StringsOf(a), LAMBDA s : s.value),
   sources |-> Mapped(Records(a, 4), LAMBDA s : StringAt(a, s.name)),
   parameters |-> Mapped(Records(a, 5),
                        LAMBDA q : [name |-> StringAt(a, q.name), type |-> Named(TypeTag, q.type)]),
   types |-> Mapped(Records(a, 6), TypeOfRecord),
   typeElements |-> Records(a, 7),
   constants |-> Mapped(Records(a, 8), ConstantOf),
   elements |-> Mapped(Records(a, 9), LAMBDA e : ScalarOf(e.type, e.payload)),
   origins |-> Records(a, 10),
   edges |-> Mapped(Records(a, 11), EdgeOf),
   shapeChecks |-> Records(a, 12),
   branches |-> Records(a, 13),
   nodes |-> [i \in DOMAIN Records(a, 14) |-> NodeOf(a, i)],
   ownership |-> Mapped(Records(a, 15),
                       LAMBDA o : [after |-> Named(ReleaseTag, o.after), index |-> o.index]),
   roots |-> Mapped(Records(a, 16), LAMBDA r : RootOf(a, r)),
   references |-> Mapped(Records(a, 18), LAMBDA r : r.ids)]

(***************************************************************************)
(* The part of verify_program (src/src/typed_program.rs) that depends on   *)
(* what only the binary form could get wrong: strings, features, versions. *)
(***************************************************************************)
ScalarsOf(raw) ==
  {c.value : c \in {x \in Range(raw.constants) : x.shape = "Scalar"}} \union Range(raw.elements)

KindsOf(raw) == {n.kind : n \in Range(raw.nodes)}
AccessesOf(raw) == {e.access : e \in Range(raw.edges)}

StringsMeantBy(raw) ==
  {s.value : s \in {x \in ScalarsOf(raw) : x.type = "String"}}
    \union {n.words[1] : n \in {x \in Range(raw.nodes) : x.kind = "Format"}}

(* verify_string_values, and the bounds of what names a string.            *)
StringValuesUsed(raw) ==
  /\ \A k \in DOMAIN raw.strings :
       \/ raw.strings[k] \in Range(raw.sources) \union {q.name : q \in Range(raw.parameters)}
       \/ k - 1 \in StringsMeantBy(raw)
  /\ \A index \in StringsMeantBy(raw) : index < Len(raw.strings)

StringTyped(raw) ==
  \/ \E q \in Range(raw.parameters) : q.type = "String"
  \/ \E t \in Range(raw.types) : t.type = "String"
  \/ \E c \in Range(raw.constants) : c.type = "String"
  \/ \E s \in ScalarsOf(raw) : s.type = "String"
  \/ "Format" \in KindsOf(raw)

OperationsOf(raw) == {n.words[3] : n \in {x \in Range(raw.nodes) : x.kind = "SelectedApply"}}

IsContainer(implementation) ==
  LET d == Descriptor(implementation)
  IN \/ \E k \in DOMAIN d.parameters : d.parameters[k].use = "WholeVector"
     \/ ApplicationPlans[d.plan].result \in
          {"Scalar", "PreserveOperand", "OperandPlusOne", "SubsetOfOperand"}

FeaturesUsed(raw) ==
  {f \in DOMAIN FeatureId :
     CASE f = "StableSemanticIds" -> "SelectedApply" \in KindsOf(raw)
       [] f = "Tuples" -> \E t \in Range(raw.types) : t.shape = "Tuple"
       [] f = "PrefixSpread" ->
            \/ "PrefixSpreadPrepare" \in KindsOf(raw)
            \/ AccessesOf(raw) \intersect {"TupleElement", "BindingBorrowElement"} # {}
       [] f = "FanOut" -> "FanOut" \in KindsOf(raw) \/ "FanOutOperandBorrow" \in AccessesOf(raw)
       [] f = "ApplicationPlans" -> \E k \in OperationsOf(raw) : IsContainer(k)
       [] f = "OperationReferences" -> raw.references # <<>>
       [] f = "BackendNativeMathV1" ->
            \E k \in OperationsOf(raw) : IsBackendNativeMath(Descriptor(k).name)
       [] f = "Strings" -> StringTyped(raw)
       [] f = "ValueFormatting" ->
            "Format" \in KindsOf(raw) \/ \E r \in Range(raw.roots) : r.presentation = "RawString"
       [] OTHER ->
            \/ \E k \in KindsOf(raw) \intersect DOMAIN KindFeature : KindFeature[k] = f
            \/ \E x \in AccessesOf(raw) \intersect DOMAIN AccessFeature : AccessFeature[x] = f}

ExactFeatures ==
  {"ConnectedApplicationBindings", "ImmutableBindings", "Strings", "ValueFormatting"}

SemanticMinor == <<0, 0, 0, 0, 1, 1, 1, 2, 3, 4, 5>>

FeaturesVerify(raw) ==
  LET declared == {f \in DOMAIN FeatureId : Declares(raw.features, f)}
  IN /\ raw.semantic <= 5
     /\ \A f \in declared : SemanticMinor[FeatureId[f]] <= raw.semantic
     /\ FeaturesUsed(raw) \subseteq declared
     /\ (declared \ FeaturesUsed(raw)) \intersect ExactFeatures = {}

(* A raw root is the value of a format, verify_roots_and_features.         *)
RootsVerify(raw) ==
  \A r \in Range(raw.roots) :
    /\ r.node < Len(raw.nodes)
    /\ r.presentation = "RawString" => raw.nodes[r.node + 1].kind = "Format"

RawVerifies(raw) == StringValuesUsed(raw) /\ FeaturesVerify(raw) /\ RootsVerify(raw)
=============================================================================

-------------------------------- MODULE MCFwir --------------------------------
(***************************************************************************)
(* Programs that between them have a record of every kind, the limits at   *)
(* and below what they need, every allocation refused, and for the program *)
(* with the ordinary limits one change of its artifact: a tag or word of a *)
(* record, a field of the directory, a section or feature added, missing   *)
(* or doubled, the header.                                                 *)
(***************************************************************************)
EXTENDS FwirDecoder

MCStringBytes(s) == s % 3

(***************************************************************************)
(* Programs.                                                               *)
(***************************************************************************)
Scalar(type, value) == [type |-> type, value |-> value]
ScalarT(type) == [shape |-> "Scalar", type |-> type, range |-> 0]
VectorT(type) == [shape |-> "Vector", type |-> type, range |-> 0]
TupleT == [shape |-> "Tuple", type |-> "None", range |-> 3]
ScalarC(type, value) ==
  [shape |-> "Scalar", value |-> Scalar(type, value), type |-> "None", range |-> 0]
VectorC(type) == [shape |-> "Vector", value |-> NoScalar, type |-> type, range |-> 2]

Use(access) ==
  [access |-> access, element |-> IF access \in ElementAccess THEN 1 ELSE 0,
   cardinality |-> "StaticScalar", length |-> 0, conversion |-> "Identity",
   ownership |-> "ImmutableBorrow"]
UseOfVector ==
  [Use("WholeValue") EXCEPT !.cardinality = "StaticVector", !.length = 2,
                            !.conversion = "PromoteIntToDouble"]

NodeWith(kind, words) ==
  [kind |-> kind, words |-> words, cardinality |-> "StaticScalar", length |-> 0,
   lift |-> "None", result |-> "None", plan |-> 0, reference |-> NoIndex, anchor |-> NoIndex]

RowWith(name) == Min(DescriptorsOf(name))
Identity(k) == <<PrimitiveId(Descriptor(k).name), k, k>>
Apply(name, lift, reference) ==
  LET k == RowWith(name)
  IN [NodeWith("SelectedApply", Identity(k) \o <<0, 0, 0, 0, 0>>) EXCEPT
        !.lift = lift, !.result = Descriptor(k).result, !.plan = Descriptor(k).plan,
        !.reference = reference]

Opaque(record) == [record |-> record]
Owned(after) == [after |-> after, index |-> 0]
Shown(node, presentation) == [node |-> node, presentation |-> presentation]

Nothing ==
  [semantic |-> 0, features |-> <<>>, strings |-> <<>>, sources |-> <<>>, parameters |-> <<>>,
   types |-> <<>>, typeElements |-> <<>>, constants |-> <<>>, elements |-> <<>>,
   origins |-> <<>>, edges |-> <<>>, shapeChecks |-> <<>>, branches |-> <<>>, nodes |-> <<>>,
   ownership |-> <<>>, roots |-> <<>>, references |-> <<>>]

(* true, with its source's name.                                           *)
OneScalar ==
  [Nothing EXCEPT
     !.sources = <<4>>, !.types = <<ScalarT("Bool")>>, !.constants = <<ScalarC("Bool", 1)>>,
     !.origins = <<Opaque("root")>>, !.nodes = <<NodeWith("Constant", <<0>>)>>,
     !.ownership = <<Owned("Root")>>, !.roots = <<Shown(0, "CanonicalValue")>>]

(* Parameters, vectors, operations that take and give containers.          *)
Containers ==
  [Nothing EXCEPT
     !.semantic = 1, !.features = <<1, 5, 6>>, !.sources = <<4>>,
     !.parameters = <<[name |-> 2, type |-> "Int"], [name |-> 1, type |-> "Double"]>>,
     !.types = <<ScalarT("Int"), VectorT("Int")>>, !.constants = <<VectorC("Int")>>,
     !.elements = <<Scalar("Int", 5), Scalar("Int", 6)>>,
     !.edges = <<UseOfVector, Use("WholeValue")>>, !.shapeChecks = <<Opaque("check")>>,
     !.nodes = <<NodeWith("ParameterBorrow", <<0>>), NodeWith("Constant", <<0>>),
                 [Apply("inc", "Vector", NoIndex) EXCEPT !.cardinality = "StaticVector",
                                                        !.length = 2, !.anchor = 0],
                 Apply("foldl", "ContainerScalar", 0)>>,
     !.ownership = <<Owned("Node"), Owned("Root")>>, !.roots = <<Shown(3, "CanonicalValue")>>,
     !.references = <<Identity(RowWith("add"))>>]

(* Strings that are out of order, twice the same, or also a name.          *)
Texts ==
  [Nothing EXCEPT
     !.semantic = 4, !.features = <<10>>, !.strings = <<7, 4, 2, 7>>, !.sources = <<4>>,
     !.types = <<ScalarT("String"), VectorT("String")>>,
     !.constants = <<ScalarC("String", 0), ScalarC("String", 1), VectorC("String")>>,
     !.elements = <<Scalar("String", 2), Scalar("String", 3)>>,
     !.nodes = <<NodeWith("Constant", <<0>>), NodeWith("Constant", <<2>>)>>,
     !.roots = <<Shown(0, "CanonicalValue"), Shown(1, "CanonicalValue")>>]

(* A format, shown raw; its template sorts behind the source's name.       *)
Formatted ==
  [Nothing EXCEPT
     !.semantic = 5, !.features = <<10, 11>>, !.strings = <<5>>, !.sources = <<4>>,
     !.types = <<ScalarT("String")>>, !.edges = <<Use("WholeValue")>>,
     !.nodes = <<NodeWith("Format", <<0, 1, 2>>)>>,
     !.roots = <<Shown(0, "RawString"), Shown(0, "CanonicalValue")>>]

(* Tuples, spreads, fan-outs and bindings.                                 *)
Carriers ==
  [Nothing EXCEPT
     !.semantic = 3, !.features = <<2, 3, 4, 8, 9>>, !.types = <<TupleT>>,
     !.typeElements = <<Opaque("first"), Opaque("second")>>,
     !.edges = <<Use("TupleElement"), Use("FanOutOperandBorrow"), Use("ConnectedBindingWhole"),
                 Use("ConnectedBindingElement"), Use("BindingBorrowWhole"),
                 Use("BindingBorrowElement"), Use("BindingMove")>>,
     !.branches = <<Opaque("branch")>>,
     !.nodes = <<NodeWith("TupleConstruct", <<>>), NodeWith("PrefixSpreadPrepare", <<>>),
                 NodeWith("FanOut", <<0, 1, 1>>), NodeWith("ConnectedBinding", <<>>),
                 NodeWith("Binding", <<0, 1, 2>>), NodeWith("BindingMove", <<>>),
                 NodeWith("BindingBorrow", <<>>)>>,
     !.roots = <<Shown(6, "CanonicalValue")>>]

Programs == {Nothing, OneScalar, Containers, Texts, Formatted, Carriers}

(***************************************************************************)
(* Cases.                                                                  *)
(***************************************************************************)
Ordinary == [artifact |-> 1500, sections |-> 19, records |-> 50, total |-> 100, strings |-> 20]

MCLimits ==
  {Ordinary}
    \union {[Ordinary EXCEPT !.artifact = n] : n \in {31, 63, 64, 400}}
    \union {[Ordinary EXCEPT !.sections = n] : n \in {0, 1, 9, 13}}
    \union {[Ordinary EXCEPT !.records = n] : n \in {0, 1, 2, 4}}
    \union {[Ordinary EXCEPT !.total = n] : n \in 7 .. 20}
    \union {[Ordinary EXCEPT !.strings = n] : n \in 0 .. 5}

Sites ==
  {NoRefusal, "StringPool", "Artifact", "SourceName", "ParameterName"}
    \union {Arenas[k][1] : k \in DOMAIN Arenas}

Signed == [name |-> "faraweave", version |-> 5, algorithm |-> 1, digest |-> 32]
Unsigned == [Signed EXCEPT !.algorithm = 0, !.digest = 0]

CaseOf(raw, producer, configured, site) ==
  [program |-> raw, producer |-> producer, limits |-> configured, refusal |-> site]

MCCases ==
  {CaseOf(raw, NoProducer, configured, NoRefusal) : raw \in Programs, configured \in MCLimits}
    \union {CaseOf(raw, NoProducer, Ordinary, site) : raw \in Programs, site \in Sites}
    \union {CaseOf(raw, p, Ordinary, NoRefusal) : raw \in {Nothing, OneScalar}, p \in {<<Signed>>, <<Unsigned>>}}

(***************************************************************************)
(* Changes of an artifact.                                                 *)
(***************************************************************************)
Values == {0, 1, 3, 5, 12}

Structured == {k \in 1 .. 18 : k \notin {7, 10, 12, 13}} \union {ProducerSection}

FieldsChanged(r) ==
  UNION {IF field \in {"words", "ids"}
         THEN {[r EXCEPT ![field][j] = v] : j \in DOMAIN r[field], v \in Values}
         ELSE IF field = "name" /\ "digest" \in DOMAIN r THEN {[r EXCEPT !.name = "other"]}
         ELSE {[r EXCEPT ![field] = v] : v \in Values} : field \in DOMAIN r}

RecordEdits(a) ==
  UNION {UNION {{[a EXCEPT !.contents[k][i] = r] : r \in FieldsChanged(a.contents[k][i])} :
                i \in DOMAIN a.contents[k]} :
         k \in {j \in DOMAIN a.directory : a.directory[j].id \in Structured}}

EntriesChanged(e) ==
  {[e EXCEPT !.id = n] : n \in {0, 1, 2, 20, ProducerSection}}
    \union {[e EXCEPT !.flags = n] : n \in {0, 1, 2, 7}}
    \union {[e EXCEPT !.size = n] : n \in {0, 8, 12}}
    \union {[e EXCEPT !.offset = n] : n \in {0, e.offset + 4, MaxUsize + 1}}
    \union {[e EXCEPT !.length = n] :
              n \in {0, e.length + e.size, e.length + 1, MaxUsize, MaxUsize - e.offset + 1}}

DirectoryEdits(a) ==
  UNION {{[a EXCEPT !.directory[k] = e] : e \in EntriesChanged(a.directory[k])} :
         k \in DOMAIN a.directory}

SectionsIn(a) ==
  [k \in DOMAIN a.directory |->
     [id |-> a.directory[k].id, flags |-> a.directory[k].flags, size |-> a.directory[k].size,
      length |-> a.directory[k].length, records |-> a.contents[k]]]

Extension(id, flags, length) ==
  [id |-> id, flags |-> flags, size |-> 0, length |-> length, records |-> <<>>]

ExtraFeature(id, class) == [id |-> id, class |-> class, reserved |-> 0]

WithFeatures(parts, features) ==
  LET section == [id |-> 2, flags |-> IdentityFlags, size |-> 4, length |-> 4 * Len(features),
                  records |-> features]
      rest == SelectSeq(parts, LAMBDA s : s.id > 2)
  IN <<parts[1]>> \o (IF features = <<>> THEN <<>> ELSE <<section>>) \o rest

SectionEdits(a) ==
  LET parts == SectionsIn(a)
      features == Records(a, 2)
      minors == {a.minor, 5, 6}
      extended ==
        {InsertAt(parts, k, Extension(id, flags, length)) :
           k \in {j \in 2 .. Len(parts) + 1 : j >= Len(parts)}, id \in {20, 40000},
           flags \in {0, 1, 2}, length \in {0, 5, MaxUsize, MaxUsize - 10}}
      shortened == {RemoveAt(parts, k) : k \in DOMAIN parts}
      doubled == {InsertAt(parts, k, parts[k]) : k \in DOMAIN parts}
      featured ==
        {WithFeatures(parts, Append(features, ExtraFeature(id, class))) :
           id \in {5, 6, 8, 11, 12}, class \in 0 .. 2}
        \union {WithFeatures(parts, RemoveAt(features, k)) : k \in DOMAIN features}
  IN {Laid(minor, s) : minor \in minors, s \in extended \union featured}
       \union {Laid(a.minor, s) : s \in shortened \union doubled}

HeaderEdits(a) ==
  {[a EXCEPT !.minor = n] : n \in 0 .. 6} \union {[a EXCEPT !.major = 2]}
    \union {[a EXCEPT !.bytes = n] : n \in {0, 31, 32, a.bytes - 1, a.bytes + 1}}

MCEdits(c, a) ==
  IF c.limits # Ordinary \/ c.refusal # NoRefusal THEN {}
  ELSE RecordEdits(a) \union DirectoryEdits(a) \union SectionEdits(a) \union HeaderEdits(a)
=============================================================================

----------------------------- MODULE MCInterpreter -----------------------------
(***************************************************************************)
(* Instances of Interpreter: the catalogue of small verified programs,     *)
(* sliced by what a run asks, under configurations that refuse each kind   *)
(* of request, early and late.                                             *)
(***************************************************************************)
EXTENDS Interpreter, ProgramCatalogue

(***************************************************************************)
(* Configurations.                                                         *)
(***************************************************************************)
Trusted(profile, fail) ==
  [profile |-> profile, max_vector_bytes |-> None, max_tuple_table_bytes |-> None,
   max_live_evaluation_bytes |-> None, max_work_units |-> None,
   fail_at_ordinal |-> fail]

Bounded(profile, tuple, live, work, fail) ==
  [profile |-> profile, max_vector_bytes |-> None, max_tuple_table_bytes |-> tuple,
   max_live_evaluation_bytes |-> live, max_work_units |-> work,
   fail_at_ordinal |-> fail]

SomeConfigurations ==
  {Trusted("TrustedLocalV1", None)}
    \union {Trusted("TrustedLocalV2", fail) : fail \in {None, 1, 2, 3}}
    \union {Bounded("BoundedV2", None, 7, None, None),
            Bounded("BoundedV2", 2, None, None, 0),
            Bounded("BoundedV2", None, None, 2, None)}

MCConfigurations == SomeConfigurations

(***************************************************************************)
(* Programs.                                                               *)
(***************************************************************************)
Edge(producer, access, ownership) ==
  [producer |-> producer, access |-> access, element |-> 0, ownership |-> ownership]

Whole(producer) == Edge(producer, "WholeValue", "InfallibleTransfer")
BorrowOf(producer) == Edge(producer, "BindingBorrowWhole", "ImmutableBorrow")

BindingOf(producer, type) == MakeNode("Binding", type, <<Whole(producer)>>)

NoArguments == <<>>
TwoArguments ==
  <<Plain("string", 3, Label(-1, <<>>)), Plain("string", 1, Label(-2, <<>>))>>

(* Vectors and scalars, used directly.                                     *)
Plainly == Grown({<<VectorNode(2)>>}, 3) \union Grown({<<ScalarNode, VectorNode(2)>>}, 2)

(* A filter, which charges its work before it knows its result.            *)
Filters ==
  Grown({<<VectorNode(2),
           [MakeNode("SelectedApply", Type("vector"), <<Edge(1, "WholeValue", "OwnedInput")>>)
              EXCEPT !.plan = "filter"]>>}, 1)

Strings == Grown({<<StringNode(3), ScalarNode>>}, 2)

(* Tuples of none, one and two elements, spread or passed on.              *)
EmptyTuple == MakeNode("TupleConstruct", TupleType(<<>>), <<>>)
Wrapping(type) == MakeNode("TupleConstruct", TupleType(<<type>>), <<Whole(1)>>)
Pairing(left, right) ==
  MakeNode("TupleConstruct", TupleType(<<left, right>>), <<Whole(1), Whole(2)>>)

SmallTuples ==
  LET pair == Pairing(Type("scalar"), Type("vector"))
      paired == <<ScalarNode, VectorNode(2), pair>>
  IN Grown({<<VectorNode(2), Wrapping(Type("vector"))>>, paired,
            Append(paired, BindingOf(3, pair.type)),
            <<EmptyTuple>>, <<EmptyTuple, VectorNode(0)>>}, 2)

(* A fan-out over a borrowed binding, and one whose branch spreads a tuple. *)
Hole(producer) == Edge(producer, "FanOutOperandBorrow", "ImmutableBorrow")

HoleApply(producer) ==
  [MakeNode("SelectedApply", Type("vector"), <<Hole(producer)>>) EXCEPT !.plan = "vector"]

FannedOut ==
  LET vector == Type("vector")
      pair   == Wrapping(vector)
      bound  == <<VectorNode(2), BindingOf(1, vector),
                  MakeNode("BindingBorrow", vector, <<BorrowOf(2)>>), HoleApply(3)>>
      spread == <<VectorNode(2), pair,
                  MakeNode("PrefixSpreadPrepare", pair.type, <<Hole(2)>>)>>
      opened == {bound, Append(bound, HoleApply(3)),
                 Append(spread, [MakeNode("SelectedApply", vector, SpreadEdges(spread, 3))
                                   EXCEPT !.plan = "vector"])}
      closed == UNION {{Append(nodes, f) : f \in FanOutNodes(nodes)} : nodes \in opened}
  IN Grown(closed, 1)

Parameters ==
  Grown({<<ParameterNode(1, "string")>>,
         <<ParameterNode(1, "string"), ParameterNode(2, "string")>>}, 2)

(* The sound ones: lowered as the compiler would, and without the nesting  *)
(* whose size NestedTuples.cfg shows to be wrong.                          *)
Sound(p) == AsLowered(p) /\ ~NestsTupleLate(p)

Kept(sequences, arguments) == {p \in Accepted(sequences, arguments) : Sound(p)}

SoundPrograms ==
  Kept(Plainly, NoArguments) \union Kept(Filters, NoArguments)
    \union Kept(Strings, NoArguments)
    \union Kept(SmallTuples, NoArguments) \union Kept(FannedOut, NoArguments)
    \union Kept(Parameters, TwoArguments)

MCPrograms == SoundPrograms

(* Tuples whose second element is a tuple.                                 *)
NestingPrograms ==
  {p \in Accepted(Grown({<<ScalarNode, ScalarNode,
                           MakeNode("TupleConstruct", TupleType(<<Type("scalar")>>),
                                    <<Whole(2)>>)>>}, 2), NoArguments) :
     AsLowered(p) /\ NestsTupleLate(p)}

MCNestingPrograms == NestingPrograms

(* Whatever the verifier accepts, lowered from source or not.              *)
VerifiedPrograms ==
  Accepted(Grown({<<VectorNode(2), BindingOf(1, Type("vector"))>>}, 2), NoArguments)

MCVerifiedPrograms == VerifiedPrograms
=============================================================================

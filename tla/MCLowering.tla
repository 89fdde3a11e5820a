------------------------------ MODULE MCLowering ------------------------------
(***************************************************************************)
(* Small sources: one or two declarations and one or two roots, over       *)
(* expressions of every form.                                              *)
(***************************************************************************)
EXTENDS Lowering

Scalar == Literal("scalar")
Vector == Literal("vector")
Text   == Literal("string")
a == Name("a")
b == Name("b")
p == Name("p")

Let(x, body) == [name |-> x, body |-> body]
Root(body) == [name |-> NoName, body |-> body]
SourceOf(parameters, items) == [parameters |-> parameters, items |-> items]

(***************************************************************************)
(* Expressions over given atoms.                                           *)
(***************************************************************************)
Calls(X) ==
  {Call("inc", <<x>>) : x \in X} \union {Call("add", <<x, y>>) : x, y \in X}
  \union {Prefix(op, x) : op \in {"inc", "add"}, x \in X \union {Aggregate(<<x, y>>) : x, y \in X}}
  \union {Call("foldl", <<Reference("add"), Scalar, x>>) : x \in X}
  \union {Call("equals", <<FormatOf(FALSE, 1, <<x>>), Text>>) : x \in X}

Tuples(X) ==
  {Aggregate(<<>>)} \union {Aggregate(<<x>>) : x \in X} \union {Aggregate(<<x, y>>) : x, y \in X}

Formats(X) ==
  {FormatOf(raw, 1, <<x>>) : raw \in BOOLEAN, x \in X}
  \union {FormatOf(FALSE, 2, <<x, y>>) : x, y \in X}

Connections(X) ==
  LET Y == X \union {Aggregate(<<x>>) : x \in X}
      Z == X \union {Aggregate(<<x, y>>) : x, y \in X}
  IN {Connected(<<Template("add", <<x>>)>>, y) : x \in X, y \in Y}
     \union {Connected(<<Template("add", <<Slot(0), x>>)>>, y) : x \in X, y \in Y}
     \union {Connected(<<Template("add", <<Slot(2), Slot(1)>>)>>, y) : y \in Z}
     \union {Connected(<<Template("add", <<Slot(1), Slot(1)>>)>>, y) : y \in Z}
     \union {Connected(<<Template("add", <<>>)>>, y) : y \in Z}
     \union {Connected(<<Template("add", <<Slot(0)>>)>>, y) : y \in Z}
     \union {Connected(<<Template("inc", <<Slot(0)>>), Template("add", <<x>>)>>, y) : x, y \in X}
     \union {Connected(<<Template("add", <<Slot(1), Slot(1)>>), Template("add", <<Slot(0), x>>)>>, y) :
               x, y \in X}
     \union {Connected(<<Template("foldl", <<>>)>>, Aggregate(<<Reference("add"), Scalar, x>>)) :
               x \in X}

Branches1(X) ==
  {Call("inc", <<Hole>>), Prefix("add", Hole),
   Call("equals", <<FormatOf(FALSE, 1, <<Hole>>), Text>>)}
  \union {Call("add", <<Hole, x>>) : x \in X}
  \union {Call("add", <<Hole, Hole>>), Prefix("inc", Aggregate(<<Hole>>)), Call("inc", <<Scalar>>)}

FanOutsOver(X) ==
  {FanOutOf(x, <<branch>>) : x \in X \union {Aggregate(<<y, Scalar>>) : y \in X}, branch \in Branches1(X)}
  \union {FanOutOf(x, <<branch, Call("inc", <<Hole>>)>>) : x \in X, branch \in Branches1(X)}

Expressions(X) ==
  X \union Calls(X) \union Tuples(X) \union Formats(X) \union Connections(X) \union FanOutsOver(X)

Initials == {Scalar, Vector, Aggregate(<<Scalar, Vector>>)}

(* A binding used once or twice, or with a parameter.                      *)
UsedTwice ==
  {SourceOf(<<"p">>, <<Let("a", i), Root(e), Root(f)>>) :
     i \in Initials, e \in Expressions({a, p, Scalar}), f \in {a, Call("inc", <<a>>)}}

(* A binding made of another.                                              *)
Chained ==
  {SourceOf(<<>>, <<Let("a", i), Let("b", e), Root(f)>>) :
     i \in Initials, e \in Expressions({a, Scalar}),
     f \in {b, Call("add", <<a, b>>), Aggregate(<<b, a>>), Prefix("add", b)}}

(* Expressions of expressions.                                             *)
Nested ==
  {SourceOf(<<>>, <<Let("a", i), Root(e)>>) :
     i \in Initials,
     e \in Expressions({a, Call("add", <<a, Scalar>>), Aggregate(<<a>>),
                        FanOutOf(a, <<Call("add", <<Hole, Scalar>>), Call("inc", <<Hole>>)>>)})}

(* Names in every order: forward, twice, shadowing, unused.                *)
Names == {a, b, p, Scalar, Call("inc", <<a>>), Aggregate(<<a, b>>)}

Misnamed ==
  {SourceOf(<<"p">>, <<Let(x, e), Let(y, f), Root(g)>>) :
     x, y \in {"a", "b", "p"}, e, f, g \in Names}

MCSources == UsedTwice \union Chained \union Nested \union Misnamed

(* For the runs of the findings.                                           *)
RereadSources ==
  {SourceOf(<<>>, <<Let("a", i), Root(e)>>) : i \in Initials, e \in FanOutsOver({a, Scalar})}

CompletedSources ==
  {SourceOf(<<>>, <<Let("a", i), Root(e)>>) : i \in Initials, e \in Connections({a, Scalar})}
=============================================================================

-------------------------------- MODULE Kernels --------------------------------
(***************************************************************************)
(* What a selected application computes (src/src/primitive.rs).  A value   *)
(* is [type, vector, elems]; a scalar has one element.  Int elements have  *)
(* IntBits bits; a String element is the length of a text of one repeated  *)
(* letter, which orders and measures such texts; Double elements belong to *)
(* strict_float.rs, represented by the constants below.                    *)
(***************************************************************************)
EXTENDS Registry, Resources

CONSTANTS
  IntBits,          (* bits of an Int: 64                                   *)
  Binary64Zero,     (* where a sum of doubles starts                        *)
  ToDouble(_),      (* int_to_binary64                                      *)
  Arithmetic64(_, _),  (* a Double kernel by name, on its operands          *)
  Test64(_, _),     (* a Double predicate or comparison by name             *)
  Rank64(_)         (* total_cmp, as an integer                             *)

Ints == -(2 ^ (IntBits - 1)) .. 2 ^ (IntBits - 1) - 1

Scalar(type, x) == [type |-> type, vector |-> FALSE, elems |-> <<x>>]
Vector(type, xs) == [type |-> type, vector |-> TRUE, elems |-> xs]

Length(value) == Len(value.elems)
ByteWidth(type) == CASE type = "Bool" -> 1 [] type \in {"Int", "Double"} -> 2
                     [] type = "String" -> SlotBytes

(***************************************************************************)
(* One kernel on one element of each operand: a value, or why there is     *)
(* none.  The result of an integer operation is computed without bounds    *)
(* and refused when an Int cannot hold it.                                 *)
(***************************************************************************)
Value(x) == [error |-> None, elem |-> x]
Failure(error) == [error |-> error, elem |-> None]

AbsoluteOf(x) == IF x < 0 THEN -x ELSE x
SignOf(x) == IF x < 0 THEN -1 ELSE 1
(* Rust divides towards zero.                                              *)
Quotient(x, y) == SignOf(x) * SignOf(y) * (AbsoluteOf(x) \div AbsoluteOf(y))

IntArithmetic(name, xs) ==
  CASE name = "inc" -> xs[1] + 1 [] name = "dec" -> xs[1] - 1
    [] name = "neg" -> -xs[1]    [] name = "abs" -> AbsoluteOf(xs[1])
    [] name = "add" -> xs[1] + xs[2] [] name = "sub" -> xs[1] - xs[2]
    [] name = "mul" -> xs[1] * xs[2] [] name = "div" -> Quotient(xs[1], xs[2])

(* Comparisons and tests of integers and of texts.                         *)
IntTest(name, xs) ==
  CASE name = "equals" -> xs[1] = xs[2] [] name = "not_equals" -> xs[1] # xs[2]
    [] name = "less_than" -> xs[1] < xs[2] [] name = "greater_than" -> xs[1] > xs[2]
    [] name = "odd" -> xs[1] % 2 # 0 [] name = "even" -> xs[1] % 2 = 0
    [] name = "is_positive" -> xs[1] > 0 [] name = "is_negative" -> xs[1] < 0

BoolTest(name, xs) ==
  CASE name = "not" -> ~xs[1] [] name = "and" -> xs[1] /\ xs[2]
    [] name = "or" -> xs[1] \/ xs[2] [] name = "equals" -> xs[1] = xs[2]
    [] name = "not_equals" -> xs[1] # xs[2]

(* Faulty: what does not fit wraps around.                                 *)
Wrapped(x) == Value(((x + 2 ^ (IntBits - 1)) % 2 ^ IntBits) - 2 ^ (IntBits - 1))

Checked(x) == IF x \in Ints THEN Value(x) ELSE Failure("IntegerOverflow")

(* Operands of other types, which no verified program passes, are reported *)
(* as an overflow; that `equals` compares some of them is left out.        *)
InvokeKernel(d, types, xs) ==
  LET name == d.name
      type == d.parameters[1].type
  IN IF types # [k \in DOMAIN types |-> type] THEN Failure("IntegerOverflow")
     ELSE CASE type = "Int" /\ d.result = "Bool" -> Value(IntTest(name, xs))
            [] type = "Int" /\ name = "div" /\ xs[2] = 0 -> Failure("DivisionByZero")
            [] type = "Int" /\ d.result = "Int" -> Checked(IntArithmetic(name, xs))
            [] type = "Bool" -> Value(BoolTest(name, xs))
            [] type = "String" -> Value(IntTest(name, xs))
            [] type = "Double" /\ d.result = "Bool" -> Value(Test64(name, xs))
            [] type = "Double" /\ d.result = "Double" -> Value(Arithmetic64(name, xs))

(***************************************************************************)
(* What an application comes to: a value, or an error and the place of the *)
(* element it met, with the usage it leaves.                               *)
(***************************************************************************)
Answer(value, accounted, u) ==
  [error |-> None, value |-> value, accounted |-> accounted, at |-> None, usage |-> u]
Refused(error, at, u) ==
  [error |-> error, value |-> None, accounted |-> FALSE, at |-> at, usage |-> u]

TypeRuntimeError(u) == Refused("TypeError", None, u)

(* Folding a step that may fail over 1 .. n stops at the first failure.    *)
Failed(result) == result.error # None
Stepwise(step(_, _), start, n) ==
  LET after[k \in 0 .. n] ==
        IF k = 0 THEN [error |-> None, elem |-> start, at |-> None]
        ELSE LET before == after[k - 1]
             IN IF Failed(before) THEN before
                ELSE LET result == step(before.elem, k)
                     IN [error |-> result.error, elem |-> result.elem,
                         at |-> IF Failed(result) THEN k - 1 ELSE None]
  IN after[n]

Appended(xs, result) ==
  IF Failed(result) THEN result ELSE Value(Append(xs, result.elem))

(* An admitted request, or its refusal.                                    *)
Admit(d, u, then(_)) ==
  IF d.verdict = Granted THEN then(d.usage) ELSE Refused(d.verdict, None, d.usage)

AdmittedWork(plan, result_cardinality, arguments) ==
  CASE plan.work = "Constant" -> 1
    [] plan.work = "ResultCardinality" -> result_cardinality
    [] plan.work = "OperandCardinality" -> Length(arguments[plan.at].value)

Admitted(c, u, type, length, work) == AdmitVector(c, u, length, ByteWidth(type), work)

(***************************************************************************)
(* try_reserve_exact, after the ledger has granted: `refused` numbers the  *)
(* reservation of an application the host has no memory for, or is None.   *)
(* The output is reserved first, then what each element needs.  Room for   *)
(* nothing is always there.                                                *)
(***************************************************************************)
OutputUnavailable(refused, length) == refused = 1 /\ length > 0
ElementUnavailable(refused, k) == refused = k + 1

Unavailable(u) == Refused("AllocationUnavailable", None, u)

(* Only a kernel's error names the element it met.                         *)
ElementRefused(result, u) ==
  Refused(result.error,
          IF result.error \in {"IntegerOverflow", "DivisionByZero"} THEN result.at ELSE None, u)

(* An argument is [value, conversion].                                     *)
Promotes(argument) == argument.conversion = "PromoteIntToDouble"
ConvertedType(argument) ==
  IF Promotes(argument) THEN "Double" ELSE argument.value.type
Converted(argument, x) == IF Promotes(argument) THEN ToDouble(x) ELSE x
Convertible(argument) == Promotes(argument) => argument.value.type = "Int"

(* scalar_at, string_at: a scalar is repeated, a vector has to be long     *)
(* enough.                                                                 *)
HasElement(argument, k) == argument.value.vector => k <= Length(argument.value)
ElementAt(argument, k) ==
  Converted(argument, argument.value.elems[IF argument.value.vector THEN k ELSE 1])

(* Texts are compared by a loop of their own, apply_string_comparison.     *)
ComparesTexts(d) == d.parameters[1].type = "String"

(* The elements of one position, or a type error: scalar_at takes no       *)
(* string and apply_string_comparison nothing else.                        *)
AtPosition(d, arguments, k) ==
  IF \A i \in DOMAIN arguments :
       /\ HasElement(arguments[i], k) /\ Convertible(arguments[i])
       /\ (arguments[i].value.type = "String") <=> ComparesTexts(d)
  THEN InvokeKernel(d, [i \in DOMAIN arguments |-> ConvertedType(arguments[i])],
                    [i \in DOMAIN arguments |-> ElementAt(arguments[i], k)])
  ELSE Failure("TypeError")

FirstVectorLength(arguments) ==
  LET vectors == {k \in DOMAIN arguments : arguments[k].value.vector}
  IN IF vectors = {} THEN 0
     ELSE Length(arguments[CHOOSE k \in vectors : \A j \in vectors : k <= j].value)

(* The operand list of an element is reserved before it is filled; a       *)
(* comparison of strings needs none.                                       *)
Elements(d, arguments, count, refused) ==
  Stepwise(LAMBDA xs, k :
             Appended(xs, IF ~ComparesTexts(d) /\ ElementUnavailable(refused, k)
                          THEN Failure("AllocationUnavailable")
                          ELSE AtPosition(d, arguments, k)),
           <<>>, count)

(* Nor does one comparison of two strings, which answers no vector.        *)
ScalarElement(u, d, arguments, refused) ==
  LET results == Elements(d, arguments, 1, refused)
  IN IF ~ComparesTexts(d) /\ OutputUnavailable(refused, 1) THEN Unavailable(u)
     ELSE IF Failed(results) THEN Refused(results.error, None, u)
     ELSE Answer(Scalar(d.result, results.elem[1]), FALSE, u)

(* Faulty: a list of operands that cannot be reserved keeps the bytes.     *)
VectorElementsHeld(u, d, arguments, count, bytes, refused) ==
  LET results == Elements(d, arguments, count, refused)
  IN IF OutputUnavailable(refused, count) THEN Unavailable(Refund(u, bytes))
     ELSE IF results.error = "AllocationUnavailable" THEN Unavailable(u)
     ELSE IF Failed(results) THEN ElementRefused(results, Refund(u, bytes))
     ELSE Answer(Vector(d.result, results.elem), TRUE, u)

VectorElements(u, d, arguments, count, bytes, refused) ==
  LET results == Elements(d, arguments, count, refused)
  IN IF OutputUnavailable(refused, count) THEN Unavailable(Refund(u, bytes))
     ELSE IF Failed(results) THEN ElementRefused(results, Refund(u, bytes))
     ELSE Answer(Vector(d.result, results.elem), TRUE, u)

(* apply_implementation, its last part: a scalar result is charged work    *)
(* only; a vector is admitted whole and given back if anything fails.      *)
Elementwise(c, u, d, arguments, lift, refused) ==
  LET count == IF lift = "Scalar" THEN 1 ELSE FirstVectorLength(arguments)
      work == AdmittedWork(ApplicationPlans[d.plan], count, arguments)
      bytes == count * ByteWidth(d.result)
  IN IF lift \in {"ContainerScalar", "ContainerVector"} THEN TypeRuntimeError(u)
     ELSE IF lift = "Scalar"
     THEN Admit(ChargeWork(c, u, work), u,
            LAMBDA after : ScalarElement(after, d, arguments, refused))
     ELSE Admit(Admitted(c, u, d.result, count, work), u,
            LAMBDA after : VectorElements(after, d, arguments, count, bytes, refused))

Iota(c, u, d, arguments, refused) ==
  LET bound == arguments[1].value
      length == IF bound.elems[1] <= 0 THEN 0 ELSE bound.elems[1]
  IN IF bound.vector \/ bound.type # "Int" THEN TypeRuntimeError(u)
     ELSE Admit(Admitted(c, u, "Int", length,
                         AdmittedWork(ApplicationPlans[d.plan], length, arguments)), u,
            LAMBDA after :
              IF OutputUnavailable(refused, length)
              THEN Unavailable(Refund(after, length * ByteWidth("Int")))
              ELSE Answer(Vector("Int", [k \in 1 .. length |-> k]), TRUE, after))

(***************************************************************************)
(* The operations that take one whole operand.                             *)
(***************************************************************************)
OneWhole(d, arguments, lift, expected) ==
  /\ Len(arguments) = 1 /\ lift = expected
  /\ arguments[1].conversion = "Identity"
  /\ arguments[1].value.type = d.parameters[1].type
  /\ arguments[1].value.vector <=> d.parameters[1].use = "WholeVector"

(* A text counts its letters, a vector its elements.                       *)
Measure(c, u, d, arguments) ==
  LET value == arguments[1].value
      length == IF value.vector THEN Length(value) ELSE value.elems[1]
  IN Admit(ChargeWork(c, u, AdmittedWork(ApplicationPlans[d.plan], 1, arguments)), u,
       LAMBDA after : Answer(Scalar("Int", length), FALSE, after))

Rank(type, x) ==
  CASE type = "Bool" -> IF x THEN 1 ELSE 0 [] type = "Double" -> Rank64(x)
    [] OTHER -> x

(* The output, then for strings the copy of each text.                     *)
SortUnavailable(value, refused) ==
  \/ OutputUnavailable(refused, Length(value))
  \/ /\ value.type = "String"
     /\ \E k \in DOMAIN value.elems :
          ElementUnavailable(refused, k) /\ value.elems[k] > 0

SortOf(c, u, d, arguments, refused) ==
  LET value == arguments[1].value
      work == AdmittedWork(ApplicationPlans[d.plan], Length(value), arguments)
      payload == FoldLeft(+, 0, value.elems)
      sorted == SortSeq(value.elems, LAMBDA x, y : Rank(d.result, x) < Rank(d.result, y))
      admitted == IF d.result = "String" THEN AdmitStringVector(c, u, Length(value), payload, work)
                  ELSE Admitted(c, u, d.result, Length(value), work)
  IN Admit(admitted, u,
       LAMBDA after :
         IF SortUnavailable(value, refused) THEN Unavailable(Refund(after, admitted.bytes))
         ELSE Answer(Vector(d.result, sorted), TRUE, after))

SumUnchecked(d, xs) ==
  LET total == FoldLeft(+, 0, xs)
  IN IF d.result = "Int" THEN [error |-> Checked(total).error, elem |-> total, at |-> Len(xs) - 1]
     ELSE Stepwise(LAMBDA sum, k : Value(Arithmetic64("add", <<sum, xs[k]>>)),
                   Binary64Zero, Len(xs))

(* sum from the left, refused at the first total that does not fit.        *)
SumFrom(d, xs) ==
  IF d.result = "Int"
  THEN Stepwise(LAMBDA total, k : Checked(total + xs[k]), 0, Len(xs))
  ELSE Stepwise(LAMBDA total, k : Value(Arithmetic64("add", <<total, xs[k]>>)),
                Binary64Zero, Len(xs))

Holding(d, xs) ==
  CASE d.behavior = "VectorAllOf" -> Value(\A k \in DOMAIN xs : xs[k])
    [] d.behavior = "VectorAnyOf" -> Value(\E k \in DOMAIN xs : xs[k])
    [] d.behavior = "VectorNoneOf" -> Value(\A k \in DOMAIN xs : ~xs[k])

Reduce(c, u, d, arguments) ==
  LET xs == arguments[1].value.elems
      result == IF d.behavior = "VectorSum" THEN SumFrom(d, xs)
                ELSE [error |-> None, elem |-> Holding(d, xs).elem, at |-> None]
  IN Admit(ChargeWork(c, u, AdmittedWork(ApplicationPlans[d.plan], 1, arguments)), u,
       LAMBDA after : IF Failed(result) THEN Refused(result.error, result.at, after)
                      ELSE Answer(Scalar(d.result, result.elem), FALSE, after))

(***************************************************************************)
(* The consumers of an operation reference.                                *)
(***************************************************************************)
(* The operations foldl and scanl may apply, and filter may test with.     *)
ReducerFits(r, result) ==
  /\ r.behavior = "Elementwise" /\ r.result = result /\ Len(r.parameters) = 2
  /\ \A k \in DOMAIN r.parameters : r.parameters[k] = Each(result)

PredicateFits(r, result) ==
  IsTotalUnaryPredicate(r) /\ r.parameters[1].type = result

(* foldl keeps the accumulator, scanl all of them.                         *)
Accumulate(c, u, d, reducer, arguments, lift, refused) ==
  LET start == arguments[1]
      vector == arguments[2].value
      n == Length(vector)
      work == AdmittedWork(ApplicationPlans[d.plan], 1, arguments)
      apply(x, k) == InvokeKernel(reducer, <<d.result, d.result>>, <<x, vector.elems[k]>>)
      seed == Converted(start, start.value.elems[1])
      fold == Stepwise(apply, seed, n)
      scan == Stepwise(LAMBDA xs, k : Appended(xs, apply(Last(xs), k)), <<seed>>, n)
      bytes == (n + 1) * ByteWidth(d.result)
  IN IF \/ lift # (IF d.behavior = "Foldl" THEN "ContainerScalar" ELSE "ContainerVector")
        \/ arguments[2].conversion # "Identity"
        \/ ~ReducerFits(reducer, d.result)
        \/ start.value.vector \/ ConvertedType(start) # d.result \/ ~Convertible(start)
        \/ ~vector.vector \/ vector.type # d.result \/ work # n
     THEN TypeRuntimeError(u)
     ELSE IF d.behavior = "Foldl"
     THEN Admit(ChargeWork(c, u, work), u,
            LAMBDA after : IF Failed(fold) THEN Refused(fold.error, fold.at, after)
                           ELSE Answer(Scalar(d.result, fold.elem), FALSE, after))
     ELSE Admit(Admitted(c, u, d.result, n + 1, work), u,
            LAMBDA after :
              IF OutputUnavailable(refused, n + 1) THEN Unavailable(Refund(after, bytes))
              ELSE IF Failed(scan) THEN Refused(scan.error, scan.at, Refund(after, bytes))
              ELSE Answer(Vector(d.result, scan.elem), TRUE, after))

(* The work first, then the elements that pass, counted before they are    *)
(* admitted and copied.                                                    *)
Filter(c, u, d, predicate, arguments, lift, refused) ==
  LET vector == arguments[1].value
      passes(x) == InvokeKernel(predicate, <<d.result>>, <<x>>).elem
      kept == SelectSeq(vector.elems, passes)
      work == AdmittedWork(ApplicationPlans[d.plan], 0, arguments)
  IN IF \/ lift # "ContainerVector" \/ arguments[1].conversion # "Identity"
        \/ ~PredicateFits(predicate, d.result)
        \/ ~vector.vector \/ vector.type # d.result \/ work # Length(vector)
     THEN TypeRuntimeError(u)
     ELSE Admit(ChargeWork(c, u, work), u,
            LAMBDA charged :
              Admit(Admitted(c, charged, d.result, Len(kept), 0), charged,
                LAMBDA after :
                  IF OutputUnavailable(refused, Len(kept))
                  THEN Unavailable(Refund(after, Len(kept) * ByteWidth(d.result)))
                  ELSE Answer(Vector(d.result, kept), TRUE, after)))

(***************************************************************************)
(* apply_implementation, apply_reference_consumer_implementation.          *)
(***************************************************************************)
Consumers == {"Foldl", "Scanl", "VectorFilter"}

ApplyImplementation(c, u, d, plan, arguments, lift, refused) ==
  IF plan # d.plan THEN TypeRuntimeError(u)
  ELSE CASE d.behavior = "Iota" -> Iota(c, u, d, arguments, refused)
         [] d.behavior = "VectorLength" ->
              IF OneWhole(d, arguments, lift, "ContainerScalar")
              THEN Measure(c, u, d, arguments) ELSE TypeRuntimeError(u)
         [] d.behavior = "VectorSort" ->
              IF OneWhole(d, arguments, lift, "ContainerVector")
              THEN SortOf(c, u, d, arguments, refused) ELSE TypeRuntimeError(u)
         [] d.behavior \in {"VectorSum", "VectorAllOf", "VectorAnyOf", "VectorNoneOf"} ->
              IF OneWhole(d, arguments, lift, "ContainerScalar")
              THEN Reduce(c, u, d, arguments) ELSE TypeRuntimeError(u)
         [] OTHER -> Elementwise(c, u, d, arguments, lift, refused)

ApplyReferenceConsumer(c, u, d, plan, reference, arguments, lift, refused) ==
  IF plan # d.plan \/ Len(arguments) # Len(d.parameters) THEN TypeRuntimeError(u)
  ELSE CASE d.behavior = "VectorFilter" ->
              Filter(c, u, d, Descriptor(reference), arguments, lift, refused)
         [] d.behavior \in {"Foldl", "Scanl"} ->
              Accumulate(c, u, d, Descriptor(reference), arguments, lift, refused)
         [] OTHER -> TypeRuntimeError(u)
=============================================================================

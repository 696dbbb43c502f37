---------------------------- MODULE TierPrograms ----------------------------
(***************************************************************************)
(* The multiplication tiers above Karatsuba as programs: which shapes each   *)
(* accepts, the statements they are written in, and the sequence of them     *)
(* that is a tier.  EvaluationTiers runs a program.                          *)
(***************************************************************************)
EXTENDS Integers, SequencesExt

-----------------------------------------------------------------------------
(* math/mul/dispatch/plan/shape.rs: which pairs of operand widths each      *)
(* multiplication tier can split into nonempty parts, and which it prefers.  *)

Ceil(n, d) == (n + d - 1) \div d
Wider(x, y) == IF x >= y THEN x ELSE y
Narrower(x, y) == IF x >= y THEN y ELSE x

\* In every predicate l is the larger width and s the smaller one.

PrefersBlockedProduct(l, s) == s # 0 /\ s <= l - Ceil(l, 4)

Toom32Suitable(l, s) ==
  LET split == Ceil(l, 3)
  IN s >= 2 /\ l > 2 * split /\ s > split /\ s <= 2 * split

PrefersFractionalSplit(l, s) ==
  /\ s # 0 /\ l # s
  /\ l % s > s \div 4
  /\ l % s < s - s \div 4

Toom43Suitable(l, s) ==
  LET split == Ceil(l, 4)
  IN s >= 3 /\ l > 3 * split /\ s > 2 * split /\ s <= 3 * split

DegenerateChildSplit(l, s) == s # 0 /\ s <= l \div 8

FourParts(len, split) == len > 3 * split

Toom4Balanced(l, s) == s >= l - l \div 4

Toom6Balanced(l, s) == s >= l - l \div 18

Toom6HalfSplit(l, s) == Wider(Ceil(l, 7), Ceil(s, 6))

Toom6HalfSuitable(l, s) ==
  LET split == Toom6HalfSplit(l, s)
  IN s >= 6 /\ Toom4Balanced(l, s) /\ l > 6 * split /\ s > 5 * split

Toom8Balanced(l, s) == s >= 8 /\ s >= l - l \div 21 /\ s > 7 * Ceil(l, 8)

Toom8HalfSplit(l, s) == Wider(Ceil(l, 9), Ceil(s, 8))

Toom8HalfSuitable(l, s) ==
  LET split == Toom8HalfSplit(l, s)
  IN s >= 8 /\ s >= l - l \div 5 /\ l > 8 * split /\ s > 7 * split

\* toom6_shape and toom8_shape
Toom6Shape(l, s) ==
  IF Toom6Balanced(l, s) THEN "balanced"
  ELSE IF Toom6HalfSuitable(l, s) THEN "half" ELSE "none"

Toom8Shape(l, s) ==
  IF Toom8Balanced(l, s) THEN "balanced"
  ELSE IF Toom8HalfSuitable(l, s) THEN "half" ELSE "none"

\* operand_has_eight_parts
EightParts(len) == len >= 8 /\ len > 7 * Ceil(len, 8)

-----------------------------------------------------------------------------
(* The statements a multiplication tier is written in.  A tier is a          *)
(* straight-line sequence of them over named buffers; EvaluationTiers says   *)
(* what each does.  Buffers keep the source's names.  A slot is a buffer and *)
(* an offset in it: the tiers keep evaluations in buffers that a later       *)
(* product overwrites.                                                       *)

Slot(name, at) == <<name, at>>
Whole(name) == <<name, 0>>

\* copy_part and add_mul_word: parts of one operand, each with its scalar,
\* then a left shift by `shift`.
Weigh(to, side, parts, scalars, shift) ==
  [op |-> "weigh", to |-> to, side |-> side, parts |-> parts, scalars |-> scalars, shift |-> shift]

\* The same sum without multiplications: shift by `step`, add the next part.
Horner(to, side, parts, step, shift) ==
  [op |-> "horner", to |-> to, side |-> side, parts |-> parts, step |-> step, shift |-> shift]

\* Further parts onto an evaluation already made.
Accumulate(to, side, parts, scalars) ==
  [op |-> "accumulate", to |-> to, side |-> side, parts |-> parts, scalars |-> scalars]

\* Is the odd part the larger?  Remembered per point and operand.
Compare(even, odd, point, side) ==
  [op |-> "compare", even |-> even, odd |-> odd, point |-> point, side |-> side]

SumAndDifference(even, odd, point, side) ==
  [op |-> "sum_and_difference", even |-> even, odd |-> odd, point |-> point, side |-> side]

AddPart(even, odd) == [op |-> "add_part", even |-> even, odd |-> odd]

Overwrite(even, odd, point, side) ==
  [op |-> "overwrite", even |-> even, odd |-> odd, point |-> point, side |-> side]

\* Guarded products.  `otherwise` is the destination when the values at the
\* negative point have different signs; guards = 0 is a product of the whole
\* evaluations.
Product(to, otherwise, point, x, y, bound, guards) ==
  [op |-> "product", to |-> to, otherwise |-> otherwise, point |-> point,
   x |-> x, y |-> y, bound |-> bound, guards |-> guards]

Square(to, x, bound, guards) ==
  [op |-> "square", to |-> to, x |-> x, bound |-> bound, guards |-> guards]

\* The products of the lowest and of the highest parts.
Endpoint(to, i, j) == [op |-> "endpoint", to |-> to, i |-> i, j |-> j]

\* Interpolation: `to` changes, `from` is read.
Sub(to, from) == [op |-> "sub", to |-> to, from |-> from]
Add(to, from) == [op |-> "add", to |-> to, from |-> from]
ReverseSub(to, from) == [op |-> "reverse", to |-> to, from |-> from]
SubTimes(to, from, k) == [op |-> "sub_times", to |-> to, from |-> from, k |-> k]
AddTimes(to, from, k) == [op |-> "add_times", to |-> to, from |-> from, k |-> k]
SubTimesOver(to, from, k, d) == [op |-> "sub_times_over", to |-> to, from |-> from, k |-> k, d |-> d]
ModularHalf(to, from) == [op |-> "modular_half", to |-> to, from |-> from]
Over(to, d) == [op |-> "over", to |-> to, from |-> to, d |-> d]
OverRadix(to, d) == [op |-> "over_radix", to |-> to, from |-> to, d |-> d]
Shift(to, bits) == [op |-> "shift", to |-> to, from |-> to, bits |-> bits]
SignedShift(to, bits) == [op |-> "signed_shift", to |-> to, from |-> to, bits |-> bits]
SubEndpoint(to, from, bits) == [op |-> "sub_endpoint", to |-> to, from |-> from, bits |-> bits]

\* ... with the sign of the negative point's product deciding.
AddSigned(to, from, point) == [op |-> "add_signed", to |-> to, from |-> from, point |-> point]
HalfSigned(to, from, point) == [op |-> "half_signed", to |-> to, from |-> from, point |-> point]

\* Two buffers at once.
Butterfly(to, from, reverse) == [op |-> "butterfly", to |-> to, from |-> from, reverse |-> reverse]
SwapIfNegative(to, from, point) == [op |-> "swap", to |-> to, from |-> from, point |-> point]
Recover(to, from, point) == [op |-> "recover", to |-> to, from |-> from, point |-> point]

\* The even part above the low half of the odd part (or the reverse).
Pack(to, positive, other) == [op |-> "pack", to |-> to, positive |-> positive, other |-> other]

\* The destination: buffers at their offsets, zero between them, then sums.
Layout(placed) == [op |-> "layout", placed |-> placed]
Coefficient(from, shift) == [op |-> "coefficient", from |-> from, shift |-> shift]

\* A statement the tier leaves out when the product has no highest coefficient.
Unless(none, step) == IF none THEN << >> ELSE << step >>

-----------------------------------------------------------------------------
(* math/mul/toom32, toom3, toom43 and toom4: the tiers below seven parts.    *)
(* m is the split; side "a" is the longer operand where the code orders them.*)

Eval(side) == Whole(IF side = "a" THEN "evaluation_a" ELSE "evaluation_b")

\* Even and odd parts of one operand, then their sum and difference.
Pair(side, negative, point, even, odd, scale, shift) ==
  << Weigh(Eval(side), side, even, [i \in DOMAIN even |-> scale ^ (i - 1)], 0),
     Weigh(negative, side, odd, [i \in DOMAIN odd |-> scale ^ (i - 1)], shift),
     Compare(Eval(side), negative, point, side),
     SumAndDifference(Eval(side), negative, point, side) >>

-----------------------------------------------------------------------------
(* Toom-3-by-2: points zero, one, minus one, infinity.                      *)

Toom32Middle ==
  << Butterfly("one", "negative_one", FALSE),
     SwapIfNegative("one", "negative_one", "one"),
     Shift("one", 1), Shift("negative_one", 1),
     Sub("one", "zero"), Sub("negative_one", "infinity") >>

Toom32(m) ==
  Pair("a", Slot("one", 0), "one", <<0, 2>>, <<1>>, 1, 0)
    \o Pair("b", Slot("one", m + 1), "one", <<0>>, <<1>>, 1, 0)
    \o << Product("negative_one", "negative_one", "one", Slot("one", 0), Slot("one", m + 1), 3, 1),
          Product("one", "one", "one", Eval("a"), Eval("b"), 3, 1),
          Endpoint("zero", 0, 0), Endpoint("infinity", 2, 1),
          Layout(<< <<"zero", 0>>, <<"infinity", 3 * m>> >>) >>
    \o Toom32Middle
    \o << Coefficient("negative_one", m), Coefficient("one", 2 * m) >>

-----------------------------------------------------------------------------
(* Toom-3: points zero, one, minus one, two, infinity.                      *)

EvaluateTwoFromOne(side) == Accumulate(Eval(side), side, <<1, 2>>, <<1, 3>>)

Toom3Endpoints_AddsBeforeHalving ==
  << HalfSigned("neg_one", "one", "one"),
     AddSigned("two", "neg_one", "one"),
     OverRadix("two", 3),
     Sub("one", "zero"), Sub("two", "one"), Shift("two", 1),
     Sub("one", "neg_one"), Sub("one", "infinity"),
     SubTimes("two", "infinity", 2),
     Sub("neg_one", "two") >>

Toom3Endpoints ==
  << AddSigned("two", "neg_one", "one"),
     HalfSigned("neg_one", "one", "one"),
     OverRadix("two", 3),
     Sub("one", "zero"), Sub("two", "one"), Shift("two", 1),
     Sub("one", "neg_one"), Sub("one", "infinity"),
     SubTimes("two", "infinity", 2),
     Sub("neg_one", "two") >>

\* A high part may be empty: then the buffer at infinity stays empty, and
\* everything above the low product starts at zero.
Toom3Middle(m, emptyHigh) ==
  << Endpoint("zero", 0, 0) >> \o Unless(emptyHigh, Endpoint("infinity", 2, 2))
    \o << Layout(<< <<"zero", 0>> >> \o Unless(emptyHigh, <<"infinity", 4 * m>>)) >>
    \o Toom3Endpoints
    \o << Coefficient("neg_one", m), Coefficient("one", 2 * m), Coefficient("two", 3 * m) >>

Toom3Mul(m, emptyHigh) ==
  Pair("a", Whole("one"), "one", <<0, 2>>, <<1>>, 1, 0)
    \o Pair("b", Whole("two"), "one", <<0, 2>>, <<1>>, 1, 0)
    \o << Product("neg_one", "neg_one", "one", Whole("one"), Whole("two"), 7, 1),
          Product("one", "one", "one", Eval("a"), Eval("b"), 7, 1),
          EvaluateTwoFromOne("a"), EvaluateTwoFromOne("b"),
          Product("two", "two", "one", Eval("a"), Eval("b"), 7, 1) >>
    \o Toom3Middle(m, emptyHigh)

Toom3Sqr(m, emptyHigh) ==
  Pair("a", Whole("one"), "one", <<0, 2>>, <<1>>, 1, 0)
    \o << Square("neg_one", Whole("one"), 7, 1),
          Square("one", Eval("a"), 7, 1),
          EvaluateTwoFromOne("a"),
          Square("two", Eval("a"), 7, 1) >>
    \o Toom3Middle(m, emptyHigh)

-----------------------------------------------------------------------------
(* Toom-4-by-3: points zero, plus and minus one, plus and minus two,        *)
(* infinity.                                                                *)

Toom43Point(m, positive, negative, scale, shift) ==
  Pair("a", Slot(positive, 0), positive, <<0, 2>>, <<1, 3>>, scale, shift)
    \o Pair("b", Slot(positive, m + 1), positive, <<0, 2>>, <<1>>, scale, shift)
    \o << Product(negative, negative, positive, Slot(positive, 0), Slot(positive, m + 1), 15, 1),
          Product(positive, positive, positive, Eval("a"), Eval("b"), 15, 1) >>

SignedPair(positive, negative) ==
  << Butterfly(positive, negative, FALSE), SwapIfNegative(positive, negative, positive) >>

Toom43Middle ==
  SignedPair("one", "negative_one") \o SignedPair("two", "negative_two")
    \o << Shift("one", 1), Shift("two", 1), Shift("negative_one", 1), Shift("negative_two", 2),
          Sub("one", "zero"), Sub("two", "zero"), Sub("negative_one", "infinity"),
          SubTimes("negative_two", "infinity", 16),
          SubTimes("two", "one", 4), Shift("two", 2), OverRadix("two", 3),
          Sub("one", "two"),
          Sub("negative_two", "negative_one"), OverRadix("negative_two", 3),
          Sub("negative_one", "negative_two") >>

Toom43(m) ==
  Toom43Point(m, "one", "negative_one", 1, 0)
    \o Toom43Point(m, "two", "negative_two", 4, 1)
    \o << Endpoint("zero", 0, 0), Endpoint("infinity", 3, 2),
          Layout(<< <<"zero", 0>>, <<"infinity", 5 * m>> >>) >>
    \o Toom43Middle
    \o << Coefficient("negative_one", m), Coefficient("one", 2 * m),
          Coefficient("negative_two", 3 * m), Coefficient("two", 4 * m) >>

-----------------------------------------------------------------------------
(* Toom-4: points zero, plus and minus one, plus and minus two, one half,   *)
(* infinity.                                                                *)

HalfScaled(side) == Weigh(Eval(side), side, <<3, 2, 1, 0>>, <<1, 2, 4, 8>>, 0)

EvaluatePair(side, negative, point, scale, shift) ==
  Pair(side, negative, point, <<0, 2>>, <<1, 3>>, scale, shift)

Toom4Points(m) ==
  EvaluatePair("a", Slot("neg_two", 0), "one", 1, 0)
    \o EvaluatePair("b", Slot("neg_two", m + 1), "one", 1, 0)
    \o << Product("one", "one", "one", Eval("a"), Eval("b"), 15, 1),
          Product("neg_one", "neg_one", "one", Slot("neg_two", 0), Slot("neg_two", m + 1), 15, 1) >>
    \o EvaluatePair("a", Slot("half", 0), "two", 4, 1)
    \o EvaluatePair("b", Slot("half", m + 1), "two", 4, 1)
    \o << Product("two", "two", "two", Eval("a"), Eval("b"), 15, 1),
          Product("neg_two", "neg_two", "two", Slot("half", 0), Slot("half", m + 1), 15, 1),
          HalfScaled("a"), HalfScaled("b"),
          Product("half", "half", "two", Eval("a"), Eval("b"), 15, 1) >>

Toom4Squares ==
  EvaluatePair("a", Whole("half"), "two", 4, 1)
    \o << Square("neg_two", Whole("half"), 15, 1), Square("two", Eval("a"), 15, 1),
          HalfScaled("a"), Square("half", Eval("a"), 15, 1) >>
    \o EvaluatePair("a", Whole("one"), "one", 1, 0)
    \o << Square("neg_one", Whole("one"), 15, 1), Square("one", Eval("a"), 15, 1) >>

\* interpolate_with_endpoints
Toom4Interpolation ==
  << Add("half", "two"),
     HalfSigned("neg_two", "two", "two"),
     Sub("two", "zero"), Sub("two", "neg_two"), Shift("two", 2), SubTimes("two", "infinity", 16),
     HalfSigned("neg_one", "one", "one"),
     Sub("one", "neg_one"),
     SubTimes("half", "one", 65),
     Sub("one", "infinity"), Sub("one", "zero"),
     AddTimes("half", "one", 45), Shift("half", 1),
     Sub("two", "one"), OverRadix("two", 3), Sub("one", "two"),
     ReverseSub("neg_two", "half"),
     SubTimesOver("half", "neg_one", 8, 9), Sub("neg_one", "half"),
     OverRadix("neg_two", 15), Add("neg_two", "half"), Shift("neg_two", 1),
     Sub("half", "neg_two") >>

\* reconstruct_around_quadratic: the quadratic coefficient is where its value
\* was computed; carries between the overlapping thirds travel in the guards.
Toom4Destination(m) ==
  << Endpoint("zero", 0, 0), Endpoint("infinity", 3, 3) >>
    \o Toom4Interpolation
    \o << Layout(<< <<"zero", 0>>, <<"one", 2 * m>>, <<"infinity", 6 * m>> >>),
          Coefficient("neg_two", m),
          [op |-> "around_quadratic", third |-> "neg_one", fourth |-> "two", fifth |-> "half"] >>

Toom4Mul(m) == Toom4Points(m) \o Toom4Destination(m)
Toom4Sqr(m) == Toom4Squares \o Toom4Destination(m)

-----------------------------------------------------------------------------
(* math/mul/toom6 and toom8, balanced and with one part more ("half") on     *)
(* the longer operand.  Every point pair x, -x is multiplied, split into its  *)
(* even and odd halves, freed of the endpoint products and packed into one    *)
(* buffer; interpolation then solves for the packed coefficient pairs.       *)

Odd(side) == Whole(IF side = "a" THEN "odd_a" ELSE "odd_b")

\* evaluate_mul_pair / evaluate_sqr_pair.  With the paired kernel the sum and
\* the difference are made together; without it the sum is overwritten by the
\* difference once it has been multiplied.
Sides(square) == IF square THEN <<"a">> ELSE <<"a", "b">>

ForSides(square, step(_)) == [i \in DOMAIN Sides(square) |-> step(Sides(square)[i])]

Multiply(square, to, otherwise, point, a, b, bound, guards) ==
  IF square THEN << Square(to, a, bound, guards) >>
  ELSE << Product(to, otherwise, point, a, b, bound, guards) >>

EvaluatedPair(square, fast, point, bound, guards) ==
  IF fast
  THEN ForSides(square, LAMBDA s : SumAndDifference(Eval(s), Odd(s), point, s))
         \o Multiply(square, "positive", "negative", point, Eval("a"), Eval("b"), bound, guards)
         \o Multiply(square, "negative", "positive", point, Odd("a"), Odd("b"), bound, guards)
  ELSE ForSides(square, LAMBDA s : AddPart(Eval(s), Odd(s)))
         \o Multiply(square, "positive", "negative", point, Eval("a"), Eval("b"), bound, guards)
         \o ForSides(square, LAMBDA s : Overwrite(Eval(s), Odd(s), point, s))
         \o Multiply(square, "negative", "positive", point, Eval("a"), Eval("b"), bound, guards)

-----------------------------------------------------------------------------
(* Toom-6.  seven: the operand has a sextic part.                           *)

Powers(n, exponent) == [i \in 1 .. n |-> 4 ^ (exponent * (i - 1))]

Toom6EvenOdd(side, seven, point, exponent, direct) ==
  LET weights(parts, shift, slot) == Weigh(slot, side, parts, Powers(Len(parts), exponent), shift)
      up == IF seven THEN <<0, 2, 4, 6>> ELSE <<0, 2, 4>>
      down == IF seven THEN <<6, 4, 2, 0>> ELSE <<4, 2, 0>>
  IN (IF direct
      THEN << weights(up, 0, Eval(side)), weights(<<1, 3, 5>>, exponent, Odd(side)) >>
      ELSE IF seven
      THEN << weights(down, 0, Eval(side)), weights(<<5, 3, 1>>, exponent, Odd(side)) >>
      ELSE << weights(down, exponent, Eval(side)), weights(<<5, 3, 1>>, 0, Odd(side)) >>)
     \o << Compare(Eval(side), Odd(side), point, side) >>

\* couple_direct and couple_direct_half
CoupleDirect6(half, exponent, point) ==
  << Recover("positive", "negative", point), Sub("positive", "zero"),
     Shift("positive", 2 * exponent), Shift("negative", exponent) >>
    \o Unless(~half, SubEndpoint("negative", "infinity", 10 * exponent))

\* couple_reciprocal
CoupleReciprocal6(exponent, point) ==
  << Recover("positive", "negative", point),
     SubEndpoint("positive", "zero", 10 * exponent), Shift("negative", exponent) >>

\* couple_reciprocal_half
CoupleReciprocalHalf6(exponent, point) ==
  << Recover("positive", "negative", point),
     Shift("positive", exponent), SubEndpoint("positive", "zero", 10 * exponent),
     Sub("negative", "infinity"), Shift("negative", 2 * exponent) >>

Toom6Point(c, half, point, exponent, direct) ==
  Toom6EvenOdd("a", half, point, exponent, direct)
    \o (IF c.square THEN << >> ELSE Toom6EvenOdd("b", FALSE, point, exponent, direct))
    \o EvaluatedPair(c.square, c.fast, point, 5462, 2)
    \o (IF direct THEN CoupleDirect6(half, exponent, point)
        ELSE IF half THEN CoupleReciprocalHalf6(exponent, point)
        ELSE CoupleReciprocal6(exponent, point))
    \o << Pack(point, "positive", "negative") >>

\* evaluate_mul_points, evaluate_sqr_points and half.rs's evaluate_and_couple
Toom6Points(c, half) ==
  Toom6Point(c, half, "one", 0, TRUE)
    \o Toom6Point(c, half, "two", 1, TRUE)
    \o Toom6Point(c, half, "four", 2, TRUE)
    \o Toom6Point(c, half, "half", 1, FALSE)
    \o Toom6Point(c, half, "quarter", 2, FALSE)

\* interpolate_values
Toom6Interpolation ==
  << Butterfly("two", "half", FALSE), Butterfly("four", "quarter", FALSE),
     SubTimesOver("two", "one", 32, 9),
     SubTimesOver("four", "one", 512, 225), SubTimesOver("four", "two", 4, 189),
     SubTimes("two", "four", 25), Shift("two", 2),
     Sub("one", "four"), Sub("one", "two"),
     OverRadix("half", 15), OverRadix("quarter", 255),
     SubTimesOver("quarter", "half", 4, 189),
     SubTimes("half", "quarter", 17), SignedShift("half", 2),
     ModularHalf("quarter", "four"), Sub("four", "quarter"),
     ModularHalf("half", "two"), Sub("two", "half") >>

\* destination_points_fit: two and half are computed where they belong.
Toom6PointsFit(product, m) == m >= 2 /\ 10 * m + 2 <= product

Toom6Reconstruction(c, m, half) ==
  IF ~half /\ Toom6PointsFit(c.product, m)
  THEN << Layout(<< <<"zero", 0>>, <<"two", 3 * m>>, <<"half", 7 * m>> >>),
          Coefficient("four", m), Coefficient("one", 5 * m), Coefficient("quarter", 9 * m) >>
  ELSE << Layout(<< <<"zero", 0>> >> \o Unless(~half, <<"infinity", 11 * m>>)),
          Coefficient("four", m), Coefficient("two", 3 * m), Coefficient("one", 5 * m),
          Coefficient("half", 7 * m), Coefficient("quarter", 9 * m) >>

Toom6(c, m, half) ==
  << Endpoint("zero", 0, 0) >> \o Unless(~half, Endpoint("infinity", 6, 5))
    \o Toom6Points(c, half) \o Toom6Interpolation \o Toom6Reconstruction(c, m, half)

-----------------------------------------------------------------------------
(* Toom-8, on the 16-bit limb: evaluations by Horner's rule with two guard   *)
(* limbs, scalars above a limb as two factors, divisors above it as three.   *)

Toom8EvenOdd(side, nine, point, exponent, direct) ==
  LET even == IF nine THEN <<8, 6, 4, 2, 0>> ELSE <<6, 4, 2, 0>>
      odd == <<7, 5, 3, 1>>
      rising(s) == [i \in DOMAIN s |-> s[Len(s) + 1 - i]]
      ones(s) == [i \in DOMAIN s |-> 1]
  IN (IF exponent = 0
      THEN << Weigh(Eval(side), side, rising(even), ones(even), 0),
              Weigh(Odd(side), side, rising(odd), ones(odd), 0) >>
      ELSE IF direct
      THEN << Horner(Eval(side), side, even, 2 * exponent, 0),
              Horner(Odd(side), side, odd, 2 * exponent, exponent) >>
      ELSE << Horner(Eval(side), side, rising(even), 2 * exponent, IF nine THEN 0 ELSE exponent),
              Horner(Odd(side), side, rising(odd), 2 * exponent, IF nine THEN exponent ELSE 0) >>)
     \o << Compare(Eval(side), Odd(side), point, side) >>

\* couple_direct
CoupleDirect8(half, exponent, point) ==
  << Recover("positive", "negative", point), Sub("positive", "zero"),
     SignedShift("positive", 2 * exponent), SignedShift("negative", exponent) >>
    \o Unless(~half, SubEndpoint("negative", "infinity", 14 * exponent))

\* couple_reciprocal
CoupleReciprocal8(half, exponent, point) ==
  << Recover("positive", "negative", point) >>
    \o (IF half
        THEN << SignedShift("positive", exponent), SubEndpoint("positive", "zero", 14 * exponent),
                Sub("negative", "infinity"), SignedShift("negative", 2 * exponent) >>
        ELSE << SubEndpoint("positive", "zero", 14 * exponent),
                SignedShift("negative", exponent) >>)

Toom8Point(c, half, point, exponent, direct) ==
  Toom8EvenOdd("a", half, point, exponent, direct)
    \o (IF c.square THEN << >> ELSE Toom8EvenOdd("b", FALSE, point, exponent, direct))
    \o EvaluatedPair(c.square, c.fast, point, 0, 0)
    \o (IF direct THEN CoupleDirect8(half, exponent, point)
        ELSE CoupleReciprocal8(half, exponent, point))
    \o << Pack(point, "positive", "negative") >>

\* evaluate_and_couple_mul, evaluate_and_couple_sqr
Toom8Points(c, half) ==
  Toom8Point(c, half, "one", 0, TRUE)
    \o Toom8Point(c, half, "two", 1, TRUE) \o Toom8Point(c, half, "half", 1, FALSE)
    \o << Butterfly("two", "half", TRUE) >>
    \o Toom8Point(c, half, "four", 2, TRUE) \o Toom8Point(c, half, "quarter", 2, FALSE)
    \o << Butterfly("four", "quarter", TRUE) >>
    \o Toom8Point(c, half, "eight", 3, TRUE) \o Toom8Point(c, half, "eighth", 3, FALSE)
    \o << Butterfly("eight", "eighth", TRUE) >>

\* add_mul_signed_in_place's factors of the scalars above 65535, and the
\* divisors exact_signed_div_u64 takes in three factors.
WideFactors(name) ==
  CASE name = "1052688" -> <<4368, 241>>
    [] name = "12567555" -> <<2835, 4433>>
    [] name = "524288" -> <<1024, 512>>
    [] name = "112896" -> <<256, 441>>
    [] name = "15181425" -> <<18225, 833>>

SubWide(to, from, name) ==
  [op |-> "sub_wide", to |-> to, from |-> from,
   first |-> WideFactors(name)[1], second |-> WideFactors(name)[2]]

DivisorFactors(name) ==
  IF name = "48070897875" THEN <<56133, 27625, 31>> ELSE <<45927, 32725, 31>>

OverWide(to, name) ==
  LET factors == DivisorFactors(name) IN [i \in 1 .. 3 |-> Over(to, factors[i])]

\* interpolate_values
Toom8Interpolation ==
  << SubTimes("quarter", "half", 1028),
     SubTimes("eighth", "quarter", 1300), SubWide("eighth", "half", "1052688") >>
    \o OverWide("eighth", "48070897875")
    \o << SubWide("quarter", "eighth", "12567555"), Over("quarter", 2835),
          SignedShift("quarter", 6),
          SubTimes("half", "eighth", 4095), AddTimes("half", "quarter", 240),
          SignedShift("half", 2), OverRadix("half", 255),
          SubTimes("two", "one", 128), SubTimes("four", "one", 8192), SubTimes("four", "two", 400),
          SubWide("eight", "one", "524288"), SubTimes("eight", "four", 1428),
          SubWide("eight", "two", "112896") >>
    \o OverWide("eight", "46591793325")
    \o << SubWide("four", "eight", "15181425"), Over("four", 42525), SignedShift("four", 4),
          SubTimes("two", "eight", 3969), SubTimesOver("two", "four", 900, 9),
          SignedShift("two", 4),
          Sub("one", "eight"), Sub("one", "two"), Sub("one", "four"),
          ModularHalf("half", "four"), Sub("four", "half"),
          ReverseSub("quarter", "two"), SignedShift("quarter", 1), Sub("two", "quarter"),
          ModularHalf("eighth", "eight"), Sub("eight", "eighth") >>

\* destination_points_fit: half, one and four are computed where they belong.
Toom8PointsFit(product, m, packed, infinity) ==
  /\ packed <= 4 * m
  /\ 11 * m + packed <= product
  /\ infinity # 0 => 15 * m + infinity <= product

\* reconstruct_alternating adds the other four, in pairs where that is faster.
Toom8Reconstruction(c, m, half) ==
  LET packed == 3 * m + 4
      infinity == IF half THEN c.product - 15 * m ELSE 0
      ends == << <<"zero", 0>> >> \o Unless(~half, <<"infinity", 15 * m>>)
  IN IF Toom8PointsFit(c.product, m, packed, infinity)
     THEN << Layout(ends \o << <<"half", 3 * m>>, <<"one", 7 * m>>, <<"four", 11 * m>> >>) >>
            \o (IF c.fast
                THEN << [op |-> "pair_of_coefficients", first |-> "eighth", at |-> m,
                         second |-> "two", beside |-> 9 * m],
                        [op |-> "pair_of_coefficients", first |-> "quarter", at |-> 5 * m,
                         second |-> "eight", beside |-> 13 * m] >>
                ELSE << Coefficient("eighth", m), Coefficient("quarter", 5 * m),
                        Coefficient("two", 9 * m), Coefficient("eight", 13 * m) >>)
     ELSE << Layout(ends),
             Coefficient("eighth", m), Coefficient("half", 3 * m), Coefficient("quarter", 5 * m),
             Coefficient("one", 7 * m), Coefficient("two", 9 * m), Coefficient("four", 11 * m),
             Coefficient("eight", 13 * m) >>

Toom8(c, m, half) ==
  << Endpoint("zero", 0, 0) >> \o Unless(~half, Endpoint("infinity", 8, 7))
    \o Toom8Points(c, half) \o Toom8Interpolation \o Toom8Reconstruction(c, m, half)
=============================================================================

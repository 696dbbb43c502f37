-------------------------- MODULE EvaluationTiers --------------------------
(***************************************************************************)
(* The machine that runs one multiplication of a tier, statement by         *)
(* statement (math/mul/toom32 ... toom8).  Buffers are limb sequences of the *)
(* width the tier gives them; what the code asserts of carries and guards    *)
(* is collected in `sound`.  Lower tiers are entered as exact products.      *)
(***************************************************************************)
EXTENDS SharedEvaluation, TierPrograms

CONSTANT Calls   \* records of a tier, the operands a and b, square and fast

Longer(c) == Wider(Len(c.a), Len(c.b))
Shorter(c) == Narrower(Len(c.a), Len(c.b))

Split(c) ==
  LET l == Longer(c) s == Shorter(c)
  IN CASE c.tier \in {"toom3", "toom32"} -> Ceil(l, 3)
       [] c.tier \in {"toom4", "toom43"} -> Ceil(l, 4)
       [] c.tier = "toom6" -> IF Toom6Shape(l, s) = "half" THEN Toom6HalfSplit(l, s) ELSE Ceil(l, 6)
       [] c.tier = "toom8" -> IF Toom8Shape(l, s) = "half" THEN Toom8HalfSplit(l, s) ELSE Ceil(l, 8)

Half(c) ==
  \/ c.tier = "toom6" /\ Toom6Shape(Longer(c), Shorter(c)) = "half"
  \/ c.tier = "toom8" /\ Toom8Shape(Longer(c), Shorter(c)) = "half"

\* What the dispatcher and the tier check before it runs.  Tiers of unequal
\* parts order their operands; the others take them as they come.  Toom-3 asks
\* no more than a limb for each part, wherever its threshold is: a high part
\* may be empty.
Admitted(c) ==
  LET l == Longer(c) s == Shorter(c)
  IN /\ c.tier \in {"toom32", "toom43"} \/ Half(c) => Len(c.a) = l
     /\ c.square => c.a = c.b
     /\ CASE c.tier = "toom32" -> Toom32Suitable(l, s)
          [] c.tier = "toom43" -> Toom43Suitable(l, s)
          [] c.tier = "toom3" -> s >= 3
          [] c.tier = "toom4" -> FourParts(l, Ceil(l, 4)) /\ FourParts(s, Ceil(l, 4))
          [] c.tier = "toom6" -> Toom6Shape(l, s) # "none" /\ s > 5 * Split(c)
          [] c.tier = "toom8" -> Toom8Shape(l, s) # "none" /\ (c.square => EightParts(l))

TierAssumption == \A c \in Calls : Admitted(c)

\* high_product_len = 0: an operand ends within its first two parts.
EmptyHigh(c) == Shorter(c) <= 2 * Split(c)

Program(c) ==
  LET m == Split(c)
      settings == [square |-> c.square, fast |-> c.fast, product |-> Len(c.a) + Len(c.b)]
  IN CASE c.tier = "toom32" -> Toom32(m)
       [] c.tier = "toom3" ->
            IF c.square THEN Toom3Sqr(m, EmptyHigh(c)) ELSE Toom3Mul(m, EmptyHigh(c))
       [] c.tier = "toom43" -> Toom43(m)
       [] c.tier = "toom4" -> IF c.square THEN Toom4Sqr(m) ELSE Toom4Mul(m)
       [] c.tier = "toom6" -> Toom6(settings, m, Half(c))
       [] c.tier = "toom8" -> Toom8(settings, m, Half(c))

Buffers ==
  {"evaluation_a", "evaluation_b", "odd_a", "odd_b", "positive", "negative", "zero", "infinity",
   "one", "negative_one", "neg_one", "two", "negative_two", "neg_two", "half",
   "four", "quarter", "eight", "eighth"}

VARIABLES
  call,
  steps,    \* the statements still to run
  buffer,   \* the named buffers
  flip,     \* points and operands whose odd part is the larger
  dst,      \* the product buffer
  sound     \* no assertion has failed

vars == <<call, steps, buffer, flip, dst, sound>>

m == Split(call)
EvalLen == IF call.tier = "toom8" THEN m + 2 ELSE m + 1
ValueLen ==
  CASE call.tier \in {"toom3", "toom4"} -> 2 * m + 1
    [] call.tier = "toom8" -> 2 * m + 4
    [] OTHER -> 2 * m + 2

\* split: the parts of one operand; those past its end are empty.
Part(side, i) ==
  LET x == IF side = "a" THEN call.a ELSE call.b
  IN SubSeq(x, i * m + 1, IF (i + 1) * m < Len(x) THEN (i + 1) * m ELSE Len(x))

Now == Head(steps)
Runs(ops) == steps # <<>> /\ Now.op \in ops

At(slot) == SubSeq(buffer[slot[1]], slot[2] + 1, slot[2] + EvalLen)
Put(b, slot, x) == [b EXCEPT ![slot[1]] = Prefix(@, slot[2]) \o x]

\* Did the values at the negative point have different signs?
Negative(point) == ~call.square /\ ((<<point, "a">> \in flip) # (<<point, "b">> \in flip))

Init ==
  /\ call \in Calls
  /\ steps = Program(call)
  /\ buffer = [name \in Buffers |-> <<>>]
  /\ flip = {}
  /\ dst = <<>>
  /\ sound = TRUE

\* The step's buffers and whether its assertions held.
Done(contents, fits) ==
  /\ steps' = Tail(steps)
  /\ buffer' = contents
  /\ sound' = (sound /\ fits)
  /\ UNCHANGED <<call, flip, dst>>

-----------------------------------------------------------------------------
(* Evaluation.                                                              *)

\* A weighted sum of parts onto a start, and whether no carry was lost.
Weighted(start, side, parts, scalars) ==
  LET upto[i \in 0 .. Len(parts)] ==
        IF i = 0 THEN [sum |-> start, fits |-> TRUE]
        ELSE LET below == upto[i - 1]
                 x == Part(side, parts[i])
             IN [sum |-> AddMul(below.sum, x, scalars[i]),
                 fits |-> below.fits /\ AddMulCarry(below.sum, x, scalars[i]) = 0]
  IN upto[Len(parts)]

EvaluateByWeights ==
  /\ Runs({"weigh"})
  /\ LET w == Weighted(Zeroes(EvalLen), Now.side, Now.parts, Now.scalars)
     IN Done(Put(buffer, Now.to, ShiftLeft(w.sum, Now.shift)),
             w.fits /\ ShiftLeftCarry(w.sum, Now.shift) = 0)

EvaluateByShifts ==
  /\ Runs({"horner"})
  /\ LET upto[i \in 1 .. Len(Now.parts)] ==
           LET x == Part(Now.side, Now.parts[i])
           IN IF i = 1 THEN [sum |-> CopyPart(EvalLen, x), fits |-> TRUE]
              ELSE LET below == upto[i - 1]
                       shifted == ShiftLeft(below.sum, Now.step)
                   IN [sum |-> AddTo(shifted, x),
                       fits |-> /\ below.fits
                                /\ ShiftLeftCarry(below.sum, Now.step) = 0
                                /\ AddMulCarry(shifted, x, 1) = 0]
         value == upto[Len(Now.parts)]
     IN Done(Put(buffer, Now.to, ShiftLeft(value.sum, Now.shift)),
             value.fits /\ ShiftLeftCarry(value.sum, Now.shift) = 0)

AccumulateParts ==
  /\ Runs({"accumulate"})
  /\ LET w == Weighted(At(Now.to), Now.side, Now.parts, Now.scalars)
     IN Done(Put(buffer, Now.to, w.sum), w.fits)

ComparePair ==
  /\ Runs({"compare"})
  /\ flip' = IF Less(At(Now.even), At(Now.odd)) THEN flip \union {<<Now.point, Now.side>>}
             ELSE flip \ {<<Now.point, Now.side>>}
  /\ steps' = Tail(steps)
  /\ UNCHANGED <<call, buffer, dst, sound>>

Flipped == <<Now.point, Now.side>> \in flip

FormPair ==
  /\ Runs({"sum_and_difference", "add_part", "overwrite"})
  /\ LET even == At(Now.even) odd == At(Now.odd)
     IN CASE Now.op = "sum_and_difference" ->
               Done(Put(Put(buffer, Now.even, AddTo(even, odd)), Now.odd,
                        AbsoluteDifference(even, odd, Flipped)),
                    SumAndDifferenceFit(even, odd, Flipped))
          [] Now.op = "add_part" ->
               Done(Put(buffer, Now.even, AddTo(even, odd)), AddMulCarry(even, odd, 1) = 0)
          [] Now.op = "overwrite" ->
               Done(Put(buffer, Now.even, OverwrittenSum(even, odd, Flipped)),
                    OverwriteFits(even, odd, Flipped))

-----------------------------------------------------------------------------
(* Products at the points.  A product fills its whole buffer, whatever else  *)
(* was kept there.                                                           *)

PowerOfTwo(n) == \E i \in 0 .. n : n = 2 ^ i

\* guarded_evaluation_product where the split is worth it, else the whole.
Guarded == Now.guards > 0 /\ (Now.guards = 2 => PowerOfTwo(m))

PointProduct ==
  /\ Runs({"product", "square"})
  /\ LET x == At(Now.x)
         y == IF Now.op = "square" THEN x ELSE At(Now.y)
         to == IF Now.op = "product" /\ Negative(Now.point) THEN Now.otherwise ELSE Now.to
         value == IF ~Guarded
                  THEN Extended(ProductLimbs(Prefix(x, ActiveLen(x)), Prefix(y, ActiveLen(y))), ValueLen)
                  ELSE IF Now.op = "square" THEN GuardedSquare(x, ValueLen)
                  ELSE GuardedProduct(x, y, ValueLen)
     IN Done([buffer EXCEPT ![to] = value], Guarded => GuardsFit(x, y, Now.bound, Now.guards))

EndpointProduct ==
  /\ Runs({"endpoint"})
  /\ Done([buffer EXCEPT ![Now.to] = ProductLimbs(Part("a", Now.i), Part("b", Now.j))], TRUE)

-----------------------------------------------------------------------------
(* Interpolation.                                                           *)

Times(x, factor, width) == AddMul(Zeroes(width), x, factor)

Combined(x, y) ==
  CASE Now.op = "sub" -> SubFrom(x, y)
    [] Now.op = "add" -> AddTo(x, y)
    [] Now.op = "reverse" -> ReverseDifference(x, y)
    [] Now.op = "sub_times" -> SubMul(x, y, Now.k)
    [] Now.op = "add_times" -> AddMul(x, y, Now.k)
    [] Now.op = "sub_times_over" -> SubMulDivideOdd(x, y, Now.k, Now.d)
    [] Now.op = "modular_half" -> HalfModularSum(x, y)
    [] Now.op = "over" -> DivideOdd(x, Now.d)
    [] Now.op = "over_radix" -> DivideRadixMinusOne(x, Now.d)
    [] Now.op = "shift" -> ShiftRight(x, Now.bits)
    [] Now.op = "signed_shift" -> SignedShiftRight(x, Now.bits)
    [] Now.op = "sub_wide" -> SubMul(x, Times(y, Now.first, Len(x)), Now.second)
    [] Now.op = "sub_endpoint" ->
         LET limbs == Now.bits \div LimbBits
         IN Splice(x, limbs, SubMul(From(x, limbs), y, 2 ^ (Now.bits % LimbBits)))
    [] Now.op = "add_signed" -> IF Negative(Now.point) THEN AddTo(x, y) ELSE SubFrom(x, y)
    [] Now.op = "half_signed" ->
         IF Negative(Now.point) THEN HalfSum(x, y) ELSE HalfReverseDifference(x, y)

CombinedFits(x, y) ==
  CASE Now.op \in {"shift", "signed_shift"} -> LowBitsClear(x, Now.bits)
    [] Now.op = "half_signed" ->
         IF Negative(Now.point) THEN LowBitsClear(AddTo(x, y), 1)
         ELSE SubMulBorrow(y, x, 1) = 0 /\ LowBitsClear(SubFrom(y, x), 1)
    [] OTHER -> TRUE

SingleBuffer ==
  {"sub", "add", "reverse", "sub_times", "add_times", "sub_times_over", "modular_half", "over",
   "over_radix", "shift", "signed_shift", "sub_wide", "sub_endpoint", "add_signed", "half_signed"}

Interpolate ==
  /\ Runs(SingleBuffer)
  /\ LET x == buffer[Now.to] y == buffer[Now.from]
     IN Done([buffer EXCEPT ![Now.to] = Combined(x, y)], CombinedFits(x, y))

SumAndDifferenceOfBuffers ==
  /\ Runs({"butterfly"})
  /\ LET x == buffer[Now.to] y == buffer[Now.from]
     IN Done([buffer EXCEPT ![Now.to] = AddTo(x, y),
                            ![Now.from] = IF Now.reverse THEN SubFrom(y, x) ELSE SubFrom(x, y)],
             call.tier \in {"toom32", "toom43"} =>
               AddMulCarry(x, y, 1) = 0 /\ SubMulBorrow(x, y, 1) = 0)

SwapBySign ==
  /\ Runs({"swap"})
  /\ Done(IF Negative(Now.point)
          THEN [buffer EXCEPT ![Now.to] = buffer[Now.from], ![Now.from] = buffer[Now.to]]
          ELSE buffer, TRUE)

\* The even and odd halves of a point pair.  The products were stored so that
\* the value at the positive point is the minuend.
RecoverEvenOdd ==
  /\ Runs({"recover"})
  /\ LET small == IF Negative(Now.point) THEN Now.to ELSE Now.from
         large == IF Negative(Now.point) THEN Now.from ELSE Now.to
         half == HalfReverseDifference(buffer[small], buffer[large])
     IN Done([buffer EXCEPT ![small] = half, ![large] = SubFrom(@, half)],
             /\ SubMulBorrow(buffer[large], buffer[small], 1) = 0
             /\ LowBitsClear(SubFrom(buffer[large], buffer[small]), 1))

\* pack: one buffer for the pair, the even half one split higher.
PackPair ==
  /\ Runs({"pack"})
  /\ LET other == buffer[Now.other]
     IN Done([buffer EXCEPT ![Now.to] =
                Prefix(other, m) \o AddTo(buffer[Now.positive], From(other, m))], TRUE)

-----------------------------------------------------------------------------
(* Reconstruction.                                                          *)

Written(contents, fits) ==
  /\ steps' = Tail(steps)
  /\ dst' = contents
  /\ sound' = (sound /\ fits)
  /\ UNCHANGED <<call, buffer, flip>>

LayOut ==
  /\ Runs({"layout"})
  /\ LET n == Len(call.a) + Len(call.b)
         place[i \in 0 .. Len(Now.placed)] ==
           IF i = 0 THEN Zeroes(n) ELSE Splice(place[i - 1], Now.placed[i][2], buffer[Now.placed[i][1]])
         Ends(i) == Now.placed[i][2] + Len(buffer[Now.placed[i][1]])
         InOrder == \A i \in DOMAIN Now.placed :
                      /\ Ends(i) <= n
                      /\ \A j \in DOMAIN Now.placed : i # j =>
                           (Ends(i) <= Now.placed[j][2] \/ Ends(j) <= Now.placed[i][2])
     IN Written(place[Len(Now.placed)], InOrder)

AddCoefficient ==
  /\ Runs({"coefficient"})
  /\ Written(AddShifted(dst, buffer[Now.from], Now.shift),
             ActiveLen(buffer[Now.from]) # 0 => AddShiftedFits(dst, buffer[Now.from], Now.shift))

\* Two coefficients that do not overlap are added in one pass; the second is cut
\* at the end of the product.
AddTwoCoefficients ==
  /\ Runs({"pair_of_coefficients"})
  /\ LET room == Len(dst) - Now.beside
         second == buffer[Now.second]
         kept == IF room < Len(second) THEN room ELSE Len(second)
         once == AddShifted(dst, buffer[Now.first], Now.at)
     IN Written(AddShifted(once, Prefix(second, kept), Now.beside),
                /\ AddShiftedFits(dst, buffer[Now.first], Now.at)
                /\ AddShiftedFits(once, Prefix(second, kept), Now.beside)
                /\ From(second, kept) = Zeroes(Len(second) - kept))

\* reconstruct_around_quadratic: each coefficient takes what the one below left
\* above its chunk.
AroundQuadratic ==
  /\ Runs({"around_quadratic"})
  /\ LET Chunk(k) == SubSeq(dst, k * m + 1, (k + 1) * m)
         c3 == buffer[Now.third] c4 == buffer[Now.fourth] c5 == buffer[Now.fifth]
         third == AddTo(Chunk(3), Prefix(c3, m))
         carry3 == << AddMulCarry(Chunk(3), Prefix(c3, m), 1) >>
         above3 == AddTo(AddTo(From(c3, m), Chunk(4)), carry3)
         fourth == AddTo(Prefix(above3, m), Prefix(c4, m))
         carry4 == << AddMulCarry(Prefix(above3, m), Prefix(c4, m), 1) >>
         above4 == AddTo(AddTo(From(c4, m), From(above3, m)), carry4)
         fifth == AddTo(Prefix(above4, m), Prefix(c5, m))
         carry5 == << AddMulCarry(Prefix(above4, m), Prefix(c5, m), 1) >>
         above5 == AddTo(AddTo(From(c5, m), From(above4, m)), carry5)
         below == Splice(dst, 3 * m, third \o fourth \o fifth)
     IN Written(AddShifted(below, above5, 6 * m),
                /\ AddMulCarry(From(c3, m), Chunk(4), 1) = 0
                /\ AddMulCarry(AddTo(From(c3, m), Chunk(4)), carry3, 1) = 0
                /\ AddMulCarry(From(c4, m), From(above3, m), 1) = 0
                /\ AddMulCarry(From(c5, m), From(above4, m), 1) = 0
                /\ AddShiftedFits(below, above5, 6 * m))

-----------------------------------------------------------------------------
Next ==
  \/ EvaluateByWeights \/ EvaluateByShifts \/ AccumulateParts \/ ComparePair \/ FormPair
  \/ PointProduct \/ EndpointProduct
  \/ Interpolate \/ SumAndDifferenceOfBuffers \/ SwapBySign \/ RecoverEvenOdd \/ PackPair
  \/ LayOut \/ AddCoefficient \/ AddTwoCoefficients \/ AroundQuadratic

Spec == Init /\ [][Next]_vars

\* The tier writes the exact product: every evaluation fits its guard, every
\* signed value is combined with the sign it was computed with, every division
\* of the interpolation is exact on values that may be negative, and the
\* overlapping coefficients leave no carry behind.
TierExact == sound /\ (steps = <<>> => dst = ProductLimbs(call.a, call.b))
=============================================================================

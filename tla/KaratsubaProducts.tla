------------------------- MODULE KaratsubaProducts -------------------------
(***************************************************************************)
(* math/mul/karatsuba: two-way products and squares, recursive, in one       *)
(* destination and one scratch buffer of exactly the size                    *)
(* karatsuba_mul_scratch_len and karatsuba_sqr_scratch_len promise.  A stack  *)
(* of frames replaces the recursion; both buffers start dirty.               *)
(***************************************************************************)
EXTENDS SharedEvaluation

CONSTANTS
  KARATSUBA_THRESHOLD,
  SQR_KARATSUBA_THRESHOLD,
  Slack,      \* a bound: scratch limbs kept past the promise, to see it exceeded
  Calls       \* records of two operands and square

KaratsubaAssumption == \A c \in Calls : c.square => c.x = c.y

Half(n) == (n + 1) \div 2
Greater(i, j) == IF i > j THEN i ELSE j

\* balanced_split_len: just below a power of two the half is rounded up.
BalancedSplitLen(len) ==
  LET half == Half(len)
      least == Greater(2, KARATSUBA_THRESHOLD)
  IN IF half < least \/ half % 2 = 0 \/ half + 1 \notin {2 ^ i : i \in 0 .. half}
     THEN half ELSE half + 1

\* The workspaces of 20, 24, 32 and 48 limbs are constants.
FixedScratch(len) ==
  CASE len \in {20, 24, 32} -> 2 * len + 1
    [] len = 48 -> 2 * 24 + 2 * (2 * 24 + 1)

MulScratchLen(lenA, lenB) ==
  LET most == Greater(lenA, lenB)
      need[p \in (0 .. most + 1) \X (0 .. most + 1)] ==
        LET l == Greater(p[1], p[2])
            s == IF p[1] < p[2] THEN p[1] ELSE p[2]
            Below(n, len) == IF n < KARATSUBA_THRESHOLD THEN 0 ELSE len
        IN IF s < 2 \/ s <= Half(l) THEN 0
           ELSE IF l = s /\ l \in {20, 24, 32, 48} THEN FixedScratch(l)
           ELSE IF l = s
           THEN LET split == BalancedSplitLen(l) high == l - split
                IN 4 * split + 1 + Greater(Below(split, need[<<split, split>>]), Below(high, need[<<high, high>>]))
           ELSE LET split == Half(l) sum == split + 1
                IN 4 * sum + Greater(Below(split, Greater(need[<<sum, split>>], need[<<split, split>>])),
                                     Below(sum, need[<<sum, sum>>]))
  IN need[<<lenA, lenB>>]

SqrScratchLen(length) ==
  LET need[len \in 0 .. length] ==
        LET split == Half(len)
            Below(n) == IF n < SQR_KARATSUBA_THRESHOLD THEN 0 ELSE need[n]
        IN IF len < 2 THEN 0 ELSE 3 * split + 1 + Greater(Below(split), Below(len - split))
  IN need[length]

VARIABLES
  call,
  mem,        \* operands x and y, destination and scratch
  promised,   \* the scratch limbs the caller provides
  stack,      \* frames, the running one first
  sound       \* no assertion has failed

vars == <<call, mem, promised, stack, sound>>

Place(of, at, len) == [of |-> of, at |-> at, len |-> len]
Low(p, split) == Place(p.of, p.at, split)
High(p, split) == Place(p.of, p.at + split, p.len - split)
Read(p) == SubSeq(mem[p.of], p.at + 1, p.at + p.len)
Write(memory, p, x) == [memory EXCEPT ![p.of] = Splice(@, p.at, x)]

\* How a product is entered: "dispatch" tests the threshold, "direct" only the
\* width, "leaf" is the schoolbook product.
Frame(entry, square, a, b, dst, scratch) ==
  [entry |-> entry, square |-> square, a |-> a, b |-> b, dst |-> dst, scratch |-> scratch,
   stage |-> "enter", sameSign |-> TRUE]

Top == Head(stack)
Below == Tail(stack)
Running(stage) == stack # <<>> /\ Top.stage = stage

Init ==
  /\ call \in Calls
  /\ promised = IF call.square THEN SqrScratchLen(Len(call.x)) ELSE MulScratchLen(Len(call.x), Len(call.y))
  /\ mem = [x |-> call.x, y |-> call.y,
            dst |-> [i \in 1 .. Len(call.x) + Len(call.y) |-> LimbMax],
            scratch |-> [i \in 1 .. promised + Slack |-> LimbMax]]
  /\ stack = << Frame("dispatch", call.square, Place("x", 0, Len(call.x)),
                      Place(IF call.square THEN "x" ELSE "y", 0, Len(call.y)),
                      Place("dst", 0, Len(call.x) + Len(call.y)), 0) >>
  /\ sound = TRUE

Threshold(f) == IF f.square THEN SQR_KARATSUBA_THRESHOLD ELSE KARATSUBA_THRESHOLD
Shorter(f) == IF f.a.len < f.b.len THEN f.a.len ELSE f.b.len
Longer(f) == Greater(f.a.len, f.b.len)

\* Schoolbook widths, and shapes whose shorter operand has no high part.
Schoolbook(f) ==
  \/ f.entry = "leaf"
  \/ f.entry = "dispatch" /\ Shorter(f) < Threshold(f)
  \/ Shorter(f) < 2
  \/ Shorter(f) <= Half(Longer(f))

Balanced(f) == f.a.len = f.b.len
FixedWidth(f) == ~f.square /\ f.a.len \in {20, 23, 24, 32, 48}

Split(f) ==
  IF f.square \/ ~Balanced(f) \/ FixedWidth(f) THEN Half(Longer(f)) ELSE BalancedSplitLen(f.a.len)

\* Is the high part shorter than the low one?
Extended2(f) == 2 * Split(f) # f.a.len

\* How the three products of a balanced split are entered.
Child(f, part) ==
  IF ~Balanced(f) THEN "dispatch"
  ELSE IF FixedWidth(f) THEN IF f.a.len = 48 THEN "direct" ELSE "leaf"
  ELSE IF Split(f) < Threshold(f) THEN "leaf"
  ELSE IF part = "high" /\ Extended2(f) THEN "dispatch" ELSE "direct"

LowProduct(f) == Low(f.dst, 2 * Split(f))
HighProduct(f) == Place(f.dst.of, f.dst.at + 2 * Split(f), f.a.len + f.b.len - 2 * Split(f))

-----------------------------------------------------------------------------
ReturnSchoolbook ==
  /\ Running("enter") /\ Schoolbook(Top)
  /\ mem' = Write(mem, Top.dst, ProductLimbs(Read(Top.a), Read(Top.b)))
  /\ stack' = Below
  /\ UNCHANGED <<call, promised, sound>>

Advance(stage) == << [Top EXCEPT !.stage = stage] >> \o Below

\* mul_balanced and sqr_balanced: the endpoint products use the whole scratch.
MultiplyLow ==
  /\ Running("enter") /\ ~Schoolbook(Top) /\ Balanced(Top)
  /\ stack' = << Frame(Child(Top, "low"), Top.square, Low(Top.a, Split(Top)), Low(Top.b, Split(Top)),
                       LowProduct(Top), Top.scratch) >> \o Advance("high")
  /\ UNCHANGED <<call, mem, promised, sound>>

MultiplyHigh ==
  /\ Running("high")
  /\ stack' = << Frame(Child(Top, "high"), Top.square, High(Top.a, Split(Top)), High(Top.b, Split(Top)),
                       HighProduct(Top), Top.scratch) >> \o Advance("difference")
  /\ UNCHANGED <<call, mem, promised, sound>>

\* abs_difference_equal_width and abs_difference_zero_extended.
AbsDifference(low, high) ==
  IF Less(low, high) THEN SubFrom(Extended(high, Len(low)), low) ELSE SubFrom(low, high)

\* The squared difference is one buffer; a product's are two.
Operands(f) == IF f.square THEN 1 ELSE 2
Middle(f) == Place("scratch", f.scratch + Operands(f) * Split(f), 2 * Split(f) + 1)
AfterMiddle(f) == Middle(f).at + Middle(f).len

MultiplyDifferences ==
  /\ Running("difference")
  /\ LET f == Top split == Split(Top)
         a0 == Read(Low(f.a, split)) a1 == Read(High(f.a, split))
         b0 == Read(Low(f.b, split)) b1 == Read(High(f.b, split))
         da == Place("scratch", f.scratch, split)
         db == IF f.square THEN da ELSE Place("scratch", f.scratch + split, split)
         value == Place("scratch", Middle(f).at, 2 * split)
     IN /\ mem' = Write(Write(mem, da, AbsDifference(a0, a1)), db, AbsDifference(b0, b1))
        /\ stack' = << Frame(Child(f, "middle"), f.square, da, db, value, AfterMiddle(f)) >>
                      \o << [f EXCEPT !.stage = "combine",
                                      !.sameSign = f.square \/ (Less(a0, a1) = Less(b0, b1))] >> \o Below
  /\ UNCHANGED <<call, promised, sound>>

\* reverse_subtract_product_from_middle leaves -borrow in the guard; otherwise the
\* guard is cleared and the low product added.  add_product_to_middle then adds
\* the high one.
GuardedMiddle_KeepsGuard(middle, low, sameSign) ==
  LET n == Len(low) IN
  IF sameSign
  THEN SubFrom(low, Prefix(middle, n)) \o << (-SubMulBorrow(low, Prefix(middle, n), 1)) % Base >>
  ELSE AddTo(middle, low)

GuardedMiddle(middle, low, sameSign) ==
  LET n == Len(low) IN
  IF sameSign
  THEN SubFrom(low, Prefix(middle, n)) \o << (-SubMulBorrow(low, Prefix(middle, n), 1)) % Base >>
  ELSE AddTo(Append(Prefix(middle, n), 0), low)

Combine ==
  /\ Running("combine")
  /\ LET f == Top
         whole == Place(f.dst.of, f.dst.at, f.a.len + f.b.len)
         middle == AddTo(GuardedMiddle(Read(Middle(f)), Read(LowProduct(f)), f.sameSign), Read(HighProduct(f)))
     IN /\ mem' = Write(Write(mem, Middle(f), middle), whole, AddShifted(Read(whole), middle, Split(f)))
        /\ sound' = (sound /\ AddShiftedFits(Read(whole), middle, Split(f)))
  /\ stack' = Below
  /\ UNCHANGED <<call, promised>>

-----------------------------------------------------------------------------
(* Unequal widths: sums, kept below the endpoint products' scratch.         *)

SumSpace(f) == Split(f) + 1
AfterSums(f) == f.scratch + 2 * SumSpace(f)

\* add_blocks: the sum has one limb more only when it carries.
Sums ==
  /\ Running("enter") /\ ~Schoolbook(Top) /\ ~Balanced(Top)
  /\ LET f == Top split == Split(Top)
         SumOf(p) == AddTo(Append(Read(Low(p, split)), 0), Read(High(p, split)))
     IN /\ mem' = Write(Write(mem, Place("scratch", f.scratch, SumSpace(f)), SumOf(f.a)),
                        Place("scratch", f.scratch + SumSpace(f), SumSpace(f)), SumOf(f.b))
        /\ stack' = << Frame("dispatch", FALSE, Low(f.a, split), Low(f.b, split), LowProduct(f), AfterSums(f)),
                       Frame("dispatch", FALSE, High(f.a, split), High(f.b, split), HighProduct(f), AfterSums(f)),
                       [f EXCEPT !.stage = "sums"] >> \o Below
  /\ UNCHANGED <<call, promised, sound>>

SumPlace(f, side) ==
  LET space == Place("scratch", f.scratch + (IF side = "a" THEN 0 ELSE SumSpace(f)), SumSpace(f))
  IN [space EXCEPT !.len = Split(f) + Read(space)[SumSpace(f)]]

MiddleOfSums(f) == Place("scratch", AfterSums(f), SumPlace(f, "a").len + SumPlace(f, "b").len)

MultiplySums ==
  /\ Running("sums")
  /\ stack' = << Frame("dispatch", FALSE, SumPlace(Top, "a"), SumPlace(Top, "b"), MiddleOfSums(Top),
                       AfterSums(Top) + 2 * SumSpace(Top)) >> \o Advance("subtract")
  /\ UNCHANGED <<call, mem, promised, sound>>

\* sub_two_full_slices_in_place
CombineSums ==
  /\ Running("subtract")
  /\ LET f == Top
         whole == Place(f.dst.of, f.dst.at, f.a.len + f.b.len)
         product == Read(MiddleOfSums(f))
         less == SubFrom(product, Read(LowProduct(f)))
         middle == SubFrom(less, Read(HighProduct(f)))
     IN /\ mem' = Write(Write(mem, MiddleOfSums(f), middle), whole, AddShifted(Read(whole), middle, Split(f)))
        /\ sound' = (sound /\ SubMulBorrow(product, Read(LowProduct(f)), 1) = 0
                           /\ SubMulBorrow(less, Read(HighProduct(f)), 1) = 0
                           /\ AddShiftedFits(Read(whole), middle, Split(f)))
  /\ stack' = Below
  /\ UNCHANGED <<call, promised>>

Next ==
  \/ ReturnSchoolbook
  \/ MultiplyLow \/ MultiplyHigh \/ MultiplyDifferences \/ Combine
  \/ Sums \/ MultiplySums \/ CombineSums

Spec == Init /\ [][Next]_vars

-----------------------------------------------------------------------------
(* Properties.                                                              *)

\* The scratch limbs a frame uses itself, once it has written to them.
Reach(f) ==
  CASE f.stage = "combine" -> AfterMiddle(f)
    [] f.stage = "sums" -> AfterSums(f)
    [] f.stage = "subtract" -> AfterSums(f) + 2 * SumSpace(f)
    [] OTHER -> f.scratch

\* The scratch a caller sizes by the length functions is enough at every depth
\* of every shape, and the product is exact: no frame overwrites what one above
\* it still reads, and no guard keeps a value from the dirty buffer.
KaratsubaExact ==
  /\ sound
  /\ \A i \in DOMAIN stack : Reach(stack[i]) <= promised
  /\ stack = <<>> => mem.dst = ProductLimbs(call.x, call.y)
=============================================================================

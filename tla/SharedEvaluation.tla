------------------------- MODULE SharedEvaluation --------------------------
(***************************************************************************)
(* math/mul/shared: the fixed-width arithmetic the multiplication towers    *)
(* are written in.  A buffer is a limb sequence; every operator gives the    *)
(* buffer as the routine leaves it.  A final carry is dropped where the      *)
(* routine drops it, and is a separate operator where it asserts it is zero. *)
(***************************************************************************)
EXTENDS Limbs

CONSTANTS
  LimbBits,    \* LIMB_BITS
  HalfBase     \* half a limb: no intermediate of the model exceeds Base * HalfBase

WordAssumption ==
  /\ LimbBits \in Nat \ {0}
  /\ Base = 2 ^ LimbBits
  /\ HalfBase * HalfBase = Base

\* ArchKernels::mul_limb_lo_hi(x, y), plus an addend: the low and the high limb.
LimbProduct(x, y, addend) ==
  LET low == x * (y % HalfBase) + addend
      high == x * (y \div HalfBase) + low \div HalfBase
  IN << (high % HalfBase) * HalfBase + (low % HalfBase), high \div HalfBase >>

Wrapped(x, y) == LimbProduct(x, y, 0)[1]

Zeroes(n) == [i \in 1 .. n |-> 0]
Extended(x, n) == [i \in 1 .. n |-> Column(x, i)]
From(x, start) == SubSeq(x, start + 1, Len(x))
Prefix(x, n) == SubSeq(x, 1, n)

\* x with the columns above start replaced by those of y.
Splice(x, start, y) ==
  [i \in DOMAIN x |-> IF i > start /\ i <= start + Len(y) THEN y[i - start] ELSE x[i]]

-----------------------------------------------------------------------------
(* Linear passes.  Each walks the columns once with one carry.             *)

\* x + y * scalar over the columns of x, with the carry out.
Sum(x, y, scalar) ==
  LET pass[i \in 0 .. Len(x)] ==
        IF i = 0 THEN [limbs |-> <<>>, carry |-> 0]
        ELSE LET below == pass[i - 1]
                 t == LimbProduct(Column(y, i), scalar, below.carry)
             IN [limbs |-> Append(below.limbs, (x[i] + t[1]) % Base),
                 carry |-> t[2] + (IF x[i] + t[1] >= Base THEN 1 ELSE 0)]
  IN pass[Len(x)]

\* add_mul_word_in_place (and, with scalar one, add_slice_in_place).
AddMul(x, y, scalar) == Sum(x, y, scalar).limbs
AddMulCarry(x, y, scalar) == Sum(x, y, scalar).carry

Difference(x, y, scalar) ==
  LET pass[i \in 0 .. Len(x)] ==
        IF i = 0 THEN [limbs |-> <<>>, borrow |-> 0]
        ELSE LET below == pass[i - 1]
                 t == LimbProduct(Column(y, i), scalar, below.borrow)
             IN [limbs |-> Append(below.limbs, (x[i] - t[1]) % Base),
                 borrow |-> t[2] + (IF x[i] < t[1] THEN 1 ELSE 0)]
  IN pass[Len(x)]

\* sub_mul_word_in_place (and, with scalar one, sub_full_slices_in_place).
SubMul(x, y, scalar) == Difference(x, y, scalar).limbs
SubMulBorrow(x, y, scalar) == Difference(x, y, scalar).borrow

AddTo(x, y) == AddMul(x, y, 1)
SubFrom(x, y) == SubMul(x, y, 1)

\* reverse_difference_in_place(x, positive)
ReverseDifference(x, positive) == SubFrom(positive, x)

\* compare_with_zero_extension and the evaluators' comparisons.
Less(x, y) == SubMulBorrow(Extended(x, IF Len(x) > Len(y) THEN Len(x) ELSE Len(y)), y, 1) = 1

\* active_len
ActiveLen(x) == NormalizedLen(x)

\* copy_part(dst, part): the guard is cleared.
CopyPart(n, part) == Extended(part, n)

\* double_evaluation_in_place and the one-word left shifts.
Doubled(x) == AddTo(x, x)
ShiftLeft(x, bits) == AddMul(Zeroes(Len(x)), x, 2 ^ bits)
ShiftLeftCarry(x, bits) == AddMulCarry(Zeroes(Len(x)), x, 2 ^ bits)

-----------------------------------------------------------------------------
(* Sums and absolute differences of an even and an odd part.                *)

\* apply_sum_and_difference: the sum and the magnitude of the difference.
AbsoluteDifference(even, odd, oddIsLarger) ==
  IF oddIsLarger THEN SubFrom(odd, even) ELSE SubFrom(even, odd)

\* ... and what it asserts: neither carries.
SumAndDifferenceFit(even, odd, oddIsLarger) ==
  /\ AddMulCarry(even, odd, 1) = 0
  /\ IF oddIsLarger THEN SubMulBorrow(odd, even, 1) = 0 ELSE SubMulBorrow(even, odd, 1) = 0

\* overwrite_sum_with_absolute_difference: the sum becomes the difference.
OverwrittenSum(sum, odd, oddIsLarger) ==
  IF oddIsLarger THEN SubFrom(Doubled(odd), sum) ELSE SubMul(sum, odd, 2)

OverwriteFits(sum, odd, oddIsLarger) ==
  oddIsLarger => /\ AddMulCarry(odd, odd, 1) = 0
                 /\ SubMulBorrow(Doubled(odd), sum, 1) = 0

-----------------------------------------------------------------------------
(* Exact division.                                                          *)

LowBitsClear(x, bits) == x # <<>> => x[1] % (2 ^ bits) = 0

\* The limbs of x shifted right, ext being the limb above the highest.
ShiftedRight(x, bits, ext) ==
  [i \in DOMAIN x |->
     LET above == IF i < Len(x) THEN x[i + 1] ELSE ext
     IN (x[i] \div 2 ^ bits) + (above % (2 ^ bits)) * 2 ^ (LimbBits - bits)]

\* exact_div2_in_place, exact_div4_in_place, exact_div_power_of_two_in_place
ShiftRight(x, bits) == ShiftedRight(x, bits, 0)

\* exact_signed_div_power_of_two_in_place: the sign bit is extended.
SignedShiftRight(x, bits) ==
  ShiftedRight(x, bits, IF x # <<>> /\ x[Len(x)] >= Base \div 2 THEN LimbMax ELSE 0)

\* exact_half_sum_in_place (the carry is the new top bit) and
\* exact_half_modular_sum_in_place (it is dropped).
HalfSum(x, y) == ShiftedRight(AddTo(x, y), 1, AddMulCarry(x, y, 1))
HalfModularSum(x, y) == ShiftedRight(AddTo(x, y), 1, 0)

\* exact_half_reverse_difference_in_place
HalfReverseDifference(x, positive) == ShiftedRight(SubFrom(positive, x), 1, 0)

\* invert_odd: every Newton step doubles the correct bits.
InvertOdd(divisor) ==
  LET inverse[bits \in 1 .. 2 * LimbBits] ==
        IF bits = 1 THEN 1
        ELSE LET last == inverse[bits \div 2]
             IN Wrapped(last, (2 - Wrapped(divisor, last)) % Base)
      Reached == CHOOSE bits \in {2 ^ i : i \in 0 .. LimbBits} : bits >= LimbBits /\ bits < 2 * LimbBits
  IN inverse[Reached]

\* exact_div_odd_in_place: the unique quotient modulo the width.
DivideOdd(x, divisor) ==
  LET inverse == InvertOdd(divisor)
      borrow[i \in 0 .. Len(x)] ==
        IF i = 0 THEN 0
        ELSE LET owed == borrow[i - 1]
                 quotient == Wrapped((x[i] - owed) % Base, inverse)
             IN LimbProduct(quotient, divisor, 0)[2] + (IF x[i] < owed THEN 1 ELSE 0)
  IN [i \in DOMAIN x |-> Wrapped((x[i] - borrow[i - 1]) % Base, inverse)]

\* exact_div_radix_minus_one_in_place: the divisor divides Base - 1, so one
\* multiplication by the cofactor replaces the inverse.
DivideRadixMinusOne(x, divisor) ==
  LET factor == LimbMax \div divisor
      high[i \in 0 .. Len(x)] ==
        IF i = 0 THEN 0
        ELSE LET t == LimbProduct(x[i], factor, 0)
                 below == high[i - 1]
             IN (below - t[1] - t[2] - (IF below < t[1] THEN 1 ELSE 0)) % Base
  IN [i \in DOMAIN x |-> (high[i - 1] - LimbProduct(x[i], factor, 0)[1]) % Base]

\* exact_sub_mul_word_odd_in_place: both recurrences in one pass.
SubMulDivideOdd(x, y, scalar, divisor) == DivideOdd(SubMul(x, y, scalar), divisor)

-----------------------------------------------------------------------------
(* Products.                                                                *)

\* The full product, as every lower tier returns it.
ProductLimbs(x, y) ==
  LET n == Len(x) + Len(y)
      row[j \in 0 .. Len(y)] ==
        IF j = 0 THEN Zeroes(n)
        ELSE LET below == row[j - 1]
             IN Splice(below, j - 1, AddMul(SubSeq(below, j, j + Len(x)), x, y[j]))
  IN row[Len(y)]

\* guarded_evaluation_product and guarded_evaluation_square: the low product,
\* the guard product above it, then the two cross terms.
GuardedProduct(x, y, width) ==
  LET m == Len(x) - 1
      low == ProductLimbs(Prefix(x, m), Prefix(y, m))
      whole == Extended(low \o LimbProduct(x[m + 1], y[m + 1], 0), width)
      crossed == AddMul(From(whole, m), Prefix(y, m), x[m + 1])
  IN Splice(whole, m, AddMul(crossed, Prefix(x, m), y[m + 1]))

GuardedSquare(x, width) ==
  LET m == Len(x) - 1
      low == ProductLimbs(Prefix(x, m), Prefix(x, m))
      whole == Extended(low \o LimbProduct(x[m + 1], x[m + 1], 0), width)
  IN Splice(whole, m, AddMul(From(whole, m), Prefix(x, m), 2 * x[m + 1]))

\* What they assert of the guards.
GuardsFit(x, y, bound, guardLimbs) ==
  /\ Len(x) = Len(y)
  /\ x[Len(x)] < bound /\ y[Len(y)] < bound
  /\ guardLimbs = 1 => LimbProduct(x[Len(x)], y[Len(y)], 0)[2] = 0

\* fused_add_shifted_in_place and add_coefficient_in_place.
AddShifted(dst, x, shift) == Splice(dst, shift, AddTo(From(dst, shift), Prefix(x, ActiveLen(x))))

AddShiftedFits(dst, x, shift) ==
  /\ shift + ActiveLen(x) <= Len(dst)
  /\ AddMulCarry(From(dst, shift), x, 1) = 0

-----------------------------------------------------------------------------
(* math/mul/mulders.rs: how a truncated product is cut.  The smaller block   *)
(* shrinks as the tier that multiplies the larger one grows.  A profile's     *)
(* thresholds are a record of the towers'; zero disables a tier.             *)

Larger(i, j) == IF i > j THEN i ELSE j
Smaller(i, j) == IF i < j THEN i ELSE j

ScaledSplit(len, numerator, denominator) ==
  (len \div denominator) * numerator + ((len % denominator) * numerator) \div denominator

\* The tiers from the largest: their share of the width, and the least width of
\* the larger block.  A tier needs the ones below it enabled.
TierSplits(thresholds, len) ==
  LET toom4 == Larger(thresholds.toom, thresholds.toom4)
      toom6 == Larger(toom4, thresholds.toom6)
      toom8 == Larger(toom6, thresholds.toom85)
      Tier(small, least, enabled) == [small |-> small, least |-> least, enabled |-> enabled]
  IN << Tier(len \div 10, toom8, 0 \notin {thresholds.toom4, thresholds.toom6, thresholds.toom85}),
        Tier(len \div 8, toom6, 0 \notin {thresholds.toom4, thresholds.toom6}),
        Tier(ScaledSplit(len, 7, 39), toom4, thresholds.toom4 # 0),
        Tier(ScaledSplit(len, 9, 40), thresholds.toom, TRUE),
        Tier(ScaledSplit(len, 11, 36), thresholds.karatsuba, TRUE) >>

MuldersSmallLen(thresholds, len, fallbackDivisor) ==
  LET admitted == SelectSeq(TierSplits(thresholds, len),
                            LAMBDA t : t.enabled /\ t.small # 0 /\ len - t.small >= t.least)
  IN IF admitted = <<>> THEN len \div fallbackDivisor ELSE Head(admitted).small
=============================================================================

------------------------------ MODULE Division ------------------------------
(***************************************************************************)
(* math/div/basecase and the entries above it (div/entry/dispatch.rs,       *)
(* value.rs): division of one magnitude by another below the recursive      *)
(* tiers.                                                                   *)
(*                                                                         *)
(* The shortcuts come first; then the width of the divisor and the outputs  *)
(* wanted select a kernel, and a step of the kernel is one quotient digit.  *)
(* Operands, windows and remainders are numbers; `work' is the numerator    *)
(* window of the array kernels, with the high limb they keep in a register, *)
(* or the remainder the streamed kernels carry.                             *)
(***************************************************************************)
EXTENDS Integers

CONSTANTS
  LimbBits,
  Jobs,             \* pairs of a numerator and a divisor
  FixedMax,         \* the widest divisor whose remainder is kept in scalars
  SmallQuotientMax, \* DIVISION_SMALL_QUOTIENT_MAX
  Preinverse        \* [BOOLEAN -> Nat]: the digits a prepared inverse pays for, by normalization

-----------------------------------------------------------------------------
(* One quotient digit by multiplication.  reciprocal3by2.rs and single.rs   *)
(* prepare a reciprocal of the leading one or two divisor limbs and estimate *)
(* a digit from it with arithmetic modulo the limb radix; prepared.rs and    *)
(* the streamed kernels subtract the rest of the divisor from the window.    *)
(* Every addition or subtraction the code performs unchecked is a conjunct   *)
(* of `fits'.                                                                *)

Base == 2 ^ LimbBits
Limb == 0 .. Base - 1

\* The limb of x in column i, the lowest being column 0.
LimbOf(x, i) == (x \div Base ^ i) % Base
Low(x, width) == x % Base ^ width

Bit(b) == IF b THEN 1 ELSE 0
Bits == 0 .. LimbBits - 1
LeadingZeros(limb) == CHOOSE s \in Bits : Base \div 2 <= limb * 2 ^ s /\ limb * 2 ^ s < Base

\* Pairs of limbs, the higher first, in the order the code compares them.
AtLeast(high, low, d1, d0) == high > d1 \/ (high = d1 /\ low >= d0)

-----------------------------------------------------------------------------
(* One divisor limb.                                                        *)

\* divrem_1_unchecked(Limb::MAX, !d, d)
Reciprocal2by1(d) == ((Base - 1 - d) * Base + Base - 1) \div d

\* divrem_2by1_reciprocal
DivRem2by1Reciprocal(u1, u0, d, v) ==
  LET product == v * u1
      bound == (product + u0) % Base
      carry == Bit((product % Base) + u0 >= Base)
      estimate == u1 + product \div Base + carry
      first == (estimate + 1) % Base
      residue == (u0 - first * d) % Base
      over == residue > bound
      q == IF over THEN (first - 1) % Base ELSE first
      r == IF over THEN (residue + d) % Base ELSE residue
  IN  IF r >= d
      THEN [digit |-> q + 1, rest |-> r - d, fits |-> estimate < Base /\ q + 1 < Base]
      ELSE [digit |-> q, rest |-> r, fits |-> estimate < Base]

-----------------------------------------------------------------------------
(* Two divisor limbs.                                                       *)

\* invert_pi1: floor((B^3 - 1) / (d1*B + d0)) - B, by corrections of the
\* reciprocal of d1.
AccountHigh(d1, d0, v0, p0) ==
  LET mask == Bit(p0 >= d1)
  IN  IF p0 < d0 THEN <<(v0 - 1 - mask) % Base, (p0 - d1 - mask * d1) % Base>> ELSE <<v0, p0>>
AccountLow(d1, d0, v1, p1) ==
  LET product == d0 * v1
      p2 == (p1 + product \div Base) % Base
  IN  IF p2 < product \div Base THEN v1 - 1 - Bit(AtLeast(p2, product % Base, d1, d0)) ELSE v1
InvertPi1(d1, d0) ==
  LET v0 == Reciprocal2by1(d1)
      high == AccountHigh(d1, d0, v0, (d1 * v0 + d0) % Base)
  IN  AccountLow(d1, d0, high[1], high[2])

\* The second correction of udiv_qr_3by2, upward.
CorrectUp(q, r, d1, d0, sound) ==
  LET up == AtLeast(r \div Base, r % Base, d1, d0)
      rest == IF up THEN r - (d1 * Base + d0) ELSE r
  IN  [digit |-> q + Bit(up), high |-> rest \div Base, low |-> rest % Base,
       fits |-> sound /\ q + Bit(up) < Base]

\* The first, downward: residue is (n1, n0) - (q1 + 1) * (d1, d0) modulo B^2.
CorrectDown(q1, q0, residue, d1, d0) ==
  IF residue \div Base >= q0
  THEN CorrectUp(q1 % Base, (residue + d1 * Base + d0) % (Base * Base), d1, d0, q1 < Base)
  ELSE CorrectUp((q1 + 1) % Base, residue, d1, d0, q1 < Base)

\* udiv_qr_3by2: (n2, n1, n0) by the pair, with (n2, n1) below it.  high and low
\* are the remainder.
UdivQr3by2(n2, n1, n0, d1, d0, dinv) ==
  LET product == n2 * dinv
      carry == Bit((product % Base) + n1 >= Base)
      q1 == product \div Base + n2 + carry
  IN  CorrectDown(q1, (product + n1) % Base,
                  (n1 * Base + n0 - (q1 + 1) * (d1 * Base + d0)) % (Base * Base), d1, d0)

-----------------------------------------------------------------------------
(* Wider divisors.  W is a window of n + 1 limbs below Base * D.            *)

Leading(D, n) == <<LimbOf(D, n - 1), LimbOf(D, n - 2)>>
EqualPairs(W, D, n) == << LimbOf(W, n), LimbOf(W, n - 1) >> = Leading(D, n)

Estimate(W, D, n) ==
  UdivQr3by2(LimbOf(W, n), LimbOf(W, n - 1), LimbOf(W, n - 2),
             Leading(D, n)[1], Leading(D, n)[2], InvertPi1(Leading(D, n)[1], Leading(D, n)[2]))

\* What sub_mul takes out of the limbs above the lowest n - 2: its product
\* carry and its borrow, added unchecked.
Correction(W, D, n, digit) == -((Low(W, n - 2) - digit * Low(D, n - 2)) \div Base ^ (n - 2))
LowRest(W, D, n, digit) == (Low(W, n - 2) - digit * Low(D, n - 2)) % Base ^ (n - 2)

\* The general digit: the estimate's remainder pair less the correction, and
\* one divisor added back when that is negative.
Corrected(e, W, D, n) ==
  LET out == Correction(W, D, n, e.digit)
      pair == e.high * Base + e.low - out
      rest == pair * Base ^ (n - 2) + LowRest(W, D, n, e.digit)
  IN  IF pair < 0
      THEN [digit |-> e.digit - 1, rest |-> (rest + D) % Base ^ n,
            fits |-> e.fits /\ out < Base /\ e.digit > 0]
      ELSE [digit |-> e.digit, rest |-> rest, fits |-> e.fits /\ out < Base]
Reduced(W, D, n) == Corrected(Estimate(W, D, n), W, D, n)

\* PreparedDivisor::divide_digit: equal leading pairs give the largest digit
\* and a remainder by addition, its high limb modulo B.
DivideDigit(W, D, n) ==
  IF EqualPairs(W, D, n)
  THEN LET sum == Leading(D, n)[2] + LimbOf(W, n - 2)
           high == Leading(D, n)[1] + sum \div Base
           out == Correction(W, D, n, Base - 1)
           pair == ((high % Base) * Base + (sum % Base) - out) % (Base * Base)
       IN  [digit |-> Base - 1, rest |-> pair * Base ^ (n - 2) + LowRest(W, D, n, Base - 1),
           fits |-> out < Base]
  ELSE Reduced(W, D, n)

\* divide_step of the streamed kernels: there the remainder comes from the gap
\* between the divisor and the previous remainder.
DivideStep(W, D, n) ==
  IF EqualPairs(W, D, n)
  THEN LET sum == (W % Base) + (D % Base)
           gap == D - W \div Base - sum \div Base
       IN  [digit |-> Base - 1, rest |-> (D \div Base - gap) * Base + (sum % Base), fits |-> gap >= 0]
  ELSE Reduced(W, D, n)

\* The last digit when only the quotient is wanted: the low product matters
\* only if the high remainder limb is zero and divisibility is not known.
LastEstimate(e, W, D, n, knownExact) ==
  LET borrows == e.low * Base ^ (n - 2) + Low(W, n - 2) < e.digit * Low(D, n - 2)
  IN  IF knownExact \/ e.high # 0 \/ ~borrows THEN [digit |-> e.digit, fits |-> e.fits]
      ELSE [digit |-> e.digit - 1, fits |-> e.fits /\ e.digit > 0]
LastQuotientDigit(W, D, n, knownExact) ==
  IF EqualPairs(W, D, n) THEN [digit |-> Base - 1, fits |-> TRUE]
  ELSE LastEstimate(Estimate(W, D, n), W, D, n, knownExact)

-----------------------------------------------------------------------------

DivisionAssumption ==
  /\ LimbBits \in Nat \ {0}
  /\ \A job \in Jobs : job[1] \in Nat /\ job[2] \in Nat \ {0}
  /\ FixedMax \in Nat /\ FixedMax >= 4
  /\ SmallQuotientMax \in Limb
  /\ Preinverse \in [BOOLEAN -> Nat]

VARIABLES
  stage,      \* the kernel in progress
  mode,       \* the outputs requested
  u, v,       \* the numerator and the divisor
  work,       \* the window or the remainder
  left,       \* the quotient digits not yet written
  terms,      \* the shortened windows of the quotient kernel
  quo, rem,   \* the outputs
  certified,  \* the remainder was proved to exceed the quotient and not written
  fits        \* every unchecked addition and subtraction so far fitted

vars == <<stage, mode, u, v, work, left, terms, quo, rem, certified, fits>>

\* QuotientOnly, QuotientOnly<true>, RemainderOnly, QuotientAndRemainder, TruncatedPrefix.
Modes == {"quotient", "exact", "remainder", "both", "prefix"}
WriteQuotient(m) == m # "remainder"
WriteRemainder(m) == m \in {"remainder", "both", "prefix"}

RECURSIVE Width(_)
Width(x) == IF x = 0 THEN 0 ELSE 1 + Width(x \div Base)

\* The widths of the operands, the normalization shift and what it makes of them.
n == Width(v)
length == Width(u)
shift == LeadingZeros(LimbOf(v, n - 1))
Scale == 2 ^ shift
D == v * Scale
d1 == LimbOf(D, n - 1)
d0 == LimbOf(D, n - 2)
floor == n - 2     \* the low divisor limbs below the leading pair

\* The calls the entries make: a known exact quotient, or a prefix with one
\* guard limb.
Callable(m, a, b) ==
  /\ m = "exact" => a % b = 0
  /\ m = "prefix" => Width(b) >= 2 /\ Width(a) = 2 * Width(b) - 2

Init ==
  /\ stage = "called"
  /\ mode \in Modes
  /\ \E job \in Jobs : u = job[1] /\ v = job[2] /\ Callable(mode, job[1], job[2])
  /\ work = 0 /\ left = 0 /\ terms = 0 /\ quo = 0 /\ rem = 0
  /\ certified = FALSE
  /\ fits = TRUE

-----------------------------------------------------------------------------
(* The shortcuts, in the order the entries try them.                        *)

Resolve(q, r) ==
  /\ quo' = IF WriteQuotient(mode) THEN q ELSE 0
  /\ rem' = IF WriteRemainder(mode) THEN r ELSE 0
  /\ stage' = "done"
  /\ UNCHANGED <<mode, u, v, work, left, terms, certified>>

\* less_than_double: each doubled limb takes its carry from its lower neighbour.
Doubled(x, i) == (2 * LimbOf(x, i) + Bit(i > 0 /\ 2 * LimbOf(x, i - 1) >= Base)) % Base
LessThanDouble ==
  \/ 2 * LimbOf(v, n - 1) >= Base
  \/ \E i \in 0 .. n - 1 :
       /\ LimbOf(u, i) < Doubled(v, i)
       /\ \A k \in i + 1 .. n - 1 : LimbOf(u, k) = Doubled(v, k)

\* trivial: the quotient is provably zero or one.
IsTrivial ==
  \/ length < n
  \/ length = n /\ (u <= v \/ (n > 1 /\ u \div Base = v \div Base) \/ LessThanDouble)

Trivial ==
  /\ stage = "called" /\ mode # "prefix"
  /\ IsTrivial
  /\ Resolve(Bit(u >= v), IF u >= v THEN u - v ELSE u)
  /\ UNCHANGED fits

\* power_of_two: D = 2^s * B^k, two of its limbs and their shifts.
OneBit(limb) == \E s \in Bits : limb = 2 ^ s
IsPowerOfTwo == OneBit(LimbOf(v, n - 1)) /\ Low(v, n - 1) = 0

PowerOfTwo ==
  /\ stage = "called" /\ mode # "prefix"
  /\ ~IsTrivial
  /\ IsPowerOfTwo
  /\ Resolve((u \div Base ^ (n - 1)) \div LimbOf(v, n - 1),
             (LimbOf(u, n - 1) % LimbOf(v, n - 1)) * Base ^ (n - 1) + Low(u, n - 1))
  /\ UNCHANGED fits

\* small_quotient_div_rem: the ratio of the leading limbs, corrected downwards
\* at most half the admitted quotient times.
LeadingRatio == LimbOf(u, n - 1) \div LimbOf(v, n - 1)
IsSmallQuotient == mode = "both" /\ length = n /\ n > 1 /\ LeadingRatio <= SmallQuotientMax

SmallQuotient ==
  /\ stage = "called"
  /\ ~IsTrivial /\ ~IsPowerOfTwo
  /\ IsSmallQuotient
  /\ \E k \in 0 .. LeadingRatio :
       /\ u - (LeadingRatio - k) * v >= 0
       /\ k > 0 => u - (LeadingRatio - k + 1) * v < 0
       /\ Resolve(LeadingRatio - k, u - (LeadingRatio - k) * v)
       /\ fits' = (k <= (SmallQuotientMax + 1) \div 2)

\* Which kernels the shortcuts leave; a prefix asks for its kernel directly.
Kernel == stage = "called" /\ (mode # "prefix" => ~IsTrivial /\ ~IsPowerOfTwo /\ ~IsSmallQuotient)

-----------------------------------------------------------------------------
(* Digits.                                                                  *)

Begin(next, residue, digits, written) ==
  /\ stage' = next
  /\ work' = residue
  /\ left' = digits
  /\ quo' = written
  /\ UNCHANGED <<mode, u, v, terms, rem, certified, fits>>

\* One digit, at position left - 1, and what remains.
Write(step, residue) ==
  /\ quo' = quo + step.digit * Base ^ (left - 1)
  /\ work' = residue
  /\ left' = left - 1
  /\ fits' = (fits /\ step.fits)
  /\ UNCHANGED <<mode, u, v, terms, rem, certified>>

Finish ==
  /\ stage \in {"single", "pair", "streamed", "full"}
  /\ left = 0
  /\ Resolve(quo, work \div Scale)
  /\ UNCHANGED fits

-----------------------------------------------------------------------------
(* single.rs: one divisor limb.                                             *)

\* The leading digit is zero or one, for a normalized divisor or a smaller limb.
DivRem1 ==
  /\ Kernel /\ n = 1
  /\ LET top == LimbOf(u, length - 1)
         digit == Bit(top >= v)
     IN  IF shift = 0 \/ top < v
         THEN Begin("single", (top - digit * v) * Scale, length - 1, digit * Base ^ (length - 1))
         ELSE Begin("single", 0, length, 0)

\* The high bits of a shifted limb enter the remainder, whose low bits are zero.
Incoming(j) == (LimbOf(u, j) * Scale) % Base
Entering(j) == (LimbOf(u, j) * Scale) \div Base

\* The code divides in hardware until a reciprocal pays: `digits' were left when
\* it chose.
SingleDigit ==
  /\ stage = "single" /\ left > 0
  /\ LET digits == IF shift = 0 \/ LimbOf(u, length - 1) < v THEN length - 1 ELSE length
         high == work + Entering(left - 1)
         whole == high * Base + Incoming(left - 1)
         step == IF digits < Preinverse[shift = 0]
                 THEN [digit |-> whole \div D, rest |-> whole % D, fits |-> whole \div D < Base]
                 ELSE DivRem2by1Reciprocal(high, Incoming(left - 1), D, Reciprocal2by1(D))
     IN  Write(step, step.rest)
  /\ stage' = "single"

-----------------------------------------------------------------------------
(* reciprocal3by2.rs: two divisor limbs.                                    *)

DivRem2Unnormalized ==
  /\ Kernel /\ n = 2
  /\ LET top == u \div Base ^ (length - 2)
         leadingZero == length > 2 /\ top < v
     IN  Begin("pair", (IF leadingZero THEN top ELSE top \div Base) * Scale,
               length - 1 - Bit(leadingZero), 0)

PairDigit ==
  /\ stage = "pair" /\ left > 0
  /\ LET r == work + Entering(left - 1)
         e == UdivQr3by2(r \div Base, r % Base, Incoming(left - 1), d1, d0, InvertPi1(d1, d0))
     IN  Write(e, e.high * Base + e.low)
  /\ stage' = "pair"

-----------------------------------------------------------------------------
(* three.rs, four.rs, fixed.rs: the remainder in scalars, the numerator     *)
(* normalized as it is read.                                                *)

\* A high guard is a remainder below the divisor; without one the leading limbs
\* are below twice the divisor.
AdmitStream ==
  LET whole == u * Scale
      guarded == LimbOf(whole, length) # 0
      digits == length - n + Bit(guarded)
      leading == whole \div Base ^ digits
      digit == Bit(~guarded /\ leading >= D)
  IN  Begin("streamed", leading - digit * D, digits, digit * Base ^ digits)

DivRem3Unnormalized == Kernel /\ mode # "prefix" /\ n = 3 /\ AdmitStream
DivRem4Unnormalized == Kernel /\ mode # "prefix" /\ n = 4 /\ AdmitStream
DivRemFixedUnnormalized == Kernel /\ mode # "prefix" /\ n \in 5 .. FixedMax /\ AdmitStream

StreamWindow == work * Base + LimbOf(u * Scale, left - 1)

DivideDigits ==
  /\ stage = "streamed" /\ left > 0
  /\ left > 1 \/ WriteRemainder(mode)
  /\ LET step == DivideStep(StreamWindow, D, n) IN Write(step, step.rest)
  /\ stage' = "streamed"

LastStreamDigit ==
  /\ stage = "streamed" /\ left = 1
  /\ ~WriteRemainder(mode)
  /\ Write(LastQuotientDigit(StreamWindow, D, n, mode = "exact"), work)
  /\ stage' = "streamed"

-----------------------------------------------------------------------------
(* knuth.rs, prepared.rs: the numerator in an array with a zero guard.      *)

Arrayed == Kernel /\ n >= 3 /\ (mode = "prefix" \/ n > FixedMax)

\* The highest window of so many digits is below the divisor.
LeadingZero(digits) ==
  LimbOf(u * Scale, n + digits - 1) = 0 /\ LimbOf(u * Scale, n + digits - 2) < d1

\* knuth_d_divide drops one zero digit before it reserves the quotient.
Slots == LET all == length + 1 - n
         IN  all - Bit(mode # "prefix" /\ WriteQuotient(mode) /\ all > 1 /\ LeadingZero(all))

\* PreparedDivisor::divide
Divide ==
  /\ Arrayed /\ mode \in {"remainder", "both"}
  /\ Begin("full", u * Scale, Slots - Bit(LeadingZero(Slots)), 0)

FullDigit ==
  /\ stage = "full" /\ left > 0
  /\ LET j == left - 1
         step == DivideDigit(work \div Base ^ j, D, n)
     IN  Write(step, step.rest * Base ^ j + Low(work, j))
  /\ stage' = "full"

-----------------------------------------------------------------------------
(* prepared/short.rs: quotient digits from ever shorter windows.            *)

\* PreparedDivisor::divide_quotient
DivideQuotient ==
  /\ Arrayed /\ mode \in {"quotient", "exact", "prefix"}
  /\ LET active == Slots - Bit(Slots > 1 /\ LeadingZero(Slots))
     IN  /\ left' = active
         /\ terms' = IF floor < active THEN floor ELSE active
  /\ stage' = "short"
  /\ work' = u * Scale
  /\ UNCHANGED <<mode, u, v, quo, rem, certified, fits>>

\* Above the triangle the windows are complete; inside it each one drops the
\* divisor limbs that no later digit sees.
ShortDrop(j) == IF j >= terms THEN 0 ELSE floor - j
WindowStart(j) == IF j >= terms THEN j ELSE floor

Overflows == left <= terms /\ AtLeast(LimbOf(work, left - 1 + n), LimbOf(work, left - 2 + n), d1, d0)

ShortDigit ==
  /\ stage = "short" /\ left > 1
  /\ ~Overflows
  /\ LET j == left - 1
         start == WindowStart(j)
         drop == ShortDrop(j)
         step == DivideDigit(work \div Base ^ start, D \div Base ^ drop, n - drop)
     IN  Write(step, step.rest * Base ^ start + Low(work, start))
  /\ stage' = "short"

\* The product the digit at j left out.
Omitted(j) == LimbOf(quo, j) * Low(D, floor - j) * Base ^ j
RECURSIVE OmittedFrom(_, _)
OmittedFrom(from, to) == IF from >= to THEN 0 ELSE Omitted(from) + OmittedFrom(from + 1, to)

\* complete_quotient: a window too large for one digit.  The written digits'
\* omitted products are subtracted and the rest is divided in full windows.
CompleteQuotient_AllTerms ==
  /\ stage = "short"
  /\ Overflows
  /\ work' = work - OmittedFrom(left + 1, terms)
  /\ fits' = (fits /\ work' \in 0 .. D * Base ^ left - 1)
  /\ stage' = "full"
  /\ UNCHANGED <<mode, u, v, left, terms, quo, rem, certified>>

CompleteQuotient ==
  /\ stage = "short"
  /\ Overflows
  /\ work' = work - OmittedFrom(left, terms)
  /\ fits' = (fits /\ work' \in 0 .. D * Base ^ left - 1)
  /\ stage' = "full"
  /\ UNCHANGED <<mode, u, v, left, terms, quo, rem, certified>>

\* The last digit has the reciprocal's own two-limb divisor.
LastShortDigit ==
  /\ stage = "short" /\ left = 1
  /\ ~Overflows
  /\ LET e == Estimate(work \div Base ^ floor, D \div Base ^ floor, 2)
     IN  Write(e, (e.high * Base + e.low) * Base ^ floor + Low(work, floor))
  /\ stage' = "estimated"

RemainderHigh == LimbOf(work, n - 1)

\* What the high remainder limb proves without the omitted products.
KnownExact == stage = "estimated" /\ mode = "exact" /\ Resolve(quo, 0) /\ UNCHANGED fits
ProvedExact ==
  stage = "estimated" /\ mode = "quotient" /\ RemainderHigh >= terms /\ Resolve(quo, 0) /\ UNCHANGED fits

Exceeds == RemainderHigh > terms + LimbOf(quo, floor)

Certify ==
  /\ stage = "estimated" /\ mode = "prefix"
  /\ Exceeds
  /\ certified' = TRUE
  /\ stage' = "done"
  /\ UNCHANGED <<mode, u, v, work, left, terms, quo, rem, fits>>

\* The omitted triangle is subtracted; a borrow proves the quotient one too large.
RepairTriangle ==
  /\ stage = "estimated"
  /\ \/ mode = "prefix" /\ ~Exceeds
     \/ mode = "quotient" /\ RemainderHigh < terms
  /\ LET exact == work - OmittedFrom(0, terms)
         under == exact < 0
     IN  /\ Resolve(quo - Bit(under), (exact + Bit(under) * D) \div Scale)
         /\ fits' = (fits /\ (under => quo > 0 /\ exact + D >= 0))

Next ==
  \/ Trivial \/ PowerOfTwo \/ SmallQuotient
  \/ DivRem1 \/ SingleDigit
  \/ DivRem2Unnormalized \/ PairDigit
  \/ DivRem3Unnormalized \/ DivRem4Unnormalized \/ DivRemFixedUnnormalized
  \/ DivideDigits \/ LastStreamDigit
  \/ Divide \/ FullDigit
  \/ DivideQuotient \/ ShortDigit \/ CompleteQuotient \/ LastShortDigit
  \/ KnownExact \/ ProvedExact \/ Certify \/ RepairTriangle
  \/ Finish

Spec == Init /\ [][Next]_vars

-----------------------------------------------------------------------------
TypeOK ==
  /\ stage \in {"called", "single", "pair", "streamed", "full", "short", "estimated", "done"}
  /\ mode \in Modes
  /\ {u, v, work, left, terms, quo, rem} \subseteq Int
  /\ {certified, fits} \subseteq BOOLEAN

\* Whichever kernel and shortcuts the operands take, the outputs asked for are
\* the quotient and the remainder; a prefix that keeps its remainder back has
\* proved that it exceeds the quotient (output.rs:24, short.rs:24-27).
DivisionExact ==
  stage = "done" =>
    /\ WriteQuotient(mode) => quo = u \div v
    /\ (WriteRemainder(mode) /\ ~certified) => rem = u % v
    /\ certified => u - quo * v > quo

\* No unchecked_add, unchecked_sub or asserted carry in a digit, a correction or
\* a repair leaves its range: for each of them the code argues that the
\* estimate is at most one too large.
UncheckedFits == fits
=============================================================================

---------------------------- MODULE UintAddition ----------------------------
(***************************************************************************)
(* int/logic/unsigned/math/add: addition and subtraction over the storage  *)
(* of UintStorage, in place (assign.rs, step.rs), into a caller's integer  *)
(* (fused.rs) and as new values (values.rs).                               *)
(*                                                                         *)
(* What is hard here is room.  Every path sizes its destination before the *)
(* kernels write, most of them without knowing whether a carry will come   *)
(* out; a heap destination of exactly the operands' width is kept when its *)
(* top column proves that no carry can leave it.  A subtraction that       *)
(* underflows leaves the residue of the wider operand's width and says so. *)
(*                                                                         *)
(* Then wrapping.rs: reduction, additive inverse and subtraction modulo    *)
(* 2^bits.  A width need not be a whole number of limbs, may be zero, and  *)
(* may be far beyond the value: only a negative residue makes a value      *)
(* longer.  Each path trims by its own argument instead of a last scan.    *)
(***************************************************************************)
EXTENDS UintStorage

CONSTANTS
  LimbBits,   \* LIMB_BITS
  Widths      \* the widths callers of the wrapping operations ask for, in bits

ASSUME LimbBitsAssumption == LimbBits \in Nat \ {0} /\ Base = Power(2, LimbBits)
ASSUME WidthsAssumption == Widths \subseteq Nat

VARIABLE call     \* the arithmetic call the last step made, or NoCall

allVars == <<vars, call>>

\* The functions of math/add by what they promise.
Sums == {"add", "add_assign", "assign_sum", "increment"}
Differences == {"sub", "sub_assign", "decrement"}
Residues == {"sub_with_underflow", "sub_assign_with_underflow", "assign_difference"}
\* Operations that give a value of their own; the last is a wrapping one.
Owned == {"add", "sub", "sub_with_underflow", "wrapping_sub_with_underflow"}

\* A call's result is in register reg; x and y were its operands.
Calls == [op : Sums \union Differences \union Residues, reg : Regs,
          x : Seq(Limb), y : Seq(Limb), underflow : BOOLEAN]
\* A wrapping call also has its width, and a flag of its own meaning.
WrappingCalls ==
  [op : {"apply_wrapping", "apply_negate_wrapping", "wrapping_sub_with_underflow"},
   reg : Regs, x : Seq(Limb), y : Seq(Limb), bits : Widths, flag : BOOLEAN]
NoCall == [op |-> "none"]

\* max_len: the columns the kernels write.
Width(x, y) == IF Len(x) >= Len(y) THEN Len(x) ELSE Len(y)

\* The columns of x + y, and one more for a carry out of them.
Total(x, y) ==
  LET n == Width(x, y) IN
  IF CarryOut(x, y, n) = 0 THEN SumLimbs(x, y, n) ELSE Append(SumLimbs(x, y, n), 1)

\* x - y modulo the width, high zeros trimmed.
Residue(x, y) == Normalized(DifferenceLimbs(x, y, Width(x, y)))

\* What the subtraction kernels return, and the order callers establish.
Underflows(x, y) == BorrowOut(x, y, Width(x, y)) = 1

-----------------------------------------------------------------------------
(* Where a result is stored.                                               *)

\* needs_growth: a buffer of exactly max_len limbs is kept when the top column
\* cannot carry, whatever comes into it.
NeedsGrowth(cap, x, y) ==
  LET n == Width(x, y) IN
  IF cap = n THEN Column(x, n) >= Complement(Column(y, n)) ELSE cap < n

\* x + y over the heap buffer of v: the carry slot is reserved before any write.
SumOver(v, x, y) ==
  {HeapRepr(Total(x, y), c) :
     c \in IF NeedsGrowth(v.cap, x, y) THEN Allocations(Width(x, y) + 1) ELSE {v.cap}}

\* add: a new value for x + y.  The vector of a sum too wide to be inline has
\* a carry slot whether it is needed or not.
SumOf(x, y) ==
  IF x = <<>> THEN Fresh(y)
  ELSE IF y = <<>> THEN Fresh(x)
  ELSE IF Width(x, y) <= Inline THEN Fresh(Total(x, y))
  ELSE {HeapRepr(Total(x, y), c) : c \in Allocations(Width(x, y) + 1)}

SumInto_OwnsEverySum(v, x, y) ==
  IF x = <<>> THEN Fits(v, y)
  ELSE IF y = <<>> THEN Fits(v, x)
  ELSE SumOf(x, y)

\* x + y where v is: a buffer is reused, an inline v takes a new value.
SumInto(v, x, y) ==
  IF x = <<>> THEN Fits(v, y)
  ELSE IF y = <<>> THEN Fits(v, x)
  ELSE IF v.heap THEN SumOver(v, x, y)
  ELSE SumOf(x, y)

\* x - y where v is: the storage is sized for the residue before it is trimmed.
DifferenceInto(v, x, y) ==
  {[u EXCEPT !.limbs = Residue(x, y)] : u \in Prepared(v, Width(x, y))}

\* sub and sub_with_underflow: with_capacity(max_len), then assign_difference.
DifferenceOf(x, y) ==
  IF y = <<>> THEN Fresh(x)
  ELSE IF Width(x, y) <= Inline THEN {InlineRepr(Residue(x, y))}
  ELSE {HeapRepr(Residue(x, y), c) : c \in Allocations(Width(x, y))}

-----------------------------------------------------------------------------

InitAddition == Init /\ call = NoCall

Returns(op, r, x, y, underflow) ==
  call' = [op |-> op, reg |-> r, x |-> x, y |-> y, underflow |-> underflow]

(* Addition. *)

AddAssign(r, x) ==
  /\ Ready(r)
  /\ \E v \in SumInto(repr[r], repr[r].limbs, x) : Store(r, v, FALSE)
  /\ Returns("add_assign", r, repr[r].limbs, x, FALSE)

AssignSum(r, x, y) ==
  /\ Unborrowed(r)
  /\ \E v \in SumInto(repr[r], x, y) : Store(r, v, FALSE)
  /\ Returns("assign_sum", r, x, y, FALSE)

Add(r, x, y) ==
  /\ Unborrowed(r)
  /\ \E v \in SumOf(x, y) : Store(r, v, FALSE)
  /\ Returns("add", r, x, y, FALSE)

\* The carry walks the limbs of MAX; out of the last it appends a limb.
Increment(r) ==
  /\ Ready(r)
  /\ \E v \in Fits(repr[r], Total(repr[r].limbs, <<1>>)) : Store(r, v, FALSE)
  /\ Returns("increment", r, repr[r].limbs, <<1>>, FALSE)

(* Subtraction. *)

\* The caller has self >= src, so the columns of self are enough.
SubAssign(r, x) ==
  /\ Ready(r)
  /\ ~ Underflows(repr[r].limbs, x)
  /\ LET old == repr[r].limbs IN
     Store(r, [repr[r] EXCEPT !.limbs = Normalized(DifferenceLimbs(old, x, Len(old)))], FALSE)
  /\ Returns("sub_assign", r, repr[r].limbs, x, FALSE)

SubAssignWithUnderflow(r, x) ==
  /\ Ready(r)
  /\ \E v \in IF x = <<>> THEN {repr[r]} ELSE DifferenceInto(repr[r], repr[r].limbs, x) :
       Store(r, v, FALSE)
  /\ Returns("sub_assign_with_underflow", r, repr[r].limbs, x,
             x # <<>> /\ Underflows(repr[r].limbs, x))

AssignDifference(r, x, y) ==
  /\ Unborrowed(r)
  /\ \E v \in IF y = <<>> THEN Fits(repr[r], x) ELSE DifferenceInto(repr[r], x, y) :
       Store(r, v, FALSE)
  /\ Returns("assign_difference", r, x, y, y # <<>> /\ Underflows(x, y))

Sub(r, x, y) ==
  /\ Unborrowed(r)
  /\ ~ Underflows(x, y)
  /\ \E v \in DifferenceOf(x, y) : Store(r, v, FALSE)
  /\ Returns("sub", r, x, y, FALSE)

SubWithUnderflow(r, x, y) ==
  /\ Unborrowed(r)
  /\ \E v \in DifferenceOf(x, y) : Store(r, v, FALSE)
  /\ Returns("sub_with_underflow", r, x, y, y # <<>> /\ Underflows(x, y))

\* A nonzero value absorbs the borrow: at most its top limb becomes zero.
Decrement(r) ==
  /\ Ready(r) /\ repr[r].limbs # <<>>
  /\ LET difference == DifferenceLimbs(repr[r].limbs, <<1>>, Len(repr[r].limbs)) IN
     Store(r, [repr[r] EXCEPT !.limbs =
                 IF Last(difference) = 0 THEN Front(difference) ELSE difference], FALSE)
  /\ Returns("decrement", r, repr[r].limbs, <<1>>, FALSE)

-----------------------------------------------------------------------------

AdditionStep(r) ==
  \/ \E x \in Operands : AddAssign(r, x) \/ SubAssign(r, x) \/ SubAssignWithUnderflow(r, x)
  \/ \E x, y \in Operands :
       \/ AssignSum(r, x, y)
       \/ AssignDifference(r, x, y)
       \/ Add(r, x, y)
       \/ Sub(r, x, y)
       \/ SubWithUnderflow(r, x, y)
  \/ Increment(r) \/ Decrement(r)

-----------------------------------------------------------------------------
(* Modulo 2^bits: reduction. *)

\* full, rem and keep (output_limbs): whole limbs, bits of the partial limb on
\* top of them, and limbs in all.
FullLimbs(bits) == bits \div LimbBits
PartialBits(bits) == bits % LimbBits
LimbsFor(bits) == (bits + LimbBits - 1) \div LimbBits

\* limb & mask: what a width leaves of its top limb.
Masked(limb, bits) ==
  IF PartialBits(bits) = 0 THEN limb ELSE limb % Power(2, PartialBits(bits))

\* The limbs a width keeps of a longer value.
Truncated(x, bits) ==
  [i \in 1 .. LimbsFor(bits) |-> IF i = LimbsFor(bits) THEN Masked(x[i], bits) ELSE x[i]]

Wrapped(x, bits) ==
  IF FullLimbs(bits) >= Len(x) THEN x ELSE Normalized(Truncated(x, bits))

\* Every discarded limb is evidence, the highest being nonzero; a partial limb
\* is compared with what its mask left.
Discards(x, bits) ==
  /\ FullLimbs(bits) < Len(x)
  /\ \/ PartialBits(bits) = 0
     \/ LimbsFor(bits) < Len(x)
     \/ Masked(x[LimbsFor(bits)], bits) # x[LimbsFor(bits)]

-----------------------------------------------------------------------------
(* Additive inverse.                                                       *)

\* The retained columns that are not zero; the lowest is negated.
Nonzero(x, bits) == {i \in 1 .. Len(x) : i <= LimbsFor(bits) /\ x[i] # 0}

Negated(x, first, i) ==
  IF i < first THEN 0
  ELSE IF i = first THEN WrappingNeg(x[i])
  ELSE Complement(Column(x, i))

\* final_len: a growing result ends in ones.  Otherwise a top limb that masks to
\* zero takes with it the limbs of MAX below, whose complement is zero, and
\* nothing is left when it is the limb to negate.
NegatedLen(x, first, bits) ==
  LET keep == LimbsFor(bits) IN
  IF keep > Len(x) \/ Masked(Negated(x, first, keep), bits) # 0 THEN keep
  ELSE IF keep = first THEN 0
  ELSE Max({n \in first .. keep - 1 : n = first \/ x[n] # LimbMax})

NegatedLimbs(x, bits) ==
  IF Nonzero(x, bits) = {} THEN <<>>
  ELSE LET first == Min(Nonzero(x, bits))
       IN  [i \in 1 .. NegatedLen(x, first, bits) |->
              IF i = LimbsFor(bits) THEN Masked(Negated(x, first, i), bits)
              ELSE Negated(x, first, i)]

-----------------------------------------------------------------------------
(* Subtraction.                                                            *)

Fitting(x, bits) == ~ Discards(x, bits)

SignExtended_KeepsTrim(x, y, bits) ==
  LET residue == Residue(x, y) IN
  [i \in 1 .. LimbsFor(bits) |->
     IF i <= Len(residue) THEN residue[i]
     ELSE IF i = LimbsFor(bits) THEN Masked(LimbMax, bits) ELSE LimbMax]

\* The zeros the residue lost to trimming come back before the ones above it.
SignExtended(x, y, bits) ==
  LET residue == Residue(x, y) IN
  [i \in 1 .. LimbsFor(bits) |->
     IF i <= Width(x, y) THEN Column(residue, i)
     ELSE IF i = LimbsFor(bits) THEN Masked(LimbMax, bits) ELSE LimbMax]

WrappedDifference_NoRoomToExtend(x, y, bits) ==
  IF y = <<>> THEN Fresh(x)
  ELSE IF ~ Underflows(x, y) THEN DifferenceOf(x, y)
  ELSE IF LimbsFor(bits) = Width(x, y)
  THEN {[v EXCEPT !.limbs = Wrapped(@, bits)] : v \in DifferenceOf(x, y)}
  ELSE {[v EXCEPT !.limbs = SignExtended(x, y, bits)] : v \in DifferenceOf(x, y)}

\* The storage of a wrapped difference: sized for the residue, then for the width.
WrappedDifference(x, y, bits) ==
  IF y = <<>> THEN Fresh(x)
  ELSE IF ~ Underflows(x, y) THEN DifferenceOf(x, y)
  ELSE IF LimbsFor(bits) = Width(x, y)
  THEN {[v EXCEPT !.limbs = Wrapped(@, bits)] : v \in DifferenceOf(x, y)}
  ELSE UNION {Fits(v, SignExtended(x, y, bits)) : v \in DifferenceOf(x, y)}

-----------------------------------------------------------------------------

Reports(op, r, x, y, bits, flag) ==
  call' = [op |-> op, reg |-> r, x |-> x, y |-> y, bits |-> bits, flag |-> flag]

ApplyWrapping(r, bits) ==
  /\ Ready(r)
  /\ Store(r, [repr[r] EXCEPT !.limbs = Wrapped(@, bits)], FALSE)
  /\ Reports("apply_wrapping", r, repr[r].limbs, <<>>, bits, Discards(repr[r].limbs, bits))

ApplyNegateWrapping(r, bits) ==
  /\ Ready(r)
  /\ \E v \in Fits(repr[r], NegatedLimbs(repr[r].limbs, bits)) : Store(r, v, FALSE)
  /\ Reports("apply_negate_wrapping", r, repr[r].limbs, <<>>, bits, FALSE)

WrappingSubWithUnderflow(r, x, y, bits) ==
  /\ Unborrowed(r)
  /\ bits > 0 /\ Fitting(x, bits) /\ Fitting(y, bits)
  /\ \E v \in WrappedDifference(x, y, bits) : Store(r, v, FALSE)
  /\ Reports("wrapping_sub_with_underflow", r, x, y, bits, y # <<>> /\ Underflows(x, y))

WrappingStep(r) ==
  \E bits \in Widths :
    \/ ApplyWrapping(r, bits)
    \/ ApplyNegateWrapping(r, bits)
    \/ \E x, y \in Operands : WrappingSubWithUnderflow(r, x, y, bits)

-----------------------------------------------------------------------------
(* Arithmetic between any storage operations. *)

NextArithmetic ==
  \/ Next /\ call' = NoCall
  \/ \E r \in Regs : AdditionStep(r) \/ WrappingStep(r)

SpecArithmetic == InitAddition /\ [][NextArithmetic]_allVars

-----------------------------------------------------------------------------
(* Properties. *)

TypeOKAddition == TypeOK /\ call \in Calls \union WrappingCalls \union {NoCall}

\* The number in the register the call wrote.
Result == Value(repr[call.reg].limbs)

\* Every addition yields the sum of its operands, whatever storage it found:
\* no carry is lost at the end of a buffer, and no stale limb comes in.
AdditionExact ==
  [][call'.op \in Sums => Result' = Value(call'.x) + Value(call'.y)]_allVars

\* Every subtraction yields the difference modulo the width of the wider
\* operand, and reports underflow exactly when its result is only that residue;
\* one whose caller established the order yields the difference itself.
SubtractionExact ==
  [][LET difference == Value(call'.x) - Value(call'.y) IN
     /\ call'.op \in Differences => Result' = difference
     /\ call'.op \in Residues =>
          /\ Result' = difference % Power(Base, Width(call'.x, call'.y))
          /\ call'.underflow = (difference < 0)]_allVars

\* Both, whatever was stored, moved or borrowed between two calls.
SumsExact == AdditionExact /\ SubtractionExact

\* An assignment works in the heap buffer it finds.
AssignmentKeepsBuffer ==
  [][call' # NoCall /\ call'.op \notin Owned =>
       LET r == call'.reg IN
       repr[r].heap => repr'[r].heap /\ repr'[r].cap >= repr[r].cap]_allVars

\* Each operation yields its result modulo 2^bits, for partial limbs, widths
\* inside the value and widths beyond it, and its flag says whether the result
\* left the range: bits were discarded, or the difference is negative.
WrappingExact ==
  [][LET modulus == Power(2, call'.bits)
         x == Value(call'.x)
         y == Value(call'.y)
     IN  /\ call'.op = "apply_wrapping" =>
              Result' = x % modulus /\ call'.flag = (x >= modulus)
         /\ call'.op = "apply_negate_wrapping" => Result' = (0 - x) % modulus
         /\ call'.op = "wrapping_sub_with_underflow" =>
              Result' = (x - y) % modulus /\ call'.flag = (x < y)]_allVars

\* Reducing and negating keep the allocation; only a negative residue grows it.
WrappingKeepsBuffer ==
  [][call'.op \in {"apply_wrapping", "apply_negate_wrapping"} =>
       LET old == repr[call'.reg]
           new == repr'[call'.reg]
       IN  /\ old.heap => new.heap /\ new.cap >= old.cap
           /\ Len(new.limbs) <= Len(old.limbs) => new.cap = old.cap]_allVars

\* A reduction is exact and pays for no storage it does not need.
WrappingSound == WrappingExact /\ WrappingKeepsBuffer
=============================================================================

---------------------------- MODULE LimbKernels ----------------------------
(***************************************************************************)
(* The loops of int/logic/unsigned/math/add/limbs.rs, and the portable     *)
(* arch kernels they call, one column at a time.                           *)
(*                                                                         *)
(* A sum or a difference is a kernel over the columns both operands have,  *)
(* then a kernel over the tail of the longer one.  Which tail kernel runs  *)
(* depends on the operation, on whether the output is the left operand     *)
(* itself, and on which operand is longer.  The tail kernels stop early:   *)
(* once the carry is absorbed they copy the rest, or leave it alone, and   *)
(* a negation whose borrow is set complements the rest.                    *)
(***************************************************************************)
EXTENDS Limbs

CONSTANTS
  Inputs,     \* the limb sequences operands are taken from
  Junk        \* an output slot nobody wrote

ASSUME InputsAssumption == Inputs \subseteq Seq(Limb)
ASSUME JunkAssumption == Junk \notin Limb

VARIABLES
  op,         \* "add" or "sub"
  inPlace,    \* the output is the left operand's storage
  x, y,       \* the operands
  dst,        \* the output span, as long as the longer operand
  i,          \* the columns written so far
  carry,      \* the binary carry or borrow out of them
  pc          \* "prefix", "tail" or "done"

vars == <<op, inPlace, x, y, dst, i, carry, pc>>
inputs == <<op, inPlace, x, y>>

ShortLen == IF Len(x) <= Len(y) THEN Len(x) ELSE Len(y)
MaxLen == IF Len(x) <= Len(y) THEN Len(y) ELSE Len(x)

\* The longer operand: y when they have one length, and the tail is empty.
Long == IF Len(x) > Len(y) THEN x ELSE y

\* The left operand as the kernels read it: from the output when in place.
Left(j) == IF inPlace THEN dst[j] ELSE x[j]

Init ==
  /\ op \in {"add", "sub"} /\ inPlace \in BOOLEAN
  /\ x \in Inputs /\ y \in Inputs
  /\ dst = [j \in 1 .. MaxLen |-> IF inPlace /\ j <= Len(x) THEN x[j] ELSE Junk]
  /\ i = 0 /\ carry = 0
  /\ pc = "prefix"

\* One column written, and the flag out of it.
Write(limb, flag) ==
  /\ dst' = [dst EXCEPT ![i + 1] = limb]
  /\ i' = i + 1
  /\ carry' = flag
  /\ UNCHANGED inputs

Finish == pc' = "done" /\ UNCHANGED <<inputs, dst, i, carry>>

\* copy_nonoverlapping of what is left of the tail, and return.
CopyRest(written, flag) ==
  /\ dst' = [j \in 1 .. MaxLen |->
               IF j <= i THEN dst[j] ELSE IF j = i + 1 THEN written ELSE Long[j]]
  /\ i' = MaxLen
  /\ carry' = flag
  /\ pc' = "done"
  /\ UNCHANGED inputs

-----------------------------------------------------------------------------
(* The common columns.                                                     *)

\* add_limbs_unchecked, add_limbs_3_unchecked: carrying_add.
AddColumn ==
  /\ pc = "prefix" /\ op = "add" /\ i < ShortLen
  /\ LET sum == Left(i + 1) + y[i + 1] + carry IN
     Write(sum % Base, IF sum >= Base THEN 1 ELSE 0)
  /\ UNCHANGED pc

\* sub_limbs_unchecked, sub_limbs_3_unchecked: borrowing_sub.
SubColumn ==
  /\ pc = "prefix" /\ op = "sub" /\ i < ShortLen
  /\ LET difference == Left(i + 1) - y[i + 1] - carry IN
     Write(difference % Base, IF difference < 0 THEN 1 ELSE 0)
  /\ UNCHANGED pc

EndPrefix ==
  /\ pc = "prefix" /\ i = ShortLen
  /\ pc' = "tail"
  /\ UNCHANGED <<inputs, dst, i, carry>>

-----------------------------------------------------------------------------
(* The tail.                                                               *)

\* Into fresh slots, unless the tail is already where the result goes.
Copies == ~ inPlace \/ Len(y) > Len(x)

EndTail == pc = "tail" /\ i = MaxLen /\ Finish

CopyTailWithCarry_DropsSuffix ==
  /\ pc = "tail" /\ op = "add" /\ Copies /\ i < MaxLen
  /\ LET limb == Long[i + 1] IN
     \/ carry = 0 /\ CopyRest(limb, 0)
     \/ /\ carry = 1 /\ limb # LimbMax
        /\ Write(limb + 1, 0) /\ pc' = "done"
     \/ carry = 1 /\ limb = LimbMax /\ Write(0, 1) /\ UNCHANGED pc

\* copy_tail_with_carry: a limb below MAX absorbs the carry.
CopyTailWithCarry ==
  /\ pc = "tail" /\ op = "add" /\ Copies /\ i < MaxLen
  /\ LET limb == Long[i + 1] IN
     \/ carry = 0 /\ CopyRest(limb, 0)
     \/ carry = 1 /\ limb # LimbMax /\ CopyRest(limb + 1, 0)
     \/ carry = 1 /\ limb = LimbMax /\ Write(0, 1) /\ UNCHANGED pc

\* propagate_carry: in place, the first sum that does not wrap ends the loop.
PropagateCarry ==
  /\ pc = "tail" /\ op = "add" /\ ~ Copies /\ i < MaxLen
  /\ \/ carry = 0 /\ Finish
     \/ /\ carry = 1
        /\ LET sum == dst[i + 1] + 1 IN
           /\ Write(sum % Base, IF sum >= Base THEN 1 ELSE 0)
           /\ pc' = IF sum >= Base THEN "tail" ELSE "done"

\* copy_tail_with_borrow: a positive limb absorbs the borrow.
CopyTailWithBorrow ==
  /\ pc = "tail" /\ op = "sub" /\ ~ inPlace /\ Len(x) > Len(y) /\ i < MaxLen
  /\ LET limb == x[i + 1] IN
     \/ carry = 0 /\ CopyRest(limb, 0)
     \/ carry = 1 /\ limb # 0 /\ CopyRest(limb - 1, 0)
     \/ carry = 1 /\ limb = 0 /\ Write(LimbMax, 1) /\ UNCHANGED pc

\* propagate_borrow: in place, the first limb that does not wrap ends the loop.
PropagateBorrow ==
  /\ pc = "tail" /\ op = "sub" /\ inPlace /\ Len(x) > Len(y) /\ i < MaxLen
  /\ \/ carry = 0 /\ Finish
     \/ /\ carry = 1
        /\ LET difference == dst[i + 1] - 1 IN
           /\ Write(difference % Base, IF difference < 0 THEN 1 ELSE 0)
           /\ pc' = IF difference < 0 THEN "tail" ELSE "done"

\* negate_with_borrow: the first nonzero limb is negated and sets the borrow,
\* the ones above it are complemented and keep it.
NegateWithBorrow ==
  /\ pc = "tail" /\ op = "sub" /\ Len(y) > Len(x) /\ i < MaxLen
  /\ LET limb == y[i + 1] IN
     \/ carry = 0 /\ Write(WrappingNeg(limb), IF limb # 0 THEN 1 ELSE 0)
     \/ carry = 1 /\ Write(Complement(limb), 1)
  /\ UNCHANGED pc

-----------------------------------------------------------------------------

Next ==
  \/ AddColumn \/ SubColumn \/ EndPrefix
  \/ CopyTailWithCarry \/ PropagateCarry
  \/ CopyTailWithBorrow \/ PropagateBorrow \/ NegateWithBorrow
  \/ EndTail

\* The loops are straight-line code: they run until they return.
Spec == Init /\ [][Next]_vars

-----------------------------------------------------------------------------
(* Properties. *)

TypeOK ==
  /\ op \in {"add", "sub"} /\ inPlace \in BOOLEAN
  /\ x \in Seq(Limb) /\ y \in Seq(Limb)
  /\ dst \in [1 .. MaxLen -> Limb \union {Junk}]
  /\ i \in 0 .. MaxLen
  /\ carry \in {0, 1}
  /\ pc \in {"prefix", "tail", "done"}

\* When the kernels return, every column is the carry-lookahead column of the
\* two operands and the flag is the carry or borrow out of the highest: no slot
\* is left unwritten, no early exit loses a column, and writing over the left
\* operand spoils no column still to be read.
KernelsYieldColumns ==
  pc = "done" =>
    /\ op = "add" => dst = SumLimbs(x, y, MaxLen) /\ carry = CarryOut(x, y, MaxLen)
    /\ op = "sub" => dst = DifferenceLimbs(x, y, MaxLen) /\ carry = BorrowOut(x, y, MaxLen)
=============================================================================

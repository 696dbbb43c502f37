------------------------------- MODULE Limbs -------------------------------
(***************************************************************************)
(* Little-endian limb sequences: int/logic/unsigned/storage.rs             *)
(* (normalized_len) and int/logic/unsigned/math/add/limbs.rs.              *)
(*                                                                         *)
(* The kernels walk the columns from the lowest, carrying one bit.  Here a *)
(* column is given directly: the carry into it is one exactly when a lower *)
(* column generates a carry and every column between propagates it.        *)
(***************************************************************************)
EXTENDS Integers, SequencesExt

CONSTANT Base       \* one more than Limb::MAX

ASSUME BaseAssumption == Base \in Nat /\ Base >= 2

\* A recursive function, which proofs can unfold where the exponentiation of
\* Integers is opaque to the provers.
Power(b, n) ==
  LET power[k \in Nat] == IF k = 0 THEN 1 ELSE b * power[k - 1]
  IN  power[n]

Limb == 0 .. Base - 1
LimbMax == Base - 1

\* !limb
Complement(limb) == LimbMax - limb

\* limb.wrapping_neg()
WrappingNeg(limb) == (Base - limb) % Base

\* The limb of x in column i, zero above the highest.
Column(x, i) == IF i <= Len(x) THEN x[i] ELSE 0

\* The number in the lowest n columns of x, and the one all its limbs stand for.
Lowest(x, n) ==
  LET lowest[k \in Nat] ==
        IF k = 0 THEN 0 ELSE lowest[k - 1] + Column(x, k) * Power(Base, k - 1)
  IN  lowest[n]

Value(x) == Lowest(x, Len(x))

\* No high zero limb: what every magnitude query relies on.
Canonical(x) == x # <<>> => x[Len(x)] # 0

\* normalized_len: the highest nonzero limb ends the kept prefix.
NormalizedLen(x) ==
  CHOOSE n \in 0 .. Len(x) :
    /\ n > 0 => x[n] # 0
    /\ \A i \in n + 1 .. Len(x) : x[i] = 0

Normalized(x) == SubSeq(x, 1, NormalizedLen(x))

-----------------------------------------------------------------------------
(* Addition.  The carry into column i of x + y.                            *)

Generates(x, y, i) == Column(x, i) + Column(y, i) >= Base
Propagates(x, y, i) == Column(x, i) + Column(y, i) >= Base - 1

CarryInto_OneColumn(x, y, i) == IF i > 1 /\ Generates(x, y, i - 1) THEN 1 ELSE 0

CarryInto(x, y, i) ==
  IF \E j \in 1 .. i - 1 :
       Generates(x, y, j) /\ \A k \in j + 1 .. i - 1 : Propagates(x, y, k)
  THEN 1 ELSE 0

SumLimb(x, y, i) == (Column(x, i) + Column(y, i) + CarryInto(x, y, i)) % Base

\* The lowest n columns of x + y, as add_limbs, copy_tail_with_carry and
\* propagate_carry leave them.
SumLimbs(x, y, n) == [i \in 1 .. n |-> SumLimb(x, y, i)]

\* ... and the carry the kernels return.
CarryOut(x, y, n) == CarryInto(x, y, n + 1)

-----------------------------------------------------------------------------
(* Subtraction.  The borrow into column i of x - y.                        *)

BorrowInto(x, y, i) ==
  IF \E j \in 1 .. i - 1 :
       /\ Column(x, j) < Column(y, j)
       /\ \A k \in j + 1 .. i - 1 : Column(x, k) <= Column(y, k)
  THEN 1 ELSE 0

DifferenceLimb(x, y, i) == (Column(x, i) - Column(y, i) - BorrowInto(x, y, i)) % Base

\* The lowest n columns of x - y modulo Base^n, as sub_limbs followed by
\* propagate_borrow, copy_tail_with_borrow or negate_with_borrow leave them.
DifferenceLimbs(x, y, n) == [i \in 1 .. n |-> DifferenceLimb(x, y, i)]

BorrowOut(x, y, n) == BorrowInto(x, y, n + 1)
=============================================================================

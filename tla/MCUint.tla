------------------------------- MODULE MCUint -------------------------------
(***************************************************************************)
(* Magnitudes: the storage operations alone, on two registers of binary   *)
(* limbs, and with every addition, subtraction and wrapping operation      *)
(* between them, on one register of two-bit limbs.                         *)
(***************************************************************************)
EXTENDS UintAddition, TLC

CONSTANTS r1, r2, OperandLimbs, WidestBits

OneRegister == {r1}
TwoRegisters == {r1, r2}
Symmetry == Permutations(TwoRegisters)

\* Zero, a full inline value, and one that only fits the heap.
StorageOperands == {<<>>, <<1>>, <<0, 1>>}

\* Every canonical value of up to OperandLimbs limbs.
ArithmeticOperands == {x \in BoundedSeq(Limb, OperandLimbs) : Canonical(x)}
ArithmeticWidths == 0 .. WidestBits

SpecStorage == InitAddition /\ [][Next /\ UNCHANGED call]_allVars

\* The last call is read by properties of the step that makes it, never by a step.
MCView == vars
=============================================================================

---------------------------- MODULE RadixInverse ----------------------------
(***************************************************************************)
(* math/modular/inverse.rs: the inverse of an odd modulus modulo the radix  *)
(* Base^n, refined from one limb.  A step takes `known' exact limbs to at    *)
(* most twice as many; the error of the known limbs comes from a cyclic      *)
(* product, or from a high product that may be short of the exact one and    *)
(* is repaired from its two guard limbs.                                     *)
(***************************************************************************)
EXTENDS Limbs

CONSTANTS
  Moduli,       \* pairs of an odd number and its limbs n >= 2
  Shortfall     \* what the high product may be short of, above its guards

ShortfallAssumption == Shortfall \subseteq 0 .. Base * Base - 1

VARIABLES
  modulus, n,
  inverse,      \* the number the known limbs hold
  known,        \* how many
  shift         \* the precision step due, and below zero at the end

vars == <<modulus, n, inverse, known, shift>>

\* Precision follows the ceilings of n over powers of two.
Log2(x) == CHOOSE k \in 0 .. x : 2 ^ k <= x /\ x < 2 ^ (k + 1)
Precision(s) == (n - 1) \div 2 ^ s + 1

Init ==
  /\ \E job \in Moduli : modulus = job[1] /\ n = job[2]
  /\ inverse = CHOOSE x \in Limb : (x * modulus) % Base = 1
  /\ known = 1
  /\ shift = Log2(n - 1)

Refined(error, next) ==
  LET suffix == Base ^ (next - known)
      coefficients == (inverse * error) % suffix
  IN inverse + ((suffix - coefficients) % suffix) * Base ^ known

\* The product of the head and the inverse modulo Base^w - 1, zero as zero.
\* Only its low limb, one, met the part that wrapped: take it out, and if the
\* whole product was the zero, every limb above is the greatest.
WrappedError_ZeroIsZero(next, w) ==
  LET cyclic == ((modulus % Base ^ next) * inverse) % (Base ^ w - 1)
  IN (cyclic \div Base ^ known) % Base ^ (next - known)

WrappedError(next, w) ==
  LET cyclic == ((modulus % Base ^ next) * inverse) % (Base ^ w - 1)
      suffix == Base ^ (next - known)
  IN IF cyclic % Base ^ known = 0 THEN suffix - 1 ELSE (cyclic \div Base ^ known) % suffix

\* The high product of the known limbs, and the low product of the new ones.
\* From three known limbs it is an approximation with two limbs below: they are
\* zero exactly when nothing is missing.
RefinementError(next, short) ==
  LET suffix == Base ^ (next - known)
      product == (modulus % Base ^ known) * inverse
      approximate == product \div Base ^ (known - 2) - short
      guard == approximate % (Base * Base)
      high == IF known >= 3
              THEN approximate \div (Base * Base) + (IF guard # 0 THEN 1 ELSE 0)
              ELSE product \div Base ^ known
      cross == ((modulus % Base ^ next) \div Base ^ known) * inverse
  IN (high + cross) % suffix

Grow(error) ==
  LET next == Precision(shift)
  IN /\ inverse' = Refined(error, next)
     /\ known' = next
     /\ shift' = shift - 1
     /\ UNCHANGED <<modulus, n>>

\* try_mul_mod_bnm1 answers with a width of at least the head's.
Wrapped ==
  /\ shift >= 0
  /\ \E w \in Precision(shift) .. Precision(shift) + known - 1 : Grow(WrappedError(Precision(shift), w))

Direct ==
  /\ shift >= 0
  /\ \E short \in IF known >= 3 THEN Shortfall ELSE {0} :
       /\ known >= 3 => short <= ((modulus % Base ^ known) * inverse) \div Base ^ (known - 2)
       /\ Grow(RefinementError(Precision(shift), short))

Next == Wrapped \/ Direct
Spec == Init /\ [][Next]_vars

-----------------------------------------------------------------------------
(* Property.                                                                *)

\* At every precision the limbs are the one inverse of that many limbs, whichever
\* product gave each error; a step adds no more limbs than it knows, and the last
\* reaches n.
InverseExact ==
  /\ inverse \in 0 .. Base ^ known - 1
  /\ ((modulus % Base ^ known) * inverse) % Base ^ known = 1
  /\ shift >= 0 => Precision(shift) \in known + 1 .. 2 * known
  /\ shift < 0 => known = n
=============================================================================

------------------------- MODULE ModularOperations -------------------------
(***************************************************************************)
(* math/modular/operations.rs and barrett.rs: sums, differences, products    *)
(* and powers modulo any nonzero modulus, and reduction by a precomputed     *)
(* reciprocal.  Magnitudes are numbers; division and the power engines give  *)
(* the exact residue, and are entered here as the code enters them.          *)
(***************************************************************************)
EXTENDS Integers

CONSTANTS
  Base,
  MaxLimbs,                    \* a bound: no operand is wider
  MontgomeryPowModThreshold,   \* MONTGOMERY_POW_MOD_THRESHOLD
  Calls                        \* records of an operation, two operands and the modulus

ModularAssumption ==
  /\ Base \in Nat \ {0, 1}
  /\ \A c \in Calls : c.x \in Nat /\ c.y \in Nat /\ c.m \in Nat \ {0}

VARIABLES
  call,
  out,          \* the output being built
  quotient,     \* Barrett's estimate
  corrections,  \* multiples of the modulus it was corrected by
  engine,       \* what the operation was handed to
  pc

vars == <<call, out, quotient, corrections, engine, pc>>

Limbs(x) == CHOOSE w \in 0 .. MaxLimbs : x < Base ^ w /\ (w > 0 => x >= Base ^ (w - 1))
k == Limbs(call.m)
Odd(x) == x % 2 = 1
Power(x, e) == IF e = 0 THEN 1 ELSE x ^ e

Init ==
  /\ call \in Calls
  /\ out = 0
  /\ quotient = 0
  /\ corrections = 0
  /\ engine = "none"
  /\ pc = "start"

Step(next, value, how) ==
  /\ pc' = next
  /\ out' = value
  /\ engine' = how
  /\ UNCHANGED <<call, quotient, corrections>>

-----------------------------------------------------------------------------
(* add_mod_into and sub_mod_into: one subtraction of the modulus serves      *)
(* reduced operands, a division the others.                                  *)

AddMod ==
  /\ pc = "start" /\ call.op = "add"
  /\ Step("sum", call.x + call.y, "none")

SubMod ==
  /\ pc = "start" /\ call.op = "sub"
  /\ Step("sum", IF call.x < call.y THEN call.y - call.x ELSE call.x - call.y, "none")

Negative == call.op = "sub" /\ call.x < call.y

\* negate_reduced_modulo: only a residue that is not zero has a complement.
Complemented(x) == IF Negative /\ x # 0 THEN call.m - x ELSE x

ReducedSum ==
  /\ pc = "sum"
  /\ LET once == IF out >= call.m THEN out - call.m ELSE out
     IN IF once >= call.m
        THEN Step("done", Complemented(once % call.m), "division")
        ELSE Step("done", Complemented(once), "none")

-----------------------------------------------------------------------------
(* mul_mod, montgomery_mul and pow_mod.                                      *)

MulMod ==
  /\ pc = "start" /\ call.op = "mul"
  /\ IF call.m = 1 THEN Step("done", 0, "none") ELSE Step("done", (call.x * call.y) % call.m, "division")

\* Base^k is a unit modulo an odd number.
Unradixed(x) == CHOOSE r \in 0 .. call.m - 1 : (r * Base ^ k - x) % call.m = 0

\* Operands are reduced first: what the product divides by the radix is below
\* the modulus times the radix.
MontgomeryMul ==
  /\ pc = "start" /\ call.op = "montgomery"
  /\ LET a == IF call.x < call.m THEN call.x ELSE call.x % call.m
         b == IF call.y < call.m THEN call.y ELSE call.y % call.m
     IN IF call.x = 0 \/ call.y = 0 \/ call.m = 1
        THEN Step("done", 0, "none")
        ELSE Step("done", Unradixed(a * b), "montgomery")

\* Which engine computes a power; each has its own prerequisites.
PowerEngine ==
  IF Odd(call.m) /\ k < MontgomeryPowModThreshold
  THEN IF k = 1 THEN "limb" ELSE IF k <= 4 THEN "inline" ELSE "montgomery"
  ELSE "barrett"

PowMod ==
  /\ pc = "start" /\ call.op = "pow"
  /\ IF call.m = 1 THEN Step("done", 0, "none")
     ELSE IF call.y = 0 THEN Step("done", 1, "none")
     ELSE IF call.y = 1 THEN Step("done", call.x % call.m, "division")
     ELSE IF call.x \in {0, 1} THEN Step("done", call.x, "none")
     ELSE Step("done", Power(call.x, call.y) % call.m, PowerEngine)

-----------------------------------------------------------------------------
(* barrett_reduce, and the reduction it prepares a reciprocal for.           *)

\* The quotient fits one limb: a division is cheaper than a reciprocal.
SingleLimbQuotient ==
  \/ Limbs(call.x) <= k
  \/ Limbs(call.x) = k + 1 /\ call.x \div Base < call.m

BarrettReduce ==
  /\ pc = "start" /\ call.op = "barrett"
  /\ IF call.m = 1 THEN Step("done", 0, "none")
     ELSE IF SingleLimbQuotient \/ Limbs(call.x) > 2 * k
     THEN Step("done", call.x % call.m, "division")
     ELSE Step("reduce", 0, "barrett")

\* Inside the domain: powers and divisions reduce by it without that test.
DomainReduce ==
  /\ pc = "start" /\ call.op \in {"reduce", "divide"}
  /\ IF call.op = "reduce" /\ call.x < call.m THEN Step("done", call.x, "none")
     ELSE IF Limbs(call.x) > 2 * k THEN Step("done", call.x % call.m, "division")
     ELSE Step("reduce", 0, "barrett")

mu == Base ^ (2 * k) \div call.m

\* floor(floor(t / B^(k-1)) * mu / B^(k+1)): the carry of the diagonals the
\* high product leaves out is retained.
QuotientEstimate_HeadTooShort(t) == ((t \div Base ^ k) * mu) \div Base ^ k

QuotientEstimate(t) == ((t \div Base ^ (k - 1)) * mu) \div Base ^ (k + 1)

\* The remainder modulo B^(k+1).
ApproximateRemainder ==
  /\ pc = "reduce"
  /\ quotient' = QuotientEstimate(call.x)
  /\ out' = (call.x - quotient' * call.m) % Base ^ (k + 1)
  /\ pc' = "correct"
  /\ UNCHANGED <<call, corrections, engine>>

\* At most two, and no test after the second.
Correct ==
  /\ pc = "correct"
  /\ corrections < 2 /\ out >= call.m
  /\ out' = out - call.m
  /\ corrections' = corrections + 1
  /\ UNCHANGED <<call, quotient, engine, pc>>

Reduced ==
  /\ pc = "correct"
  /\ corrections = 2 \/ out < call.m
  /\ pc' = "done"
  /\ UNCHANGED <<call, out, quotient, corrections, engine>>

Next ==
  \/ AddMod \/ SubMod \/ ReducedSum \/ MulMod \/ MontgomeryMul \/ PowMod
  \/ BarrettReduce \/ DomainReduce \/ ApproximateRemainder \/ Correct \/ Reduced
Spec == Init /\ [][Next]_vars

-----------------------------------------------------------------------------
(* Properties.                                                              *)

Expected ==
  CASE call.op = "add" -> (call.x + call.y) % call.m
    [] call.op = "sub" -> (call.x - call.y) % call.m
    [] call.op = "mul" -> (call.x * call.y) % call.m
    [] call.op = "pow" -> Power(call.x, call.y) % call.m
    [] call.op = "montgomery" -> Unradixed(call.x * call.y)
    [] OTHER -> call.x % call.m

\* The residue is exact and reduced by every way out of every operation; with a
\* reciprocal, two corrections are enough, and they complete the quotient.
ResidueExact ==
  pc = "done" =>
    /\ out = Expected
    /\ (engine = "barrett" /\ call.op # "pow") => quotient + corrections = call.x \div call.m

\* A Montgomery engine only ever sees an odd modulus of a width it is built for
\* and a positive exponent; the reciprocal only a dividend below its range.
EnginesFit ==
  /\ engine \in {"limb", "inline", "montgomery"} =>
       Odd(call.m) /\ call.m > 1 /\ (call.op = "pow" => call.y > 0)
  /\ engine = "barrett" /\ call.op # "pow" => call.m <= call.x /\ call.x < Base ^ (2 * k)

Residues == ResidueExact /\ EnginesFit
=============================================================================

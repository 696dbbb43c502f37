------------------------------ MODULE MCNumbers ------------------------------
(***************************************************************************)
(* One call of the arithmetic above products: division by the schoolbook     *)
(* kernels, Montgomery products, inverses modulo a radix power, modular       *)
(* operations, and powers by sliding windows.  Limbs are of two bits, of      *)
(* three for division and of five for windows.                                *)
(***************************************************************************)
EXTENDS Integers, SequencesExt, FiniteSetsExt

VARIABLES
  family,     \* whose call it is; the variables of the others are None
  stage, mode, u, v, work, left, terms, quo, rem, certified, fits,
  engine, call, limbs, pending, row, pc, result,
  modulus, n, inverse, known, shift,
  exp, plan, read, value, remaining, squares,
  out, quotient, corrections

None == "none"
Base == 4

\* The limbs of a number in a width, and none above its highest.
Digits(x, width) == [i \in 1 .. width |-> (x \div Base ^ (i - 1)) % Base]
WidthOf(x) == CHOOSE k \in 0 .. 15 : x < Base ^ k /\ (k > 0 => x >= Base ^ (k - 1))
LimbsOf(x) == Digits(x, WidthOf(x))

-----------------------------------------------------------------------------
(* Division: divisors of up to six limbs with a high limb that is least,     *)
(* greatest or between and the limbs below at the edges of an estimate, and  *)
(* numerators around small, greatest and repeated quotient digits.           *)

Divisors ==
  UNION {{t * 8 ^ (k - 1) + s * 8 ^ (k - 2) + below :
            t \in {1, 4, 7}, s \in {0, 7},
            below \in {0, 1, 8 ^ (k - 2) - 1, 8 ^ (k - 2) - 4, 8 ^ (k - 2) - 8 ^ (k - 3), 8 ^ (k - 3) - 1}}
         : k \in 3 .. 6}
    \union {t * 8 + s : t \in {1, 4, 7}, s \in 0 .. 7} \union 1 .. 7

Quotients == {0, 1, 2, 7, 8, 23, 56, 63, 319, 383, 440, 505, 511, 512, 3584, 4095}

Jobs ==
  {job \in UNION {{<<q * d + r, d>> : q \in Quotients, r \in {0, 1, d - 1, d \div 2}} : d \in Divisors} :
     job[1] < 8 ^ 9}

-----------------------------------------------------------------------------
(* Montgomery: every odd modulus of three limbs and extreme ones of up to    *)
(* six, with residues at the edges, and any factor with the square of R.     *)

OddModuli ==
  {m \in 1 .. Base ^ 3 - 1 : m % 2 = 1}
    \union UNION {{Base ^ k - 1, Base ^ k - 3, Base ^ k - Base ^ (k - 1) - 1, Base ^ (k - 1) + 1} : k \in 4 .. 6}

EdgeResidues(m) == {0, 1, 2, m \div 2, m - 2, m - 1} \intersect 0 .. m - 1
Factors(m) == EdgeResidues(m) \union {Base ^ WidthOf(m) - 1, Base ^ WidthOf(m) - 2}
SquareOfRadix(m) == LET once == Base ^ WidthOf(m) % m IN (once * once) % m

MontgomeryCalls ==
  {[a |-> LimbsOf(c[1]), b |-> Digits(c[2], WidthOf(c[3])), m |-> LimbsOf(c[3])] :
     c \in UNION {(EdgeResidues(m) \X EdgeResidues(m) \X {m}) \union (Factors(m) \X {SquareOfRadix(m)} \X {m})
                  : m \in OddModuli}}

\* Inverses of every odd number of two to five limbs, and of extreme ones to seven.
Moduli ==
  UNION {{<<x, k>> : x \in {x \in Base ^ (k - 1) .. Base ^ k - 1 : x % 2 = 1}} : k \in 2 .. 5}
    \union UNION {{<<Base ^ k - d, k>> : d \in {1, 3, 5, 9, 17, 255}} \union {<<Base ^ (k - 1) + d, k>> : d \in {1, 3, 7, 27}}
                  : k \in 6 .. 7}

-----------------------------------------------------------------------------
(* Modular operations: operands about multiples of the modulus, dividends up *)
(* to and beyond the range of the reciprocal.                                *)

Near(m) == {0, 1, m - 1, m, m + 1, 2 * m - 1, 2 * m, 3 * m + 1}
Radix(m) == CHOOSE p \in {Base ^ w : w \in 1 .. 6} : p \div Base <= m /\ m < p
Dividends(m) ==
  {q * m + r : q \in {1, Base - 1, Base, Radix(m) - 1, Radix(m) \div 2, Radix(m)}, r \in {0, 1, m - 1}}
    \union {Radix(m) * Radix(m) - d : d \in 1 .. 40} \union {Radix(m) * Radix(m) + 1}

ModularCalls ==
  LET Call(op, x, y, m) == [op |-> op, x |-> x, y |-> y, m |-> m]
  IN UNION {
       {Call(o, x, y, m) : o \in {"add", "sub", "mul"}, x \in Near(m), y \in Near(m)}
       \union {Call("montgomery", x, y, m) : x \in Near(m), y \in IF m % 2 = 1 THEN Near(m) ELSE {}}
       \union {Call("pow", x, y, m) : x \in {0, 1, 2, 7, 13}, y \in 0 .. 6}
       \union {Call(o, x, 0, m) : o \in {"barrett", "reduce"}, x \in {x \in Near(m) \union Dividends(m) : x >= 0}}
       \union {Call("divide", x, 0, m) : x \in {x \in Dividends(m) : x >= m /\ x < Radix(m) * Radix(m)}}
       : m \in 1 .. 17 \union {21, 31, 33, 47, 49, 63, 257, 1025}}

-----------------------------------------------------------------------------
(* Windows: every exponent of eleven bits; longer ones that are nearly full, *)
(* and set bits at a distance, one of them moved.                            *)

Regular(count, d, moved) ==
  MapThenSumSet(LAMBDA b : 2 ^ (b * d + (IF b = moved THEN 1 ELSE 0)), 0 .. count - 1)

Exponents ==
  1 .. 2 ^ 11 - 1
    \union {2 ^ b - 1 - 2 ^ k : b \in 12 .. 15, k \in {0, 3, 10}}
    \union {Regular(15 \div d, d, k) : d \in 2 .. 4, k \in 0 .. 4}

-----------------------------------------------------------------------------

Dividing == INSTANCE Division
  WITH LimbBits <- 3, FixedMax <- 5, SmallQuotientMax <- 4,
       Preinverse <- [normalized \in BOOLEAN |-> IF normalized THEN 2 ELSE 3]
Multiplying == INSTANCE MontgomeryProducts WITH Calls <- MontgomeryCalls
Inverting == INSTANCE RadixInverse WITH Shortfall <- {0, 1, Base, Base * Base - 1}
Reducing == INSTANCE ModularOperations
  WITH MaxLimbs <- 14, MontgomeryPowModThreshold <- 6, Calls <- ModularCalls
Powering == INSTANCE SlidingWindows WITH LimbBits <- 5, MaxWindow <- 4

ASSUME NumberAssumptions ==
  /\ Dividing!DivisionAssumption
  /\ Inverting!ShortfallAssumption
  /\ Reducing!ModularAssumption
  /\ Powering!WindowAssumption

\* What only one of them keeps.
ofDivision == <<stage, mode, u, v, work, left, terms, quo, rem, certified, fits>>
ofMontgomery == <<limbs, pending, row, result>>
ofInverse == <<modulus, n, inverse, known, shift>>
ofWindows == <<exp, plan, read, value, remaining, squares>>
ofModular == <<out, quotient, corrections>>

allVars == <<family, ofDivision, ofMontgomery, ofInverse, ofWindows, ofModular, engine, call, pc>>

NoDivision ==
  /\ stage = None /\ mode = None /\ u = None /\ v = None /\ work = None /\ left = None
  /\ terms = None /\ quo = None /\ rem = None /\ certified = None /\ fits = None
NoMontgomery == limbs = None /\ pending = None /\ row = None /\ result = None
NoInverse == modulus = None /\ n = None /\ inverse = None /\ known = None /\ shift = None
NoWindows == exp = None /\ plan = None /\ read = None /\ value = None /\ remaining = None /\ squares = None
NoModular == out = None /\ quotient = None /\ corrections = None

CallInit ==
  \/ /\ family = "division" /\ Dividing!Init
     /\ NoMontgomery /\ NoInverse /\ NoWindows /\ NoModular /\ engine = None /\ call = None /\ pc = None
  \/ /\ family = "montgomery" /\ Multiplying!Init
     /\ NoDivision /\ NoInverse /\ NoWindows /\ NoModular
  \/ /\ family = "inverse" /\ Inverting!Init
     /\ NoDivision /\ NoMontgomery /\ NoWindows /\ NoModular /\ engine = None /\ call = None /\ pc = None
  \/ /\ family = "windows" /\ Powering!Init
     /\ NoDivision /\ NoMontgomery /\ NoInverse /\ NoModular /\ call = None
  \/ /\ family = "modular" /\ Reducing!Init
     /\ NoDivision /\ NoMontgomery /\ NoInverse /\ NoWindows

CallNext ==
  \/ /\ family = "division" /\ Dividing!Next
     /\ UNCHANGED <<ofMontgomery, ofInverse, ofWindows, ofModular, engine, call, pc>>
  \/ /\ family = "montgomery" /\ Multiplying!Next
     /\ UNCHANGED <<ofDivision, ofInverse, ofWindows, ofModular>>
  \/ /\ family = "inverse" /\ Inverting!Next
     /\ UNCHANGED <<ofDivision, ofMontgomery, ofWindows, ofModular, engine, call, pc>>
  \/ /\ family = "windows" /\ Powering!Next
     /\ UNCHANGED <<ofDivision, ofMontgomery, ofInverse, ofModular, call>>
  \/ /\ family = "modular" /\ Reducing!Next
     /\ UNCHANGED <<ofDivision, ofMontgomery, ofInverse, ofWindows>>

CallSpec == CallInit /\ [][CallNext /\ UNCHANGED family]_allVars

-----------------------------------------------------------------------------

\* Every kernel gives the quotient and the remainder asked for, and none of its
\* unchecked additions and subtractions leaves its range.
DivisionSound == family = "division" => Dividing!DivisionExact /\ Dividing!UncheckedFits

\* Every engine keeps the accumulator congruent and bounded row by row, and gives
\* the one residue.
MontgomerySound == family = "montgomery" => Multiplying!Montgomery

\* At every precision the known limbs are the exact inverse.
InverseSound == family = "inverse" => Inverting!InverseExact

\* The power follows the exponent, through slots of the table that were filled,
\* under the cheapest plan.
WindowsSound == family = "windows" => Powering!Windows

\* The residue is exact by every way out, and engines see only operands they are for.
ResiduesSound == family = "modular" => Reducing!Residues
=============================================================================

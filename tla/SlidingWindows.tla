--------------------------- MODULE SlidingWindows ---------------------------
(***************************************************************************)
(* math/pow.rs and math/modular/power.rs: powers by sliding windows.  A plan *)
(* fixes the width of the windows and how many odd powers the table gets,    *)
(* either from the population and spacing of the exponent's bits (engines of *)
(* fixed width) or by counting the work of every width (the others); then    *)
(* the exponent is read from the top, a window at a time.                    *)
(*                                                                         *)
(* Residues are left out: a power of the base is its exponent.  Every engine *)
(* squares, multiplies and reads its table in this order.                    *)
(***************************************************************************)
EXTENDS Integers, FiniteSets, SequencesExt

CONSTANTS
  LimbBits,
  MaxWindow,      \* Exponentiation::MAX_WINDOW
  Exponents       \* positive numbers

WindowAssumption ==
  /\ LimbBits \in Nat /\ MaxWindow \in Nat \ {0} /\ MaxWindow < LimbBits
  /\ Exponents \subseteq Nat \ {0}

VARIABLES
  engine,      \* "fixed" or "general"
  exp,
  plan,        \* the width, the odd powers initialized, the leading slot and its length
  read,        \* the slot of the table last read
  value,       \* the power reached
  remaining,   \* exponent bits still to read
  squares,     \* squarings due before the next product
  pc

vars == <<engine, exp, plan, read, value, remaining, squares, pc>>

BitAt(x, i) == (x \div 2 ^ i) % 2
SignificantBits(x) == CHOOSE b \in 0 .. x : x < 2 ^ b /\ (b > 0 => x >= 2 ^ (b - 1))
bits == SignificantBits(exp)
Ones(x) == Cardinality({i \in 0 .. SignificantBits(x) : BitAt(x, i) = 1})
Word(x, w) == (x \div 2 ^ (LimbBits * w)) % 2 ^ LimbBits
Smaller(a, b) == IF a < b THEN a ELSE b

\* The longest odd prefix of a window of exponent x that starts below bit
\* `top', at a set bit: its slot and its length.  It may lie across two limbs.
Window_OneLimb(x, top, maximum) ==
  LET width == Smaller(maximum, top)
      start == top - width
      window == (Word(x, start \div LimbBits) \div 2 ^ (start % LimbBits)) % 2 ^ width
      trailing == CHOOSE t \in 0 .. width : window = 0 \/ (window % 2 ^ t = 0 /\ BitAt(window, t) = 1)
  IN [slot |-> window \div 2 ^ (trailing + 1), length |-> width - trailing]

Window(x, top, maximum) ==
  LET width == Smaller(maximum, top)
      start == top - width
      offset == start % LimbBits
      available == LimbBits - offset
      low == Word(x, start \div LimbBits) \div 2 ^ offset
      high == IF width > available
              THEN (Word(x, start \div LimbBits + 1) * 2 ^ available) % 2 ^ LimbBits ELSE 0
      window == (low + high) % 2 ^ width
      trailing == CHOOSE t \in 0 .. width - 1 : window % 2 ^ t = 0 /\ BitAt(window, t) = 1
  IN [slot |-> window \div 2 ^ (trailing + 1), length |-> width - trailing]

-----------------------------------------------------------------------------
(* Planning.                                                                *)

Binary == [width |-> 1, powers |-> 1, initial |-> [slot |-> 0, length |-> 1]]

\* The smallest distance of two set bits, capped: within a limb, or across
\* from the highest bit of one to the lowest of the next.
MinimumSpacing(x) ==
  LET inside(limb) ==
        {d \in 1 .. MaxWindow - 1 :
           \E i \in 0 .. LimbBits - 1 : i + d < LimbBits /\ BitAt(limb, i) = 1 /\ BitAt(limb, i + d) = 1}
      leading(limb) == LimbBits - SignificantBits(limb)
      trailing(limb) == CHOOSE t \in 0 .. LimbBits - 1 : limb % 2 ^ t = 0 /\ BitAt(limb, t) = 1
      bridge(w) == leading(Word(x, w - 1)) + 1 + trailing(Word(x, w))
      limbs == 0 .. (SignificantBits(x) - 1) \div LimbBits
      gaps == UNION {inside(Word(x, w)) : w \in limbs}
                \union {bridge(w) : w \in {w \in limbs \ {0} : Word(x, w) # 0}}
                \union {MaxWindow}
  IN CHOOSE g \in gaps : \A h \in gaps : g <= h

\* window_bounds: the odd digits a width can meet when set bits keep a
\* distance, bit zero among them, and the population above which it beats the narrower widths.
Digit(distance, width) ==
  MapThenSumSet(LAMBDA k : 2 ^ (width - 1 - k * distance),
                {k \in 0 .. width : k * distance <= width - 1 - distance}) + 1
TablePowers(distance, width) == Digit(distance, width) \div 2 + 1
Population(distance, width) == 1 + (width - 1) \div distance

\* No population is enough for a width that holds no more bits than a narrower.
Never == 2 ^ 30
Threshold(distance, width) ==
  LET p == Population(distance, width)
      crossings == {((TablePowers(distance, width) - TablePowers(distance, w)) * p * Population(distance, w))
                      \div (p - Population(distance, w)) : w \in {w \in 1 .. width - 1 : Population(distance, w) < p}}
  IN IF p = 1 \/ \E w \in 1 .. width - 1 : Population(distance, w) = p THEN Never
     ELSE CHOOSE c \in crossings \union {0} : \A d \in crossings : d <= c

FixedPlan(x) ==
  LET gap == MinimumSpacing(x)
      admitted == {w \in 1 .. MaxWindow : Ones(x) > Threshold(gap, w)}
      width == CHOOSE w \in admitted : \A wider \in admitted : wider <= w
  IN IF Ones(x) <= 3 \/ gap = MaxWindow \/ admitted = {} THEN Binary
     ELSE [width |-> width, powers |-> TablePowers(gap, width),
           initial |-> Window(x, SignificantBits(x), width)]

\* next_set_bit
NextSetBit(x, top) == SignificantBits(x % 2 ^ top)

\* The windows of a width from bit `top' down: how many, and the largest slot.
RECURSIVE Scan(_, _, _)
Scan(x, top, width) ==
  LET next == NextSetBit(x, top)
      w == Window(x, next, width)
      rest == Scan(x, next - w.length, width)
  IN IF next = 0 THEN [products |-> 0, largest |-> 0]
     ELSE [products |-> rest.products + 1,
           largest |-> IF w.slot > rest.largest THEN w.slot ELSE rest.largest]

\* Squares and products of a width, its table included.
Totalled(x, width, initial, scan) ==
  LET largest == IF scan.largest > initial.slot THEN scan.largest ELSE initial.slot
  IN [work |-> scan.products + largest + SignificantBits(x) - initial.length + (IF largest = 0 THEN 0 ELSE 1),
      plan |-> [width |-> width, powers |-> largest + 1, initial |-> initial]]
Counted(x, width) ==
  LET initial == Window(x, SignificantBits(x), width)
  IN Totalled(x, width, initial, Scan(x, SignificantBits(x) - initial.length, width))

\* At best every remaining window is full.
LowerWork(x, width) ==
  LET initial == Window(x, SignificantBits(x), width)
      left == Ones(x) - Ones(2 * initial.slot + 1)
  IN (left + width - 1) \div width + initial.slot + SignificantBits(x) - initial.length
       + (IF initial.slot = 0 THEN 0 ELSE 1)

GeneralWindow(x, gap) ==
  FoldLeft(LAMBDA best, width :
             IF width <= gap \/ LowerWork(x, width) >= best.work \/ Counted(x, width).work >= best.work
             THEN best ELSE Counted(x, width),
           [work |-> SignificantBits(x) - 1 + Ones(x) - 1, plan |-> Binary],
           [i \in 1 .. Smaller(MaxWindow, SignificantBits(x)) - 1 |-> i + 1]).plan

WindowPlan(fixed, x) ==
  IF fixed THEN FixedPlan(x)
  ELSE IF Ones(x) <= 3 \/ MinimumSpacing(x) = MaxWindow THEN Binary
  ELSE GeneralWindow(x, MinimumSpacing(x))

-----------------------------------------------------------------------------
(* The ladder.                                                              *)

\* Slot i of the table is the power 2i + 1 of the base.
OddPower(slot) == 2 * slot + 1

Init ==
  /\ engine \in {"fixed", "general"}
  /\ exp \in Exponents
  /\ plan = Binary
  /\ read = 0
  /\ value = 0
  /\ remaining = 0
  /\ squares = 0
  /\ pc = "plan"

Plan ==
  /\ pc = "plan"
  /\ plan' = WindowPlan(engine = "fixed", exp)
  /\ read' = plan'.initial.slot
  /\ value' = OddPower(plan'.initial.slot)
  /\ remaining' = bits - plan'.initial.length
  /\ pc' = "read"
  /\ UNCHANGED <<engine, exp, squares>>

\* A clear bit is one squaring.
ClearBit ==
  /\ pc = "read" /\ remaining > 0
  /\ BitAt(exp, remaining - 1) = 0
  /\ value' = 2 * value
  /\ remaining' = remaining - 1
  /\ UNCHANGED <<engine, exp, plan, read, squares, pc>>

\* A set bit opens a window: a squaring for each of its bits ...
OpenWindow ==
  /\ pc = "read" /\ remaining > 0
  /\ BitAt(exp, remaining - 1) = 1
  /\ squares' = Window(exp, remaining, plan.width).length
  /\ read' = Window(exp, remaining, plan.width).slot
  /\ pc' = "square"
  /\ UNCHANGED <<engine, exp, plan, value, remaining>>

Square ==
  /\ pc = "square" /\ squares > 0
  /\ value' = 2 * value
  /\ squares' = squares - 1
  /\ remaining' = remaining - 1
  /\ UNCHANGED <<engine, exp, plan, read, pc>>

\* ... then the product with its odd power.
Multiply ==
  /\ pc = "square" /\ squares = 0
  /\ value' = value + OddPower(read)
  /\ pc' = "read"
  /\ UNCHANGED <<engine, exp, plan, read, remaining, squares>>

Return ==
  /\ pc = "read" /\ remaining = 0
  /\ pc' = "done"
  /\ UNCHANGED <<engine, exp, plan, read, value, remaining, squares>>

Next == Plan \/ ClearBit \/ OpenWindow \/ Square \/ Multiply \/ Return
Spec == Init /\ [][Next]_vars

-----------------------------------------------------------------------------
(* Properties.                                                              *)

\* Between windows the power is that of the exponent bits read.
PowerFollowsExponent ==
  pc \in {"read", "done"} => value = exp \div 2 ^ remaining

\* A slot is read only in the prefix of the table the plan had initialized, and
\* the plan never asks for more than the table holds.
SlotsInitialized ==
  pc # "plan" => read < plan.powers /\ plan.powers <= 2 ^ (MaxWindow - 1)

\* The shortcuts of the general plan (few ones, sparse ones, the optimistic
\* bound) never miss a width that does less work.
PlanIsCheapest ==
  pc = "read" /\ engine = "general" =>
    \A width \in 1 .. Smaller(MaxWindow, bits) :
      Counted(exp, plan.width).work <= Counted(exp, width).work

Windows == PowerFollowsExponent /\ SlotsInitialized /\ PlanIsCheapest
=============================================================================

-------------------------- MODULE LimbSpansProofs --------------------------
(***************************************************************************)
(* The kernels over spans of limbs compute the carry-lookahead columns of  *)
(* their operands, for every base, every pair of operands and every length.*)
(*                                                                         *)
(* The portable loops of LimbKernels: while a loop runs, the columns below *)
(* i are final, the flag is the carry into column i + 1, and an in-place   *)
(* output still holds the left operand above i.  An early exit is right    *)
(* because an absorbed carry or borrow never comes back above the shorter  *)
(* operand.                                                                *)
(*                                                                         *)
(* The assembly kernels of CarryChains, on every processor: one column     *)
(* gives the same limb and carry however the carry is kept; the blocks a   *)
(* loop runs add up to the limbs that are left; and an absorbed carry      *)
(* leaves the columns above it as they were.                               *)
(*                                                                         *)
(* The product rows of ProductRows: a column of each kernel splits its     *)
(* limb, its product and the words before it into a limb and words, and    *)
(* what the words come to together fits one limb whatever the operands, so *)
(* none that absorbs a carry can wrap.                                     *)
(***************************************************************************)
EXTENDS MCLimbSpans, LimbProofs

\* What column j of the result is, and the flag into it.
Expected(j) == IF op = "add" THEN SumLimb(x, y, j) ELSE DifferenceLimb(x, y, j)
Into(j) == IF op = "add" THEN CarryInto(x, y, j) ELSE BorrowInto(x, y, j)

Position ==
  /\ pc = "prefix" => i <= ShortLen
  /\ pc = "tail" => i >= ShortLen

Running ==
  pc # "done" =>
    /\ \A j \in 1 .. i : dst[j] = Expected(j)
    /\ carry = Into(i + 1)
    /\ inPlace => \A j \in i + 1 .. Len(x) : dst[j] = x[j]

Returned ==
  pc = "done" =>
    /\ \A j \in 1 .. MaxLen : dst[j] = Expected(j)
    /\ carry = Into(MaxLen + 1)

KernelInv == TypeOK /\ Position /\ Running /\ Returned

-----------------------------------------------------------------------------
(* Arithmetic modulo the base.                                             *)

LEMMA ModBase ==
  /\ \A a \in Int : 0 <= a /\ a < Base => a % Base = a
  /\ \A a \in Int : Base <= a /\ a < 2 * Base => a % Base = a - Base
  /\ \A a \in Int : 0 - Base <= a /\ a < 0 => a % Base = a + Base
<1> Base \in Nat /\ Base >= 2  BY BaseAssumption
<1>1. \A a \in Int : 0 <= a /\ a < Base => a % Base = a
  BY Z3
<1>2. \A a \in Int : Base <= a /\ a < 2 * Base => a % Base = a - Base
  BY Z3
<1>3. \A a \in Int : 0 - Base <= a /\ a < 0 => a % Base = a + Base
  BY Z3
<1> QED BY <1>1, <1>2, <1>3

-----------------------------------------------------------------------------
(* Columns of the tail.                                                    *)

LEMMA Lengths ==
  ASSUME TypeOK
  PROVE  /\ Len(x) \in Nat /\ Len(y) \in Nat /\ ShortLen \in Nat /\ MaxLen \in Nat
         /\ ShortLen <= MaxLen
         /\ \A j \in 1 .. Len(x) : x[j] \in Limb
         /\ \A j \in 1 .. Len(y) : y[j] \in Limb
BY LenProperties DEF TypeOK, ShortLen, MaxLen

\* Above the shorter operand one column is zero and the other is Long's.
LEMMA TailColumn ==
  ASSUME TypeOK, NEW j \in Nat, j > ShortLen, j <= MaxLen
  PROVE  /\ Long[j] \in Limb
         /\ Len(x) > Len(y) =>
              Long[j] = x[j] /\ j <= Len(x) /\ Column(x, j) = x[j] /\ Column(y, j) = 0
         /\ ~ (Len(x) > Len(y)) =>
              Long[j] = y[j] /\ j <= Len(y) /\ Column(x, j) = 0 /\ Column(y, j) = y[j]
BY Lengths DEF ShortLen, MaxLen, Long, Column

LEMMA OneColumnZero ==
  ASSUME TypeOK, NEW k \in Nat, k > ShortLen
  PROVE  Column(x, k) = 0 \/ Column(y, k) = 0
BY Lengths DEF ShortLen, Column

\* With no carry into the tail's column j, the rest of the sum is the rest of
\* the longer operand, and no carry comes out.
LEMMA RestOfSum ==
  ASSUME TypeOK, NEW j \in Nat \ {0}, j > ShortLen, CarryInto(x, y, j) = 0
  PROVE  /\ \A k \in j .. MaxLen : SumLimb(x, y, k) = Long[k]
         /\ j <= MaxLen + 1 => CarryInto(x, y, MaxLen + 1) = 0
<1>1. x \in Seq(Limb) /\ y \in Seq(Limb) /\ MaxLen \in Nat /\ ShortLen \in Nat
  BY Lengths DEF TypeOK
<1>2. \A k \in Nat : k >= j => Column(x, k) = 0 \/ Column(y, k) = 0
  BY OneColumnZero, <1>1
<1>3. \A m \in Nat : m >= j => CarryInto(x, y, m) = 0
  BY CarryAbsorbed, <1>1, <1>2
<1>4. ASSUME NEW k \in j .. MaxLen PROVE SumLimb(x, y, k) = Long[k]
  <2>1. k \in Nat /\ k > ShortLen /\ k <= MaxLen /\ k >= j  BY <1>1
  <2>2. CarryInto(x, y, k) = 0  BY <1>3, <2>1
  <2>3. Column(x, k) + Column(y, k) = Long[k] /\ Long[k] \in Limb
    <3>1. CASE Len(x) > Len(y)
      BY <2>1, <3>1, TailColumn, LimbBounds
    <3>2. CASE ~ (Len(x) > Len(y))
      BY <2>1, <3>2, TailColumn, LimbBounds
    <3> QED BY <3>1, <3>2
  <2>4. SumLimb(x, y, k) = (Long[k] + 0) % Base  BY <2>2, <2>3 DEF SumLimb
  <2>5. Long[k] \in Int /\ 0 <= Long[k] /\ Long[k] < Base  BY <2>3, LimbBounds
  <2> QED BY <2>4, <2>5, ModBase
<1> QED BY <1>1, <1>3, <1>4

\* ... and with no borrow above the right operand, the rest of the difference
\* is the rest of the left one.
LEMMA RestOfDifference ==
  ASSUME TypeOK, NEW j \in Nat \ {0}, j > Len(y), Len(x) > Len(y), BorrowInto(x, y, j) = 0
  PROVE  /\ \A k \in j .. MaxLen : DifferenceLimb(x, y, k) = Long[k]
         /\ j <= MaxLen + 1 => BorrowInto(x, y, MaxLen + 1) = 0
<1>1. x \in Seq(Limb) /\ y \in Seq(Limb) /\ MaxLen \in Nat /\ ShortLen \in Nat /\ Len(y) \in Nat
  BY Lengths DEF TypeOK
<1>2. ShortLen = Len(y)  BY Lengths DEF ShortLen
<1>3. \A m \in Nat : m >= j => BorrowInto(x, y, m) = 0
  BY BorrowAbsorbed, <1>1
<1>4. ASSUME NEW k \in j .. MaxLen PROVE DifferenceLimb(x, y, k) = Long[k]
  <2>1. k \in Nat /\ k > ShortLen /\ k <= MaxLen /\ k >= j  BY <1>1, <1>2
  <2>2. BorrowInto(x, y, k) = 0  BY <1>3, <2>1
  <2>3. Column(x, k) = Long[k] /\ Column(y, k) = 0 /\ Long[k] \in Limb
    BY <2>1, TailColumn
  <2>4. DifferenceLimb(x, y, k) = (Long[k] - 0 - 0) % Base  BY <2>2, <2>3 DEF DifferenceLimb
  <2>5. Long[k] \in Int /\ 0 <= Long[k] /\ Long[k] < Base  BY <2>3, LimbBounds
  <2> QED BY <2>4, <2>5, ModBase
<1> QED BY <1>1, <1>3, <1>4

-----------------------------------------------------------------------------
(* What a column's value and flag come to, by kernel.                      *)

LEMMA SumColumn ==
  ASSUME TypeOK, NEW j \in 1 .. MaxLen
  PROVE  LET sum == Column(x, j) + Column(y, j) + CarryInto(x, y, j) IN
         /\ sum \in Int /\ 0 <= sum /\ sum < 2 * Base
         /\ SumLimb(x, y, j) = sum % Base /\ SumLimb(x, y, j) \in Limb
         /\ CarryInto(x, y, j + 1) = IF sum >= Base THEN 1 ELSE 0
<1>1. x \in Seq(Limb) /\ y \in Seq(Limb) /\ j \in Nat \ {0}
  BY Lengths DEF TypeOK
<1>2. Column(x, j) \in Limb /\ Column(y, j) \in Limb  BY <1>1, ColumnType
<1>3. CarryInto(x, y, j) \in {0, 1}  BY CarryType
<1>4. SumLimb(x, y, j) \in Limb  BY <1>1, SumLimbType
<1>5. CarryInto(x, y, j + 1)
        = IF Column(x, j) + Column(y, j) + CarryInto(x, y, j) >= Base THEN 1 ELSE 0
  BY <1>1, CarryRecurrence
<1> QED BY <1>2, <1>3, <1>4, <1>5, LimbBounds DEF SumLimb

LEMMA DifferenceColumn ==
  ASSUME TypeOK, NEW j \in 1 .. MaxLen
  PROVE  LET difference == Column(x, j) - Column(y, j) - BorrowInto(x, y, j) IN
         /\ difference \in Int /\ 0 - Base <= difference /\ difference < Base
         /\ DifferenceLimb(x, y, j) = difference % Base /\ DifferenceLimb(x, y, j) \in Limb
         /\ BorrowInto(x, y, j + 1) = IF difference < 0 THEN 1 ELSE 0
<1>1. x \in Seq(Limb) /\ y \in Seq(Limb) /\ j \in Nat \ {0}
  BY Lengths DEF TypeOK
<1>2. Column(x, j) \in Limb /\ Column(y, j) \in Limb  BY <1>1, ColumnType
<1>3. BorrowInto(x, y, j) \in {0, 1}  BY BorrowType
<1>4. DifferenceLimb(x, y, j) \in Limb  BY <1>1, DifferenceLimbType
<1>5. BorrowInto(x, y, j + 1)
        = IF Column(x, j) - Column(y, j) - BorrowInto(x, y, j) < 0 THEN 1 ELSE 0
  BY <1>1, BorrowRecurrence
<1> QED BY <1>2, <1>3, <1>4, <1>5, LimbBounds DEF DifferenceLimb

\* Above the shorter operand, a carry of one meets a limb of Long alone.
LEMMA CarriedTail ==
  ASSUME TypeOK, NEW j \in 1 .. MaxLen, j > ShortLen, CarryInto(x, y, j) = 1
  PROVE  /\ Long[j] # LimbMax => SumLimb(x, y, j) = Long[j] + 1 /\ CarryInto(x, y, j + 1) = 0
         /\ Long[j] = LimbMax => SumLimb(x, y, j) = 0 /\ CarryInto(x, y, j + 1) = 1
<1>1. Column(x, j) + Column(y, j) = Long[j] /\ Long[j] \in Limb
  <2>1. j \in Nat /\ j <= MaxLen  BY Lengths
  <2>2. CASE Len(x) > Len(y)  BY <2>1, <2>2, TailColumn, LimbBounds
  <2>3. CASE ~ (Len(x) > Len(y))  BY <2>1, <2>3, TailColumn, LimbBounds
  <2> QED BY <2>2, <2>3
<1>2. /\ SumLimb(x, y, j) = (Long[j] + 1) % Base
      /\ CarryInto(x, y, j + 1) = IF Long[j] + 1 >= Base THEN 1 ELSE 0
  BY <1>1, SumColumn
<1>3. Long[j] \in Int /\ 0 <= Long[j] /\ Long[j] <= Base - 1 /\ Base \in Nat /\ Base >= 2
  BY <1>1, LimbBounds
<1>4. CASE Long[j] # LimbMax
  <2>1. 0 <= Long[j] + 1 /\ Long[j] + 1 < Base  BY <1>3, <1>4 DEF LimbMax
  <2>2. (Long[j] + 1) % Base = Long[j] + 1  BY <1>3, <2>1, ModBase
  <2> QED BY <1>2, <1>3, <1>4, <2>1, <2>2
<1>5. CASE Long[j] = LimbMax
  <2>1. Long[j] + 1 = Base  BY <1>3, <1>5 DEF LimbMax
  <2>2. Base <= Base /\ Base < 2 * Base  BY <1>3
  <2>3. Base % Base = Base - Base  BY <1>3, <2>2, ModBase
  <2> QED BY <1>2, <1>3, <1>5, <2>1, <2>3
<1> QED BY <1>4, <1>5

\* ... and a borrow of one a limb of the left operand.
LEMMA BorrowedTail ==
  ASSUME TypeOK, NEW j \in 1 .. MaxLen, Len(x) > Len(y), j > Len(y), BorrowInto(x, y, j) = 1
  PROVE  /\ x[j] # 0 => DifferenceLimb(x, y, j) = x[j] - 1 /\ BorrowInto(x, y, j + 1) = 0
         /\ x[j] = 0 => DifferenceLimb(x, y, j) = LimbMax /\ BorrowInto(x, y, j + 1) = 1
<1>1. Column(x, j) = x[j] /\ Column(y, j) = 0 /\ x[j] \in Limb
  <2>1. j \in Nat /\ j <= MaxLen /\ j > ShortLen  BY Lengths DEF ShortLen
  <2> QED BY <2>1, TailColumn
<1>2. x[j] \in Int /\ 0 <= x[j] /\ x[j] <= Base - 1 /\ Base \in Nat /\ Base >= 2
  BY <1>1, LimbBounds
<1>3. /\ DifferenceLimb(x, y, j) = (x[j] - 0 - 1) % Base
      /\ BorrowInto(x, y, j + 1) = IF x[j] - 0 - 1 < 0 THEN 1 ELSE 0
  BY <1>1, DifferenceColumn
<1>4. CASE x[j] # 0
  <2>1. 0 <= x[j] - 0 - 1 /\ x[j] - 0 - 1 < Base /\ x[j] - 0 - 1 \in Int  BY <1>2, <1>4
  <2>2. (x[j] - 0 - 1) % Base = x[j] - 0 - 1  BY <2>1, ModBase
  <2>3. x[j] - 0 - 1 = x[j] - 1  BY <1>2
  <2> QED BY <1>3, <1>4, <2>1, <2>2, <2>3
<1>5. CASE x[j] = 0
  <2>1. x[j] - 0 - 1 = 0 - 1 /\ 0 - Base <= 0 - 1 /\ 0 - 1 < 0 /\ 0 - 1 \in Int  BY <1>2, <1>5
  <2>2. (0 - 1) % Base = (0 - 1) + Base  BY <2>1, ModBase
  <2>3. (0 - 1) + Base = LimbMax  BY <1>2 DEF LimbMax
  <2> QED BY <1>3, <1>5, <2>1, <2>2, <2>3
<1> QED BY <1>4, <1>5

\* Above the left operand the difference is a negation.
LEMMA NegatedTail ==
  ASSUME TypeOK, NEW j \in 1 .. MaxLen, Len(y) > Len(x), j > Len(x)
  PROVE  /\ y[j] \in Limb
         /\ BorrowInto(x, y, j) = 0 =>
              /\ DifferenceLimb(x, y, j) = WrappingNeg(y[j])
              /\ BorrowInto(x, y, j + 1) = IF y[j] # 0 THEN 1 ELSE 0
         /\ BorrowInto(x, y, j) = 1 =>
              DifferenceLimb(x, y, j) = Complement(y[j]) /\ BorrowInto(x, y, j + 1) = 1
<1>1. Column(x, j) = 0 /\ Column(y, j) = y[j] /\ y[j] \in Limb
  <2>1. j \in Nat /\ j <= MaxLen /\ j > ShortLen /\ ~ (Len(x) > Len(y))
    BY Lengths DEF ShortLen
  <2> QED BY <2>1, TailColumn
<1>2. y[j] \in Int /\ 0 <= y[j] /\ y[j] <= Base - 1 /\ Base \in Nat /\ Base >= 2
  BY <1>1, LimbBounds
<1>3. ASSUME BorrowInto(x, y, j) = 0
      PROVE  /\ DifferenceLimb(x, y, j) = WrappingNeg(y[j])
             /\ BorrowInto(x, y, j + 1) = IF y[j] # 0 THEN 1 ELSE 0
  <2>1. /\ DifferenceLimb(x, y, j) = (0 - y[j] - 0) % Base
        /\ BorrowInto(x, y, j + 1) = IF 0 - y[j] - 0 < 0 THEN 1 ELSE 0
    BY <1>1, <1>3, DifferenceColumn
  <2>2. CASE y[j] = 0
    <3>1. 0 - y[j] - 0 = 0 /\ Base - y[j] = Base  BY <1>2, <2>2
    <3>2. 0 % Base = 0 /\ Base % Base = Base - Base
      <4>1. Base <= Base /\ Base < 2 * Base /\ 0 <= 0 /\ 0 < Base  BY <1>2
      <4> QED BY <1>2, <4>1, ModBase
    <3> QED BY <1>2, <2>1, <2>2, <3>1, <3>2 DEF WrappingNeg
  <2>3. CASE y[j] # 0
    <3>1. /\ 0 - y[j] - 0 \in Int /\ 0 - Base <= 0 - y[j] - 0 /\ 0 - y[j] - 0 < 0
          /\ Base - y[j] \in Int /\ 0 <= Base - y[j] /\ Base - y[j] < Base
      BY <1>2, <2>3
    <3>2. (0 - y[j] - 0) % Base = (0 - y[j] - 0) + Base /\ (Base - y[j]) % Base = Base - y[j]
      BY <3>1, ModBase
    <3>3. (0 - y[j] - 0) + Base = Base - y[j]  BY <1>2
    <3> QED BY <2>1, <2>3, <3>1, <3>2, <3>3 DEF WrappingNeg
  <2> QED BY <2>2, <2>3
<1>4. ASSUME BorrowInto(x, y, j) = 1
      PROVE  DifferenceLimb(x, y, j) = Complement(y[j]) /\ BorrowInto(x, y, j + 1) = 1
  <2>1. /\ DifferenceLimb(x, y, j) = (0 - y[j] - 1) % Base
        /\ BorrowInto(x, y, j + 1) = IF 0 - y[j] - 1 < 0 THEN 1 ELSE 0
    BY <1>1, <1>4, DifferenceColumn
  <2>2. 0 - y[j] - 1 \in Int /\ 0 - Base <= 0 - y[j] - 1 /\ 0 - y[j] - 1 < 0
    BY <1>2
  <2>3. (0 - y[j] - 1) % Base = (0 - y[j] - 1) + Base  BY <2>2, ModBase
  <2>4. (0 - y[j] - 1) + Base = Complement(y[j])  BY <1>2 DEF Complement, LimbMax
  <2> QED BY <2>1, <2>2, <2>3, <2>4
<1> QED BY <1>1, <1>3, <1>4

-----------------------------------------------------------------------------
(* How a write advances the invariant.                                     *)

LEMMA ConstantInputs ==
  ASSUME UNCHANGED inputs
  PROVE  /\ op' = op /\ inPlace' = inPlace /\ x' = x /\ y' = y
         /\ MaxLen' = MaxLen /\ ShortLen' = ShortLen /\ Long' = Long
         /\ \A j : Expected(j)' = Expected(j) /\ Into(j)' = Into(j)
BY DEF inputs, MaxLen, ShortLen, Long, Expected, Into

\* A right column written while the loop goes on.
LEMMA WroteColumn ==
  ASSUME KernelInv, pc # "done", pc' = pc, i < MaxLen, pc = "prefix" => i < ShortLen,
         NEW limb \in Limb, NEW flag \in {0, 1}, Write(limb, flag),
         limb = Expected(i + 1), flag = Into(i + 2)
  PROVE  KernelInv'
<1> USE ConstantInputs DEF Write
<1>1. i \in Nat /\ MaxLen \in Nat /\ ShortLen \in Nat /\ Len(x) \in Nat /\ i + 1 \in 1 .. MaxLen
  BY Lengths DEF KernelInv, TypeOK
<1>2. TypeOK'
  BY <1>1 DEF KernelInv, TypeOK
<1>3. Position'
  BY <1>1 DEF KernelInv, Position
<1>4. \A j \in 1 .. MaxLen : dst'[j] = IF j = i + 1 THEN limb ELSE dst[j]
  BY <1>1 DEF KernelInv, TypeOK
<1>5. Running'
  <2>1. ASSUME NEW j \in 1 .. i + 1 PROVE dst'[j] = Expected(j)
    BY <1>1, <1>4 DEF KernelInv, Running
  <2>2. carry' = Into(i' + 1)
    BY <1>1
  <2>3. ASSUME inPlace, NEW j \in i + 2 .. Len(x) PROVE dst'[j] = x[j]
    <3>1. j \in i + 1 .. Len(x) /\ j \in 1 .. MaxLen /\ j # i + 1
      BY <1>1, Lengths DEF MaxLen, KernelInv
    <3> QED BY <3>1, <1>4, <2>3 DEF KernelInv, Running
  <2>4. i' = i + 1 /\ i' + 1 = i + 2  BY <1>1
  <2> QED BY <2>1, <2>2, <2>3, <2>4 DEF Running
<1>6. Returned'
  BY DEF Returned
<1> QED BY <1>2, <1>3, <1>5, <1>6 DEF KernelInv

\* The kernel returns with every column right.
LEMMA ReturnedColumns ==
  ASSUME KernelInv, UNCHANGED inputs, pc' = "done",
         dst' \in [1 .. MaxLen -> Limb \union {Junk}], i' \in 0 .. MaxLen, carry' \in {0, 1},
         \A j \in 1 .. MaxLen : dst'[j] = Expected(j),
         carry' = Into(MaxLen + 1)
  PROVE  KernelInv'
<1> USE ConstantInputs
<1>1. TypeOK'  BY DEF KernelInv, TypeOK
<1>2. Position'  BY DEF Position
<1>3. Running'  BY DEF Running
<1>4. Returned'  BY DEF Returned
<1> QED BY <1>1, <1>2, <1>3, <1>4 DEF KernelInv

\* The rest of the tail, copied after a right column.
LEMMA CopiedRest ==
  ASSUME KernelInv, pc # "done", i < MaxLen,
         NEW limb \in Limb, NEW flag \in {0, 1}, CopyRest(limb, flag),
         limb = Expected(i + 1),
         \A j \in i + 2 .. MaxLen : Long[j] = Expected(j) /\ Long[j] \in Limb,
         flag = Into(MaxLen + 1)
  PROVE  KernelInv'
<1>1. i \in Nat /\ MaxLen \in Nat  BY Lengths DEF KernelInv, TypeOK
<1>2. ASSUME NEW j \in 1 .. MaxLen PROVE dst'[j] = Expected(j) /\ dst'[j] \in Limb \union {Junk}
  <2>1. CASE j <= i
    <3>1. dst'[j] = dst[j]  BY <1>1, <2>1 DEF CopyRest
    <3>2. dst[j] = Expected(j)  BY <1>1, <2>1 DEF KernelInv, Running
    <3>3. dst[j] \in Limb \union {Junk}  BY DEF KernelInv, TypeOK
    <3> QED BY <3>1, <3>2, <3>3
  <2>2. CASE j = i + 1
    BY <1>1, <2>2 DEF CopyRest
  <2>3. CASE j > i + 1
    <3>1. j \in i + 2 .. MaxLen  BY <1>1, <2>3
    <3> QED BY <1>1, <2>3, <3>1 DEF CopyRest
  <2> QED BY <1>1, <2>1, <2>2, <2>3
<1>3. dst' \in [1 .. MaxLen -> Limb \union {Junk}]
  BY <1>2 DEF CopyRest
<1>4. i' \in 0 .. MaxLen /\ carry' = flag /\ pc' = "done" /\ UNCHANGED inputs
  BY <1>1 DEF CopyRest
<1> QED BY <1>2, <1>3, <1>4, ReturnedColumns

\* A right column that absorbs the flag, the rest being in place already.
LEMMA WroteLast ==
  ASSUME KernelInv, pc # "done", pc' = "done", i < MaxLen, inPlace, Len(x) = MaxLen,
         NEW limb \in Limb, Write(limb, 0),
         limb = Expected(i + 1),
         \A j \in i + 2 .. MaxLen : x[j] = Expected(j),
         0 = Into(MaxLen + 1)
  PROVE  KernelInv'
<1>1. i \in Nat /\ MaxLen \in Nat  BY Lengths DEF KernelInv, TypeOK
<1>2. \A j \in 1 .. MaxLen : dst'[j] = IF j = i + 1 THEN limb ELSE dst[j]
  BY <1>1 DEF KernelInv, TypeOK, Write
<1>3. ASSUME NEW j \in 1 .. MaxLen PROVE dst'[j] = Expected(j)
  <2>1. CASE j <= i  BY <1>1, <1>2, <2>1 DEF KernelInv, Running
  <2>2. CASE j = i + 1  BY <1>2, <2>2
  <2>3. CASE j > i + 1
    <3>1. j \in i + 2 .. MaxLen /\ j \in i + 1 .. Len(x)  BY <1>1, <2>3
    <3>2. dst[j] = x[j]  BY <3>1 DEF KernelInv, Running
    <3> QED BY <1>1, <1>2, <2>3, <3>1, <3>2
  <2> QED BY <1>1, <2>1, <2>2, <2>3
<1>4. dst' \in [1 .. MaxLen -> Limb \union {Junk}]
  BY DEF KernelInv, TypeOK, Write
<1>5. i' \in 0 .. MaxLen /\ carry' = 0 /\ UNCHANGED inputs
  BY <1>1 DEF Write
<1> QED BY <1>3, <1>4, <1>5, ReturnedColumns

-----------------------------------------------------------------------------
(* The actions.                                                            *)

\* What the loops know on entry to a column.
LEMMA AtColumn ==
  ASSUME KernelInv, pc # "done", i < MaxLen
  PROVE  /\ i \in Nat /\ i + 1 \in 1 .. MaxLen /\ i + 1 \in Nat \ {0} /\ (i + 1) + 1 = i + 2
         /\ TypeOK /\ MaxLen \in Nat /\ ShortLen \in Nat
         /\ carry = Into(i + 1) /\ carry \in {0, 1}
BY Lengths DEF KernelInv, TypeOK, Running

LEMMA PrefixColumn ==
  ASSUME KernelInv, pc = "prefix", i < ShortLen
  PROVE  /\ i < MaxLen /\ Left(i + 1) = Column(x, i + 1) /\ y[i + 1] = Column(y, i + 1)
<1>1. i < MaxLen /\ i \in Nat /\ i + 1 <= Len(x) /\ i + 1 <= Len(y) /\ i + 1 \in 1 .. Len(x)
  BY Lengths DEF KernelInv, TypeOK, ShortLen
<1>2. inPlace => dst[i + 1] = x[i + 1]
  BY <1>1, Lengths DEF KernelInv, Running
<1> QED BY <1>1, <1>2 DEF Left, Column

LEMMA AddColumnStep ==
  ASSUME KernelInv, AddColumn
  PROVE  KernelInv'
<1>1. i < MaxLen /\ Left(i + 1) = Column(x, i + 1) /\ y[i + 1] = Column(y, i + 1)
  BY PrefixColumn DEF AddColumn
<1>2. /\ i + 1 \in 1 .. MaxLen /\ (i + 1) + 1 = i + 2 /\ TypeOK
      /\ carry = CarryInto(x, y, i + 1)
  BY <1>1, AtColumn DEF AddColumn, Into
<1> DEFINE sum == Left(i + 1) + y[i + 1] + carry
<1>3. sum = Column(x, i + 1) + Column(y, i + 1) + CarryInto(x, y, i + 1)
  BY <1>1, <1>2
<1>4. /\ SumLimb(x, y, i + 1) = sum % Base /\ sum % Base \in Limb
      /\ CarryInto(x, y, i + 2) = IF sum >= Base THEN 1 ELSE 0
  BY <1>2, <1>3, SumColumn
<1>5. Write(sum % Base, IF sum >= Base THEN 1 ELSE 0)
  BY DEF AddColumn
<1>6. pc # "done" /\ pc' = pc /\ i < ShortLen /\ op = "add"
  BY DEF AddColumn
<1> HIDE DEF sum
<1> QED BY <1>1, <1>4, <1>5, <1>6, WroteColumn DEF Expected, Into

LEMMA SubColumnStep ==
  ASSUME KernelInv, SubColumn
  PROVE  KernelInv'
<1>1. i < MaxLen /\ Left(i + 1) = Column(x, i + 1) /\ y[i + 1] = Column(y, i + 1)
  BY PrefixColumn DEF SubColumn
<1>2. /\ i + 1 \in 1 .. MaxLen /\ (i + 1) + 1 = i + 2 /\ TypeOK
      /\ carry = BorrowInto(x, y, i + 1)
  BY <1>1, AtColumn DEF SubColumn, Into
<1> DEFINE difference == Left(i + 1) - y[i + 1] - carry
<1>3. difference = Column(x, i + 1) - Column(y, i + 1) - BorrowInto(x, y, i + 1)
  BY <1>1, <1>2
<1>4. /\ DifferenceLimb(x, y, i + 1) = difference % Base /\ difference % Base \in Limb
      /\ BorrowInto(x, y, i + 2) = IF difference < 0 THEN 1 ELSE 0
  BY <1>2, <1>3, DifferenceColumn
<1>5. Write(difference % Base, IF difference < 0 THEN 1 ELSE 0)
  BY DEF SubColumn
<1>6. pc # "done" /\ pc' = pc /\ i < ShortLen /\ op # "add"
  BY DEF SubColumn
<1> HIDE DEF difference
<1> QED BY <1>1, <1>4, <1>5, <1>6, WroteColumn DEF Expected, Into

LEMMA EndPrefixStep ==
  ASSUME KernelInv, EndPrefix
  PROVE  KernelInv'
<1>1. i \in Nat /\ ShortLen \in Nat /\ UNCHANGED inputs /\ i >= ShortLen
  BY Lengths DEF KernelInv, TypeOK, EndPrefix
<1> USE ConstantInputs, <1>1 DEF EndPrefix
<1>2. TypeOK'  BY DEF KernelInv, TypeOK
<1>3. Position'  BY DEF Position
<1>4. Running'  BY DEF KernelInv, Running
<1>5. Returned'  BY DEF Returned
<1> QED BY <1>2, <1>3, <1>4, <1>5 DEF KernelInv

LEMMA EndTailStep ==
  ASSUME KernelInv, EndTail
  PROVE  KernelInv'
<1>1. /\ UNCHANGED inputs /\ pc' = "done" /\ dst' = dst /\ i' = i /\ carry' = carry
      /\ i = MaxLen /\ pc # "done"
  BY DEF EndTail, Finish
<1>2. \A j \in 1 .. MaxLen : dst'[j] = Expected(j)  BY <1>1 DEF KernelInv, Running
<1>3. carry' = Into(MaxLen + 1)  BY <1>1 DEF KernelInv, Running
<1>4. dst' \in [1 .. MaxLen -> Limb \union {Junk}] /\ i' \in 0 .. MaxLen /\ carry' \in {0, 1}
  BY <1>1 DEF KernelInv, TypeOK
<1> QED BY <1>1, <1>2, <1>3, <1>4, ReturnedColumns

LEMMA CopyTailWithCarryStep ==
  ASSUME KernelInv, CopyTailWithCarry
  PROVE  KernelInv'
<1>1. i < MaxLen /\ op = "add" /\ pc = "tail" /\ pc # "done"
  BY DEF CopyTailWithCarry
<1>2. /\ i \in Nat /\ i + 1 \in 1 .. MaxLen /\ i + 1 \in Nat \ {0} /\ (i + 1) + 1 = i + 2
      /\ TypeOK /\ MaxLen \in Nat /\ ShortLen \in Nat
      /\ carry = CarryInto(x, y, i + 1) /\ i + 1 > ShortLen
  BY <1>1, AtColumn DEF Into, KernelInv, Position
<1> DEFINE limb == Long[i + 1]
<1>3. limb \in Limb /\ (\A j \in i + 2 .. MaxLen : Long[j] \in Limb)
  BY <1>2, TailColumn
<1>4. CASE carry = 0 /\ CopyRest(limb, 0)
  <2>1. /\ \A k \in i + 1 .. MaxLen : SumLimb(x, y, k) = Long[k]
        /\ CarryInto(x, y, MaxLen + 1) = 0
    BY <1>2, <1>4, RestOfSum
  <2>2. limb = Expected(i + 1) /\ \A j \in i + 2 .. MaxLen : Long[j] = Expected(j)
    BY <1>1, <1>2, <2>1 DEF Expected
  <2>3. 0 = Into(MaxLen + 1)  BY <1>1, <2>1 DEF Into
  <2> HIDE DEF limb
  <2> QED BY <1>1, <1>3, <1>4, <2>2, <2>3, CopiedRest
<1>5. CASE carry = 1 /\ limb # LimbMax /\ CopyRest(limb + 1, 0)
  <2>1. SumLimb(x, y, i + 1) = limb + 1 /\ CarryInto(x, y, i + 2) = 0
    BY <1>2, <1>5, CarriedTail
  <2>2. limb + 1 \in Limb
    BY <1>3, <1>5, LimbBounds DEF Limb, LimbMax
  <2>3. /\ \A k \in i + 2 .. MaxLen : SumLimb(x, y, k) = Long[k]
        /\ CarryInto(x, y, MaxLen + 1) = 0
    <3>1. i + 2 \in Nat \ {0} /\ i + 2 > ShortLen /\ i + 2 <= MaxLen + 1  BY <1>1, <1>2
    <3> QED BY <1>2, <2>1, <3>1, RestOfSum
  <2>4. limb + 1 = Expected(i + 1) /\ \A j \in i + 2 .. MaxLen : Long[j] = Expected(j)
    BY <1>1, <1>2, <2>1, <2>3 DEF Expected
  <2>5. 0 = Into(MaxLen + 1)  BY <1>1, <2>3 DEF Into
  <2> HIDE DEF limb
  <2> QED BY <1>1, <1>3, <1>5, <2>2, <2>4, <2>5, CopiedRest
<1>6. CASE carry = 1 /\ limb = LimbMax /\ Write(0, 1) /\ UNCHANGED pc
  <2>1. SumLimb(x, y, i + 1) = 0 /\ CarryInto(x, y, i + 2) = 1
    BY <1>2, <1>6, CarriedTail
  <2>2. 0 = Expected(i + 1) /\ 1 = Into(i + 2)  BY <1>1, <2>1 DEF Expected, Into
  <2>3. 0 \in Limb  BY BaseAssumption DEF Limb
  <2> QED BY <1>1, <1>6, <2>2, <2>3, WroteColumn
<1> QED BY <1>4, <1>5, <1>6 DEF CopyTailWithCarry

LEMMA CopyTailWithBorrowStep ==
  ASSUME KernelInv, CopyTailWithBorrow
  PROVE  KernelInv'
<1>1. i < MaxLen /\ op # "add" /\ pc = "tail" /\ pc # "done" /\ Len(x) > Len(y)
  BY DEF CopyTailWithBorrow, KernelInv, TypeOK
<1>2. /\ i \in Nat /\ i + 1 \in 1 .. MaxLen /\ i + 1 \in Nat \ {0} /\ (i + 1) + 1 = i + 2
      /\ TypeOK /\ MaxLen \in Nat /\ ShortLen \in Nat
      /\ carry = BorrowInto(x, y, i + 1) /\ i + 1 > ShortLen
  BY <1>1, AtColumn DEF Into, KernelInv, Position
<1>3. i + 1 > Len(y) /\ Len(y) \in Nat  BY <1>1, <1>2, Lengths DEF ShortLen
<1> DEFINE limb == x[i + 1]
<1>4. /\ limb \in Limb /\ limb = Long[i + 1]
      /\ \A j \in i + 2 .. MaxLen : Long[j] \in Limb
  BY <1>1, <1>2, TailColumn
<1>5. CASE carry = 0 /\ CopyRest(limb, 0)
  <2>1. /\ \A k \in i + 1 .. MaxLen : DifferenceLimb(x, y, k) = Long[k]
        /\ BorrowInto(x, y, MaxLen + 1) = 0
    BY <1>1, <1>2, <1>3, <1>5, RestOfDifference
  <2>2. limb = Expected(i + 1) /\ \A j \in i + 2 .. MaxLen : Long[j] = Expected(j)
    BY <1>1, <1>2, <1>4, <2>1 DEF Expected
  <2>3. 0 = Into(MaxLen + 1)  BY <1>1, <2>1 DEF Into
  <2> HIDE DEF limb
  <2> QED BY <1>1, <1>4, <1>5, <2>2, <2>3, CopiedRest
<1>6. CASE carry = 1 /\ limb # 0 /\ CopyRest(limb - 1, 0)
  <2>1. DifferenceLimb(x, y, i + 1) = limb - 1 /\ BorrowInto(x, y, i + 2) = 0
    BY <1>1, <1>2, <1>3, <1>6, BorrowedTail
  <2>2. limb - 1 \in Limb
    BY <1>4, <1>6, LimbBounds DEF Limb
  <2>3. /\ \A k \in i + 2 .. MaxLen : DifferenceLimb(x, y, k) = Long[k]
        /\ BorrowInto(x, y, MaxLen + 1) = 0
    <3>1. i + 2 \in Nat \ {0} /\ i + 2 > Len(y) /\ i + 2 <= MaxLen + 1  BY <1>1, <1>2, <1>3
    <3> QED BY <1>1, <1>2, <2>1, <3>1, RestOfDifference
  <2>4. limb - 1 = Expected(i + 1) /\ \A j \in i + 2 .. MaxLen : Long[j] = Expected(j)
    BY <1>1, <1>2, <2>1, <2>3 DEF Expected
  <2>5. 0 = Into(MaxLen + 1)  BY <1>1, <2>3 DEF Into
  <2> HIDE DEF limb
  <2> QED BY <1>1, <1>4, <1>6, <2>2, <2>4, <2>5, CopiedRest
<1>7. CASE carry = 1 /\ limb = 0 /\ Write(LimbMax, 1) /\ UNCHANGED pc
  <2>1. DifferenceLimb(x, y, i + 1) = LimbMax /\ BorrowInto(x, y, i + 2) = 1
    BY <1>1, <1>2, <1>3, <1>7, BorrowedTail
  <2>2. LimbMax = Expected(i + 1) /\ 1 = Into(i + 2)  BY <1>1, <2>1 DEF Expected, Into
  <2>3. LimbMax \in Limb  BY BaseAssumption DEF Limb, LimbMax
  <2> QED BY <1>1, <1>7, <2>2, <2>3, WroteColumn
<1> QED BY <1>5, <1>6, <1>7 DEF CopyTailWithBorrow

LEMMA PropagateCarryStep ==
  ASSUME KernelInv, PropagateCarry
  PROVE  KernelInv'
<1>1. i < MaxLen /\ op = "add" /\ pc = "tail" /\ pc # "done" /\ inPlace
  BY DEF PropagateCarry, Copies, KernelInv, TypeOK
<1>2. /\ i \in Nat /\ i + 1 \in 1 .. MaxLen /\ i + 1 \in Nat \ {0} /\ (i + 1) + 1 = i + 2
      /\ TypeOK /\ MaxLen \in Nat /\ ShortLen \in Nat
      /\ carry = CarryInto(x, y, i + 1) /\ i + 1 > ShortLen
  BY <1>1, AtColumn DEF Into, KernelInv, Position
<1>3. Len(x) > Len(y) /\ Len(x) = MaxLen
  BY <1>1, <1>2, Lengths DEF PropagateCarry, Copies, MaxLen, ShortLen
<1>4. \A j \in i + 1 .. MaxLen : dst[j] = x[j] /\ Long[j] = x[j] /\ x[j] \in Limb
  BY <1>1, <1>2, <1>3, TailColumn DEF KernelInv, Running
<1>5. CASE carry = 0 /\ Finish
  <2>1. /\ \A k \in i + 1 .. MaxLen : SumLimb(x, y, k) = Long[k]
        /\ CarryInto(x, y, MaxLen + 1) = 0
    BY <1>2, <1>5, RestOfSum
  <2>2. ASSUME NEW j \in 1 .. MaxLen PROVE dst'[j] = Expected(j)
    <3>1. CASE j \in 1 .. i  BY <1>1, <1>5, <3>1 DEF Finish, KernelInv, Running
    <3>2. CASE j \in i + 1 .. MaxLen  BY <1>1, <1>4, <1>5, <2>1, <3>2 DEF Finish, Expected
    <3> QED BY <1>2, <3>1, <3>2
  <2>3. carry' = Into(MaxLen + 1)  BY <1>1, <1>5, <2>1 DEF Finish, Into
  <2>4. /\ dst' \in [1 .. MaxLen -> Limb \union {Junk}] /\ i' \in 0 .. MaxLen /\ carry' \in {0, 1}
        /\ UNCHANGED inputs /\ pc' = "done"
    BY <1>5 DEF KernelInv, TypeOK, Finish
  <2> QED BY <2>2, <2>3, <2>4, ReturnedColumns
<1> DEFINE sum == dst[i + 1] + 1
           flag == IF sum >= Base THEN 1 ELSE 0
<1>6. CASE /\ carry = 1 /\ Write(sum % Base, flag)
           /\ pc' = IF sum >= Base THEN "tail" ELSE "done"
  <2>1. /\ dst[i + 1] \in Limb /\ dst[i + 1] = Long[i + 1]
        /\ dst[i + 1] \in Int /\ 0 <= dst[i + 1] /\ dst[i + 1] <= Base - 1
        /\ Base \in Nat /\ Base >= 2
    BY <1>2, <1>4, LimbBounds
  <2>2. CASE sum >= Base
    <3>1. dst[i + 1] = LimbMax /\ sum = Base  BY <2>1, <2>2 DEF LimbMax
    <3>2. SumLimb(x, y, i + 1) = 0 /\ CarryInto(x, y, i + 2) = 1
      BY <1>2, <1>6, <2>1, <3>1, CarriedTail
    <3>3. sum % Base = 0
      <4>1. Base <= Base /\ Base < 2 * Base  BY <2>1
      <4>2. Base % Base = Base - Base  BY <2>1, <4>1, ModBase
      <4> QED BY <2>1, <3>1, <4>2
    <3>4. 0 = Expected(i + 1) /\ 1 = Into(i + 2)  BY <1>1, <3>2 DEF Expected, Into
    <3>5. Write(0, 1) /\ pc' = pc  BY <1>1, <1>6, <2>2, <3>3
    <3>6. 0 \in Limb  BY <2>1 DEF Limb
    <3> QED BY <1>1, <3>4, <3>5, <3>6, WroteColumn
  <2>3. CASE ~ (sum >= Base)
    <3>1. dst[i + 1] # LimbMax /\ 0 <= sum /\ sum < Base  BY <2>1, <2>3 DEF LimbMax
    <3>2. SumLimb(x, y, i + 1) = sum /\ CarryInto(x, y, i + 2) = 0
      BY <1>2, <1>6, <2>1, <3>1, CarriedTail
    <3>3. sum % Base = sum  BY <2>1, <3>1, ModBase
    <3>4. /\ \A k \in i + 2 .. MaxLen : SumLimb(x, y, k) = Long[k]
          /\ CarryInto(x, y, MaxLen + 1) = 0
      <4>1. i + 2 \in Nat \ {0} /\ i + 2 > ShortLen /\ i + 2 <= MaxLen + 1  BY <1>1, <1>2
      <4> QED BY <1>2, <3>2, <4>1, RestOfSum
    <3>5. sum = Expected(i + 1)  BY <1>1, <3>2 DEF Expected
    <3>6. \A j \in i + 2 .. MaxLen : x[j] = Expected(j)
      BY <1>1, <1>2, <1>4, <3>4 DEF Expected
    <3>7. 0 = Into(MaxLen + 1)  BY <1>1, <3>4 DEF Into
    <3>8. Write(sum, 0) /\ pc' = "done"  BY <1>6, <2>3, <3>3
    <3>9. sum \in Limb  BY <2>1, <3>1 DEF Limb
    <3> HIDE DEF sum
    <3> QED BY <1>1, <1>3, <3>5, <3>6, <3>7, <3>8, <3>9, WroteLast
  <2> QED BY <2>2, <2>3
<1> QED BY <1>5, <1>6 DEF PropagateCarry

LEMMA PropagateBorrowStep ==
  ASSUME KernelInv, PropagateBorrow
  PROVE  KernelInv'
<1>1. i < MaxLen /\ op # "add" /\ pc = "tail" /\ pc # "done" /\ inPlace /\ Len(x) > Len(y)
  BY DEF PropagateBorrow, KernelInv, TypeOK
<1>2. /\ i \in Nat /\ i + 1 \in 1 .. MaxLen /\ i + 1 \in Nat \ {0} /\ (i + 1) + 1 = i + 2
      /\ TypeOK /\ MaxLen \in Nat /\ ShortLen \in Nat
      /\ carry = BorrowInto(x, y, i + 1) /\ i + 1 > ShortLen
  BY <1>1, AtColumn DEF Into, KernelInv, Position
<1>3. i + 1 > Len(y) /\ Len(y) \in Nat /\ Len(x) = MaxLen
  BY <1>1, <1>2, Lengths DEF ShortLen, MaxLen
<1>4. \A j \in i + 1 .. MaxLen : dst[j] = x[j] /\ Long[j] = x[j] /\ x[j] \in Limb
  BY <1>1, <1>2, <1>3, TailColumn DEF KernelInv, Running
<1>5. CASE carry = 0 /\ Finish
  <2>1. /\ \A k \in i + 1 .. MaxLen : DifferenceLimb(x, y, k) = Long[k]
        /\ BorrowInto(x, y, MaxLen + 1) = 0
    BY <1>1, <1>2, <1>3, <1>5, RestOfDifference
  <2>2. ASSUME NEW j \in 1 .. MaxLen PROVE dst'[j] = Expected(j)
    <3>1. CASE j \in 1 .. i  BY <1>1, <1>5, <3>1 DEF Finish, KernelInv, Running
    <3>2. CASE j \in i + 1 .. MaxLen  BY <1>1, <1>4, <1>5, <2>1, <3>2 DEF Finish, Expected
    <3> QED BY <1>2, <3>1, <3>2
  <2>3. carry' = Into(MaxLen + 1)  BY <1>1, <1>5, <2>1 DEF Finish, Into
  <2>4. /\ dst' \in [1 .. MaxLen -> Limb \union {Junk}] /\ i' \in 0 .. MaxLen /\ carry' \in {0, 1}
        /\ UNCHANGED inputs /\ pc' = "done"
    BY <1>5 DEF KernelInv, TypeOK, Finish
  <2> QED BY <2>2, <2>3, <2>4, ReturnedColumns
<1> DEFINE difference == dst[i + 1] - 1
           flag == IF difference < 0 THEN 1 ELSE 0
<1>6. CASE /\ carry = 1 /\ Write(difference % Base, flag)
           /\ pc' = IF difference < 0 THEN "tail" ELSE "done"
  <2>1. /\ dst[i + 1] \in Limb /\ dst[i + 1] = x[i + 1]
        /\ dst[i + 1] \in Int /\ 0 <= dst[i + 1] /\ dst[i + 1] <= Base - 1
        /\ Base \in Nat /\ Base >= 2
    BY <1>2, <1>4, LimbBounds
  <2>2. CASE difference < 0
    <3>1. x[i + 1] = 0 /\ difference = 0 - 1  BY <2>1, <2>2
    <3>2. DifferenceLimb(x, y, i + 1) = LimbMax /\ BorrowInto(x, y, i + 2) = 1
      BY <1>1, <1>2, <1>3, <1>6, <3>1, BorrowedTail
    <3>3. difference % Base = LimbMax
      <4>1. 0 - Base <= 0 - 1 /\ 0 - 1 < 0 /\ 0 - 1 \in Int  BY <2>1
      <4>2. (0 - 1) % Base = (0 - 1) + Base  BY <4>1, ModBase
      <4> QED BY <2>1, <3>1, <4>2 DEF LimbMax
    <3>4. LimbMax = Expected(i + 1) /\ 1 = Into(i + 2)  BY <1>1, <3>2 DEF Expected, Into
    <3>5. Write(LimbMax, 1) /\ pc' = pc  BY <1>1, <1>6, <2>2, <3>3
    <3>6. LimbMax \in Limb  BY <2>1 DEF Limb, LimbMax
    <3> QED BY <1>1, <3>4, <3>5, <3>6, WroteColumn
  <2>3. CASE ~ (difference < 0)
    <3>1. x[i + 1] # 0 /\ 0 <= difference /\ difference < Base  BY <2>1, <2>3
    <3>2. DifferenceLimb(x, y, i + 1) = difference /\ BorrowInto(x, y, i + 2) = 0
      BY <1>1, <1>2, <1>3, <1>6, <2>1, <3>1, BorrowedTail
    <3>3. difference % Base = difference  BY <2>1, <3>1, ModBase
    <3>4. /\ \A k \in i + 2 .. MaxLen : DifferenceLimb(x, y, k) = Long[k]
          /\ BorrowInto(x, y, MaxLen + 1) = 0
      <4>1. i + 2 \in Nat \ {0} /\ i + 2 > Len(y) /\ i + 2 <= MaxLen + 1  BY <1>1, <1>2, <1>3
      <4> QED BY <1>1, <1>2, <3>2, <4>1, RestOfDifference
    <3>5. difference = Expected(i + 1)  BY <1>1, <3>2 DEF Expected
    <3>6. \A j \in i + 2 .. MaxLen : x[j] = Expected(j)
      BY <1>1, <1>2, <1>4, <3>4 DEF Expected
    <3>7. 0 = Into(MaxLen + 1)  BY <1>1, <3>4 DEF Into
    <3>8. Write(difference, 0) /\ pc' = "done"  BY <1>6, <2>3, <3>3
    <3>9. difference \in Limb  BY <2>1, <3>1 DEF Limb
    <3> HIDE DEF difference
    <3> QED BY <1>1, <1>3, <3>5, <3>6, <3>7, <3>8, <3>9, WroteLast
  <2> QED BY <2>2, <2>3
<1> QED BY <1>5, <1>6 DEF PropagateBorrow

LEMMA NegateWithBorrowStep ==
  ASSUME KernelInv, NegateWithBorrow
  PROVE  KernelInv'
<1>1. i < MaxLen /\ op # "add" /\ pc = "tail" /\ pc # "done" /\ Len(y) > Len(x) /\ pc' = pc
  BY DEF NegateWithBorrow
<1>2. /\ i \in Nat /\ i + 1 \in 1 .. MaxLen /\ (i + 1) + 1 = i + 2
      /\ TypeOK /\ ShortLen \in Nat
      /\ carry = BorrowInto(x, y, i + 1) /\ i + 1 > ShortLen
  BY <1>1, AtColumn DEF Into, KernelInv, Position
<1>3. i + 1 > Len(x)  BY <1>1, <1>2, Lengths DEF ShortLen
<1> DEFINE limb == y[i + 1]
<1>4. /\ limb \in Limb
      /\ BorrowInto(x, y, i + 1) = 0 =>
           /\ DifferenceLimb(x, y, i + 1) = WrappingNeg(limb)
           /\ BorrowInto(x, y, i + 2) = IF limb # 0 THEN 1 ELSE 0
      /\ BorrowInto(x, y, i + 1) = 1 =>
           /\ DifferenceLimb(x, y, i + 1) = Complement(limb)
           /\ BorrowInto(x, y, i + 2) = 1
  BY <1>1, <1>2, <1>3, NegatedTail
<1>5. WrappingNeg(limb) \in Limb /\ Complement(limb) \in Limb
  <2>1. limb \in Int /\ 0 <= limb /\ limb <= Base - 1 /\ Base \in Nat /\ Base >= 2
    BY <1>4, LimbBounds
  <2> QED BY <2>1, ResidueType DEF WrappingNeg, Complement, LimbMax, Limb
<1> HIDE DEF limb
<1>6. CASE carry = 0 /\ Write(WrappingNeg(limb), IF limb # 0 THEN 1 ELSE 0)
  BY <1>1, <1>2, <1>4, <1>5, <1>6, WroteColumn DEF Expected, Into
<1>7. CASE carry = 1 /\ Write(Complement(limb), 1)
  BY <1>1, <1>2, <1>4, <1>5, <1>7, WroteColumn DEF Expected, Into
<1> QED BY <1>6, <1>7 DEF NegateWithBorrow, limb

-----------------------------------------------------------------------------
(* The invariant, and what it says of the kernels.                         *)

LEMMA KernelInit == Init => KernelInv
<1> SUFFICES ASSUME Init PROVE KernelInv
  OBVIOUS
<1>1. x \in Seq(Limb) /\ y \in Seq(Limb)
  BY InputsAssumption DEF Init
<1>2. Len(x) \in Nat /\ Len(y) \in Nat /\ \A j \in 1 .. Len(x) : x[j] \in Limb
  BY <1>1, LenProperties
<1>3. MaxLen \in Nat /\ ShortLen \in Nat /\ Len(x) <= MaxLen
  BY <1>2 DEF MaxLen, ShortLen
<1>4. TypeOK
  BY <1>1, <1>2, <1>3 DEF Init, TypeOK
<1>5. Position
  BY <1>3 DEF Init, Position
<1>6. Running
  <2>1. carry = Into(i + 1)  BY NoCarryIn, NoBorrowIn DEF Init, Into
  <2>2. \A j \in 1 .. i : FALSE  BY DEF Init
  <2>3. inPlace => \A j \in i + 1 .. Len(x) : dst[j] = x[j]
    BY <1>2, <1>3 DEF Init
  <2> QED BY <2>1, <2>2, <2>3 DEF Running
<1>7. Returned
  BY DEF Init, Returned
<1> QED BY <1>4, <1>5, <1>6, <1>7 DEF KernelInv

LEMMA KernelStep == KernelInv /\ [Next]_vars => KernelInv'
<1> SUFFICES ASSUME KernelInv, [Next]_vars PROVE KernelInv'
  OBVIOUS
<1>1. CASE AddColumn  BY <1>1, AddColumnStep
<1>2. CASE SubColumn  BY <1>2, SubColumnStep
<1>3. CASE EndPrefix  BY <1>3, EndPrefixStep
<1>4. CASE CopyTailWithCarry  BY <1>4, CopyTailWithCarryStep
<1>5. CASE PropagateCarry  BY <1>5, PropagateCarryStep
<1>6. CASE CopyTailWithBorrow  BY <1>6, CopyTailWithBorrowStep
<1>7. CASE PropagateBorrow  BY <1>7, PropagateBorrowStep
<1>8. CASE NegateWithBorrow  BY <1>8, NegateWithBorrowStep
<1>9. CASE EndTail  BY <1>9, EndTailStep
<1>10. CASE UNCHANGED vars
  <2>1. UNCHANGED inputs /\ dst' = dst /\ i' = i /\ carry' = carry /\ pc' = pc
    BY <1>10 DEF vars, inputs
  <2> QED BY <2>1, ConstantInputs DEF KernelInv, TypeOK, Position, Running, Returned
<1> QED BY <1>1, <1>2, <1>3, <1>4, <1>5, <1>6, <1>7, <1>8, <1>9, <1>10 DEF Next

THEOREM KernelInvariant == Spec => []KernelInv
BY KernelInit, KernelStep, PTL DEF Spec

\* Every variable keeps its type, the flag staying binary.
THEOREM KernelsTypeCorrect == Spec => []TypeOK
BY KernelInvariant, PTL DEF KernelInv

LEMMA KernelReturns == KernelInv => KernelsYieldColumns
<1> SUFFICES ASSUME KernelInv, pc = "done"
             PROVE  /\ op = "add" => /\ dst = SumLimbs(x, y, MaxLen)
                                     /\ carry = CarryOut(x, y, MaxLen)
                    /\ op = "sub" => /\ dst = DifferenceLimbs(x, y, MaxLen)
                                     /\ carry = BorrowOut(x, y, MaxLen)
  BY DEF KernelsYieldColumns
<1>1. dst = [j \in 1 .. MaxLen |-> dst[j]]
  BY DEF KernelInv, TypeOK
<1>2. \A j \in 1 .. MaxLen : dst[j] = Expected(j)
  BY DEF KernelInv, Returned
<1>3. carry = Into(MaxLen + 1)
  BY DEF KernelInv, Returned
<1>4. ASSUME op = "add"
      PROVE  dst = SumLimbs(x, y, MaxLen) /\ carry = CarryOut(x, y, MaxLen)
  BY <1>1, <1>2, <1>3, <1>4 DEF Expected, Into, SumLimbs, CarryOut
<1>5. ASSUME op = "sub"
      PROVE  dst = DifferenceLimbs(x, y, MaxLen) /\ carry = BorrowOut(x, y, MaxLen)
  BY <1>1, <1>2, <1>3, <1>5 DEF Expected, Into, DifferenceLimbs, BorrowOut
<1> QED BY <1>4, <1>5

-----------------------------------------------------------------------------
(* The operators of Limbs, as CarryChains has them.                        *)

LEMMA SameLimbs ==
  /\ Chains!Limb = Limb
  /\ Chains!LimbMax = LimbMax
  /\ \A a : Chains!Complement(a) = Complement(a)
  /\ \A s, n : Chains!Column(s, n) = Column(s, n)
<1> QED BY Zenon DEF Chains!Limb, Limb, Chains!LimbMax, LimbMax, Chains!Complement, Complement,
                     Chains!Column, Column

LEMMA SameColumns ==
  /\ \A s, t, n : Chains!CarryInto(s, t, n) = CarryInto(s, t, n)
  /\ \A s, t, n : Chains!CarryOut(s, t, n) = CarryOut(s, t, n)
  /\ \A s, t, n : Chains!SumLimb(s, t, n) = SumLimb(s, t, n)
  /\ \A s, t, n : Chains!BorrowInto(s, t, n) = BorrowInto(s, t, n)
  /\ \A s, t, n : Chains!BorrowOut(s, t, n) = BorrowOut(s, t, n)
  /\ \A s, t, n : Chains!DifferenceLimb(s, t, n) = DifferenceLimb(s, t, n)
<1>1. ASSUME NEW s, NEW t, NEW n
      PROVE  /\ Chains!CarryInto(s, t, n) = CarryInto(s, t, n)
             /\ Chains!BorrowInto(s, t, n) = BorrowInto(s, t, n)
  BY Zenon DEF Chains!CarryInto, CarryInto, Chains!Generates, Generates, Chains!Propagates, Propagates,
               Chains!BorrowInto, BorrowInto, Chains!Column, Column
<1> QED BY <1>1, SameLimbs, Zenon
        DEF Chains!CarryOut, CarryOut, Chains!SumLimb, SumLimb, Chains!BorrowOut, BorrowOut,
            Chains!DifferenceLimb, DifferenceLimb

LEMMA SameSchedules ==
  /\ Chains!OneByOne = OneByOne /\ Chains!TwoThenOne = TwoThenOne
  /\ Chains!FourThenOne = FourThenOne /\ Chains!FourBeforeEight = FourBeforeEight
  /\ Chains!Halving = Halving
  /\ \A p, tested, len : Chains!Schedule(p, tested, len) = Schedule(p, tested, len)
<1>1. \A s : Chains!FlattenSeq(s) = FlattenSeq(s)
  BY Zenon DEF Chains!FlattenSeq, FlattenSeq
<1>2. ASSUME NEW p, NEW len
      PROVE  /\ Chains!Size(p, len) = Size(p, len)
             /\ Chains!Rounds(p, len) = Rounds(p, len)
  BY Zenon DEF Chains!Rounds, Rounds, Chains!Size, Size, Chains!Share, Share
<1>3. ASSUME NEW phases, NEW tested, NEW len
      PROVE  Chains!Schedule(phases, tested, len) = Schedule(phases, tested, len)
  BY <1>1, <1>2 DEF Chains!Schedule, Schedule
<1>4. \A a, b : Chains!Phase(a, b) = Phase(a, b)
  BY DEF Chains!Phase, Phase
<1> QED BY <1>3, <1>4 DEF Chains!OneByOne, OneByOne, Chains!TwoThenOne, TwoThenOne,
                          Chains!FourThenOne, FourThenOne, Chains!FourBeforeEight,
                          FourBeforeEight, Chains!Halving, Halving

-----------------------------------------------------------------------------
(* What the kernels have in common.                                        *)

Keeping == {Chains!Flag, Chains!SavedFlag, Chains!NoBorrowFlag, Chains!SavedNoBorrowFlag, Chains!Word}

KeepsChain(k) ==
  /\ k.op \in {"add", "sub"}
  /\ k.inPlace \in BOOLEAN
  /\ k.chain \in Keeping
  /\ k.op = "add" => k.chain \in {Chains!Flag, Chains!SavedFlag, Chains!Word}

Loops(k) ==
  /\ k.phases \in Shapes
  /\ k.tested \in BOOLEAN
  /\ k.straight \subseteq Nat
  /\ ~k.tested => 0 .. 4 \subseteq k.straight /\ k.phases \in {FourThenOne, TwoThenOne}

IsBinary(k) == KeepsChain(k) /\ Loops(k) /\ k.unary = FALSE /\ k.lead = FALSE /\ k.exits = FALSE

IsUnary(k) ==
  /\ KeepsChain(k)
  /\ Loops(k)
  /\ k.unary = TRUE
  /\ k.inPlace = TRUE
  /\ k.tested = TRUE
  /\ k.straight = {}
  /\ k.chain.saved = FALSE
  /\ k.exits = k.lead
  /\ k.lead \in BOOLEAN

LEMMA KeepingShape ==
  /\ Chains!Flag \in Keeping /\ Chains!SavedFlag \in Keeping /\ Chains!NoBorrowFlag \in Keeping
  /\ Chains!SavedNoBorrowFlag \in Keeping /\ Chains!Word \in Keeping
  /\ OneByOne \in Shapes /\ TwoThenOne \in Shapes /\ FourThenOne \in Shapes
  /\ FourBeforeEight \in Shapes /\ Halving \in Shapes
BY DEF Keeping, Shapes

LEMMA KeepingFields ==
  /\ Chains!Flag.kept = "flag" /\ Chains!SavedFlag.kept = "flag" /\ Chains!Word.kept = "word"
  /\ Chains!NoBorrowFlag.kept = "no borrow" /\ Chains!SavedNoBorrowFlag.kept = "no borrow"
  /\ Chains!Flag.saved = FALSE /\ Chains!NoBorrowFlag.saved = FALSE /\ Chains!Word.saved = FALSE
  /\ Chains!SavedFlag.saved = TRUE /\ Chains!SavedNoBorrowFlag.saved = TRUE
BY DEF Chains!Flag, Chains!SavedFlag, Chains!NoBorrowFlag, Chains!SavedNoBorrowFlag, Chains!Word

LEMMA KernelShape ==
  ASSUME NEW oper \in {"add", "sub"}, NEW place \in BOOLEAN, NEW straight \in SUBSET (0 .. 4),
         NEW tested \in BOOLEAN, NEW phases \in Shapes, NEW c \in Keeping,
         oper = "add" => c \in {Chains!Flag, Chains!SavedFlag, Chains!Word},
         ~tested => straight = 0 .. 4 /\ phases \in {FourThenOne, TwoThenOne}
  PROVE  IsBinary(Chains!Kernel(oper, place, straight, tested, phases, c))
BY DEF IsBinary, KeepsChain, Loops, Chains!Kernel

LEMMA AddShape ==
  ASSUME NEW straight \in SUBSET (0 .. 4), NEW tested \in BOOLEAN, NEW phases \in Shapes,
         NEW c \in {Chains!Flag, Chains!SavedFlag, Chains!Word},
         ~tested => straight = 0 .. 4 /\ phases \in {FourThenOne, TwoThenOne}
  PROVE  IsBinary(Chains!Into(straight, tested, phases, c)) /\ IsBinary(Chains!Onto(straight, tested, phases, c))
BY KernelShape, KeepingShape DEF Chains!Into, Chains!Onto

LEMMA SubShape ==
  ASSUME NEW straight \in SUBSET (0 .. 4), NEW phases \in Shapes, NEW c \in Keeping
  PROVE  IsBinary(Chains!Minus(straight, phases, c)) /\ IsBinary(Chains!MinusOnto(straight, phases, c))
BY KernelShape DEF Chains!Minus, Chains!MinusOnto

LEMMA PropagatingShape ==
  ASSUME NEW oper \in {"add", "sub"}, NEW lead \in BOOLEAN, NEW phases \in Shapes,
         NEW c \in {Chains!Flag, Chains!NoBorrowFlag}, oper = "add" => c = Chains!Flag
  PROVE  IsUnary(Chains!Propagating(oper, lead, lead, phases, c))
<1>1. c \in Keeping
  BY DEF Keeping
<1>2. c.saved = FALSE
  BY KeepingFields
<1>3. oper = "add" => c \in {Chains!Flag, Chains!SavedFlag, Chains!Word}
  OBVIOUS
<1> QED BY <1>1, <1>2, <1>3 DEF Chains!Propagating, IsUnary, KeepsChain, Loops

LEMMA UnaryShape == \A k \in Chains!Unary : IsUnary(k)
<1> USE DEF Chains!CarryOver_X86_64, Chains!CarryOver_AArch64, Chains!CarryOver_S390x,
            Chains!BorrowOver_X86_64, Chains!BorrowOver_AArch64, Chains!BorrowOver_S390x
<1>1. /\ IsUnary(Chains!CarryOver_X86_64) /\ IsUnary(Chains!CarryOver_AArch64) /\ IsUnary(Chains!CarryOver_S390x)
      /\ IsUnary(Chains!BorrowOver_X86_64) /\ IsUnary(Chains!BorrowOver_AArch64) /\ IsUnary(Chains!BorrowOver_S390x)
  BY KeepingShape, PropagatingShape, SameSchedules
<1> QED BY <1>1 DEF Chains!Unary

\* Every kernel of two spans is of one of these forms.
LEMMA BinaryShape == \A k \in Chains!Binary : IsBinary(k)
<1>1. /\ {} \in SUBSET (0 .. 4) /\ {1} \in SUBSET (0 .. 4) /\ 1 .. 4 \in SUBSET (0 .. 4)
      /\ 2 .. 4 \in SUBSET (0 .. 4) /\ 0 .. 4 \in SUBSET (0 .. 4)
      /\ TRUE \in BOOLEAN /\ FALSE \in BOOLEAN
  OBVIOUS
<1>2. \A s \in SUBSET (0 .. 4), p \in Shapes, c \in {Chains!Flag, Chains!SavedFlag, Chains!Word} :
        IsBinary(Chains!Into(s, TRUE, p, c)) /\ IsBinary(Chains!Onto(s, TRUE, p, c))
  BY <1>1, AddShape
<1>3. \A p \in {FourThenOne, TwoThenOne}, c \in {Chains!Flag, Chains!SavedFlag, Chains!Word} :
        IsBinary(Chains!Into(0 .. 4, FALSE, p, c)) /\ IsBinary(Chains!Onto(0 .. 4, FALSE, p, c))
  BY <1>1, KeepingShape, AddShape
<1>4. \A s \in SUBSET (0 .. 4), p \in Shapes, c \in Keeping :
        IsBinary(Chains!Minus(s, p, c)) /\ IsBinary(Chains!MinusOnto(s, p, c))
  BY SubShape
<1>5. /\ IsBinary(Chains!AddInto_X86) /\ IsBinary(Chains!AddInto_X86_64) /\ IsBinary(Chains!AddInto_AArch64)
      /\ IsBinary(Chains!AddInto_Arm) /\ IsBinary(Chains!AddInto_PowerPC) /\ IsBinary(Chains!AddInto_PowerPC64)
      /\ IsBinary(Chains!AddInto_S390x) /\ IsBinary(Chains!AddInto_RiscV32) /\ IsBinary(Chains!AddInto_RiscV64)
      /\ IsBinary(Chains!AddInto_LoongArch32) /\ IsBinary(Chains!AddInto_LoongArch64) /\ IsBinary(Chains!AddInto_Mips)
      /\ IsBinary(Chains!AddInto_Mips64)
  BY <1>1, <1>2, <1>3, <1>4, KeepingShape, SameSchedules
  DEF Chains!AddInto_X86, Chains!AddInto_X86_64, Chains!AddInto_AArch64, Chains!AddInto_Arm,
      Chains!AddInto_PowerPC, Chains!AddInto_PowerPC64, Chains!AddInto_S390x, Chains!AddInto_RiscV32,
      Chains!AddInto_RiscV64, Chains!AddInto_LoongArch32, Chains!AddInto_LoongArch64, Chains!AddInto_Mips,
      Chains!AddInto_Mips64
<1>6. /\ IsBinary(Chains!AddOnto_X86) /\ IsBinary(Chains!AddOnto_X86_64) /\ IsBinary(Chains!AddOnto_AArch64)
      /\ IsBinary(Chains!AddOnto_Arm) /\ IsBinary(Chains!AddOnto_PowerPC) /\ IsBinary(Chains!AddOnto_PowerPC64)
      /\ IsBinary(Chains!AddOnto_S390x) /\ IsBinary(Chains!AddOnto_RiscV32) /\ IsBinary(Chains!AddOnto_RiscV64)
      /\ IsBinary(Chains!AddOnto_LoongArch32) /\ IsBinary(Chains!AddOnto_LoongArch64) /\ IsBinary(Chains!AddOnto_Mips)
      /\ IsBinary(Chains!AddOnto_Mips64)
  BY <1>1, <1>2, <1>3, <1>4, KeepingShape, SameSchedules
  DEF Chains!AddOnto_X86, Chains!AddOnto_X86_64, Chains!AddOnto_AArch64, Chains!AddOnto_Arm,
      Chains!AddOnto_PowerPC, Chains!AddOnto_PowerPC64, Chains!AddOnto_S390x, Chains!AddOnto_RiscV32,
      Chains!AddOnto_RiscV64, Chains!AddOnto_LoongArch32, Chains!AddOnto_LoongArch64, Chains!AddOnto_Mips,
      Chains!AddOnto_Mips64
<1>7. /\ IsBinary(Chains!SubInto_X86) /\ IsBinary(Chains!SubInto_X86_64) /\ IsBinary(Chains!SubInto_AArch64)
      /\ IsBinary(Chains!SubInto_Arm) /\ IsBinary(Chains!SubInto_PowerPC) /\ IsBinary(Chains!SubInto_PowerPC64)
      /\ IsBinary(Chains!SubInto_S390x) /\ IsBinary(Chains!SubInto_RiscV32) /\ IsBinary(Chains!SubInto_RiscV64)
      /\ IsBinary(Chains!SubInto_LoongArch32) /\ IsBinary(Chains!SubInto_LoongArch64) /\ IsBinary(Chains!SubInto_Mips)
      /\ IsBinary(Chains!SubInto_Mips64)
  BY <1>1, <1>2, <1>3, <1>4, KeepingShape, SameSchedules
  DEF Chains!SubInto_X86, Chains!SubInto_X86_64, Chains!SubInto_AArch64, Chains!SubInto_Arm,
      Chains!SubInto_PowerPC, Chains!SubInto_PowerPC64, Chains!SubInto_S390x, Chains!SubInto_RiscV32,
      Chains!SubInto_RiscV64, Chains!SubInto_LoongArch32, Chains!SubInto_LoongArch64, Chains!SubInto_Mips,
      Chains!SubInto_Mips64
<1>8. /\ IsBinary(Chains!SubOnto_X86) /\ IsBinary(Chains!SubOnto_X86_64) /\ IsBinary(Chains!SubOnto_AArch64)
      /\ IsBinary(Chains!SubOnto_Arm) /\ IsBinary(Chains!SubOnto_PowerPC) /\ IsBinary(Chains!SubOnto_PowerPC64)
      /\ IsBinary(Chains!SubOnto_S390x) /\ IsBinary(Chains!SubOnto_RiscV32) /\ IsBinary(Chains!SubOnto_RiscV64)
      /\ IsBinary(Chains!SubOnto_LoongArch32) /\ IsBinary(Chains!SubOnto_LoongArch64) /\ IsBinary(Chains!SubOnto_Mips)
      /\ IsBinary(Chains!SubOnto_Mips64)
  BY <1>1, <1>2, <1>3, <1>4, KeepingShape, SameSchedules
  DEF Chains!SubOnto_X86, Chains!SubOnto_X86_64, Chains!SubOnto_AArch64, Chains!SubOnto_Arm,
      Chains!SubOnto_PowerPC, Chains!SubOnto_PowerPC64, Chains!SubOnto_S390x, Chains!SubOnto_RiscV32,
      Chains!SubOnto_RiscV64, Chains!SubOnto_LoongArch32, Chains!SubOnto_LoongArch64, Chains!SubOnto_Mips,
      Chains!SubOnto_Mips64
<1> QED BY <1>5, <1>6, <1>7, <1>8 DEF Chains!Binary

-----------------------------------------------------------------------------
(* One column.                                                             *)

LEMMA ChainModBase ==
  /\ \A a \in Int : 0 <= a /\ a < Base => a % Base = a /\ a \div Base = 0
  /\ \A a \in Int : Base <= a /\ a < 2 * Base => a % Base = a - Base /\ a \div Base = 1
  /\ \A a \in Int : 0 - Base <= a /\ a < 0 => a % Base = a + Base
<1>1. Base \in Nat \ {0}
  BY BaseAssumption
<1>2. ASSUME NEW a \in Int, 0 <= a, a < Base PROVE a % Base = a /\ a \div Base = 0
  BY <1>1, <1>2, DivisionUnique
<1>3. ASSUME NEW a \in Int, Base <= a, a < 2 * Base
      PROVE  a % Base = a - Base /\ a \div Base = 1
  <2>1. a - Base \in 0 .. Base - 1 /\ a = 1 * Base + (a - Base)
    BY <1>1, <1>3
  <2> QED BY <1>1, <2>1, DivisionUnique
<1>4. ASSUME NEW a \in Int, 0 - Base <= a, a < 0 PROVE a % Base = a + Base
  <2>1. a + Base \in 0 .. Base - 1 /\ a = (0 - 1) * Base + (a + Base)
    BY <1>1, <1>4
  <2> QED BY <1>1, <2>1, DivisionUnique
<1> QED BY <1>2, <1>3, <1>4

Bit(p) == IF p THEN 1 ELSE 0

\* However the carry is kept, a column of an addition leaves the limb and the
\* carry of the sum.
LEMMA ChainAddColumn ==
  ASSUME NEW k, KeepsChain(k), k.op = "add",
         NEW a \in Limb, NEW b \in Limb, NEW c \in {0, 1}
  PROVE  Chains!ColumnStep(k, a, b, Chains!Seed(k, c))
           = [limb |-> (a + b + c) % Base, chain |-> Chains!Seed(k, Bit(a + b + c >= Base))]
<1>1. /\ a \in Int /\ b \in Int /\ c \in Int /\ 0 <= a /\ 0 <= b /\ 0 <= c /\ c <= 1
      /\ a <= Base - 1 /\ b <= Base - 1 /\ Base \in Int /\ Base >= 2
  BY LimbBounds
<1>2. k.chain \in {Chains!Flag, Chains!SavedFlag, Chains!Word}
  BY DEF KeepsChain
<1>3. k.chain.kept \in {"flag", "word"} /\ \A d : Chains!Seed(k, d) = d
  BY <1>2, KeepingFields DEF Chains!Seed
<1>4. CASE k.chain.kept = "word"
  <2> DEFINE sum == (a + b) % Base
             limb == (sum + c) % Base
  <2>1. Chains!ColumnStep(k, a, b, c) = [limb |-> limb, chain |-> Bit(sum < a \/ limb < c)]
    BY <1>4 DEF Chains!ColumnStep, Bit
  <2>2. sum = IF a + b < Base THEN a + b ELSE a + b - Base
    BY <1>1, ChainModBase
  <2> HIDE DEF sum
  <2>3. limb = IF sum + c < Base THEN sum + c ELSE sum + c - Base
    BY <1>1, <2>2, ChainModBase
  <2>4. (a + b + c) % Base = IF a + b + c < Base THEN a + b + c ELSE a + b + c - Base
    BY <1>1, ChainModBase
  <2> HIDE DEF limb
  <2>5. limb = (a + b + c) % Base
    BY <1>1, <2>2, <2>3, <2>4
  <2>6. (sum < a \/ limb < c) <=> a + b + c >= Base
    BY <1>1, <2>2, <2>3
  <2> QED BY <1>3, <2>1, <2>5, <2>6
<1>5. CASE k.chain.kept = "flag"
  <2>1. Chains!ColumnStep(k, a, b, c) = [limb |-> (a + b + c) % Base, chain |-> (a + b + c) \div Base]
    BY <1>5 DEF Chains!ColumnStep
  <2>2. (a + b + c) \div Base = Bit(a + b + c >= Base)
    BY <1>1, ChainModBase DEF Bit
  <2> QED BY <1>3, <2>1, <2>2
<1> QED BY <1>3, <1>4, <1>5

\* ... and a column of a subtraction the limb and the borrow of the difference.
LEMMA ChainSubColumn ==
  ASSUME NEW k, KeepsChain(k), k.op = "sub",
         NEW a \in Limb, NEW b \in Limb, NEW c \in {0, 1}
  PROVE  Chains!ColumnStep(k, a, b, Chains!Seed(k, c))
           = [limb |-> (a - b - c) % Base, chain |-> Chains!Seed(k, Bit(a - b - c < 0))]
<1>1. /\ a \in Int /\ b \in Int /\ c \in Int /\ 0 <= a /\ 0 <= b /\ 0 <= c /\ c <= 1
      /\ a <= Base - 1 /\ b <= Base - 1 /\ Base \in Int /\ Base >= 2
  BY LimbBounds
<1>2. k.chain \in Keeping
  BY DEF KeepsChain
<1>3. k.chain.kept \in {"flag", "word", "no borrow"}
  BY <1>2, KeepingFields DEF Keeping
<1>4. (a - b - c) % Base = IF a - b - c < 0 THEN a - b - c + Base ELSE a - b - c
  BY <1>1, ChainModBase
<1>5. CASE k.chain.kept = "word"
  <2> DEFINE difference == (a - b) % Base
             limb == (difference - c) % Base
  <2>0. \A d : Chains!Seed(k, d) = d
    BY <1>5 DEF Chains!Seed
  <2>1. Chains!ColumnStep(k, a, b, c) = [limb |-> limb, chain |-> Bit(a < b \/ difference < c)]
    BY <1>5 DEF Chains!ColumnStep, Bit
  <2>2. difference = IF a - b < 0 THEN a - b + Base ELSE a - b
    BY <1>1, ChainModBase
  <2> HIDE DEF difference
  <2>3. limb = IF difference - c < 0 THEN difference - c + Base ELSE difference - c
    BY <1>1, <2>2, ChainModBase
  <2> HIDE DEF limb
  <2>4. limb = (a - b - c) % Base
    BY <1>1, <1>4, <2>2, <2>3
  <2>5. (a < b \/ difference < c) <=> a - b - c < 0
    BY <1>1, <2>2
  <2> QED BY <2>0, <2>1, <2>4, <2>5
<1>6. CASE k.chain.kept = "flag"
  <2>0. \A d : Chains!Seed(k, d) = d
    BY <1>6 DEF Chains!Seed
  <2>1. Chains!ColumnStep(k, a, b, c) = [limb |-> (a - b - c) % Base, chain |-> Bit(a < b + c)]
    BY <1>6 DEF Chains!ColumnStep, Bit
  <2>2. a < b + c <=> a - b - c < 0
    BY <1>1
  <2> QED BY <2>0, <2>1, <2>2
<1>7. CASE k.chain.kept = "no borrow"
  <2>0. \A d : Chains!Seed(k, d) = 1 - d
    BY <1>7 DEF Chains!Seed
  <2> DEFINE total == a + (Base - 1 - b) + (1 - c)
  <2>1. Chains!ColumnStep(k, a, b, 1 - c) = [limb |-> total % Base, chain |-> total \div Base]
    BY <1>7, SameLimbs DEF Chains!ColumnStep, Complement, LimbMax
  <2>2. total = a - b - c + Base
    BY <1>1
  <2> HIDE DEF total
  <2>3. total % Base = (a - b - c) % Base
    BY <1>1, <1>4, <2>2, ChainModBase
  <2>4. total \div Base = 1 - Bit(a - b - c < 0)
    BY <1>1, <2>2, ChainModBase DEF Bit
  <2> QED BY <2>0, <2>1, <2>3, <2>4
<1> QED BY <1>3, <1>5, <1>6, <1>7

-----------------------------------------------------------------------------
(* The columns of a call.                                                  *)

Called ==
  /\ x \in Seq(Limb)
  /\ carryIn \in {0, 1}
  /\ \/ kernel \in Chains!Binary /\ y \in Seq(Limb) /\ Len(y) = Len(x) /\ carryIn = 0
     \/ kernel \in Chains!Unary /\ y = <<>>

\* The destination when the first n columns are done.
Known(n) ==
  [col \in 1 .. Len(x) |-> IF col <= n THEN Chains!Limb_(col) ELSE IF kernel.inPlace THEN x[col] ELSE Junk]

LEMMA CallFacts ==
  ASSUME Called
  PROVE  /\ KeepsChain(kernel) /\ Loops(kernel)
         /\ kernel.unary \in BOOLEAN /\ kernel.lead \in BOOLEAN
         /\ Len(x) \in Nat /\ x \in Seq(Limb) /\ Chains!Addend \in Seq(Limb)
         /\ carryIn \in {0, 1}
         /\ \A col \in 1 .. Len(x) : x[col] \in Limb /\ Column(x, col) = x[col]
         /\ kernel.exits = kernel.lead
         /\ ~kernel.unary => /\ kernel.lead = FALSE /\ carryIn = 0
                             /\ y \in Seq(Limb) /\ Chains!Addend = y
         /\ kernel.unary => /\ kernel.inPlace = TRUE /\ kernel.tested = TRUE
                            /\ kernel.straight = {} /\ kernel.chain.saved = FALSE
                            /\ y = <<>> /\ Chains!Addend = <<carryIn>>
<1>1. IsBinary(kernel) \/ IsUnary(kernel)
  BY BinaryShape, UnaryShape DEF Called
<1>2. /\ x \in Seq(Limb) /\ carryIn \in {0, 1} /\ Len(x) \in Nat
      /\ \A col \in 1 .. Len(x) : x[col] \in Limb
  BY LenProperties DEF Called
<1>3. \A col \in 1 .. Len(x) : Column(x, col) = x[col]
  BY <1>2 DEF Column
<1>4. 0 \in Limb /\ 1 \in Limb
  BY BaseAssumption DEF Limb
<1>5. CASE kernel \in Chains!Binary
  <2>1. IsBinary(kernel)
    BY <1>5, BinaryShape
  <2>2. kernel \notin Chains!Unary
    BY <2>1, UnaryShape DEF IsBinary, IsUnary
  <2>3. y \in Seq(Limb) /\ carryIn = 0
    BY <2>2 DEF Called
  <2> QED BY <1>2, <1>3, <2>1, <2>3 DEF IsBinary, Chains!Addend
<1>6. CASE kernel \in Chains!Unary
  <2>1. IsUnary(kernel)
    BY <1>6, UnaryShape
  <2>2. kernel \notin Chains!Binary
    BY <2>1, BinaryShape DEF IsBinary, IsUnary
  <2>3. y = <<>>
    BY <2>2 DEF Called
  <2>4. Chains!Addend = <<carryIn>>
    BY <2>1 DEF IsUnary, Chains!Addend
  <2>5. <<carryIn>> \in Seq(Limb)
    BY <1>2, <1>4
  <2> QED BY <1>2, <1>3, <2>1, <2>3, <2>4, <2>5 DEF IsUnary
<1> QED BY <1>5, <1>6 DEF Called

LEMMA CarryRange == ASSUME Called, NEW n \in Nat PROVE Chains!CarryAfter(n) \in {0, 1}
BY CarryType, BorrowType, SameColumns DEF Chains!CarryAfter, CarryOut, BorrowOut, Called

\* The operand of a column and the carry into it, as the kernel sees them and
\* as the sum and the difference do.
LEMMA SameAddends ==
  ASSUME Called, NEW col \in Nat \ {0}
  PROVE  Column(y, col) + Chains!CarryAfter(col - 1)
           = Column(Chains!Addend, col)
               + (IF kernel.op = "add" THEN CarryInto(x, Chains!Addend, col) ELSE BorrowInto(x, Chains!Addend, col))
<1>1. CarryInto(x, Chains!Addend, 1) = 0 /\ BorrowInto(x, Chains!Addend, 1) = 0
  BY NoCarryIn, NoBorrowIn
<1>2. (col - 1) + 1 = col /\ col - 1 \in Nat
  OBVIOUS
<1>3. col # 1 => Chains!CarryAfter(col - 1)
                 = IF kernel.op = "add" THEN CarryInto(x, Chains!Addend, col) ELSE BorrowInto(x, Chains!Addend, col)
  BY <1>2, SameColumns DEF Chains!CarryAfter, CarryOut, BorrowOut
<1>4. col = 1 => Chains!CarryAfter(col - 1) = carryIn
  BY DEF Chains!CarryAfter
<1>5. CASE ~kernel.unary
  <2>1. Chains!Addend = y /\ carryIn = 0
    BY <1>5, CallFacts
  <2>2. y \in Seq(Limb)
    BY <1>5, CallFacts
  <2>3. Column(y, col) \in Limb
    BY <2>2, ColumnType
  <2>4. CASE col = 1
    BY <1>1, <1>4, <2>1, <2>4
  <2>5. CASE col # 1
    BY <1>3, <2>1, <2>5
  <2> QED BY <2>4, <2>5
<1>6. CASE kernel.unary
  <2>1. y = <<>> /\ Chains!Addend = <<carryIn>> /\ carryIn \in {0, 1}
    BY <1>6, CallFacts
  <2>2. Column(y, col) = 0
    BY <2>1 DEF Column
  <2>3. CASE col = 1
    <3>1. Column(Chains!Addend, col) = carryIn
      BY <2>1, <2>3 DEF Column
    <3> QED BY <1>1, <1>4, <2>1, <2>2, <2>3, <3>1
  <2>4. CASE col # 1
    <3>1. Column(Chains!Addend, col) = 0
      BY <2>1, <2>4 DEF Column
    <3> QED BY <1>3, <2>2, <2>4, <3>1
  <2> QED BY <2>3, <2>4
<1>7. kernel.unary \in BOOLEAN
  BY CallFacts
<1> QED BY <1>5, <1>6

LEMMA ColumnFollows ==
  ASSUME Called, NEW col \in 1 .. Len(x)
  PROVE  Chains!ColumnStep(kernel, x[col], Column(y, col), Chains!Seed(kernel, Chains!CarryAfter(col - 1)))
           = [limb |-> Chains!Limb_(col), chain |-> Chains!Seed(kernel, Chains!CarryAfter(col))]
<1> DEFINE a == x[col]
           b == Column(y, col)
           c == Chains!CarryAfter(col - 1)
           B == Column(Chains!Addend, col)
           C == IF kernel.op = "add" THEN CarryInto(x, Chains!Addend, col) ELSE BorrowInto(x, Chains!Addend, col)
<1>1. col \in Nat \ {0} /\ col - 1 \in Nat /\ col \in Nat /\ col # 0
  BY CallFacts
<1>2. a \in Limb /\ Column(x, col) = a
  BY CallFacts
<1>3. b \in Limb
  <2>1. CASE kernel.unary
    <3>1. b = 0
      BY <2>1, CallFacts DEF Column
    <3> QED BY <3>1, BaseAssumption DEF Limb
  <2>2. CASE ~kernel.unary
    <3>1. y \in Seq(Limb)
      BY <2>2, CallFacts
    <3> QED BY <1>1, <3>1, ColumnType
  <2> QED BY <2>1, <2>2
<1>4. c \in {0, 1}
  BY <1>1, CarryRange
<1>5. B \in Limb
  <2>1. Chains!Addend \in Seq(Limb)
    BY CallFacts
  <2> QED BY <1>1, <2>1, ColumnType
<1>6. C \in {0, 1}
  BY CarryType, BorrowType
<1>7. b + c = B + C
  BY <1>1, SameAddends
<1>8. x \in Seq(Limb) /\ Chains!Addend \in Seq(Limb)
  BY CallFacts
<1>9. KeepsChain(kernel)
  BY CallFacts
<1> HIDE DEF a, b, c, B, C
<1>12. a \in Int /\ b \in Int /\ B \in Int
  BY <1>2, <1>3, <1>5, LimbBounds
<1>13. c \in Int /\ C \in Int
  BY <1>4, <1>6
<1>14. a + b + c = a + B + C /\ a - b - c = a - B - C
  BY <1>7, <1>12, <1>13
<1> USE DEF a, b, c, B, C
<1>10. CASE kernel.op = "add"
  <2>1. Chains!Limb_(col) = (a + B + C) % Base
    BY <1>2, <1>10, SameColumns DEF Chains!Limb_, SumLimb
  <2>2. Chains!CarryAfter(col) = Bit(a + B + C >= Base)
    <3>1. Chains!CarryAfter(col) = CarryInto(x, Chains!Addend, col + 1)
      BY <1>1, <1>10, SameColumns DEF Chains!CarryAfter, CarryOut
    <3>2. CarryInto(x, Chains!Addend, col + 1)
            = IF Column(x, col) + Column(Chains!Addend, col) + CarryInto(x, Chains!Addend, col) >= Base THEN 1 ELSE 0
      BY <1>1, <1>8, CarryRecurrence
    <3> QED BY <1>2, <1>10, <3>1, <3>2 DEF Bit
  <2>3. Chains!ColumnStep(kernel, a, b, Chains!Seed(kernel, c))
          = [limb |-> (a + b + c) % Base, chain |-> Chains!Seed(kernel, Bit(a + b + c >= Base))]
    <3> HIDE DEF a, b, c
    <3> QED BY <1>2, <1>3, <1>4, <1>9, <1>10, ChainAddColumn
  <2> HIDE DEF a, b, c, B, C
  <2>4. a + b + c = a + B + C
    BY <1>14
  <2>5. Chains!ColumnStep(kernel, a, b, Chains!Seed(kernel, c))
          = [limb |-> Chains!Limb_(col), chain |-> Chains!Seed(kernel, Chains!CarryAfter(col))]
    BY <2>1, <2>2, <2>3, <2>4
  <2> QED BY <2>5 DEF a, b, c
<1>11. CASE kernel.op = "sub"
  <2>1. Chains!Limb_(col) = (a - B - C) % Base
    BY <1>2, <1>11, SameColumns DEF Chains!Limb_, DifferenceLimb
  <2>2. Chains!CarryAfter(col) = Bit(a - B - C < 0)
    <3>1. Chains!CarryAfter(col) = BorrowInto(x, Chains!Addend, col + 1)
      BY <1>1, <1>11, SameColumns DEF Chains!CarryAfter, BorrowOut
    <3>2. BorrowInto(x, Chains!Addend, col + 1)
            = IF Column(x, col) - Column(Chains!Addend, col) - BorrowInto(x, Chains!Addend, col) < 0 THEN 1 ELSE 0
      BY <1>1, <1>8, BorrowRecurrence
    <3> QED BY <1>2, <1>11, <3>1, <3>2 DEF Bit
  <2>3. Chains!ColumnStep(kernel, a, b, Chains!Seed(kernel, c))
          = [limb |-> (a - b - c) % Base, chain |-> Chains!Seed(kernel, Bit(a - b - c < 0))]
    <3> HIDE DEF a, b, c
    <3> QED BY <1>2, <1>3, <1>4, <1>9, <1>11, ChainSubColumn
  <2> HIDE DEF a, b, c, B, C
  <2>4. a - b - c = a - B - C
    BY <1>14
  <2>5. Chains!ColumnStep(kernel, a, b, Chains!Seed(kernel, c))
          = [limb |-> Chains!Limb_(col), chain |-> Chains!Seed(kernel, Chains!CarryAfter(col))]
    BY <2>1, <2>2, <2>3, <2>4
  <2> QED BY <2>5 DEF a, b, c
<1> QED BY <1>9, <1>10, <1>11 DEF KeepsChain

Written(limbs, col) == [limbs EXCEPT ![col] = Chains!Limb_(col)]

LEMMA KnownNext ==
  ASSUME Called, NEW col \in 1 .. Len(x)
  PROVE  Written(Known(col - 1), col) = Known(col)
<1> DEFINE f == Known(col - 1)
           g == Written(f, col)
           h == Known(col)
<1>1. DOMAIN f = 1 .. Len(x) /\ DOMAIN h = 1 .. Len(x) /\ DOMAIN g = 1 .. Len(x)
  BY DEF Known, Written
<1>2. Len(x) \in Nat /\ col \in Nat
  BY CallFacts
<1>3. ASSUME NEW j \in 1 .. Len(x) PROVE g[j] = h[j]
  <2>1. j # col => f[j] = h[j]
    BY <1>2 DEF Known
  <2>2. h[col] = Chains!Limb_(col)
    BY <1>2 DEF Known
  <2>3. g[j] = IF j = col THEN Chains!Limb_(col) ELSE f[j]
    <3> HIDE DEF f
    <3> QED BY <1>1 DEF Written
  <2> HIDE DEF f, g, h
  <2> QED BY <2>1, <2>2, <2>3
<1>4. g = [j \in 1 .. Len(x) |-> g[j]] /\ h = [j \in 1 .. Len(x) |-> h[j]]
  <2>1. g = [j \in DOMAIN g |-> g[j]]
    BY DEF Written
  <2>2. h = [j \in DOMAIN h |-> h[j]]
    BY DEF Known
  <2> QED BY <1>1, <2>1, <2>2
<1>5. g = h
  <2> HIDE DEF g, h
  <2> QED BY <1>3, <1>4
<1> QED BY <1>5

\* What Columns makes of one more column.
Step(count, before) ==
  LET col == done + count
      step == Chains!ColumnStep(kernel, Chains!Left(col), Chains!Column(y, col), before.chain)
  IN  [limbs |-> [before.limbs EXCEPT ![col] = step.limb], chain |-> step.chain]

LEMMA StepFollows ==
  ASSUME Called, done \in 0 .. Len(x), dst = Known(done),
         NEW n \in Nat \ {0}, done + n <= Len(x), NEW before,
         before = [limbs |-> Known(done + (n - 1)),
                   chain |-> Chains!Seed(kernel, Chains!CarryAfter(done + (n - 1)))]
  PROVE  Step(n, before)
           = [limbs |-> Known(done + n), chain |-> Chains!Seed(kernel, Chains!CarryAfter(done + n))]
<1> DEFINE col == done + n
<1>1. Len(x) \in Nat
  BY CallFacts
<1>2. col \in 1 .. Len(x) /\ col - 1 = done + (n - 1) /\ done < col /\ col \in Nat
  BY <1>1
<1>3. Chains!Left(col) = x[col]
  <2>1. dst[col] = IF kernel.inPlace THEN x[col] ELSE Junk
    BY <1>1, <1>2 DEF Known
  <2> QED BY <2>1 DEF Chains!Left
<1> HIDE DEF col
<1>4. Chains!ColumnStep(kernel, Chains!Left(col), Column(y, col), before.chain)
        = [limb |-> Chains!Limb_(col), chain |-> Chains!Seed(kernel, Chains!CarryAfter(col))]
  BY <1>2, <1>3, ColumnFollows
<1>5. [before.limbs EXCEPT ![col] = Chains!Limb_(col)] = Known(col)
  <2>1. before.limbs = Known(col - 1)
    BY <1>2
  <2> QED BY <1>2, <2>1, KnownNext DEF Written
<1>6. Step(n, before) = [limbs |-> Known(col), chain |-> Chains!Seed(kernel, Chains!CarryAfter(col))]
  <2>1. Step(n, before)
          = LET step == Chains!ColumnStep(kernel, Chains!Left(col), Chains!Column(y, col), before.chain)
            IN  [limbs |-> [before.limbs EXCEPT ![col] = step.limb], chain |-> step.chain]
    BY DEF Step, col
  <2> QED BY <1>4, <1>5, <2>1, SameLimbs
<1> QED BY <1>6 DEF col

\* The columns of a block, from the carry into its first.
LEMMA ColumnsFollow ==
  ASSUME Called, done \in 0 .. Len(x), dst = Known(done),
         NEW count \in Nat, done + count <= Len(x), NEW c, c = Chains!Seed(kernel, Chains!CarryAfter(done))
  PROVE  Chains!Columns(count, c)
           = [limbs |-> Known(done + count), chain |-> Chains!Seed(kernel, Chains!CarryAfter(done + count))]
<1> DEFINE start == [limbs |-> dst, chain |-> c]
           E(n) == [limbs |-> Known(done + n), chain |-> Chains!Seed(kernel, Chains!CarryAfter(done + n))]
           Is(f) == f = [n \in 0 .. count |-> IF n = 0 THEN start ELSE Step(n, f[n - 1])]
           run == CHOOSE f : Is(f)
           witness == [n \in 0 .. count |-> E(n)]
<1>0. done \in Nat
  BY CallFacts
<1>1. E(0) = start
  BY <1>0
<1>2. ASSUME NEW n \in 0 .. count, n # 0 PROVE Step(n, E(n - 1)) = E(n)
  <2>1. n \in Nat \ {0} /\ done + n <= Len(x)
    BY <1>0, <1>2, CallFacts
  <2> QED BY <2>1, StepFollows
<1> HIDE DEF E, start
<1>3. Is(witness)
  <2>1. ASSUME NEW n \in 0 .. count
        PROVE  witness[n] = IF n = 0 THEN start ELSE Step(n, witness[n - 1])
    <3>1. CASE n = 0
      BY <1>1, <3>1
    <3>2. CASE n # 0
      <4>1. n - 1 \in 0 .. count
        BY <3>2
      <4> QED BY <1>2, <3>2, <4>1
    <3> QED BY <3>1, <3>2
  <2>2. witness = [n \in 0 .. count |-> witness[n]]
    OBVIOUS
  <2> HIDE DEF witness
  <2> QED BY <2>1, <2>2
<1> HIDE DEF witness
<1>4. Is(run)
  <2> HIDE DEF Is
  <2> QED BY <1>3, Zenon
<1>5. Chains!Columns(count, c) = run[count]
  BY Zenon DEF Chains!Columns, Step, start
<1> HIDE DEF run
<1>6. \A n \in 0 .. count : run[n] = IF n = 0 THEN start ELSE Step(n, run[n - 1])
  BY <1>4, Zenon
<1> DEFINE T == {n \in Nat : n <= count => run[n] = E(n)}
<1>7. 0 \in T
  BY <1>1, <1>6
<1>8. ASSUME NEW n \in Nat, n \in T PROVE n + 1 \in T
  <2>1. SUFFICES ASSUME n + 1 <= count PROVE run[n + 1] = E(n + 1)
    OBVIOUS
  <2>2. n + 1 \in 0 .. count /\ n + 1 # 0 /\ (n + 1) - 1 = n
    BY <2>1
  <2>3. run[n] = E(n)
    BY <1>8, <2>1
  <2>4. run[n + 1] = Step(n + 1, run[(n + 1) - 1])
    BY <1>6, <2>2, Zenon
  <2>5. Step(n + 1, E((n + 1) - 1)) = E(n + 1)
    BY <1>2, <2>2
  <2> QED BY <2>2, <2>3, <2>4, <2>5
<1>9. count \in T
  <2> HIDE DEF T
  <2> QED BY <1>7, <1>8, SetInduction
<1>10. run[count] = E(count)
  BY <1>9
<1> QED BY <1>5, <1>10 DEF E

-----------------------------------------------------------------------------
(* A carry that is absorbed.                                               *)

\* Above the first limb a propagation adds only the carry: once it is absorbed
\* the limbs stay and no carry leaves the span.
LEMMA Absorbed ==
  ASSUME Called, kernel.unary, NEW n \in Nat, n <= Len(x), Chains!CarryAfter(n) = 0
  PROVE  /\ \A col \in n + 1 .. Len(x) : Chains!Limb_(col) = x[col]
         /\ Chains!CarryAfter(Len(x)) = 0
<1> DEFINE C(col) == IF kernel.op = "add" THEN CarryInto(x, Chains!Addend, col) ELSE BorrowInto(x, Chains!Addend, col)
<1>1. /\ Chains!Addend = <<carryIn>> /\ carryIn \in {0, 1} /\ y = <<>>
      /\ x \in Seq(Limb) /\ Chains!Addend \in Seq(Limb) /\ Len(x) \in Nat
  BY CallFacts
<1>2. KeepsChain(kernel) /\ kernel.op \in {"add", "sub"}
  BY CallFacts DEF KeepsChain
<1>3. ASSUME NEW col \in Nat, col <= Len(x), col >= n PROVE Chains!CarryAfter(col) = 0
  <2>1. CASE col = n
    BY <2>1
  <2>2. CASE col # n
    <3> DEFINE T == {j \in Nat : n + j <= Len(x) => Chains!CarryAfter(n + j) = 0}
    <3>1. 0 \in T
      OBVIOUS
    <3>2. ASSUME NEW j \in Nat, j \in T PROVE j + 1 \in T
      <4> DEFINE k == n + j + 1
      <4>1. SUFFICES ASSUME k <= Len(x) PROVE Chains!CarryAfter(k) = 0
        OBVIOUS
      <4>2. k \in Nat \ {0} /\ k - 1 = n + j /\ k # 0 /\ k \in 1 .. Len(x)
        BY <1>1, <4>1
      <4>3. Chains!CarryAfter(k - 1) = 0
        BY <1>1, <3>2, <4>1, <4>2
      <4> HIDE DEF k
      <4>4. Column(y, k) = 0
        BY <1>1, <4>2 DEF Column
      <4>5. Column(Chains!Addend, k) + C(k) = 0
        BY <4>2, <4>3, <4>4, SameAddends
      <4>6. Column(Chains!Addend, k) \in Limb /\ C(k) \in {0, 1} /\ Column(x, k) \in Limb
        BY <1>1, <4>2, ColumnType, CarryType, BorrowType
      <4>7. Column(Chains!Addend, k) = 0 /\ C(k) = 0
        BY <4>5, <4>6, LimbBounds
      <4>8. CASE kernel.op = "add"
        <5>1. CarryInto(x, Chains!Addend, k + 1)
                = IF Column(x, k) + Column(Chains!Addend, k) + CarryInto(x, Chains!Addend, k) >= Base THEN 1 ELSE 0
          BY <1>1, <4>2, CarryRecurrence
        <5>2. CarryInto(x, Chains!Addend, k + 1) = 0
          BY <4>6, <4>7, <4>8, <5>1, LimbBounds
        <5> QED BY <4>2, <4>8, <5>2, SameColumns DEF Chains!CarryAfter, CarryOut
      <4>9. CASE kernel.op = "sub"
        <5>1. BorrowInto(x, Chains!Addend, k + 1)
                = IF Column(x, k) - Column(Chains!Addend, k) - BorrowInto(x, Chains!Addend, k) < 0 THEN 1 ELSE 0
          BY <1>1, <4>2, BorrowRecurrence
        <5>2. BorrowInto(x, Chains!Addend, k + 1) = 0
          BY <4>6, <4>7, <4>9, <5>1, LimbBounds
        <5> QED BY <4>2, <4>9, <5>2, SameColumns DEF Chains!CarryAfter, BorrowOut
      <4> QED BY <1>2, <4>8, <4>9
    <3>3. col - n \in T
      <4>1. col - n \in Nat
        BY <1>3
      <4> HIDE DEF T
      <4> QED BY <3>1, <3>2, <4>1, SetInduction
    <3> QED BY <1>3, <3>3
  <2> QED BY <2>1, <2>2
<1>4. ASSUME NEW col \in n + 1 .. Len(x) PROVE Chains!Limb_(col) = x[col]
  <2>1. col \in Nat \ {0} /\ col - 1 \in Nat /\ col - 1 <= Len(x) /\ col - 1 >= n /\ col \in 1 .. Len(x)
    BY <1>1
  <2>2. Chains!CarryAfter(col - 1) = 0
    BY <1>3, <2>1
  <2>3. Column(y, col) = 0
    BY <1>1, <2>1 DEF Column
  <2>4. Column(Chains!Addend, col) + C(col) = 0
    BY <2>1, <2>2, <2>3, SameAddends
  <2>5. Column(Chains!Addend, col) \in Limb /\ C(col) \in {0, 1} /\ Column(x, col) \in Limb
    BY <1>1, <2>1, ColumnType, CarryType, BorrowType
  <2>6. Column(Chains!Addend, col) = 0 /\ C(col) = 0
    BY <2>4, <2>5, LimbBounds
  <2>7. Chains!Limb_(col) = Column(x, col) % Base
    <3>1. CASE kernel.op = "add"
      BY <2>5, <2>6, <3>1, LimbBounds, SameColumns DEF Chains!Limb_, SumLimb
    <3>2. CASE kernel.op = "sub"
      BY <2>5, <2>6, <3>2, LimbBounds, SameColumns DEF Chains!Limb_, DifferenceLimb
    <3> QED BY <1>2, <3>1, <3>2
  <2>8. Column(x, col) % Base = Column(x, col)
    BY <2>5, LimbBounds, ChainModBase
  <2>9. Column(x, col) = x[col]
    BY <2>1, CallFacts
  <2> QED BY <2>7, <2>8, <2>9
<1> QED BY <1>1, <1>3, <1>4

-----------------------------------------------------------------------------
(* The invariant.                                                          *)

Waiting == pc = "enter" => done = 0 /\ chain = Chains!Seed(kernel, carryIn) /\ saved = carryIn

Live ==
  IF kernel.chain.saved THEN saved = Chains!CarryAfter(done) ELSE chain = Chains!Seed(kernel, Chains!CarryAfter(done))

Looping ==
  pc = "loop" => /\ Live
                 /\ Covers(blocks, Len(x) - done)
                 /\ kernel.lead => done >= 1

ChainInv ==
  /\ Called
  /\ pc \in {"enter", "loop", "returned"}
  /\ done \in 0 .. Len(x)
  /\ dst = Known(done)
  /\ Waiting
  /\ Looping
  /\ Chains!ProcessorsAgree

LEMMA SeedTwice == ASSUME NEW k, NEW c \in {0, 1} PROVE Chains!Extract(k, Chains!Seed(k, c)) = c
<1>1. 1 - (1 - c) = c
  OBVIOUS
<1> QED BY <1>1 DEF Chains!Extract, Chains!Seed

\* A call keeps its operands, so what its columns are.
LEMMA Operands ==
  ASSUME UNCHANGED Chains!call
  PROVE  /\ Called' = Called /\ kernel' = kernel /\ x' = x /\ carryIn' = carryIn
         /\ \A n : Known(n)' = Known(n)
         /\ \A n : Chains!Limb_(n)' = Chains!Limb_(n)
         /\ \A n : Chains!CarryAfter(n)' = Chains!CarryAfter(n)
BY DEF Chains!call, Called, Known, Chains!Limb_, Chains!CarryAfter, Chains!Addend

LEMMA InitChain == ASSUME Chains!InputsAssumption, Chains!Init PROVE ChainInv
<1>1. Called
  <2>1. \A input \in ChainInputs :
          input[1] \in Seq(Limb) /\ input[2] \in Seq(Limb) /\ Len(input[1]) = Len(input[2])
    BY SameLimbs DEF Chains!InputsAssumption
  <2>2. CASE kernel \in Chains!Binary /\ (\E input \in ChainInputs : x = input[1] /\ y = input[2]) /\ carryIn = 0
    BY <2>1, <2>2 DEF Called
  <2>3. CASE kernel \in Chains!Unary /\ x \in {input[1] : input \in ChainInputs} /\ y = <<>> /\ carryIn \in {0, 1}
    BY <2>1, <2>3 DEF Called
  <2> QED BY <2>2, <2>3 DEF Chains!Init
<1>2. Len(x) \in Nat /\ x \in Seq(Limb) /\ kernel.inPlace \in BOOLEAN
  BY <1>1, CallFacts DEF KeepsChain
<1>3. dst = Known(0) /\ done = 0
  <2>1. x = [col \in 1 .. Len(x) |-> x[col]]
    BY <1>2
  <2>2. \A col \in 1 .. Len(x) : ~ (col <= 0)
    BY <1>2
  <2>3. Known(0) = [col \in 1 .. Len(x) |-> IF kernel.inPlace THEN x[col] ELSE Junk]
    BY <2>2 DEF Known
  <2> QED BY <1>2, <2>1, <2>3 DEF Chains!Init
<1> QED BY <1>1, <1>2, <1>3 DEF Chains!Init, ChainInv, Waiting, Looping, Chains!ProcessorsAgree

\* A step that answers, with m columns done and the others as they should be.
LEMMA Answered ==
  ASSUME Called, UNCHANGED Chains!call, NEW m \in 0 .. Len(x), done' = m, dst' = Known(m),
         pc' = "returned", \A col \in m + 1 .. Len(x) : kernel.inPlace /\ Chains!Limb_(col) = x[col],
         result' = Chains!CarryAfter(Len(x))
  PROVE  ChainInv'
<1>1. /\ Called' /\ x' = x
      /\ \A n : Known(n)' = Known(n)
      /\ \A n : Chains!Limb_(n)' = Chains!Limb_(n)
  BY Operands
<1>2. Len(x) \in Nat
  BY CallFacts
<1>3. \A col \in 1 .. Len(x) : dst'[col] = Chains!Limb_(col)
  <2> TAKE col \in 1 .. Len(x)
  <2>1. dst'[col] = IF col <= m THEN Chains!Limb_(col) ELSE IF kernel.inPlace THEN x[col] ELSE Junk
    BY DEF Known
  <2>2. ~ (col <= m) => col \in m + 1 .. Len(x)
    BY <1>2
  <2> QED BY <2>1, <2>2
<1>4. dst' = Known(done)'
  <2>1. Known(done)' = Known(m)
    BY DEF Known, Chains!Limb_, Chains!Addend, Chains!call
  <2> QED BY <2>1
<1>5. Chains!ProcessorsAgree'
  <2>1. \A col \in 1 .. Len(x') : dst'[col] = Chains!Limb_(col)'
    BY <1>1, <1>3
  <2>2. Chains!CarryAfter(Len(x))' = Chains!CarryAfter(Len(x))
    BY DEF Chains!CarryAfter, Chains!Addend, Chains!call
  <2> QED BY <2>1, <2>2 DEF Chains!ProcessorsAgree
<1> QED BY <1>1, <1>4, <1>5 DEF ChainInv, Waiting, Looping

\* A step that goes on to the next block, with m columns done.
LEMMA Continued ==
  ASSUME Called, UNCHANGED Chains!call, NEW m \in 0 .. Len(x), done' = m, dst' = Known(m),
         pc' = "loop", Covers(blocks', Len(x) - m), kernel.lead => m >= 1,
         IF kernel.chain.saved THEN saved' = Chains!CarryAfter(m) ELSE chain' = Chains!Seed(kernel, Chains!CarryAfter(m))
  PROVE  ChainInv'
<1>1. Called' /\ x' = x /\ kernel' = kernel
  BY Operands
<1>2. dst' = Known(done)'
  <2>1. Known(done)' = Known(m)
    BY DEF Known, Chains!Limb_, Chains!Addend, Chains!call
  <2> QED BY <2>1
<1>3. Live'
  <2>1. Chains!CarryAfter(done)' = Chains!CarryAfter(m)
    BY DEF Chains!CarryAfter, Chains!Addend, Chains!call
  <2> QED BY <1>1, <2>1 DEF Live, Chains!Seed
<1> QED BY <1>1, <1>2, <1>3 DEF ChainInv, Waiting, Looping, Chains!ProcessorsAgree

LEMMA StraightStep == ASSUME ChainInv, Chains!Straight PROVE ChainInv'
<1>1. Called /\ done = 0 /\ dst = Known(done) /\ Len(x) \in Nat
  BY CallFacts DEF ChainInv, Waiting, Chains!Straight
<1>2. Chains!CarryAfter(done) = 0
  <2>1. ~kernel.unary
    BY <1>1, CallFacts DEF Chains!Straight
  <2> QED BY <1>1, <2>1, CallFacts DEF Chains!CarryAfter
<1>3. Chains!Columns(Len(x), Chains!Seed(kernel, 0))
        = [limbs |-> Known(Len(x)), chain |-> Chains!Seed(kernel, Chains!CarryAfter(Len(x)))]
  <2>1. done \in 0 .. Len(x) /\ done + Len(x) = Len(x)
    BY <1>1
  <2> QED BY <1>1, <1>2, <2>1, ColumnsFollow
<1>4. /\ dst' = Known(Len(x)) /\ done' = Len(x) /\ pc' = "returned"
      /\ result' = Chains!Extract(kernel, Chains!Seed(kernel, Chains!CarryAfter(Len(x)))) /\ UNCHANGED Chains!call
  BY <1>3 DEF Chains!Straight, Chains!Answer
<1>5. result' = Chains!CarryAfter(Len(x))
  BY <1>1, <1>4, CarryRange, SeedTwice
<1>6. Len(x) \in 0 .. Len(x) /\ \A col : col \notin Len(x) + 1 .. Len(x)
  BY <1>1
<1> QED BY <1>1, <1>4, <1>5, <1>6, Answered

LEMMA NothingToDoStep == ASSUME ChainInv, Chains!NothingToDo PROVE ChainInv'
<1>1. Called /\ done = 0 /\ dst = Known(0) /\ Len(x) \in Nat /\ carryIn \in {0, 1}
  BY CallFacts DEF ChainInv, Waiting, Chains!NothingToDo
<1>2. /\ kernel.unary /\ kernel.inPlace /\ pc' = "returned" /\ result' = carryIn
      /\ dst' = Known(0) /\ done' = 0 /\ UNCHANGED Chains!call
      /\ Len(x) = 0 \/ carryIn = 0
  BY <1>1, CallFacts DEF Chains!NothingToDo, Chains!Answer, Chains!call
<1>3. Chains!CarryAfter(0) = carryIn
  BY DEF Chains!CarryAfter
<1>4. /\ \A col \in 0 + 1 .. Len(x) : kernel.inPlace /\ Chains!Limb_(col) = x[col]
      /\ result' = Chains!CarryAfter(Len(x))
  <2>1. CASE Len(x) = 0
    BY <1>2, <1>3, <2>1
  <2>2. CASE carryIn = 0
    BY <1>1, <1>2, <1>3, <2>2, Absorbed
  <2> QED BY <1>2, <2>1, <2>2
<1>5. 0 \in 0 .. Len(x)
  BY <1>1
<1> QED BY <1>1, <1>2, <1>4, <1>5, Answered

LEMMA StartStep == ASSUME ChainInv, Chains!Start PROVE ChainInv'
<1>1. /\ Called /\ done = 0 /\ dst = Known(0) /\ Len(x) \in Nat /\ Loops(kernel)
      /\ chain = Chains!Seed(kernel, carryIn) /\ saved = carryIn
  BY CallFacts DEF ChainInv, Waiting, Chains!Start
<1>2. Chains!CarryAfter(0) = carryIn
  BY DEF Chains!CarryAfter
<1>3. ~kernel.tested => Len(x) > 4
  <2>1. SUFFICES ASSUME ~kernel.tested, Len(x) <= 4 PROVE FALSE
    BY <1>1
  <2>2. \A n \in Nat : n <= 4 => n \in 0 .. 4
    OBVIOUS
  <2>3. Len(x) \in 0 .. 4
    BY <1>1, <2>1, <2>2, Zenon
  <2> QED BY <1>1, <2>1, <2>3 DEF Loops, Chains!Start
<1>4. Covers(Schedule(kernel.phases, kernel.tested, Len(x)), Len(x))
  BY <1>1, <1>3, ScheduleCovers DEF Loops
<1>5. /\ pc' = "loop" /\ blocks' = Schedule(kernel.phases, kernel.tested, Len(x))
      /\ dst' = Known(0) /\ done' = 0 /\ UNCHANGED Chains!call /\ chain' = chain /\ saved' = saved
      /\ kernel.lead = FALSE
  BY <1>1, CallFacts, SameSchedules DEF Chains!Start, Chains!Enter, Chains!call
<1>6. Len(x) - 0 = Len(x) /\ 0 \in 0 .. Len(x)
  BY <1>1
<1> QED BY <1>1, <1>2, <1>4, <1>5, <1>6, Continued

LEMMA LeadStep == ASSUME ChainInv, Chains!Lead PROVE ChainInv'
<1>1. /\ Called /\ done = 0 /\ dst = Known(0) /\ Len(x) \in Nat /\ KeepsChain(kernel)
      /\ Len(x) > 0 /\ kernel.lead /\ carryIn \in {0, 1}
  BY CallFacts DEF ChainInv, Waiting, Chains!Lead
<1>2. kernel.unary /\ kernel.inPlace /\ kernel.tested /\ ~kernel.chain.saved /\ Loops(kernel)
  <2>1. kernel.unary
    BY <1>1, CallFacts
  <2> QED BY <1>1, <2>1, CallFacts
<1>3. /\ x[1] \in Limb /\ Column(x, 1) = x[1] /\ x \in Seq(Limb) /\ Chains!Addend \in Seq(Limb)
      /\ Column(Chains!Addend, 1) = carryIn /\ 1 \in 1 .. Len(x)
  <2>1. 1 \in 1 .. Len(x)
    BY <1>1
  <2>2. Chains!Addend = <<carryIn>>
    BY <1>1, <1>2, CallFacts
  <2> QED BY <1>1, <2>1, <2>2, CallFacts DEF Column
<1> DEFINE total == IF kernel.op = "add" THEN x[1] + carryIn ELSE x[1] - carryIn
           overflow == total \notin Limb
<1>4. total % Base = Chains!Limb_(1) /\ Chains!CarryAfter(1) = Bit(overflow)
  <2>1. CASE kernel.op = "add"
    <3>1. /\ CarryInto(x, Chains!Addend, 1) = 0
          /\ CarryInto(x, Chains!Addend, 1 + 1)
               = IF Column(x, 1) + Column(Chains!Addend, 1) + CarryInto(x, Chains!Addend, 1) >= Base THEN 1 ELSE 0
      BY <1>3, NoCarryIn, CarryRecurrence
    <3>2. x[1] + carryIn + 0 = x[1] + carryIn /\ (x[1] + carryIn >= Base <=> x[1] + carryIn \notin Limb)
      BY <1>1, <1>3, LimbBounds DEF Limb
    <3>3. Chains!CarryAfter(1) = CarryInto(x, Chains!Addend, 1 + 1)
      BY <2>1, SameColumns DEF Chains!CarryAfter, CarryOut
    <3>4. Chains!Limb_(1) = (x[1] + carryIn + 0) % Base
      BY <1>3, <2>1, <3>1, SameColumns DEF Chains!Limb_, SumLimb
    <3> QED BY <1>3, <2>1, <3>1, <3>2, <3>3, <3>4 DEF Bit
  <2>2. CASE kernel.op = "sub"
    <3>1. /\ BorrowInto(x, Chains!Addend, 1) = 0
          /\ BorrowInto(x, Chains!Addend, 1 + 1)
               = IF Column(x, 1) - Column(Chains!Addend, 1) - BorrowInto(x, Chains!Addend, 1) < 0 THEN 1 ELSE 0
      BY <1>3, NoBorrowIn, BorrowRecurrence
    <3>2. x[1] - carryIn - 0 = x[1] - carryIn /\ (x[1] - carryIn < 0 <=> x[1] - carryIn \notin Limb)
      BY <1>1, <1>3, LimbBounds DEF Limb
    <3>3. Chains!CarryAfter(1) = BorrowInto(x, Chains!Addend, 1 + 1)
      BY <2>2, SameColumns DEF Chains!CarryAfter, BorrowOut
    <3>4. Chains!Limb_(1) = (x[1] - carryIn - 0) % Base
      BY <1>3, <2>2, <3>1, SameColumns DEF Chains!Limb_, DifferenceLimb
    <3> QED BY <1>3, <2>2, <3>1, <3>2, <3>3, <3>4 DEF Bit
  <2> QED BY <1>1, <2>1, <2>2 DEF KeepsChain
<1>5. /\ dst' = [dst EXCEPT ![1] = total % Base]
      /\ done' = 1
      /\ chain' = Chains!Seed(kernel, 1)
      /\ IF ~overflow \/ Len(x) = 1
         THEN pc' = "returned" /\ result' = (IF overflow THEN 1 ELSE 0)
         ELSE pc' = "loop" /\ blocks' = Schedule(kernel.phases, kernel.tested, Len(x) - 1)
      /\ UNCHANGED Chains!call
  BY SameLimbs, SameSchedules DEF Chains!Lead, Chains!Answer, Chains!Enter
<1> HIDE DEF total
<1>6. [dst EXCEPT ![1] = Chains!Limb_(1)] = Known(1)
  <2>1. 1 - 1 = 0
    OBVIOUS
  <2> QED BY <1>1, <1>3, <2>1, KnownNext DEF Written
<1>7. dst' = Known(1) /\ 1 \in 0 .. Len(x)
  BY <1>1, <1>4, <1>5, <1>6
<1>8. CASE ~overflow \/ Len(x) = 1
  <2>1. pc' = "returned" /\ result' = Chains!CarryAfter(1)
    BY <1>4, <1>5, <1>8 DEF Bit
  <2>2. /\ \A col \in 1 + 1 .. Len(x) : kernel.inPlace /\ Chains!Limb_(col) = x[col]
        /\ result' = Chains!CarryAfter(Len(x))
    <3>1. CASE Len(x) = 1
      BY <2>1, <3>1
    <3>2. CASE ~overflow
      <4>1. Chains!CarryAfter(1) = 0 /\ 1 <= Len(x)
        BY <1>1, <1>4, <3>2 DEF Bit
      <4> QED BY <1>1, <1>2, <2>1, <4>1, Absorbed
    <3> QED BY <1>8, <3>1, <3>2
  <2> QED BY <1>1, <1>5, <1>7, <2>1, <2>2, Answered
<1>9. CASE ~ (~overflow \/ Len(x) = 1)
  <2>1. /\ pc' = "loop" /\ blocks' = Schedule(kernel.phases, kernel.tested, Len(x) - 1)
        /\ chain' = Chains!Seed(kernel, Chains!CarryAfter(1))
    BY <1>4, <1>5, <1>9 DEF Bit
  <2>2. Covers(blocks', Len(x) - 1)
    <3>1. Len(x) - 1 \in Nat
      BY <1>1
    <3> QED BY <1>2, <2>1, <3>1, ScheduleCovers DEF Loops
  <2>3. /\ IF kernel.chain.saved THEN saved' = Chains!CarryAfter(1) ELSE chain' = Chains!Seed(kernel, Chains!CarryAfter(1))
        /\ kernel.lead => 1 >= 1
    BY <1>2, <2>1
  <2> QED BY <1>1, <1>5, <1>7, <2>1, <2>2, <2>3, Continued
<1> QED BY <1>8, <1>9

LEMMA BlockStep == ASSUME ChainInv, Chains!Block PROVE ChainInv'
<1> DEFINE count == Head(blocks)
           m == done + count
           run == Chains!Columns(count, Chains!Resumed)
           out == Chains!Extract(kernel, run.chain)
<1>1. /\ Called /\ done \in 0 .. Len(x) /\ dst = Known(done) /\ Live
      /\ Covers(blocks, Len(x) - done) /\ blocks # <<>> /\ Len(x) \in Nat
      /\ kernel.lead => done >= 1
  BY CallFacts DEF ChainInv, Looping, Chains!Block
<1>2. count \in Nat /\ count <= Len(x) - done /\ Covers(Tail(blocks), (Len(x) - done) - count)
  <2> DEFINE rest == Len(x) - done
  <2> HIDE DEF rest
  <2>1. Covers(blocks, rest) /\ blocks # <<>>
    BY <1>1 DEF rest
  <2>2. Head(blocks) \in Nat /\ Head(blocks) <= rest /\ Covers(Tail(blocks), rest - Head(blocks))
    BY <2>1, CoversNext
  <2> QED BY <2>2 DEF rest
<1> HIDE DEF count
<1>3. /\ m \in 0 .. Len(x) /\ m \in Nat /\ (Len(x) - done) - count = Len(x) - m
      /\ m <= Len(x) /\ m >= done
  BY <1>1, <1>2
<1>4. Chains!Resumed = Chains!Seed(kernel, Chains!CarryAfter(done))
  BY <1>1 DEF Chains!Resumed, Live
<1>5. run = [limbs |-> Known(m), chain |-> Chains!Seed(kernel, Chains!CarryAfter(m))]
  BY <1>1, <1>2, <1>3, <1>4, ColumnsFollow
<1>6. out = Chains!CarryAfter(m)
  BY <1>1, <1>3, <1>5, CarryRange, SeedTwice
<1>7. /\ dst' = run.limbs /\ done' = m
      /\ chain' = (IF kernel.chain.saved THEN 1 ELSE run.chain)
      /\ saved' = (IF kernel.chain.saved THEN out ELSE saved)
      /\ blocks' = Tail(blocks)
      /\ IF kernel.exits /\ out = 0 THEN pc' = "returned" /\ result' = 0 ELSE UNCHANGED <<pc, result>>
      /\ UNCHANGED Chains!call /\ pc = "loop"
  BY DEF Chains!Block, Chains!Answer, count
<1> HIDE DEF run, out, m
<1>8. dst' = Known(m)
  BY <1>5, <1>7
<1>9. CASE kernel.exits /\ out = 0
  <2>1. kernel.unary /\ kernel.inPlace
    BY <1>1, <1>9, CallFacts
  <2>2. /\ \A col \in m + 1 .. Len(x) : kernel.inPlace /\ Chains!Limb_(col) = x[col]
        /\ Chains!CarryAfter(Len(x)) = 0
    BY <1>1, <1>3, <1>6, <1>9, <2>1, Absorbed
  <2> QED BY <1>1, <1>3, <1>7, <1>8, <1>9, <2>2, Answered
<1>10. CASE ~ (kernel.exits /\ out = 0)
  <2>1. pc' = "loop" /\ Covers(blocks', Len(x) - m)
    BY <1>2, <1>3, <1>7, <1>10
  <2>2. kernel.lead => m >= 1
    <3>1. done >= 1 => m >= 1
      BY <1>1, <1>3
    <3> QED BY <1>1, <3>1
  <2>3. IF kernel.chain.saved THEN saved' = Chains!CarryAfter(m) ELSE chain' = Chains!Seed(kernel, Chains!CarryAfter(m))
    BY <1>5, <1>6, <1>7
  <2> QED BY <1>1, <1>3, <1>7, <1>8, <2>1, <2>2, <2>3, Continued
<1> QED BY <1>9, <1>10

LEMMA ReturnStep == ASSUME ChainInv, Chains!Return PROVE ChainInv'
<1>1. /\ Called /\ done \in 0 .. Len(x) /\ dst = Known(done) /\ Live
      /\ Covers(<<>>, Len(x) - done) /\ Len(x) \in Nat
  BY CallFacts DEF ChainInv, Looping, Chains!Return
<1>2. done = Len(x)
  <2>1. Len(x) - done = 0
    BY <1>1, CoversNothing
  <2> QED BY <1>1, <2>1
<1>3. /\ dst' = Known(Len(x)) /\ done' = Len(x) /\ pc' = "returned" /\ UNCHANGED Chains!call
      /\ result' = IF kernel.chain.saved THEN saved ELSE Chains!Extract(kernel, chain)
  BY <1>1, <1>2 DEF Chains!Return, Chains!Answer
<1>4. result' = Chains!CarryAfter(Len(x))
  BY <1>1, <1>2, <1>3, CarryRange, SeedTwice DEF Live
<1>5. Len(x) \in 0 .. Len(x) /\ \A col : col \notin Len(x) + 1 .. Len(x)
  BY <1>1
<1> QED BY <1>1, <1>3, <1>4, <1>5, Answered

LEMMA StutterStep == ASSUME ChainInv, UNCHANGED Chains!vars PROVE ChainInv'
BY DEF Chains!vars, ChainInv, Called, Known, Waiting, Looping, Live, Chains!ProcessorsAgree, Chains!CarryAfter, Chains!Limb_,
       Chains!Addend, Chains!Seed

LEMMA ChainStep == ASSUME ChainInv, [Chains!Next]_(Chains!vars) PROVE ChainInv'
BY StraightStep, NothingToDoStep, LeadStep, StartStep, BlockStep, ReturnStep, StutterStep DEF Chains!Next

LEMMA ChainFollows == ASSUME ChainInv PROVE Chains!ChainFollowsColumns
<1>1. /\ Called /\ done \in 0 .. Len(x) /\ dst = Known(done) /\ Len(x) \in Nat /\ Looping
  BY CallFacts DEF ChainInv
<1>2. \A col \in 1 .. Len(x) :
        dst[col] = IF col <= done THEN Chains!Limb_(col) ELSE IF kernel.inPlace THEN x[col] ELSE Junk
  BY <1>1 DEF Known
<1>3. ASSUME pc = "loop"
      PROVE  Chains!CarryAfter(done) = IF kernel.chain.saved THEN saved ELSE Chains!Extract(kernel, chain)
  <2>1. Live
    BY <1>1, <1>3 DEF Looping
  <2> QED BY <1>1, <2>1, CarryRange, SeedTwice DEF Live
<1>4. ASSUME pc = "loop", blocks # <<>> PROVE done + Head(blocks) <= Len(x)
  <2>1. Head(blocks) \in Nat /\ Head(blocks) <= Len(x) - done
    BY <1>1, <1>4, CoversNext DEF Looping
  <2> QED BY <1>1, <2>1
<1> QED BY <1>2, <1>3, <1>4 DEF Chains!ChainFollowsColumns

-----------------------------------------------------------------------------
(* Product rows: one column.                                               *)

LEMMA SameRowOperators ==
  /\ Rows!Limb = Limb
  /\ \A s, n : Rows!Lowest(s, n) = Lowest(s, n)
  /\ \A s : Rows!Value(s) = Value(s)
  /\ \A b, n : Rows!Power(b, n) = Power(b, n)
  /\ \A p, tested, len : Rows!Schedule(p, tested, len) = Schedule(p, tested, len)
<1>1. Rows!Limb = Limb
  BY DEF Rows!Limb, Limb
<1>2. ASSUME NEW b, NEW n PROVE Rows!Power(b, n) = Power(b, n)
  BY Zenon DEF Rows!Power, Power
<1>3. ASSUME NEW s, NEW n
      PROVE  Rows!Lowest(s, n) = Lowest(s, n) /\ Rows!Value(s) = Value(s)
  BY Zenon DEF Rows!Lowest, Lowest, Rows!Column, Column, Rows!Power, Power, Rows!Value, Value
<1>4. \A s : Rows!FlattenSeq(s) = FlattenSeq(s)
  BY Zenon DEF Rows!FlattenSeq, FlattenSeq
<1>5. ASSUME NEW p, NEW len
      PROVE  /\ Rows!Size(p, len) = Size(p, len)
             /\ Rows!Rounds(p, len) = Rounds(p, len)
  BY Zenon DEF Rows!Rounds, Rounds, Rows!Size, Size, Rows!Share, Share
<1>6. ASSUME NEW phases, NEW tested, NEW len
      PROVE  Rows!Schedule(phases, tested, len) = Schedule(phases, tested, len)
  BY <1>4, <1>5 DEF Rows!Schedule, Schedule
<1> QED BY <1>1, <1>2, <1>3, <1>6

LEMMA SameRowShapes ==
  /\ Rows!OneByOne = OneByOne /\ Rows!TwoThenOne = TwoThenOne /\ Rows!FourThenOne = FourThenOne
  /\ Rows!EightThenOne = EightThenOne /\ Rows!FourThenRest = FourThenRest
<1>1. \A a, b : Rows!Phase(a, b) = Phase(a, b)
  BY DEF Rows!Phase, Phase
<1> QED BY <1>1 DEF Rows!OneByOne, OneByOne, Rows!TwoThenOne, TwoThenOne, Rows!FourThenOne,
                    FourThenOne, Rows!EightThenOne, EightThenOne, Rows!FourThenRest, FourThenRest,
                    Rows!Rest, Rest

\* The halves of a product of two limbs; the high half leaves room for one more.
LEMMA ProductHalves ==
  ASSUME NEW v \in Limb, NEW w \in Limb
  PROVE  /\ v * w \in Nat /\ v * w <= (Base - 1) * (Base - 1)
         /\ Rows!Low(v * w) \in Limb
         /\ Rows!High(v * w) \in Nat /\ Rows!High(v * w) <= Base - 2
         /\ v * w = Base * Rows!High(v * w) + Rows!Low(v * w)
<1> DEFINE p == v * w
           q == p \div Base
           r == p % Base
           B == Base
<1>1. B \in Nat /\ B >= 2 /\ v \in Nat /\ w \in Nat /\ v <= B - 1 /\ w <= B - 1
  BY LimbBounds
<1>2. p \in Nat /\ p <= (B - 1) * (B - 1)
  <2>1. v * w <= (B - 1) * w
    BY <1>1
  <2>2. (B - 1) * w <= (B - 1) * (B - 1)
    BY <1>1
  <2>3. v * w \in Nat /\ (B - 1) * w \in Nat /\ (B - 1) * (B - 1) \in Nat
    BY <1>1
  <2> QED BY <2>1, <2>2, <2>3
<1> HIDE DEF p, B
<1>3. p = B * q + r /\ r \in 0 .. B - 1 /\ q \in Int
  BY <1>1, <1>2 DEF B
<1> HIDE DEF q, r
<1>4. q >= 0
  <2>1. SUFFICES ASSUME q <= 0 - 1 PROVE FALSE
    BY <1>3
  <2>2. B * q <= B * (0 - 1)
    BY <1>1, <1>3, <2>1
  <2> QED BY <1>1, <1>2, <1>3, <2>2
<1>5. q <= B - 2
  <2>1. SUFFICES ASSUME q >= B - 1 PROVE FALSE
    BY <1>1, <1>3
  <2>2. B * q >= B * (B - 1)
    BY <1>1, <1>3, <2>1
  <2>3. B * (B - 1) = (B - 1) * (B - 1) + (B - 1) /\ (B - 1) * (B - 1) \in Int
    BY <1>1
  <2> QED BY <1>1, <1>2, <1>3, <2>2, <2>3
<1> QED BY <1>2, <1>3, <1>4, <1>5 DEF p, q, r, B, Rows!Low, Rows!High, Limb

\* A word and what it carries, of a sum of two words.
LEMMA WordHalves ==
  ASSUME NEW z \in Int, 0 <= z, z < 2 * Base
  PROVE  /\ Rows!Low(z) \in Limb /\ Rows!High(z) \in {0, 1}
         /\ z = Base * Rows!High(z) + Rows!Low(z)
         /\ Rows!High(z) = 0 => Rows!Low(z) = z
         /\ Rows!High(z) = 1 => Rows!Low(z) = z - Base
<1>1. Base \in Nat /\ Base >= 2
  BY BaseAssumption
<1>2. CASE z < Base
  <2>1. z % Base = z /\ z \div Base = 0
    BY <1>2, ChainModBase
  <2> QED BY <1>1, <1>2, <2>1 DEF Rows!Low, Rows!High, Limb
<1>3. CASE z >= Base
  <2>1. z % Base = z - Base /\ z \div Base = 1
    BY <1>3, ChainModBase
  <2> QED BY <1>1, <1>3, <2>1 DEF Rows!Low, Rows!High, Limb
<1> QED BY <1>1, <1>2, <1>3

\* A limb less a limb and a borrow, and the borrow that follows.
LEMMA BorrowStep ==
  ASSUME NEW d \in Limb, NEW u \in Limb, NEW c \in Nat, c <= 1
  PROVE  /\ (d - u - c) % Base \in Limb
         /\ (d - u - c) % Base = d - u - c + Base * Rows!Bit(d < u + c)
         /\ Rows!Bit(d < u + c) \in {0, 1}
         /\ (((d - u) % Base) - c) % Base = (d - u - c) % Base
         /\ Rows!Bit(d < u \/ ((d - u) % Base) < c) = Rows!Bit(d < u + c)
<1>1. /\ d \in Int /\ u \in Int /\ c \in Int /\ 0 <= d /\ 0 <= u /\ 0 <= c /\ c <= 1
      /\ d <= Base - 1 /\ u <= Base - 1 /\ Base \in Int /\ Base >= 2
  BY LimbBounds
<1>2. (d - u - c) % Base = IF d < u + c THEN d - u - c + Base ELSE d - u - c
  BY <1>1, ChainModBase
<1>3. Rows!Bit(d < u + c) = IF d < u + c THEN 1 ELSE 0
  BY DEF Rows!Bit
<1> DEFINE e == (d - u) % Base
<1>4. e = IF d < u THEN d - u + Base ELSE d - u
  BY <1>1, ChainModBase
<1> HIDE DEF e
<1>5. (e - c) % Base = IF e < c THEN e - c + Base ELSE e - c
  BY <1>1, <1>4, ChainModBase
<1>6. (d < u \/ e < c) <=> d < u + c
  BY <1>1, <1>4
<1>7. (e - c) % Base = (d - u - c) % Base
  BY <1>1, <1>2, <1>4, <1>5
<1>8. Rows!Bit(d < u \/ e < c) = Rows!Bit(d < u + c)
  BY <1>6 DEF Rows!Bit
<1>9. (d - u - c) % Base \in Limb
  BY <1>1, <1>2 DEF Limb
<1>10. (d - u - c) % Base = d - u - c + Base * Rows!Bit(d < u + c)
  BY <1>1, <1>2, <1>3
<1> QED BY <1>3, <1>7, <1>8, <1>9, <1>10 DEF e

\* What is carried out of a column of a sum fits a word, whatever its parts.
LEMMA CarriedOfSum ==
  ASSUME NEW limb \in Limb, NEW d \in Limb, NEW w \in Limb, NEW p \in Nat, NEW up \in Int,
         p <= (Base - 1) * (Base - 1), limb + Base * up = d + p + w
  PROVE  up <= Base - 1
<1> DEFINE B == Base
<1>1. /\ B \in Nat /\ B >= 2 /\ limb \in Nat /\ d \in Nat /\ w \in Nat
      /\ d <= B - 1 /\ w <= B - 1
  BY LimbBounds
<1>2. SUFFICES ASSUME up >= B PROVE FALSE
  BY <1>1
<1>3. limb + B * up = d + p + w /\ p <= (B - 1) * (B - 1)
  OBVIOUS
<1> HIDE DEF B
<1>4. B * up >= B * B /\ B * up \in Int /\ B * B \in Int
  BY <1>1, <1>2
<1>5. (B - 1) * (B - 1) = B * B - B - B + 1
  BY <1>1
<1> QED BY <1>1, <1>3, <1>4, <1>5

\* ... and of a difference.
LEMMA CarriedOfDifference ==
  ASSUME NEW limb \in Limb, NEW d \in Limb, NEW w \in Limb, NEW p \in Nat, NEW up \in Int,
         p <= (Base - 1) * (Base - 1), limb + p + w = d + Base * up
  PROVE  up <= Base - 1
<1> DEFINE B == Base
<1>1. /\ B \in Nat /\ B >= 2 /\ limb \in Nat /\ d \in Nat /\ w \in Nat
      /\ limb <= B - 1 /\ w <= B - 1
  BY LimbBounds
<1>2. SUFFICES ASSUME up >= B PROVE FALSE
  BY <1>1
<1>3. limb + p + w = d + B * up /\ p <= (B - 1) * (B - 1)
  OBVIOUS
<1> HIDE DEF B
<1>4. B * up >= B * B /\ B * up \in Int /\ B * B \in Int
  BY <1>1, <1>2
<1>5. (B - 1) * (B - 1) = B * B - B - B + 1
  BY <1>1
<1> QED BY <1>1, <1>3, <1>4, <1>5

\* A word that absorbs bits it has room for.
LEMMA AbsorbExact ==
  ASSUME NEW word \in Nat, NEW bits \in Nat, word + bits <= Base - 1
  PROVE  Rows!Absorb(word, bits) = word + bits /\ word + bits \in Limb
<1>1. Base \in Nat /\ word + bits \in Int /\ 0 <= word + bits /\ word + bits < Base
  BY BaseAssumption
<1>2. (word + bits) % Base = word + bits
  BY <1>1, ChainModBase
<1> QED BY <1>1, <1>2 DEF Rows!Absorb, Limb

Carried(s) == s.high + s.cf + s.of

\* The words and flags between two columns: together they fit one word.
Between(column, s) ==
  /\ s \in [limb : Limb, high : Limb, cf : {0, 1}, of : {0, 1}]
  /\ column \in {"sums", "fused"} => s.cf = 0
  /\ column # "flags" => s.of = 0
  /\ Carried(s) <= Base - 1

\* Nothing is lost in a column of a sum.
SumExact(column, next, s, d, p) ==
  Between(column, next) /\ next.limb + Base * Carried(next) = d + p + Carried(s)

DifferenceExact(column, next, s, d, p) ==
  Between(column, next) /\ next.limb + p + Carried(s) = d + Base * Carried(next)

LEMMA BetweenFacts ==
  ASSUME NEW column, NEW s, Between(column, s)
  PROVE  /\ s.limb \in Limb /\ s.high \in Limb /\ s.cf \in {0, 1} /\ s.of \in {0, 1}
         /\ s.high \in Nat /\ s.cf \in Nat /\ s.of \in Nat
         /\ s.high <= Base - 1 /\ Base \in Nat /\ Base >= 2
         /\ Carried(s) \in Limb /\ Carried(s) = s.high + s.cf + s.of
         /\ s = [limb |-> s.limb, high |-> s.high, cf |-> s.cf, of |-> s.of]
<1>1. s.limb \in Limb /\ s.high \in Limb /\ s.cf \in {0, 1} /\ s.of \in {0, 1}
  BY DEF Between
<1>2. /\ s.high \in Nat /\ s.cf \in Nat /\ s.of \in Nat
      /\ s.high <= Base - 1 /\ Base \in Nat /\ Base >= 2
  BY <1>1, LimbBounds
<1>3. Carried(s) \in Limb /\ Carried(s) = s.high + s.cf + s.of
  BY <1>2 DEF Between, Carried, Limb
<1>4. s = [limb |-> s.limb, high |-> s.high, cf |-> s.cf, of |-> s.of]
  BY DEF Between
<1> QED BY <1>1, <1>2, <1>3, <1>4

\* What a column comes to once its words are absorbed.
LEMMA SumOfColumn ==
  ASSUME NEW column \in {"sums", "fused", "flags"}, NEW s, Between(column, s),
         NEW d \in Limb, NEW p \in Nat, p <= (Base - 1) * (Base - 1),
         NEW a \in Limb, NEW q \in Nat, NEW bits \in Nat, NEW high, NEW c \in {0, 1}, NEW o \in {0, 1},
         high = q + bits \/ high = Rows!Absorb(q, bits),
         column # "flags" => c = 0 /\ o = 0,
         a + Base * (q + bits + c + o) = d + p + Carried(s)
  PROVE  SumExact(column, [limb |-> a, high |-> high, cf |-> c, of |-> o], s, d, p)
<1> DEFINE up == q + bits + c + o
           w == Carried(s)
           next == [limb |-> a, high |-> high, cf |-> c, of |-> o]
<1>1. w \in Limb
  BY BetweenFacts, Zenon
<1>2. up \in Int /\ a + Base * up = d + p + w
  OBVIOUS
<1> HIDE DEF up, w
<1>3. up <= Base - 1
  BY <1>1, <1>2, CarriedOfSum, Zenon
<1>4. q + bits <= Base - 1 /\ Base \in Nat
  BY <1>3, BaseAssumption DEF up
<1>5. high = q + bits /\ high \in Limb
  <2>1. Rows!Absorb(q, bits) = q + bits /\ q + bits \in Limb
    BY <1>4, AbsorbExact
  <2> QED BY <2>1
<1>6. Carried(next) = up
  BY <1>5 DEF Carried, up
<1>7. Between(column, next)
  BY <1>3, <1>5, <1>6 DEF Between
<1> QED BY <1>2, <1>6, <1>7 DEF SumExact, w

LEMMA DifferenceOfColumn ==
  ASSUME NEW column, column \notin {"sums", "fused"}, NEW s,
         Between(column, s),
         NEW d \in Limb, NEW p \in Nat, p <= (Base - 1) * (Base - 1),
         NEW a \in Limb, NEW q \in Nat, NEW bits \in Nat, NEW high, NEW c \in {0, 1}, NEW o \in {0, 1},
         high = q + bits \/ high = Rows!Absorb(q, bits),
         column # "flags" => o = 0,
         a + p + Carried(s) = d + Base * (q + bits + c + o)
  PROVE  DifferenceExact(column, [limb |-> a, high |-> high, cf |-> c, of |-> o], s, d, p)
<1> DEFINE up == q + bits + c + o
           w == Carried(s)
           next == [limb |-> a, high |-> high, cf |-> c, of |-> o]
<1>1. w \in Limb
  BY BetweenFacts, Zenon
<1>2. up \in Int /\ a + p + w = d + Base * up
  OBVIOUS
<1> HIDE DEF up, w
<1>3. up <= Base - 1
  BY <1>1, <1>2, CarriedOfDifference, Zenon
<1>4. q + bits <= Base - 1 /\ Base \in Nat
  BY <1>3, BaseAssumption DEF up
<1>5. high = q + bits /\ high \in Limb
  <2>1. Rows!Absorb(q, bits) = q + bits /\ q + bits \in Limb
    BY <1>4, AbsorbExact
  <2> QED BY <2>1
<1>6. Carried(next) = up
  BY <1>5 DEF Carried, up
<1>7. Between(column, next)
  BY <1>3, <1>5, <1>6 DEF Between
<1> QED BY <1>2, <1>6, <1>7 DEF DifferenceExact, w

LEMMA WideHalves ==
  ASSUME NEW z \in Nat
  PROVE  Rows!Low(z) \in Limb /\ Rows!High(z) \in Nat /\ z = Base * Rows!High(z) + Rows!Low(z)
<1> DEFINE B == Base
           q == z \div B
           r == z % B
<1>1. B \in Nat /\ B >= 2
  BY BaseAssumption
<1> HIDE DEF B
<1>2. z = B * q + r /\ r \in 0 .. B - 1 /\ q \in Int
  BY <1>1
<1> HIDE DEF q, r
<1>3. q >= 0
  <2>1. SUFFICES ASSUME q <= 0 - 1 PROVE FALSE
    BY <1>2
  <2>2. B * q <= B * (0 - 1)
    BY <1>1, <1>2, <2>1
  <2> QED BY <1>1, <1>2, <2>2
<1> QED BY <1>2, <1>3 DEF q, r, B, Rows!Low, Rows!High, Limb

LEMMA SumsColumn ==
  ASSUME NEW s, NEW d \in Limb, NEW v \in Limb, NEW scalar \in Limb, Between("sums", s)
  PROVE  SumExact("sums", Rows!SumsColumn(s, d, v, scalar), s, d, v * scalar)
<1> DEFINE p == v * scalar
           q == Rows!High(p)
           r == Rows!Low(p)
           h1 == Rows!High(r + s.high)
           l1 == Rows!Low(r + s.high)
           h2 == Rows!High(l1 + d)
           l2 == Rows!Low(l1 + d)
<1>1. Rows!SumsColumn(s, d, v, scalar)
        = [limb |-> l2, high |-> Rows!Absorb(q, h1 + h2), cf |-> 0, of |-> 0]
  BY DEF Rows!SumsColumn, Between
<1>2. /\ p \in Nat /\ p <= (Base - 1) * (Base - 1) /\ r \in Limb /\ q \in Nat
      /\ p = Base * q + r
  BY ProductHalves
<1> HIDE DEF p, q, r
<1>3. /\ s.high \in Nat /\ s.high <= Base - 1 /\ Carried(s) = s.high
      /\ d \in Nat /\ d <= Base - 1 /\ Base \in Nat /\ r \in Nat /\ r <= Base - 1
  BY <1>2, BetweenFacts, LimbBounds DEF Between
<1>4. l1 \in Limb /\ h1 \in {0, 1} /\ r + s.high = Base * h1 + l1
  BY <1>3, WordHalves
<1> HIDE DEF l1, h1
<1>5. l2 \in Limb /\ h2 \in {0, 1} /\ l1 + d = Base * h2 + l2
  BY <1>3, <1>4, LimbBounds, WordHalves
<1> HIDE DEF l2, h2
<1>6. l2 + Base * (q + (h1 + h2) + 0 + 0) = d + p + Carried(s) /\ h1 + h2 \in Nat
  <2>1. l1 \in Nat /\ l2 \in Nat
    BY <1>4, <1>5, LimbBounds
  <2>2. Base * (q + (h1 + h2) + 0 + 0) = Base * q + Base * h1 + Base * h2
    BY <1>2, <1>3, <1>4, <1>5
  <2> QED BY <1>2, <1>3, <1>4, <1>5, <2>1, <2>2
<1>7. SumExact("sums", [limb |-> l2, high |-> Rows!Absorb(q, h1 + h2), cf |-> 0, of |-> 0], s, d, p)
  <2>1. "sums" \in {"sums", "fused", "flags"} /\ 0 \in {0, 1}
    OBVIOUS
  <2> QED BY <1>2, <1>5, <1>6, <2>1, SumOfColumn, Zenon
<1> QED BY <1>1, <1>7 DEF p

LEMMA FusedColumn ==
  ASSUME NEW s, NEW d \in Limb, NEW v \in Limb, NEW scalar \in Limb, Between("fused", s)
  PROVE  SumExact("fused", Rows!FusedColumn(s, d, v, scalar), s, d, v * scalar)
<1> DEFINE p == v * scalar
           q == Rows!High(p + d)
           r == Rows!Low(p + d)
           h1 == Rows!High(r + s.high)
           l1 == Rows!Low(r + s.high)
<1>1. Rows!FusedColumn(s, d, v, scalar)
        = [limb |-> l1, high |-> Rows!Absorb(q, h1), cf |-> 0, of |-> 0]
  BY DEF Rows!FusedColumn, Between
<1>2. p \in Nat /\ p <= (Base - 1) * (Base - 1)
  BY ProductHalves
<1> HIDE DEF p
<1>3. /\ s.high \in Nat /\ s.high <= Base - 1 /\ Carried(s) = s.high
      /\ d \in Nat /\ Base \in Nat
  BY BetweenFacts, LimbBounds DEF Between
<1>4. r \in Limb /\ q \in Nat /\ p + d = Base * q + r
  <2>1. p + d \in Nat
    BY <1>2, <1>3
  <2> QED BY <2>1, WideHalves
<1> HIDE DEF q, r
<1>5. l1 \in Limb /\ h1 \in {0, 1} /\ r + s.high = Base * h1 + l1
  BY <1>3, <1>4, LimbBounds, WordHalves
<1> HIDE DEF l1, h1
<1>6. l1 + Base * (q + h1 + 0 + 0) = d + p + Carried(s) /\ h1 \in Nat
  <2>1. l1 \in Nat /\ r \in Nat /\ Base * q \in Nat /\ Base * h1 \in Nat
    BY <1>3, <1>4, <1>5, LimbBounds
  <2>2. Base * (q + h1 + 0 + 0) = Base * q + Base * h1
    BY <1>3, <1>4, <1>5
  <2> QED BY <1>2, <1>3, <1>4, <1>5, <2>1, <2>2
<1>7. SumExact("fused", [limb |-> l1, high |-> Rows!Absorb(q, h1), cf |-> 0, of |-> 0], s, d, p)
  <2>1. "fused" \in {"sums", "fused", "flags"} /\ 0 \in {0, 1}
    OBVIOUS
  <2> QED BY <1>2, <1>4, <1>5, <1>6, <2>1, SumOfColumn, Zenon
<1> QED BY <1>1, <1>7 DEF p

LEMMA FlagsColumn ==
  ASSUME NEW s, NEW d \in Limb, NEW v \in Limb, NEW scalar \in Limb, Between("flags", s)
  PROVE  SumExact("flags", Rows!FlagsColumn(s, d, v, scalar), s, d, v * scalar)
<1> DEFINE p == v * scalar
           q == Rows!High(p)
           r == Rows!Low(p)
           h1 == Rows!High(d + r + s.cf)
           l1 == Rows!Low(d + r + s.cf)
           h2 == Rows!High(l1 + s.high + s.of)
           l2 == Rows!Low(l1 + s.high + s.of)
<1>1. Rows!FlagsColumn(s, d, v, scalar) = [limb |-> l2, high |-> q, cf |-> h1, of |-> h2]
  BY DEF Rows!FlagsColumn
<1>2. /\ p \in Nat /\ p <= (Base - 1) * (Base - 1) /\ r \in Limb /\ q \in Nat
      /\ p = Base * q + r
  BY ProductHalves
<1> HIDE DEF p, q, r
<1>3. /\ s.high \in Nat /\ s.high <= Base - 1 /\ Carried(s) = s.high + s.cf + s.of
      /\ s.cf \in Nat /\ s.cf <= 1 /\ s.of \in Nat /\ s.of <= 1
      /\ d \in Nat /\ d <= Base - 1 /\ Base \in Nat /\ r \in Nat /\ r <= Base - 1
  BY <1>2, BetweenFacts, LimbBounds
<1>4. l1 \in Limb /\ h1 \in {0, 1} /\ d + r + s.cf = Base * h1 + l1
  BY <1>3, WordHalves
<1> HIDE DEF l1, h1
<1>5. l2 \in Limb /\ h2 \in {0, 1} /\ l1 + s.high + s.of = Base * h2 + l2
  BY <1>3, <1>4, LimbBounds, WordHalves
<1> HIDE DEF l2, h2
<1>6. l2 + Base * (q + 0 + h1 + h2) = d + p + Carried(s) /\ q + 0 = q
  <2>1. /\ l1 \in Nat /\ l2 \in Nat
        /\ Base * q \in Nat /\ Base * h1 \in Nat /\ Base * h2 \in Nat
    BY <1>2, <1>3, <1>4, <1>5, LimbBounds
  <2>2. Base * (q + 0 + h1 + h2) = Base * q + Base * h1 + Base * h2
    BY <1>2, <1>3, <1>4, <1>5
  <2> QED BY <1>2, <1>3, <1>4, <1>5, <2>1, <2>2
<1>7. SumExact("flags", [limb |-> l2, high |-> q, cf |-> h1, of |-> h2], s, d, p)
  <2>1. "flags" \in {"sums", "fused", "flags"} /\ 0 \in Nat /\ q = q + 0
    BY <1>6
  <2> QED BY <1>2, <1>4, <1>5, <1>6, <2>1, SumOfColumn, Zenon
<1> QED BY <1>1, <1>7 DEF p

\* The term to subtract and the high word after it are the product and the words before.
LEMMA TermExact ==
  ASSUME NEW column, column # "flags", NEW s, Between(column, s), NEW v \in Limb, NEW scalar \in Limb
  PROVE  \E t \in Limb : \E h \in {0, 1} : \E q \in Nat :
           /\ Rows!Term(s, v, scalar) = t
           /\ Rows!TermHigh(s, v, scalar) = Rows!Absorb(q, h)
           /\ v * scalar + s.high = Base * q + Base * h + t
           /\ s.of = 0 /\ Carried(s) = s.high + s.cf
<1> DEFINE p == v * scalar
           q == Rows!High(p)
           r == Rows!Low(p)
           h == Rows!High(r + s.high)
           t == Rows!Low(r + s.high)
<1>1. Rows!Term(s, v, scalar) = t /\ Rows!TermHigh(s, v, scalar) = Rows!Absorb(q, h)
  BY DEF Rows!Term, Rows!TermHigh
<1>2. p \in Nat /\ r \in Limb /\ q \in Nat /\ p = Base * q + r
  BY ProductHalves
<1> HIDE DEF p, q, r
<1>3. /\ s.high \in Nat /\ s.high <= Base - 1 /\ s.of = 0 /\ Carried(s) = s.high + s.cf
      /\ Base \in Nat /\ r \in Nat /\ r <= Base - 1
  <2>1. s.of = 0
    BY Zenon DEF Between
  <2> QED BY <1>2, <2>1, BetweenFacts, LimbBounds
<1>4. t \in Limb /\ h \in {0, 1} /\ r + s.high = Base * h + t
  BY <1>3, WordHalves
<1> HIDE DEF t, h
<1>5. p + s.high = Base * q + Base * h + t
  <2>1. t \in Nat /\ Base * q \in Nat /\ Base * h \in Nat
    BY <1>2, <1>3, <1>4, LimbBounds
  <2> QED BY <1>2, <1>3, <1>4, <2>1
<1> QED BY <1>1, <1>2, <1>3, <1>4, <1>5, Zenon DEF p

LEMMA BorrowInColumn ==
  ASSUME NEW column, column \notin {"sums", "fused", "flags"}, NEW s, Between(column, s),
         NEW d \in Limb, NEW v \in Limb, NEW scalar \in Limb
  PROVE  /\ DifferenceExact(column, Rows!BorrowInColumn(s, d, v, scalar), s, d, v * scalar)
         /\ Rows!BorrowApartColumn(s, d, v, scalar) = Rows!BorrowInColumn(s, d, v, scalar)
<1> DEFINE p == v * scalar
<1>1. PICK t \in Limb, h \in {0, 1}, q \in Nat :
        /\ Rows!Term(s, v, scalar) = t
        /\ Rows!TermHigh(s, v, scalar) = Rows!Absorb(q, h)
        /\ p + s.high = Base * q + Base * h + t
        /\ s.of = 0 /\ Carried(s) = s.high + s.cf
  BY TermExact
<1>2. p \in Nat /\ p <= (Base - 1) * (Base - 1)
  BY ProductHalves
<1> HIDE DEF p
<1>3. s.high \in Nat /\ s.cf \in Nat /\ s.cf <= 1 /\ Base \in Nat /\ d \in Nat /\ t \in Nat
  BY BetweenFacts, LimbBounds
<1> DEFINE a == (d - t - s.cf) % Base
           b == Rows!Bit(d < t + s.cf)
<1>4. /\ Rows!BorrowInColumn(s, d, v, scalar) = [limb |-> a, high |-> Rows!Absorb(q, h), cf |-> b, of |-> 0]
      /\ Rows!BorrowApartColumn(s, d, v, scalar)
           = [limb |-> (((d - t) % Base) - s.cf) % Base, high |-> Rows!Absorb(q, h),
              cf |-> Rows!Bit(d < t \/ ((d - t) % Base) < s.cf), of |-> 0]
  BY <1>1, Zenon DEF Rows!BorrowInColumn, Rows!BorrowApartColumn
<1>5. /\ a \in Limb /\ b \in {0, 1} /\ a = d - t - s.cf + Base * b
      /\ (((d - t) % Base) - s.cf) % Base = a
      /\ Rows!Bit(d < t \/ ((d - t) % Base) < s.cf) = b
  <2> DEFINE c == s.cf
  <2>1. c \in Nat /\ c <= 1
    BY <1>3
  <2> HIDE DEF c
  <2>2. /\ (d - t - c) % Base \in Limb
        /\ (d - t - c) % Base = d - t - c + Base * Rows!Bit(d < t + c)
        /\ Rows!Bit(d < t + c) \in {0, 1}
        /\ (((d - t) % Base) - c) % Base = (d - t - c) % Base
        /\ Rows!Bit(d < t \/ ((d - t) % Base) < c) = Rows!Bit(d < t + c)
    BY <2>1, BorrowStep
  <2> QED BY <2>2 DEF c
<1>6. Rows!BorrowApartColumn(s, d, v, scalar) = Rows!BorrowInColumn(s, d, v, scalar)
  BY <1>4, <1>5, Zenon
<1> HIDE DEF a, b
<1>7. a + p + Carried(s) = d + Base * (q + h + b + 0) /\ h \in Nat
  <2>1. Base * (q + h + b + 0) = Base * q + Base * h + Base * b
    BY <1>3, <1>5
  <2>2. a \in Nat /\ Base * q \in Nat /\ Base * h \in Nat /\ Base * b \in Nat
    BY <1>3, <1>5, LimbBounds
  <2>3. a + p + Carried(s) = d + (Base * q + Base * h + Base * b)
    <3> DEFINE bq == Base * q
               bh == Base * h
               bb == Base * b
    <3>1. /\ p + s.high = bq + bh + t /\ Carried(s) = s.high + s.cf /\ a = d - t - s.cf + bb
          /\ a \in Nat /\ bq \in Nat /\ bh \in Nat /\ bb \in Nat
          /\ p \in Nat /\ d \in Nat /\ t \in Nat /\ s.high \in Nat /\ s.cf \in Nat
      BY <1>1, <1>2, <1>3, <1>5, <2>2
    <3> HIDE DEF bq, bh, bb
    <3>2. a + p + Carried(s) = d + (bq + bh + bb)
      BY <3>1
    <3> QED BY <3>2 DEF bq, bh, bb
  <2> QED BY <2>1, <2>3
<1>8. DifferenceExact(column, [limb |-> a, high |-> Rows!Absorb(q, h), cf |-> b, of |-> 0], s, d, p)
  <2>1. 0 \in {0, 1} /\ column \notin {"sums", "fused"}
    OBVIOUS
  <2> QED BY <1>2, <1>5, <1>7, <2>1, DifferenceOfColumn, Zenon
<1> QED BY <1>4, <1>6, <1>8, Zenon DEF p

LEMMA BorrowAddedColumn ==
  ASSUME NEW column, column \notin {"sums", "fused", "flags"}, NEW s, Between(column, s),
         NEW d \in Limb, NEW v \in Limb, NEW scalar \in Limb
  PROVE  DifferenceExact(column, Rows!BorrowAddedColumn(s, d, v, scalar), s, d, v * scalar)
<1> DEFINE p == v * scalar
<1>1. PICK t \in Limb, h \in {0, 1}, q \in Nat :
        /\ Rows!Term(s, v, scalar) = t
        /\ Rows!TermHigh(s, v, scalar) = Rows!Absorb(q, h)
        /\ p + s.high = Base * q + Base * h + t
        /\ s.of = 0 /\ Carried(s) = s.high + s.cf
  BY TermExact
<1>2. p \in Nat /\ p <= (Base - 1) * (Base - 1)
  BY ProductHalves
<1> HIDE DEF p
<1>3. /\ s.high \in Nat /\ s.cf \in {0, 1} /\ Base \in Nat /\ Base >= 2 /\ d \in Nat /\ t \in Nat
      /\ t <= Base - 1 /\ s.cf \in Nat
  BY BetweenFacts, LimbBounds
<1> DEFINE l == Rows!Low(t + s.cf)
           g == Rows!High(t + s.cf)
           a == (d - l) % Base
           b == Rows!Bit(d < l)
<1>4. Rows!BorrowAddedColumn(s, d, v, scalar) = [limb |-> a, high |-> Rows!Absorb(q, h), cf |-> g + b, of |-> 0]
  BY <1>1, Zenon DEF Rows!BorrowAddedColumn
<1>5. /\ l \in Limb /\ g \in {0, 1} /\ t + s.cf = Base * g + l
      /\ g = 1 => l = t + s.cf - Base
  BY <1>3, WordHalves
<1> HIDE DEF l, g
<1>6. a \in Limb /\ b \in {0, 1} /\ a = d - l + Base * b
  <2>1. l \in Nat /\ 0 \in Nat /\ 0 <= 1 /\ d - l - 0 = d - l /\ l + 0 = l
    BY <1>3, <1>5, LimbBounds
  <2> QED BY <1>5, <2>1, BorrowStep
<1>7. g + b \in {0, 1}
  <2>1. ASSUME g = 1 PROVE b = 0
    <3>1. l \in Nat /\ l = t + s.cf - Base
      BY <1>5, <2>1, LimbBounds
    <3>2. l = 0
      BY <1>3, <3>1
    <3> QED BY <1>3, <3>2 DEF Rows!Bit
  <2> QED BY <1>5, <1>6, <2>1
<1> HIDE DEF a, b
<1>8. a + p + Carried(s) = d + Base * (q + h + (g + b) + 0) /\ h \in Nat
  <2>1. Base * (q + h + (g + b) + 0) = Base * q + Base * h + Base * g + Base * b
    BY <1>3, <1>5, <1>6
  <2>2. /\ a \in Nat /\ l \in Nat /\ Base * q \in Nat /\ Base * h \in Nat /\ Base * b \in Nat
        /\ Base * g \in Nat
    BY <1>3, <1>5, <1>6, LimbBounds
  <2> QED BY <1>1, <1>2, <1>3, <1>5, <1>6, <2>1, <2>2
<1>9. DifferenceExact(column, [limb |-> a, high |-> Rows!Absorb(q, h), cf |-> g + b, of |-> 0], s, d, p)
  <2>1. 0 \in {0, 1} /\ column \notin {"sums", "fused"}
    OBVIOUS
  <2> QED BY <1>2, <1>6, <1>7, <1>8, <2>1, DifferenceOfColumn, Zenon
<1> QED BY <1>4, <1>9, Zenon DEF p

LEMMA SubFlagsColumn ==
  ASSUME NEW s, NEW d \in Limb, NEW v \in Limb, NEW scalar \in Limb, Between("flags", s)
  PROVE  DifferenceExact("flags", Rows!SubFlagsColumn(s, d, v, scalar), s, d, v * scalar)
<1> DEFINE p == v * scalar
           q == Rows!High(p)
           r == Rows!Low(p)
           h == Rows!High(r + s.high + s.of)
           l == Rows!Low(r + s.high + s.of)
           a == (d - l - s.cf) % Base
           b == Rows!Bit(d < l + s.cf)
<1>1. Rows!SubFlagsColumn(s, d, v, scalar) = [limb |-> a, high |-> q, cf |-> b, of |-> h]
  BY DEF Rows!SubFlagsColumn
<1>2. /\ p \in Nat /\ p <= (Base - 1) * (Base - 1) /\ r \in Limb /\ q \in Nat
      /\ p = Base * q + r
  BY ProductHalves
<1> HIDE DEF p, q, r
<1>3. /\ s.high \in Nat /\ s.high <= Base - 1 /\ Carried(s) = s.high + s.cf + s.of
      /\ s.cf \in Nat /\ s.cf <= 1 /\ s.of \in Nat /\ s.of <= 1
      /\ d \in Nat /\ Base \in Nat /\ r \in Nat /\ r <= Base - 1
  BY <1>2, BetweenFacts, LimbBounds
<1>4. l \in Limb /\ h \in {0, 1} /\ r + s.high + s.of = Base * h + l
  BY <1>3, WordHalves
<1> HIDE DEF l, h
<1>5. a \in Limb /\ b \in {0, 1} /\ a = d - l - s.cf + Base * b
  BY <1>3, <1>4, BorrowStep, Zenon
<1> HIDE DEF a, b
<1>6. a + p + Carried(s) = d + Base * (q + 0 + b + h) /\ q = q + 0
  <2>1. Base * (q + 0 + b + h) = Base * q + Base * h + Base * b
    BY <1>2, <1>3, <1>4, <1>5
  <2>2. a \in Nat /\ l \in Nat /\ Base * q \in Nat /\ Base * h \in Nat /\ Base * b \in Nat
    BY <1>2, <1>3, <1>4, <1>5, LimbBounds
  <2>3. a + p + Carried(s) = d + (Base * q + Base * h + Base * b)
    BY <1>2, <1>3, <1>4, <1>5, <2>2
  <2> QED BY <1>2, <2>1, <2>3
<1>7. DifferenceExact("flags", [limb |-> a, high |-> q, cf |-> b, of |-> h], s, d, p)
  <2>1. "flags" \notin {"sums", "fused"} /\ 0 \in Nat
    OBVIOUS
  <2> QED BY <1>2, <1>4, <1>5, <1>6, <2>1, DifferenceOfColumn, Zenon
<1> QED BY <1>1, <1>7 DEF p

-----------------------------------------------------------------------------
(* The kernels of product rows.                                            *)

SumColumns == {"sums", "fused", "flags"}
DifferenceColumns == {"flags", "borrow added", "borrow apart", "borrow in"}

RowShapes == {TwoThenOne, FourThenOne, EightThenOne, FourThenRest}

IsRow(r) ==
  /\ r.op \in {"add", "sub"} /\ r.below \in Nat /\ r.phases \in RowShapes
  /\ r.op = "add" => r.column \in SumColumns /\ r.short \in SumColumns /\ r.tested = TRUE
  /\ r.op = "sub" => /\ r.column \in DifferenceColumns /\ r.short \in DifferenceColumns
                     /\ r.tested = FALSE /\ r.below = 4 /\ r.phases # EightThenOne

LEMMA AddRowShape ==
  ASSUME NEW column \in SumColumns, NEW below \in Nat, NEW phases \in RowShapes
  PROVE  IsRow(Rows!AddRow(column, below, phases))
BY DEF IsRow, Rows!AddRow

LEMMA SubRowShape ==
  ASSUME NEW short \in DifferenceColumns, NEW column \in DifferenceColumns,
         NEW phases \in RowShapes, phases # EightThenOne
  PROVE  IsRow(Rows!SubRow(short, column, phases))
BY DEF IsRow, Rows!SubRow

LEMMA RowShape == \A r \in Rows!Rows : IsRow(r)
<1>1. /\ "sums" \in SumColumns /\ "fused" \in SumColumns /\ "flags" \in SumColumns
      /\ "flags" \in DifferenceColumns /\ "borrow added" \in DifferenceColumns
      /\ "borrow apart" \in DifferenceColumns /\ "borrow in" \in DifferenceColumns
  BY Zenon DEF SumColumns, DifferenceColumns
<1>2. 0 \in Nat /\ 4 \in Nat
  OBVIOUS
<1>3. /\ TwoThenOne \in RowShapes /\ FourThenOne \in RowShapes
      /\ EightThenOne \in RowShapes /\ FourThenRest \in RowShapes
  BY Zenon DEF RowShapes
<1>4. TwoThenOne # EightThenOne /\ FourThenOne # EightThenOne /\ FourThenRest # EightThenOne
  BY DEF TwoThenOne, FourThenOne, EightThenOne, FourThenRest, Phase, Rest
<1>5. /\ IsRow(Rows!AddMul_X86) /\ IsRow(Rows!AddMul_X86_64) /\ IsRow(Rows!AddMul_Bmi2)
      /\ IsRow(Rows!AddMul_Adx) /\ IsRow(Rows!AddMul_AArch64) /\ IsRow(Rows!AddMul_Arm)
      /\ IsRow(Rows!AddMul_PowerPC) /\ IsRow(Rows!AddMul_PowerPC64) /\ IsRow(Rows!AddMul_Power9)
      /\ IsRow(Rows!AddMul_S390x) /\ IsRow(Rows!AddMul_RiscV32) /\ IsRow(Rows!AddMul_RiscV64)
      /\ IsRow(Rows!AddMul_LoongArch32) /\ IsRow(Rows!AddMul_LoongArch64)
      /\ IsRow(Rows!AddMul_Mips) /\ IsRow(Rows!AddMul_Mips64)
  BY <1>1, <1>2, <1>3, SameRowShapes, AddRowShape, Zenon
  DEF Rows!AddMul_X86, Rows!AddMul_X86_64, Rows!AddMul_Bmi2, Rows!AddMul_Adx, Rows!AddMul_AArch64,
      Rows!AddMul_Arm, Rows!AddMul_PowerPC, Rows!AddMul_PowerPC64, Rows!AddMul_Power9,
      Rows!AddMul_S390x, Rows!AddMul_RiscV32, Rows!AddMul_RiscV64, Rows!AddMul_LoongArch32,
      Rows!AddMul_LoongArch64, Rows!AddMul_Mips, Rows!AddMul_Mips64
<1>6. /\ IsRow(Rows!SubMul_X86) /\ IsRow(Rows!SubMul_X86_64) /\ IsRow(Rows!SubMul_Bmi2)
      /\ IsRow(Rows!SubMul_Adx) /\ IsRow(Rows!SubMul_AArch64) /\ IsRow(Rows!SubMul_Arm)
      /\ IsRow(Rows!SubMul_PowerPC) /\ IsRow(Rows!SubMul_PowerPC64) /\ IsRow(Rows!SubMul_S390x)
      /\ IsRow(Rows!SubMul_RiscV32) /\ IsRow(Rows!SubMul_RiscV64)
      /\ IsRow(Rows!SubMul_LoongArch32) /\ IsRow(Rows!SubMul_LoongArch64)
      /\ IsRow(Rows!SubMul_Mips) /\ IsRow(Rows!SubMul_Mips64)
  BY <1>1, <1>3, <1>4, SameRowShapes, SubRowShape, Zenon
  DEF Rows!SubMul_X86, Rows!SubMul_X86_64, Rows!SubMul_Bmi2, Rows!SubMul_Adx, Rows!SubMul_AArch64,
      Rows!SubMul_Arm, Rows!SubMul_PowerPC, Rows!SubMul_PowerPC64, Rows!SubMul_S390x,
      Rows!SubMul_RiscV32, Rows!SubMul_RiscV64, Rows!SubMul_LoongArch32,
      Rows!SubMul_LoongArch64, Rows!SubMul_Mips, Rows!SubMul_Mips64
<1> QED BY <1>5, <1>6, Zenon DEF Rows!Rows

Exact(r, column, next, s, d, p) ==
  IF r.op = "add" THEN SumExact(column, next, s, d, p) ELSE DifferenceExact(column, next, s, d, p)

\* A column of any kernel loses nothing.
LEMMA RowColumnExact ==
  ASSUME NEW r, IsRow(r), NEW column, column = r.column \/ column = r.short,
         NEW s, Between(column, s), NEW d \in Limb, NEW v \in Limb, NEW scalar \in Limb
  PROVE  Exact(r, column, Rows!RowColumn(r, column, s, d, v, scalar), s, d, v * scalar)
<1>1. CASE r.op = "add"
  <2>1. column \in SumColumns
    BY <1>1 DEF IsRow
  <2>2. CASE column = "sums"
    <3>1. Rows!RowColumn(r, column, s, d, v, scalar) = Rows!SumsColumn(s, d, v, scalar)
      BY <2>2, Zenon DEF Rows!RowColumn
    <3> QED BY <1>1, <2>2, <3>1, SumsColumn, Zenon DEF Exact
  <2>3. CASE column = "fused"
    <3>1. Rows!RowColumn(r, column, s, d, v, scalar) = Rows!FusedColumn(s, d, v, scalar)
      BY <2>3, Zenon DEF Rows!RowColumn
    <3> QED BY <1>1, <2>3, <3>1, FusedColumn, Zenon DEF Exact
  <2>4. CASE column = "flags"
    <3>1. Rows!RowColumn(r, column, s, d, v, scalar) = Rows!FlagsColumn(s, d, v, scalar)
      BY <1>1, <2>4, Zenon DEF Rows!RowColumn
    <3> QED BY <1>1, <2>4, <3>1, FlagsColumn, Zenon DEF Exact
  <2> QED BY <2>1, <2>2, <2>3, <2>4, Zenon DEF SumColumns
<1>2. CASE r.op = "sub"
  <2>1. column \in DifferenceColumns /\ r.op # "add"
    BY <1>2 DEF IsRow
  <2>2. CASE column = "flags"
    <3>1. Rows!RowColumn(r, column, s, d, v, scalar) = Rows!SubFlagsColumn(s, d, v, scalar)
      BY <1>2, <2>2, Zenon DEF Rows!RowColumn
    <3> QED BY <2>1, <2>2, <3>1, SubFlagsColumn, Zenon DEF Exact
  <2>3. CASE column = "borrow added"
    <3>1. Rows!RowColumn(r, column, s, d, v, scalar) = Rows!BorrowAddedColumn(s, d, v, scalar)
      BY <2>3, Zenon DEF Rows!RowColumn
    <3>2. column \notin {"sums", "fused", "flags"}
      BY <2>3, Zenon
    <3> QED BY <2>1, <3>1, <3>2, BorrowAddedColumn, Zenon DEF Exact
  <2>4. CASE column = "borrow apart"
    <3>1. Rows!RowColumn(r, column, s, d, v, scalar) = Rows!BorrowApartColumn(s, d, v, scalar)
      BY <2>4, Zenon DEF Rows!RowColumn
    <3>2. column \notin {"sums", "fused", "flags"}
      BY <2>4, Zenon
    <3>3. /\ DifferenceExact(column, Rows!BorrowInColumn(s, d, v, scalar), s, d, v * scalar)
          /\ Rows!BorrowApartColumn(s, d, v, scalar) = Rows!BorrowInColumn(s, d, v, scalar)
      BY <3>2, BorrowInColumn
    <3> QED BY <2>1, <3>1, <3>3, Zenon DEF Exact
  <2>5. CASE column = "borrow in"
    <3>1. Rows!RowColumn(r, column, s, d, v, scalar) = Rows!BorrowInColumn(s, d, v, scalar)
      BY <2>5, Zenon DEF Rows!RowColumn
    <3>2. column \notin {"sums", "fused", "flags"}
      BY <2>5, Zenon
    <3>3. /\ DifferenceExact(column, Rows!BorrowInColumn(s, d, v, scalar), s, d, v * scalar)
          /\ Rows!BorrowApartColumn(s, d, v, scalar) = Rows!BorrowInColumn(s, d, v, scalar)
      BY <3>2, BorrowInColumn
    <3> QED BY <2>1, <3>1, <3>3, Zenon DEF Exact
  <2> QED BY <2>1, <2>2, <2>3, <2>4, <2>5, Zenon DEF DifferenceColumns
<1> QED BY <1>1, <1>2 DEF IsRow

-----------------------------------------------------------------------------
(* The numbers of a row.                                                   *)

SumWeighs(a, up, d, v, l, b, m, scalar, weight) ==
  (l + a * weight) + up * (Base * weight) = (b + d * weight) + scalar * (m + v * weight)
DifferenceWeighs(a, up, d, v, l, b, m, scalar, weight) ==
  (l + a * weight) + scalar * (m + v * weight) = (b + d * weight) + up * (Base * weight)

LEMMA WeightedSum ==
  ASSUME NEW a \in Int, NEW up \in Int, NEW d \in Int, NEW v \in Int, NEW w \in Int,
         NEW l \in Int, NEW b \in Int, NEW m \in Int, NEW scalar \in Int, NEW weight \in Int,
         a + Base * up = d + v * scalar + w,
         l + w * weight = b + scalar * m
  PROVE  SumWeighs(a, up, d, v, l, b, m, scalar, weight)
<1> DEFINE B == Base
<1>1. B \in Int
  BY BaseAssumption
<1>2. a + B * up = d + v * scalar + w
  OBVIOUS
<1> HIDE DEF B
<1>3. (a + B * up) * weight = a * weight + up * (B * weight)
  BY <1>1
<1>4. (d + v * scalar + w) * weight = d * weight + scalar * (v * weight) + w * weight
  OBVIOUS
<1>5. scalar * (m + v * weight) = scalar * m + scalar * (v * weight)
  OBVIOUS
<1>6. /\ a * weight \in Int /\ up * (B * weight) \in Int /\ d * weight \in Int
      /\ scalar * (v * weight) \in Int /\ w * weight \in Int /\ scalar * m \in Int
  BY <1>1
<1>7. a * weight + up * (B * weight) = d * weight + scalar * (v * weight) + w * weight
  BY <1>2, <1>3, <1>4
<1> DEFINE aw == a * weight
           uw == up * (B * weight)
           dw == d * weight
           svw == scalar * (v * weight)
           ww == w * weight
           sm == scalar * m
<1>8. /\ aw \in Int /\ uw \in Int /\ dw \in Int /\ svw \in Int /\ ww \in Int /\ sm \in Int
      /\ aw + uw = dw + svw + ww /\ l + ww = b + sm
  BY <1>6, <1>7
<1>9. scalar * (m + v * weight) = sm + svw
  BY <1>5
<1> HIDE DEF aw, uw, dw, svw, ww, sm
<1>10. (l + aw) + uw = (b + dw) + (sm + svw)
  BY <1>8
<1> QED BY <1>9, <1>10 DEF aw, uw, dw, B, SumWeighs

LEMMA WeightedDifference ==
  ASSUME NEW a \in Int, NEW up \in Int, NEW d \in Int, NEW v \in Int, NEW w \in Int,
         NEW l \in Int, NEW b \in Int, NEW m \in Int, NEW scalar \in Int, NEW weight \in Int,
         a + v * scalar + w = d + Base * up,
         l + scalar * m = b + w * weight
  PROVE  DifferenceWeighs(a, up, d, v, l, b, m, scalar, weight)
<1> DEFINE B == Base
<1>1. B \in Int
  BY BaseAssumption
<1>2. a + v * scalar + w = d + B * up
  OBVIOUS
<1> HIDE DEF B
<1>3. (d + B * up) * weight = d * weight + up * (B * weight)
  BY <1>1
<1>4. (a + v * scalar + w) * weight = a * weight + scalar * (v * weight) + w * weight
  OBVIOUS
<1>5. scalar * (m + v * weight) = scalar * m + scalar * (v * weight)
  OBVIOUS
<1>6. /\ a * weight \in Int /\ up * (B * weight) \in Int /\ d * weight \in Int
      /\ scalar * (v * weight) \in Int /\ w * weight \in Int /\ scalar * m \in Int
  BY <1>1
<1>7. a * weight + scalar * (v * weight) + w * weight = d * weight + up * (B * weight)
  BY <1>2, <1>3, <1>4
<1> DEFINE aw == a * weight
           uw == up * (B * weight)
           dw == d * weight
           svw == scalar * (v * weight)
           ww == w * weight
           sm == scalar * m
<1>8. /\ aw \in Int /\ uw \in Int /\ dw \in Int /\ svw \in Int /\ ww \in Int /\ sm \in Int
      /\ aw + svw + ww = dw + uw /\ l + sm = b + ww
  BY <1>6, <1>7
<1>9. scalar * (m + v * weight) = sm + svw
  BY <1>5
<1> HIDE DEF aw, uw, dw, svw, ww, sm
<1>10. (l + aw) + (sm + svw) = (b + dw) + uw
  BY <1>8
<1> QED BY <1>9, <1>10 DEF aw, uw, dw, B, DifferenceWeighs

\* Limbs of which one column is written, as a number.
LEMMA LowestWritten ==
  ASSUME NEW len \in Nat, NEW f \in [1 .. len -> Limb], NEW g \in [1 .. len -> Limb],
         NEW n \in Nat, n + 1 <= len, \A j \in 1 .. n : g[j] = f[j]
  PROVE  /\ f \in Seq(Limb) /\ Len(f) = len
         /\ Lowest(f, n) \in Int
         /\ Lowest(g, n + 1) = Lowest(f, n) + g[n + 1] * Power(Base, n)
<1>1. f \in Seq(Limb) /\ Len(f) = len /\ g \in Seq(Limb) /\ Len(g) = len
  OBVIOUS
<1>2. \A j \in 1 .. n : Column(g, j) = Column(f, j)
  BY <1>1 DEF Column
<1>3. Lowest(g, n) = Lowest(f, n)
  BY <1>1, <1>2, LowestOfColumns
<1>4. Column(g, n + 1) = g[n + 1]
  BY <1>1 DEF Column
<1>5. Lowest(f, n) \in Int /\ Lowest(g, n + 1) = Lowest(g, n) + Column(g, n + 1) * Power(Base, n)
  BY <1>1, LowestFacts
<1> QED BY <1>1, <1>3, <1>4, <1>5

-----------------------------------------------------------------------------
(* A row in flight.                                                        *)

RowCalled ==
  /\ IsRow(row) /\ call.scalar \in Limb
  /\ call.dst \in Seq(Limb) /\ call.src \in Seq(Limb) /\ Len(call.dst) = Len(call.src)

RowMode == IF Rows!Short THEN row.short ELSE row.column

\* The written limbs and the words in flight are the old limbs and the products so far.
RowNumbers(n, limbs, s) ==
  LET flight == Carried(s) * Power(Base, n)
      product == call.scalar * Lowest(call.src, n)
  IN  IF row.op = "add" THEN Lowest(limbs, n) + flight = Lowest(call.dst, n) + product
      ELSE Lowest(limbs, n) + product = Lowest(call.dst, n) + flight

RowAt(n, limbs, s) ==
  /\ limbs \in [1 .. Len(call.dst) -> Limb]
  /\ \A j \in n + 1 .. Len(call.dst) : limbs[j] = call.dst[j]
  /\ Between(RowMode, s)
  /\ RowNumbers(n, limbs, s)

LEMMA RowFacts ==
  ASSUME RowCalled
  PROVE  /\ Len(call.dst) \in Nat /\ Len(call.src) = Len(call.dst) /\ call.scalar \in Int
         /\ \A j \in 1 .. Len(call.dst) : call.dst[j] \in Limb /\ call.src[j] \in Limb
         /\ call.dst \in [1 .. Len(call.dst) -> Limb]
         /\ RowMode = row.column \/ RowMode = row.short
         /\ row.op \in {"add", "sub"}
BY LenProperties, LimbBounds DEF RowCalled, RowMode, IsRow

LEMMA MultiplyKeeps ==
  ASSUME RowCalled, NEW n \in Nat, n + 1 <= Len(call.dst), NEW limbs, NEW s, RowAt(n, limbs, s),
         NEW before, before.limbs = limbs, before.st = s
  PROVE  RowAt(n + 1, Rows!Multiply(before, n + 1).limbs, Rows!Multiply(before, n + 1).st)
<1> DEFINE col == n + 1
           next == Rows!RowColumn(row, RowMode, s, limbs[col], call.src[col], call.scalar)
           written == [limbs EXCEPT ![col] = next.limb]
<1>1. Rows!Multiply(before, col).limbs = written /\ Rows!Multiply(before, col).st = next
  BY DEF Rows!Multiply, RowMode
<1>2. /\ col \in 1 .. Len(call.dst) /\ col \in Nat /\ Len(call.dst) \in Nat
      /\ call.src[col] \in Limb /\ call.scalar \in Limb /\ limbs[col] = call.dst[col]
      /\ limbs[col] \in Limb
  BY RowFacts DEF RowAt, RowCalled
<1>3. Exact(row, RowMode, next, s, limbs[col], call.src[col] * call.scalar)
  <2>1. IsRow(row) /\ (RowMode = row.column \/ RowMode = row.short) /\ Between(RowMode, s)
    BY RowFacts DEF RowCalled, RowAt
  <2> QED BY <1>2, <2>1, RowColumnExact, Zenon
<1> HIDE DEF next, col
<1>4. Between(RowMode, next) /\ next.limb \in Limb /\ Carried(next) \in Int /\ next.limb \in Int
  <2>1. Between(RowMode, next)
    BY <1>3, Zenon DEF Exact, SumExact, DifferenceExact
  <2> QED BY <2>1, BetweenFacts, LimbBounds
<1>5. /\ written \in [1 .. Len(call.dst) -> Limb] /\ written[col] = next.limb
      /\ \A j \in 1 .. Len(call.dst) : j # col => written[j] = limbs[j]
  BY <1>2, <1>4 DEF RowAt
<1> HIDE DEF written
<1>6. \A j \in col + 1 .. Len(call.dst) : written[j] = call.dst[j]
  BY <1>2, <1>5 DEF RowAt, col
<1>7. RowNumbers(col, written, next)
  <2> DEFINE P == Power(Base, n)
             a == next.limb
             up == Carried(next)
             w == Carried(s)
             d == call.dst[col]
             v == call.src[col]
             l == Lowest(limbs, n)
             b == Lowest(call.dst, n)
             m == Lowest(call.src, n)
             scalar == call.scalar
  <2>1. Lowest(written, col) = l + a * P /\ l \in Int
    <3>1. \A j \in 1 .. n : written[j] = limbs[j]
      BY <1>2, <1>5 DEF col
    <3>2. limbs \in [1 .. Len(call.dst) -> Limb]
      BY DEF RowAt
    <3>3. written \in [1 .. Len(call.dst) -> Limb] /\ Len(call.dst) \in Nat
      BY <1>2, <1>5
    <3>4. Lowest(limbs, n) \in Int /\ Lowest(written, n + 1) = Lowest(limbs, n) + written[n + 1] * Power(Base, n)
      BY <3>1, <3>2, <3>3, LowestWritten, Zenon
    <3> QED BY <1>5, <3>4 DEF col
  <2>2. Lowest(call.dst, col) = b + d * P /\ b \in Int /\ Lowest(call.src, col) = m + v * P /\ m \in Int
    <3>1. call.dst \in Seq(Limb) /\ call.src \in Seq(Limb) /\ Len(call.src) = Len(call.dst)
      BY DEF RowCalled
    <3>2. Column(call.dst, n + 1) = call.dst[n + 1] /\ Column(call.src, n + 1) = call.src[n + 1]
      BY <1>2, <3>1 DEF Column, col
    <3> QED BY <3>1, <3>2, LowestFacts DEF col
  <2>3. Power(Base, col) = Base * P /\ P \in Int
    BY WeightType DEF col
  <2>4. a \in Int /\ up \in Int /\ d \in Int /\ v \in Int /\ w \in Int /\ scalar \in Int
    BY <1>2, <1>4, BetweenFacts, LimbBounds DEF RowAt
  <2>5. /\ row.op = "add" => a + Base * up = d + v * scalar + w /\ l + w * P = b + scalar * m
        /\ row.op # "add" => a + v * scalar + w = d + Base * up /\ l + scalar * m = b + w * P
    BY <1>2, <1>3, Zenon DEF Exact, SumExact, DifferenceExact, RowAt, RowNumbers
  <2> HIDE DEF P, a, up, w, d, v, l, b, m, scalar
  <2>6. /\ row.op = "add" =>
             (l + a * P) + up * (Base * P) = (b + d * P) + scalar * (m + v * P)
        /\ row.op # "add" =>
             (l + a * P) + scalar * (m + v * P) = (b + d * P) + up * (Base * P)
    <3>1. CASE row.op = "add"
      <4>1. a + Base * up = d + v * scalar + w /\ l + w * P = b + scalar * m
        BY <2>5, <3>1
      <4>2. SumWeighs(a, up, d, v, l, b, m, scalar, P)
        BY <2>1, <2>2, <2>3, <2>4, <4>1, WeightedSum, Zenon
      <4> QED BY <3>1, <4>2, Zenon DEF SumWeighs
    <3>2. CASE row.op # "add"
      <4>1. a + v * scalar + w = d + Base * up /\ l + scalar * m = b + w * P
        BY <2>5, <3>2
      <4>2. DifferenceWeighs(a, up, d, v, l, b, m, scalar, P)
        BY <2>1, <2>2, <2>3, <2>4, <4>1, WeightedDifference, Zenon
      <4> QED BY <3>2, <4>2, Zenon DEF DifferenceWeighs
    <3> QED BY <3>1, <3>2
  <2> QED BY <2>1, <2>2, <2>3, <2>6, Zenon DEF RowNumbers, up, scalar
<1>8. RowAt(col, written, next)
  BY <1>4, <1>5, <1>6, <1>7 DEF RowAt
<1> QED BY <1>1, <1>8 DEF col

\* The columns of a block.
LEMMA ColumnsMultiply ==
  ASSUME RowCalled, done \in Nat, RowAt(done, dst, st), NEW count \in Nat, done + count <= Len(call.dst)
  PROVE  RowAt(done + count, Rows!Columns(count).limbs, Rows!Columns(count).st)
<1> DEFINE start == [limbs |-> dst, st |-> st]
           Within(n, r) == RowAt(done + n, r.limbs, r.st)
           S == {[limbs |-> f, st |-> s] :
                   f \in [1 .. Len(call.dst) -> Limb],
                   s \in [limb : Limb, high : Limb, cf : {0, 1}, of : {0, 1}]}
           A == [n \in 0 .. count |-> {r \in S : Within(n, r)}]
           F == [n \in 1 .. count |-> [r \in S |-> Rows!Multiply(r, done + n)]]
           Is(f) == f = [n \in 0 .. count |-> IF n = 0 THEN start ELSE Rows!Multiply(f[n - 1], done + n)]
           run == CHOOSE f : Is(f)
<1>1. ASSUME NEW limbs, NEW s, NEW n, RowAt(n, limbs, s) PROVE [limbs |-> limbs, st |-> s] \in S
  BY <1>1 DEF RowAt, Between
<1>2. ASSUME NEW n \in 1 .. count, NEW r, Within(n - 1, r)
      PROVE  Rows!Multiply(r, done + n) \in S /\ Within(n, Rows!Multiply(r, done + n))
  <2>1. /\ done + (n - 1) \in Nat /\ (done + (n - 1)) + 1 = done + n /\ done + n <= Len(call.dst)
    BY RowFacts
  <2>2. RowAt(done + (n - 1), r.limbs, r.st)
    BY <1>2
  <2>3. RowAt(done + n, Rows!Multiply(r, done + n).limbs, Rows!Multiply(r, done + n).st)
    BY <2>1, <2>2, MultiplyKeeps, Zenon
  <2>4. Rows!Multiply(r, done + n)
          = [limbs |-> Rows!Multiply(r, done + n).limbs, st |-> Rows!Multiply(r, done + n).st]
    BY DEF Rows!Multiply
  <2> HIDE DEF S
  <2>5. Rows!Multiply(r, done + n) \in S
    BY <1>1, <2>3, <2>4, Zenon
  <2> QED BY <2>3, <2>5
<1>3. start \in S /\ Within(0, start)
  <2>1. done + 0 = done
    OBVIOUS
  <2> QED BY <1>1, <2>1
<1> HIDE DEF S, Within, start
<1>4. /\ \A n \in 0 .. count : A[n] \subseteq S
      /\ start \in A[0]
      /\ \A n \in 1 .. count : \A r \in A[n - 1] : F[n][r] \in A[n]
  <2>1. \A n \in 0 .. count : \A r : r \in A[n] <=> r \in S /\ Within(n, r)
    OBVIOUS
  <2>2. \A n \in 1 .. count : n - 1 \in 0 .. count /\ n \in 0 .. count
    OBVIOUS
  <2>3. \A n \in 1 .. count : \A r \in S : F[n][r] = Rows!Multiply(r, done + n)
    OBVIOUS
  <2>4. 0 \in 0 .. count
    OBVIOUS
  <2> HIDE DEF A, F
  <2>5. ASSUME NEW n \in 1 .. count, NEW r \in A[n - 1] PROVE F[n][r] \in A[n]
    <3>1. r \in S /\ Within(n - 1, r)
      BY <2>1, <2>2
    <3>2. Rows!Multiply(r, done + n) \in S /\ Within(n, Rows!Multiply(r, done + n))
      BY <1>2, <3>1
    <3> QED BY <2>1, <2>2, <2>3, <3>1, <3>2
  <2> QED BY <1>3, <2>1, <2>4, <2>5
<1>5. PICK f \in [0 .. count -> S] : Follows(f, count, start, F) /\ \A n \in 0 .. count : f[n] \in A[n]
  <2> HIDE DEF A, F
  <2> QED BY <1>4, RunExists, Zenon
<1>6. Is(f)
  <2>1. ASSUME NEW n \in 0 .. count
        PROVE  f[n] = IF n = 0 THEN start ELSE Rows!Multiply(f[n - 1], done + n)
    <3>1. CASE n = 0
      BY <1>5, <3>1 DEF Follows
    <3>2. CASE n # 0
      <4>1. n \in 1 .. count /\ n - 1 \in 0 .. count
        BY <3>2
      <4>2. f[n - 1] \in S
        BY <4>1
      <4>3. F[n][f[n - 1]] = Rows!Multiply(f[n - 1], done + n)
        BY <4>1, <4>2
      <4> QED BY <1>5, <3>2, <4>1, <4>3 DEF Follows
    <3> QED BY <3>1, <3>2
  <2>2. f = [n \in 0 .. count |-> f[n]]
    OBVIOUS
  <2> QED BY <2>1, <2>2
<1>7. Is(run)
  <2> HIDE DEF Is
  <2> QED BY <1>6, Zenon
<1>8. Rows!Columns(count) = run[count]
  BY Zenon DEF Rows!Columns, start
<1> HIDE DEF run
<1>9. \A n \in 0 .. count : run[n] = IF n = 0 THEN start ELSE Rows!Multiply(run[n - 1], done + n)
  BY <1>7, Zenon
<1> DEFINE T == {n \in Nat : n <= count => Within(n, run[n])}
<1>10. 0 \in T
  BY <1>3, <1>9
<1>11. ASSUME NEW n \in Nat, n \in T PROVE n + 1 \in T
  <2>1. SUFFICES ASSUME n + 1 <= count PROVE Within(n + 1, run[n + 1])
    OBVIOUS
  <2>2. n + 1 \in 0 .. count /\ n + 1 \in 1 .. count /\ n + 1 # 0 /\ (n + 1) - 1 = n
    BY <2>1
  <2>3. Within(n, run[n])
    BY <1>11, <2>1
  <2>4. run[n + 1] = Rows!Multiply(run[(n + 1) - 1], done + (n + 1))
    BY <1>9, <2>2, Zenon
  <2>5. Within((n + 1) - 1, run[(n + 1) - 1])
    BY <2>2, <2>3
  <2> QED BY <1>2, <2>2, <2>4, <2>5, Zenon
<1>12. count \in T
  <2> HIDE DEF T
  <2> QED BY <1>10, <1>11, SetInduction
<1> QED BY <1>8, <1>12 DEF Within

\* A block that closes its open chain keeps what is carried.
LEMMA CloseKeeps ==
  ASSUME NEW n, NEW limbs, NEW s, RowAt(n, limbs, s)
  PROVE  RowAt(n, limbs, Rows!CloseBlock(s)) /\ Rows!CloseBlock(s).of = 0
<1>1. /\ s.limb \in Limb /\ s.cf \in {0, 1} /\ s.high \in Nat /\ s.of \in Nat /\ s.cf \in Nat
      /\ Carried(s) = s.high + s.cf + s.of /\ Carried(s) <= Base - 1 /\ Base \in Nat
  BY BetweenFacts DEF RowAt, Between
<1>2. Rows!Absorb(s.high, s.of) = s.high + s.of /\ s.high + s.of \in Limb
  <2>1. s.high + s.of <= Base - 1
    BY <1>1
  <2> QED BY <1>1, <2>1, AbsorbExact
<1> DEFINE closed == [limb |-> s.limb, high |-> s.high + s.of, cf |-> s.cf, of |-> 0]
<1>3. Rows!CloseBlock(s) = closed
  BY <1>2 DEF Rows!CloseBlock
<1>4. Carried(closed) = Carried(s)
  BY <1>1 DEF Carried
<1>5. Between(RowMode, closed)
  <2>1. RowMode \in {"sums", "fused"} => closed.cf = 0
    BY Zenon DEF RowAt, Between
  <2>2. closed \in [limb : Limb, high : Limb, cf : {0, 1}, of : {0, 1}] /\ closed.of = 0
    BY <1>1, <1>2
  <2> HIDE DEF closed
  <2> QED BY <1>1, <1>4, <2>1, <2>2, Zenon DEF Between
<1>6. closed.of = 0
  OBVIOUS
<1> HIDE DEF closed
<1> QED BY <1>3, <1>4, <1>5, <1>6, Zenon DEF RowAt, RowNumbers

RowInv ==
  /\ RowCalled
  /\ done \in 0 .. Len(call.dst)
  /\ RowAt(done, dst, st) /\ st.of = 0
  /\ pc = "loop" => Covers(blocks, Len(call.dst) - done)
  /\ pc = "returned" =>
       /\ done = Len(call.dst)
       /\ result = IF row.op = "add" THEN <<Rows!Absorb(st.high, st.cf), 0>> ELSE <<st.high, st.cf>>

LEMMA InitRow == ASSUME Rows!CallsAssumption, Rows!Init PROVE RowInv
<1>1. RowCalled
  <2>1. call \in RowInputs /\ row \in Rows!Rows
    BY DEF Rows!Init
  <2>2. /\ call.dst \in Seq(Rows!Limb) /\ call.src \in Seq(Rows!Limb) /\ Len(call.dst) = Len(call.src)
        /\ call.scalar \in Rows!Limb
    BY <2>1, Zenon DEF Rows!CallsAssumption
  <2> QED BY <2>1, <2>2, RowShape, SameRowOperators, Zenon DEF RowCalled
<1>2. /\ dst = call.dst /\ done = 0 /\ st = [limb |-> 0, high |-> 0, cf |-> 0, of |-> 0]
      /\ pc = "loop"
      /\ blocks = IF Rows!Short THEN Schedule(OneByOne, TRUE, Len(call.dst))
                  ELSE Schedule(row.phases, row.tested, Len(call.dst))
  <2>1. Len(call.src) = Len(call.dst)
    BY <1>1, RowFacts
  <2> QED BY <2>1, SameRowOperators, SameRowShapes, Zenon DEF Rows!Init
<1>3. Carried(st) = 0 /\ Between(RowMode, st) /\ st.of = 0
  <2>1. 0 \in Limb /\ 0 <= Base - 1
    BY BaseAssumption DEF Limb
  <2>2. /\ st \in [limb : Limb, high : Limb, cf : {0, 1}, of : {0, 1}] /\ st.cf = 0 /\ st.of = 0
        /\ Carried(st) = 0
    BY <1>2, <2>1 DEF Carried
  <2> QED BY <2>1, <2>2, Zenon DEF Between
<1>4. RowNumbers(0, call.dst, st)
  <2>1. Lowest(call.dst, 0) = 0 /\ Lowest(call.src, 0) = 0 /\ Power(Base, 0) \in Int /\ call.scalar \in Int
    <3>1. call.dst \in Seq(Limb) /\ call.src \in Seq(Limb)
      BY <1>1 DEF RowCalled
    <3>2. Lowest(call.dst, 0) = 0
      BY <3>1, LowestFacts
    <3>3. Lowest(call.src, 0) = 0
      BY <3>1, LowestFacts
    <3>4. Power(Base, 0) \in Int /\ call.scalar \in Int
      BY <1>1, RowFacts, WeightType
    <3> QED BY <3>2, <3>3, <3>4
  <2>2. 0 * Power(Base, 0) = 0 /\ call.scalar * 0 = 0
    BY <2>1
  <2> QED BY <1>3, <2>1, <2>2 DEF RowNumbers
<1>5. RowAt(done, dst, st)
  BY <1>1, <1>2, <1>3, <1>4, RowFacts DEF RowAt
<1>6. Covers(blocks, Len(call.dst) - done)
  <2>1. Len(call.dst) \in Nat /\ Len(call.dst) - done = Len(call.dst) /\ Len(call.src) = Len(call.dst)
    BY <1>1, <1>2, RowFacts
  <2>2. CASE Rows!Short
    <3>1. OneByOne \in Shapes /\ TRUE \in BOOLEAN
      BY DEF Shapes
    <3> QED BY <1>2, <2>1, <2>2, <3>1, ScheduleCovers
  <2>3. CASE ~Rows!Short
    <3>1. row.phases \in Shapes /\ row.tested \in BOOLEAN
      <4>1. row.phases \in RowShapes /\ row.op \in {"add", "sub"}
        BY <1>1, Zenon DEF RowCalled, IsRow
      <4>2. row.phases \in Shapes
        BY <4>1 DEF RowShapes, Shapes
      <4>3. row.op = "add" => row.tested = TRUE
        BY <1>1, Zenon DEF RowCalled, IsRow
      <4>4. row.op = "sub" => row.tested = FALSE
        BY <1>1, Zenon DEF RowCalled, IsRow
      <4> QED BY <4>1, <4>2, <4>3, <4>4
    <3>2. ~row.tested => row.phases \in {FourThenOne, TwoThenOne, FourThenRest} /\ Len(call.dst) >= 4
      <4>1. SUFFICES ASSUME ~row.tested
                     PROVE  row.phases \in {FourThenOne, TwoThenOne, FourThenRest} /\ Len(call.dst) >= 4
        OBVIOUS
      <4>2. row.op = "sub"
        BY <1>1, <4>1, Zenon DEF RowCalled, IsRow
      <4>3. row.below = 4 /\ row.phases # EightThenOne /\ row.phases \in RowShapes
        BY <1>1, <4>2, Zenon DEF RowCalled, IsRow
      <4>4. Len(call.dst) >= 4
        BY <2>1, <2>3, <4>3 DEF Rows!Short
      <4> QED BY <4>3, <4>4, Zenon DEF RowShapes
    <3> QED BY <1>2, <2>1, <2>3, <3>1, <3>2, ScheduleCovers
  <2> QED BY <2>2, <2>3
<1>7. done \in 0 .. Len(call.dst) /\ pc # "returned"
  BY <1>1, <1>2, RowFacts
<1> QED BY <1>1, <1>3, <1>5, <1>6, <1>7 DEF RowInv

LEMMA RowBlockStep == ASSUME RowInv, Rows!Block PROVE RowInv'
<1> DEFINE count == Head(blocks)
           len == Len(call.dst)
           run == Rows!Columns(count)
<1>1. /\ RowCalled /\ done \in 0 .. len /\ RowAt(done, dst, st) /\ len \in Nat
      /\ Covers(blocks, len - done) /\ blocks # <<>>
  BY RowFacts DEF RowInv, Rows!Block
<1>2. count \in Nat /\ count <= len - done /\ Covers(Tail(blocks), (len - done) - count)
  <2> DEFINE rest == len - done
  <2> HIDE DEF rest
  <2>1. Covers(blocks, rest) /\ blocks # <<>>
    BY <1>1 DEF rest
  <2>2. Head(blocks) \in Nat /\ Head(blocks) <= rest /\ Covers(Tail(blocks), rest - Head(blocks))
    BY <2>1, CoversNext
  <2> QED BY <2>2 DEF rest
<1>3. /\ dst' = run.limbs /\ st' = Rows!CloseBlock(run.st) /\ done' = done + count
      /\ blocks' = Tail(blocks) /\ row' = row /\ call' = call /\ pc' = "loop"
  BY DEF Rows!Block
<1> HIDE DEF count
<1>4. /\ done \in Nat /\ done + count <= len /\ done + count \in 0 .. len
      /\ (len - done) - count = len - (done + count)
  BY <1>1, <1>2
<1>5. RowAt(done + count, run.limbs, run.st)
  BY <1>1, <1>2, <1>4, ColumnsMultiply
<1> HIDE DEF run
<1>6. RowAt(done + count, dst', st') /\ st'.of = 0
  BY <1>3, <1>5, CloseKeeps
<1>7. RowCalled' /\ len' = len
  BY <1>1, <1>3 DEF RowCalled
<1>8. RowAt(done, dst, st)'
  <2>1. RowMode' = RowMode
    BY <1>3 DEF RowMode, Rows!Short
  <2> QED BY <1>3, <1>6, <2>1 DEF RowAt, RowNumbers
<1>9. Covers(blocks', len' - done')
  BY <1>2, <1>3, <1>4, <1>7
<1> QED BY <1>3, <1>4, <1>6, <1>7, <1>8, <1>9 DEF RowInv

LEMMA RowReturnStep == ASSUME RowInv, Rows!Return PROVE RowInv'
<1>1. /\ Covers(<<>>, Len(call.dst) - done) /\ done \in 0 .. Len(call.dst) /\ Len(call.dst) \in Nat
  BY RowFacts DEF RowInv, Rows!Return
<1>2. done = Len(call.dst)
  <2>1. Len(call.dst) - done = 0
    BY <1>1, CoversNothing
  <2> QED BY <1>1, <2>1
<1>3. /\ UNCHANGED <<row, call, dst, done, st, blocks>> /\ pc' = "returned"
      /\ result' = IF row.op = "add" THEN <<Rows!Absorb(st.high, st.cf), 0>> ELSE <<st.high, st.cf>>
  BY DEF Rows!Return
<1>4. RowCalled' /\ RowAt(done, dst, st)'
  <2>1. RowMode' = RowMode
    BY <1>3 DEF RowMode, Rows!Short
  <2> QED BY <1>3, <2>1 DEF RowInv, RowCalled, RowAt, RowNumbers
<1> QED BY <1>2, <1>3, <1>4 DEF RowInv

LEMMA RowStep == ASSUME RowInv, [Rows!Next]_(Rows!vars) PROVE RowInv'
<1>1. CASE UNCHANGED Rows!vars
  <2>1. UNCHANGED <<row, call, dst, done, st, blocks, pc, result>>
    BY <1>1 DEF Rows!vars
  <2>2. RowMode' = RowMode
    BY <2>1 DEF RowMode, Rows!Short
  <2> QED BY <2>1, <2>2 DEF RowInv, RowCalled, RowAt, RowNumbers
<1> QED BY <1>1, RowBlockStep, RowReturnStep DEF Rows!Next

\* What the invariant says of a row.
LEMMA RowExact == ASSUME RowInv PROVE Rows!RowIsExact /\ Rows!RowReturns
<1> DEFINE len == Len(call.dst)
           P == Power(Base, done)
           flight == (st.high + st.cf) * P
           l == Lowest(dst, done)
           b == Lowest(call.dst, done)
           product == call.scalar * Lowest(call.src, done)
<1>1. /\ RowCalled /\ done \in 0 .. len /\ done \in Nat /\ RowAt(done, dst, st) /\ st.of = 0 /\ len \in Nat
      /\ row.op \in {"add", "sub"}
  BY RowFacts DEF RowInv
<1>2. dst \in Seq(Limb) /\ Len(dst) = len
  BY <1>1 DEF RowAt
<1>3. /\ Carried(st) = st.high + st.cf /\ st.high \in Limb /\ st.high \in Nat /\ st.cf \in {0, 1}
      /\ st.cf \in Nat /\ st.high + st.cf <= Base - 1
  <2>1. Between(RowMode, st)
    BY <1>1 DEF RowAt
  <2>2. Carried(st) <= Base - 1
    BY <2>1, Zenon DEF Between
  <2>3. /\ Carried(st) = st.high + st.cf + st.of /\ st.high \in Limb /\ st.high \in Nat
        /\ st.cf \in {0, 1} /\ st.cf \in Nat
    BY <2>1, BetweenFacts
  <2> QED BY <1>1, <2>2, <2>3
<1>4. l \in Int /\ b \in Int /\ product \in Int /\ P \in Nat
  <2>1. call.dst \in Seq(Limb) /\ call.src \in Seq(Limb) /\ call.scalar \in Int
    BY <1>1, RowFacts DEF RowCalled
  <2>2. Lowest(call.src, done) \in Int
    BY <1>1, <2>1, LowestFacts
  <2>3. b \in Int
    BY <1>1, <2>1, LowestFacts
  <2>4. l \in Int
    BY <1>1, <1>2, LowestFacts
  <2>5. P \in Nat
    BY <1>1, WeightType
  <2> QED BY <2>1, <2>2, <2>3, <2>4, <2>5
<1>5. flight \in Int
  BY <1>3, <1>4
<1>6. IF row.op = "add" THEN l + flight = b + product ELSE l + product = b + flight
  BY <1>1, <1>3 DEF RowAt, RowNumbers
<1>7. /\ Rows!Prefix(dst) = l /\ Rows!Prefix(call.dst) = b /\ Rows!Product = product
      /\ Rows!Power(Base, done) = P
  BY SameRowOperators, Zenon DEF Rows!Prefix, Rows!Product
<1> HIDE DEF flight, l, b, product
<1>8. /\ row.op = "add" => l + flight = b + product
      /\ row.op = "sub" => l - flight = b - product
  BY <1>4, <1>5, <1>6
<1>9. ASSUME pc = "loop", blocks # <<>> PROVE done + Head(blocks) <= Len(dst)
  <2>1. Covers(blocks, len - done)
    BY <1>9 DEF RowInv
  <2>2. Head(blocks) \in Nat /\ Head(blocks) <= len - done
    BY <1>9, <2>1, CoversNext
  <2> QED BY <1>1, <1>2, <2>2
<1>10. \A j \in done + 1 .. Len(dst) : dst[j] = call.dst[j]
  BY <1>1, <1>2 DEF RowAt
<1>11. Rows!RowIsExact
  BY <1>7, <1>8, <1>9, <1>10, Zenon DEF Rows!RowIsExact, flight
<1>12. ASSUME pc = "returned"
       PROVE  /\ done = Len(dst) /\ result[1] \in Rows!Limb /\ result[2] \in {0, 1}
              /\ result[1] + result[2] = st.high + st.cf
              /\ row.op = "add" => result[2] = 0
              /\ result[1] \in Int /\ result[2] \in Int
  <2>1. /\ done = len
        /\ result = IF row.op = "add" THEN <<Rows!Absorb(st.high, st.cf), 0>> ELSE <<st.high, st.cf>>
    BY <1>12 DEF RowInv
  <2>2. Rows!Absorb(st.high, st.cf) = st.high + st.cf /\ st.high + st.cf \in Limb
    BY <1>3, AbsorbExact
  <2>3. Rows!Limb = Limb
    BY SameRowOperators
  <2>4. CASE row.op = "add"
    BY <1>2, <1>3, <2>1, <2>2, <2>3, <2>4
  <2>5. CASE row.op # "add"
    BY <1>2, <1>3, <2>1, <2>3, <2>5
  <2> QED BY <2>4, <2>5
<1>13. ASSUME pc = "returned"
       PROVE  Value(dst) + (IF row.op = "add" THEN result[1] ELSE -(result[1] + result[2])) * Power(Base, Len(dst))
                = Value(call.dst) + (IF row.op = "add" THEN product ELSE -product)
  <2>1. /\ done = Len(dst) /\ result[1] + result[2] = st.high + st.cf
        /\ row.op = "add" => result[2] = 0
        /\ result[1] \in Int /\ result[2] \in Int
    BY <1>12, <1>13
  <2>2. Value(dst) = l /\ Value(call.dst) = b /\ Power(Base, Len(dst)) = P
    BY <1>2, <2>1 DEF Value, l, b
  <2> HIDE DEF P
  <2>3. CASE row.op = "add"
    <3>1. result[1] * P = flight
      BY <1>3, <2>1, <2>3 DEF flight
    <3> QED BY <1>6, <2>2, <2>3, <3>1
  <2>4. CASE row.op # "add"
    <3>1. (-(result[1] + result[2])) * P = -flight
      <4>1. (-(st.high + st.cf)) * P = -((st.high + st.cf) * P)
        BY <1>3, <1>4
      <4> QED BY <2>1, <4>1 DEF flight
    <3>2. l + (-flight) = b + (-product)
      BY <1>4, <1>5, <1>6, <2>4
    <3> QED BY <2>2, <2>4, <3>1, <3>2
  <2> QED BY <2>3, <2>4
<1>14. Rows!RowReturns
  <2>1. Rows!Value(dst) = Value(dst) /\ Rows!Value(call.dst) = Value(call.dst)
        /\ Rows!Power(Base, Len(dst)) = Power(Base, Len(dst))
    BY SameRowOperators, Zenon
  <2> QED BY <1>7, <1>12, <1>13, <2>1 DEF Rows!RowReturns
<1> QED BY <1>11, <1>14

-----------------------------------------------------------------------------
(* A call of any family.                                                   *)

CallInv ==
  /\ family = "portable" => KernelInv
  /\ family # "portable" => op = None
  /\ family = "chains" => ChainInv
  /\ family = "rows" => RowInv

LEMMA CallInitially == CallInit => CallInv
BY KernelInit, InitChain, InitRow, SpanAssumptions, Zenon
DEF CallInit, CallInv, NoPortable

LEMMA CallStep == ASSUME CallInv, [CallNext /\ UNCHANGED family]_allVars PROVE CallInv'
<1>1. family' = family
  BY DEF allVars
<1>2. ASSUME family = "portable" PROVE KernelInv'
  <2>1. [Next]_vars
    BY <1>2 DEF CallNext, allVars, vars
  <2> QED BY <1>2, <2>1, KernelStep DEF CallInv
<1>3. ASSUME family # "portable" PROVE op' = None
  BY <1>3 DEF CallInv, CallNext, allVars, vars
<1>4. ASSUME family = "chains" PROVE ChainInv'
  <2>1. [Chains!Next]_(Chains!vars)
    BY <1>4 DEF CallNext, allVars, vars, Chains!vars
  <2> QED BY <1>4, <2>1, ChainStep DEF CallInv
<1>5. ASSUME family = "rows" PROVE RowInv'
  <2>1. [Rows!Next]_(Rows!vars)
    BY <1>5 DEF CallNext, allVars, vars, Rows!vars
  <2> QED BY <1>5, <2>1, RowStep DEF CallInv
<1> QED BY <1>1, <1>2, <1>3, <1>4, <1>5, Zenon DEF CallInv

LEMMA CallAlways == CallSpec => []CallInv
BY CallInitially, CallStep, PTL DEF CallSpec

\* Whatever the base, the operands and their lengths, a portable kernel that
\* returns has written the columns of the sum or difference and returns the flag
\* out of it.
THEOREM KernelsCorrect == CallSpec => []KernelsYieldColumns
<1>1. CallInv => KernelsYieldColumns
  <2>1. CASE family = "portable"
    BY <2>1, KernelReturns DEF CallInv
  <2>2. CASE family # "portable"
    BY <2>2 DEF CallInv, KernelsYieldColumns, None
  <2> QED BY <2>1, <2>2
<1> QED BY <1>1, CallAlways, PTL

\* In every state of every processor's carry chain the written limbs are those
\* of the portable columns, the others are untouched, the live chain is the carry
\* between them and the next block lies within the spans; a kernel that returns,
\* by whichever way out of its loops, returns those limbs and that carry.
THEOREM CarryChainsCorrect == CallSpec => []ChainsSound
<1>1. CallInv => ChainsSound
  BY ChainFollows DEF CallInv, ChainsSound, ChainInv
<1> QED BY <1>1, CallAlways, PTL

\* In every state of every processor's product row the written limbs and the
\* words and flags in flight are the old limbs and the products so far: no word
\* that absorbs a carry wraps, no borrow is counted twice, and what is returned
\* completes the row.
THEOREM ProductRowsCorrect == CallSpec => []RowsSound
<1>1. CallInv => RowsSound
  BY RowExact DEF CallInv, RowsSound
<1> QED BY <1>1, CallAlways, PTL
=============================================================================

------------------------ MODULE PairedKernelsProofs ------------------------
(***************************************************************************)
(* The assembly kernels that do in one pass what takes two, for every base, *)
(* every pair of operands, every length and every way the spans are shared. *)
(*                                                                         *)
(* The double rows of DoubleRows: a column of each kernel splits its limb,  *)
(* two products and the words before it into a limb and words that fit      *)
(* (ThreeFit); the same is a product, a carry and the limb in hand,         *)
(* wherever it waits for the next column.                                   *)
(*                                                                         *)
(* The fused kernels of FusedKernels: FusedIsExact speaks of numbers and of *)
(* a call that has returned.  What is inductive is FusedState: each target  *)
(* holds, in the limbs done, a sum or difference of what its operands held  *)
(* when the call began, whose carry is in the flag, and above them what it  *)
(* held then.  A chain that goes after another in a block therefore may not *)
(* read what the other has written: the layouts of the kernels (LaidOut)    *)
(* are what rules it out.  The corrected lanes of a block ripple like its   *)
(* limbs, because a correction that passes a lane finds it all ones or all  *)
(* zeroes (LanesCarry).                                                     *)
(***************************************************************************)
EXTENDS LimbSpansProofs

(* Double rows: one sum of a product, a carry and a limb.                  *)

LEMMA SameDoubleOperators ==
  /\ DoubledRows!Limb = Limb
  /\ \A s, n : DoubledRows!Lowest(s, n) = Lowest(s, n)
  /\ \A s : DoubledRows!Value(s) = Value(s)
  /\ \A b, n : DoubledRows!Power(b, n) = Power(b, n)
  /\ \A p, tested, len : DoubledRows!Schedule(p, tested, len) = Schedule(p, tested, len)
<1>1. DoubledRows!Limb = Limb
  BY DEF DoubledRows!Limb, Limb
<1>2. ASSUME NEW b, NEW n PROVE DoubledRows!Power(b, n) = Power(b, n)
  BY Zenon DEF DoubledRows!Power, Power
<1>3. ASSUME NEW s, NEW n
      PROVE  DoubledRows!Lowest(s, n) = Lowest(s, n) /\ DoubledRows!Value(s) = Value(s)
  BY Zenon DEF DoubledRows!Lowest, Lowest, DoubledRows!Column, Column, DoubledRows!Power, Power,
               DoubledRows!Value, Value
<1>4. \A s : DoubledRows!FlattenSeq(s) = FlattenSeq(s)
  BY Zenon DEF DoubledRows!FlattenSeq, FlattenSeq
<1>5. ASSUME NEW p, NEW len
      PROVE  /\ DoubledRows!Size(p, len) = Size(p, len)
             /\ DoubledRows!Rounds(p, len) = Rounds(p, len)
  BY Zenon DEF DoubledRows!Rounds, Rounds, DoubledRows!Size, Size, DoubledRows!Share, Share
<1>6. ASSUME NEW phases, NEW tested, NEW len
      PROVE  DoubledRows!Schedule(phases, tested, len) = Schedule(phases, tested, len)
  BY <1>4, <1>5 DEF DoubledRows!Schedule, Schedule
<1> QED BY <1>1, <1>2, <1>3, <1>6

LEMMA SameDoubleShapes ==
  /\ DoubledRows!OneByOne = OneByOne /\ DoubledRows!TwoThenOne = TwoThenOne
  /\ DoubledRows!FourThenOne = FourThenOne
<1>1. \A a, b : DoubledRows!Phase(a, b) = Phase(a, b)
  BY DEF DoubledRows!Phase, Phase
<1> QED BY <1>1 DEF DoubledRows!OneByOne, OneByOne, DoubledRows!TwoThenOne, TwoThenOne,
                    DoubledRows!FourThenOne, FourThenOne

LEMMA SameHalves ==
  \A z : DoubledRows!Low(z) = Rows!Low(z) /\ DoubledRows!High(z) = Rows!High(z)
BY DEF DoubledRows!Low, Rows!Low, DoubledRows!High, Rows!High

ThreeColumns == {"sums", "fused", "umaal"}

\* A product, a carry and a limb fit a limb and a carry.
Sum3Exact(out, p, c, d) ==
  out.limb \in Limb /\ out.carry \in Limb /\ out.limb + Base * out.carry = d + p + c

LEMMA SumOfThree ==
  ASSUME NEW p \in Nat, p <= (Base - 1) * (Base - 1), NEW c \in Limb, NEW d \in Limb,
         NEW a \in Limb, NEW up \in Nat, a + Base * up = d + p + c
  PROVE  Sum3Exact([limb |-> a, carry |-> up % Base], p, c, d)
<1>1. up \in Int /\ up <= Base - 1
  <2>1. up \in Int /\ a + Base * up = d + p + c
    OBVIOUS
  <2>2. up <= Base - 1
    BY <2>1, CarriedOfSum, Zenon
  <2> QED BY <2>1, <2>2
<1>2. up % Base = up /\ up \in Limb
  <2>1. Base \in Nat /\ 0 <= up /\ up < Base
    BY <1>1, BaseAssumption
  <2> QED BY <2>1, ChainModBase DEF Limb
<1> QED BY <1>2 DEF Sum3Exact

LEMMA ThreeFit ==
  ASSUME NEW column \in ThreeColumns, NEW v \in Limb, NEW scalar \in Limb, NEW c \in Limb, NEW d \in Limb
  PROVE  Sum3Exact(DoubledRows!Sum3(column, v * scalar, c, d), v * scalar, c, d)
<1> DEFINE p == v * scalar
<1>1. /\ p \in Nat /\ p <= (Base - 1) * (Base - 1)
      /\ Rows!Low(p) \in Limb /\ Rows!High(p) \in Nat /\ p = Base * Rows!High(p) + Rows!Low(p)
  BY ProductHalves
<1> HIDE DEF p
<1>2. c \in Nat /\ d \in Nat /\ c <= Base - 1 /\ d <= Base - 1 /\ Base \in Nat /\ Base >= 2
  BY LimbBounds
<1>3. CASE column = "sums"
  <2> DEFINE q == Rows!High(p)
             r == Rows!Low(p)
             h1 == Rows!High(r + c)
             l1 == Rows!Low(r + c)
             h2 == Rows!High(l1 + d)
             l2 == Rows!Low(l1 + d)
  <2>1. DoubledRows!Sum3(column, p, c, d) = [limb |-> l2, carry |-> (q + h1 + h2) % Base]
    BY <1>3, SameHalves, Zenon DEF DoubledRows!Sum3
  <2>2. r \in Limb /\ q \in Nat /\ p = Base * q + r /\ r \in Nat /\ r <= Base - 1
    BY <1>1, LimbBounds
  <2> HIDE DEF q, r
  <2>3. l1 \in Limb /\ h1 \in {0, 1} /\ r + c = Base * h1 + l1
    BY <1>2, <2>2, WordHalves
  <2> HIDE DEF l1, h1
  <2>4. l2 \in Limb /\ h2 \in {0, 1} /\ l1 + d = Base * h2 + l2
    BY <1>2, <2>3, LimbBounds, WordHalves
  <2> HIDE DEF l2, h2
  <2>5. l2 + Base * (q + h1 + h2) = d + p + c /\ q + h1 + h2 \in Nat
    <3>1. /\ l1 \in Nat /\ l2 \in Nat
          /\ Base * q \in Nat /\ Base * h1 \in Nat /\ Base * h2 \in Nat
      BY <1>2, <2>2, <2>3, <2>4, LimbBounds
    <3>2. Base * (q + h1 + h2) = Base * q + Base * h1 + Base * h2
      BY <1>2, <2>2, <2>3, <2>4
    <3>3. l2 + (Base * q + Base * h1 + Base * h2) = d + p + c
      BY <1>1, <1>2, <2>2, <2>3, <2>4, <3>1
    <3> QED BY <2>2, <2>3, <2>4, <3>2, <3>3
  <2>6. Sum3Exact([limb |-> l2, carry |-> (q + h1 + h2) % Base], p, c, d)
    BY <1>1, <2>4, <2>5, SumOfThree, Zenon
  <2> QED BY <2>1, <2>6 DEF p
<1>4. CASE column = "fused"
  <2> DEFINE q == Rows!High(p + d)
             r == Rows!Low(p + d)
             h1 == Rows!High(r + c)
             l1 == Rows!Low(r + c)
  <2>1. DoubledRows!Sum3(column, p, c, d) = [limb |-> l1, carry |-> (q + h1) % Base]
    BY <1>4, SameHalves, Zenon DEF DoubledRows!Sum3
  <2>2. r \in Limb /\ q \in Nat /\ p + d = Base * q + r /\ r \in Nat /\ r <= Base - 1
    <3>1. p + d \in Nat
      BY <1>1, <1>2
    <3> QED BY <3>1, WideHalves, LimbBounds
  <2> HIDE DEF q, r
  <2>3. l1 \in Limb /\ h1 \in {0, 1} /\ r + c = Base * h1 + l1
    BY <1>2, <2>2, WordHalves
  <2> HIDE DEF l1, h1
  <2>4. l1 + Base * (q + h1) = d + p + c /\ q + h1 \in Nat
    <3>1. l1 \in Nat /\ Base * q \in Nat /\ Base * h1 \in Nat
      BY <1>2, <2>2, <2>3, LimbBounds
    <3>2. Base * (q + h1) = Base * q + Base * h1
      BY <1>2, <2>2, <2>3
    <3>3. l1 + (Base * q + Base * h1) = d + p + c
      BY <1>1, <1>2, <2>2, <2>3, <3>1
    <3> QED BY <2>2, <2>3, <3>2, <3>3
  <2>5. Sum3Exact([limb |-> l1, carry |-> (q + h1) % Base], p, c, d)
    BY <1>1, <2>3, <2>4, SumOfThree, Zenon
  <2> QED BY <2>1, <2>5 DEF p
<1>5. CASE column = "umaal"
  <2> DEFINE q == Rows!High(p + c + d)
             r == Rows!Low(p + c + d)
  <2>1. DoubledRows!Sum3(column, p, c, d) = [limb |-> r, carry |-> q % Base]
    BY <1>5, SameHalves, Zenon DEF DoubledRows!Sum3
  <2>2. r \in Limb /\ q \in Nat /\ p + c + d = Base * q + r
    <3>1. p + c + d \in Nat
      BY <1>1, <1>2
    <3> QED BY <3>1, WideHalves
  <2> HIDE DEF q, r
  <2>3. r + Base * q = d + p + c
    <3>1. r \in Nat /\ Base * q \in Nat
      BY <1>2, <2>2, LimbBounds
    <3> QED BY <1>1, <1>2, <2>2, <3>1
  <2>4. Sum3Exact([limb |-> r, carry |-> q % Base], p, c, d)
    BY <1>1, <2>2, <2>3, SumOfThree, Zenon
  <2> QED BY <2>1, <2>4 DEF p
<1> QED BY <1>3, <1>4, <1>5 DEF ThreeColumns


-----------------------------------------------------------------------------
(* The kernels of double rows.                                             *)

DoubleShapes == {OneByOne, TwoThenOne, FourThenOne}

IsDouble(k) ==
  /\ k.op \in {"add", "into"} /\ k.column \in ThreeColumns /\ k.waits \in {"memory", "register"}
  /\ k.apart \in BOOLEAN /\ k.phases \in DoubleShapes

LEMMA DoubleRowShape ==
  ASSUME NEW way \in {"add", "into"}, NEW column \in ThreeColumns, NEW waits \in {"memory", "register"},
         NEW apart \in BOOLEAN, NEW phases \in DoubleShapes
  PROVE  IsDouble(DoubledRows!DoubleRow(way, column, waits, apart, phases))
BY DEF IsDouble, DoubledRows!DoubleRow

LEMMA DoubleKernelShape == \A k \in DoubledRows!DoubleRowKernels : IsDouble(k)
<1>1. "sums" \in ThreeColumns /\ "fused" \in ThreeColumns /\ "umaal" \in ThreeColumns
  BY Zenon DEF ThreeColumns
<1>2. /\ "add" \in {"add", "into"} /\ "into" \in {"add", "into"}
      /\ "memory" \in {"memory", "register"} /\ "register" \in {"memory", "register"}
      /\ TRUE \in BOOLEAN /\ FALSE \in BOOLEAN
  OBVIOUS
<1>3. OneByOne \in DoubleShapes /\ TwoThenOne \in DoubleShapes /\ FourThenOne \in DoubleShapes
  BY Zenon DEF DoubleShapes
<1>4. /\ IsDouble(DoubledRows!AddMul2_X86) /\ IsDouble(DoubledRows!AddMul2_X86_64)
      /\ IsDouble(DoubledRows!AddMul2_Bmi2) /\ IsDouble(DoubledRows!AddMul2_AArch64)
      /\ IsDouble(DoubledRows!AddMul2_Arm) /\ IsDouble(DoubledRows!AddMul2_PowerPC)
      /\ IsDouble(DoubledRows!AddMul2_PowerPC64) /\ IsDouble(DoubledRows!AddMul2_Power9)
      /\ IsDouble(DoubledRows!AddMul2_S390x) /\ IsDouble(DoubledRows!AddMul2_RiscV32)
      /\ IsDouble(DoubledRows!AddMul2_RiscV64) /\ IsDouble(DoubledRows!AddMul2_LoongArch32)
      /\ IsDouble(DoubledRows!AddMul2_LoongArch64) /\ IsDouble(DoubledRows!AddMul2_Mips)
      /\ IsDouble(DoubledRows!AddMul2_Mips64)
  BY <1>1, <1>2, <1>3, SameDoubleShapes, DoubleRowShape, Zenon
  DEF DoubledRows!AddTwo, DoubledRows!AddMul2_X86, DoubledRows!AddMul2_X86_64,
      DoubledRows!AddMul2_Bmi2, DoubledRows!AddMul2_AArch64, DoubledRows!AddMul2_Arm,
      DoubledRows!AddMul2_PowerPC, DoubledRows!AddMul2_PowerPC64, DoubledRows!AddMul2_Power9,
      DoubledRows!AddMul2_S390x, DoubledRows!AddMul2_RiscV32, DoubledRows!AddMul2_RiscV64,
      DoubledRows!AddMul2_LoongArch32, DoubledRows!AddMul2_LoongArch64, DoubledRows!AddMul2_Mips,
      DoubledRows!AddMul2_Mips64
<1>5. /\ IsDouble(DoubledRows!Mul2_X86) /\ IsDouble(DoubledRows!Mul2_X86_64)
      /\ IsDouble(DoubledRows!Mul2_Bmi2) /\ IsDouble(DoubledRows!Mul2_AArch64)
      /\ IsDouble(DoubledRows!Mul2_Arm) /\ IsDouble(DoubledRows!Mul2_PowerPC64)
      /\ IsDouble(DoubledRows!Mul2_RiscV64) /\ IsDouble(DoubledRows!Mul2_S390x)
  BY <1>1, <1>2, <1>3, SameDoubleShapes, DoubleRowShape, Zenon
  DEF DoubledRows!Mul2_X86, DoubledRows!Mul2_X86_64, DoubledRows!Mul2_Bmi2,
      DoubledRows!Mul2_AArch64, DoubledRows!Mul2_Arm, DoubledRows!Mul2_PowerPC64,
      DoubledRows!Mul2_RiscV64, DoubledRows!Mul2_S390x
<1> QED BY <1>4, <1>5, Zenon DEF DoubledRows!DoubleRowKernels

-----------------------------------------------------------------------------
(* The numbers of a double row.                                            *)

\* Two products a column apart, with what waits and what is carried between.
TwoWeigh(a, w1, e0, e1, h, v, l, b, m, s0, s1, weight) ==
  (l + a * weight) + (w1 + e0 + e1 * Base) * (Base * weight)
    = (b + h * (Base * weight)) + (s0 + s1 * Base) * (m + v * weight)

LEMMA WeightedTwo ==
  ASSUME NEW a \in Int, NEW w \in Int, NEW w1 \in Int, NEW u0 \in Int, NEW u1 \in Int,
         NEW e0 \in Int, NEW e1 \in Int, NEW h \in Int, NEW v \in Int, NEW l \in Int, NEW b \in Int,
         NEW m \in Int, NEW s0 \in Int, NEW s1 \in Int, NEW weight \in Int,
         a + Base * e0 = w + v * s0 + u0,
         w1 + Base * e1 = h + v * s1 + u1,
         l + (w + u0 + u1 * Base) * weight = b + (s0 + s1 * Base) * m
  PROVE  TwoWeigh(a, w1, e0, e1, h, v, l, b, m, s0, s1, weight)
<1> DEFINE B == Base
           wb == B * weight
           scalars == s0 + s1 * B
           x1 == a * weight
           x2 == e0 * wb
           x3 == w * weight
           x4 == (v * s0) * weight
           x5 == u0 * weight
           y1 == w1 * wb
           y2 == (e1 * B) * wb
           y3 == h * wb
           y4 == (v * s1) * wb
           y5 == u1 * wb
           z == scalars * m
<1>1. B \in Int
  BY BaseAssumption
<1>2. /\ a + B * e0 = w + v * s0 + u0 /\ w1 + B * e1 = h + v * s1 + u1
      /\ l + (w + u0 + u1 * B) * weight = b + scalars * m
  OBVIOUS
<1> HIDE DEF B
<1>3. wb \in Int /\ scalars \in Int
  BY <1>1
<1>4. x1 + x2 = x3 + x4 + x5
  <2>1. (a + B * e0) * weight = x1 + x2
    BY <1>1
  <2>2. (w + v * s0 + u0) * weight = x3 + x4 + x5
    OBVIOUS
  <2> QED BY <1>2, <2>1, <2>2
<1>5. y1 + y2 = y3 + y4 + y5
  <2> HIDE DEF wb
  <2>1. (w1 + B * e1) * wb = y1 + y2
    BY <1>1, <1>3
  <2>2. (h + v * s1 + u1) * wb = y3 + y4 + y5
    BY <1>3
  <2> QED BY <1>2, <2>1, <2>2
<1>6. (w + u0 + u1 * B) * weight = x3 + x5 + y5
  BY <1>1
<1>7. scalars * (m + v * weight) = z + x4 + y4
  <2>1. scalars * (m + v * weight) = z + scalars * (v * weight)
    <3> HIDE DEF scalars
    <3> QED BY <1>3
  <2>2. scalars * (v * weight) = s0 * (v * weight) + (s1 * B) * (v * weight)
    BY <1>1
  <2>3. s0 * (v * weight) = x4
    OBVIOUS
  <2>4. (s1 * B) * (v * weight) = y4
    BY <1>1
  <2>5. z \in Int /\ x4 \in Int /\ y4 \in Int
    BY <1>1, <1>3
  <2> HIDE DEF scalars, x4, y4, z
  <2> QED BY <2>1, <2>2, <2>3, <2>4, <2>5
<1>8. (w1 + e0 + e1 * B) * wb = y1 + x2 + y2
  <2> HIDE DEF wb
  <2> QED BY <1>1, <1>3
<1>9. /\ x1 \in Int /\ x2 \in Int /\ x3 \in Int /\ x4 \in Int /\ x5 \in Int
      /\ y1 \in Int /\ y2 \in Int /\ y3 \in Int /\ y4 \in Int /\ y5 \in Int /\ z \in Int
  BY <1>1, <1>3
<1>10. l + (x3 + x5 + y5) = b + z
  BY <1>2, <1>6
<1> HIDE DEF x1, x2, x3, x4, x5, y1, y2, y3, y4, y5, z
<1>11. (l + x1) + (y1 + x2 + y2) = (b + y3) + (z + x4 + y4)
  BY <1>4, <1>5, <1>9, <1>10
<1>12. (l + x1) + (w1 + e0 + e1 * B) * wb = (b + y3) + scalars * (m + v * weight)
  BY <1>7, <1>8, <1>11
<1> QED BY <1>12 DEF TwoWeigh, x1, y3, wb, scalars, B


-----------------------------------------------------------------------------
(* A double row in flight.                                                 *)

DoubleCalled ==
  /\ IsDouble(kernel) /\ call.s0 \in Limb /\ call.s1 \in Limb
  /\ call.dst \in Seq(Limb) /\ call.src \in Seq(Limb) /\ Len(call.dst) = Len(call.src) + 1

\* The limbs of the destination: fresh ones have room for the overflow as well.
Room == IF kernel.op = "add" THEN DoubledRows!N + 1 ELSE DoubledRows!N + 2

Finished(limbs, n) == [j \in 1 .. Room |-> IF j <= n THEN limbs[j] ELSE 0]

\* The finished limbs, the limb that waits and the two carries are together the
\* old limbs and the products so far.
DoubleNumbers(n, limbs, w, u0, u1) ==
  Lowest(Finished(limbs, n), n) + (w + u0 + u1 * Base) * Power(Base, n)
    = (IF kernel.op = "add" THEN Lowest(call.dst, n + 1) ELSE 0)
        + (call.s0 + call.s1 * Base) * Lowest(call.src, n)

DoubleAt(n, limbs, w, u0, u1) ==
  /\ limbs \in [1 .. Room -> Limb \union {Junk}]
  /\ \A j \in 1 .. n : limbs[j] \in Limb
  /\ w \in Limb /\ u0 \in Limb /\ u1 \in Limb
  /\ kernel.op = "add" => \A j \in n + 2 .. Room : limbs[j] = call.dst[j]
  /\ kernel.waits = "memory" /\ (n # 0 \/ kernel.op = "add") => limbs[n + 1] = w
  /\ kernel.op = "into" /\ n = 0 => w = 0
  /\ DoubleNumbers(n, limbs, w, u0, u1)

LEMMA DoubleFacts ==
  ASSUME DoubleCalled
  PROVE  /\ Len(call.src) \in Nat /\ DoubledRows!N = Len(call.src) /\ Len(call.dst) = Len(call.src) + 1
         /\ call.s0 \in Int /\ call.s1 \in Int /\ call.s0 \in Limb /\ call.s1 \in Limb
         /\ call.dst \in Seq(Limb) /\ call.src \in Seq(Limb)
         /\ \A j \in 1 .. Len(call.src) : call.src[j] \in Limb
         /\ \A j \in 1 .. Len(call.src) + 1 : call.dst[j] \in Limb
         /\ kernel.op \in {"add", "into"} /\ kernel.waits \in {"memory", "register"}
         /\ kernel.column \in ThreeColumns
         /\ Room \in Nat /\ Room >= Len(call.src) + 1
         /\ kernel.op = "add" => Room = Len(call.src) + 1
         /\ kernel.op = "into" => Room = Len(call.src) + 2
<1>1. /\ DoubledRows!N = Len(call.src) /\ Len(call.dst) = Len(call.src) + 1
      /\ call.s0 \in Limb /\ call.s1 \in Limb /\ call.dst \in Seq(Limb) /\ call.src \in Seq(Limb)
      /\ kernel.op \in {"add", "into"} /\ kernel.waits \in {"memory", "register"}
      /\ kernel.column \in ThreeColumns
  BY DEF DoubleCalled, IsDouble, DoubledRows!N
<1>2. Len(call.src) \in Nat /\ call.s0 \in Int /\ call.s1 \in Int
  BY <1>1, LenProperties, LimbBounds
<1>3. /\ \A j \in 1 .. Len(call.src) : call.src[j] \in Limb
      /\ \A j \in 1 .. Len(call.src) + 1 : call.dst[j] \in Limb
  BY <1>1, ElementOfSeq
<1>4. /\ Room \in Nat /\ Room >= Len(call.src) + 1
      /\ kernel.op = "add" => Room = Len(call.src) + 1
      /\ kernel.op = "into" => Room = Len(call.src) + 2
  BY <1>1, <1>2 DEF Room
<1> QED BY <1>1, <1>2, <1>3, <1>4, Zenon

\* Finished limbs are a sequence of limbs, of which the next one extends the number.
LEMMA FinishedFacts ==
  ASSUME NEW n \in Nat, Room \in Nat, n <= Room, NEW limbs, \A j \in 1 .. n : limbs[j] \in Limb
  PROVE  /\ Finished(limbs, n) \in [1 .. Room -> Limb] /\ Finished(limbs, n) \in Seq(Limb)
         /\ Len(Finished(limbs, n)) = Room
         /\ \A j \in 1 .. n : Finished(limbs, n)[j] = limbs[j]
         /\ Lowest(Finished(limbs, n), n) \in Int
<1>1. 0 \in Limb
  BY BaseAssumption DEF Limb
<1>2. Finished(limbs, n) \in [1 .. Room -> Limb] /\ \A j \in 1 .. n : Finished(limbs, n)[j] = limbs[j]
  BY <1>1 DEF Finished
<1>3. Finished(limbs, n) \in Seq(Limb) /\ Len(Finished(limbs, n)) = Room
  BY <1>2
<1> QED BY <1>2, <1>3, LowestFacts

LEMMA FinishedNext ==
  ASSUME NEW n \in Nat, Room \in Nat, n + 1 <= Room, NEW limbs, NEW next,
         \A j \in 1 .. n : limbs[j] \in Limb /\ next[j] = limbs[j], next[n + 1] \in Limb
  PROVE  /\ \A j \in 1 .. n + 1 : next[j] \in Limb
         /\ Lowest(Finished(limbs, n), n) \in Int
         /\ Lowest(Finished(next, n + 1), n + 1)
              = Lowest(Finished(limbs, n), n) + next[n + 1] * Power(Base, n)
<1>1. \A j \in 1 .. n + 1 : next[j] \in Limb
  OBVIOUS
<1> DEFINE f == Finished(limbs, n)
           g == Finished(next, n + 1)
<1>2. f \in [1 .. Room -> Limb] /\ \A j \in 1 .. n : f[j] = limbs[j]
  BY FinishedFacts
<1>3. g \in [1 .. Room -> Limb] /\ \A j \in 1 .. n + 1 : g[j] = next[j]
  BY <1>1, FinishedFacts
<1> HIDE DEF f, g
<1>4. (\A j \in 1 .. n : g[j] = f[j]) /\ g[n + 1] = next[n + 1]
  BY <1>2, <1>3
<1>5. Lowest(f, n) \in Int /\ Lowest(g, n + 1) = Lowest(f, n) + g[n + 1] * Power(Base, n)
  BY <1>2, <1>3, <1>4, LowestWritten, Zenon
<1> QED BY <1>1, <1>4, <1>5 DEF f, g

\* One limb of the source through both rows.
LEMMA StepKeeps ==
  ASSUME DoubleCalled, NEW n \in Nat, n + 1 <= Len(call.src),
         NEW acc, DoubleAt(n, acc.dst, acc.held, acc.c0, acc.c1)
  PROVE  /\ DoubleAt(n + 1, DoubledRows!Step(acc, n).dst, DoubledRows!Step(acc, n).held,
                     DoubledRows!Step(acc, n).c0, DoubledRows!Step(acc, n).c1)
         /\ DoubledRows!Step(acc, n)
              = [dst |-> DoubledRows!Step(acc, n).dst, held |-> DoubledRows!Step(acc, n).held,
                 c0 |-> DoubledRows!Step(acc, n).c0, c1 |-> DoubledRows!Step(acc, n).c1]
<1> DEFINE limbs == acc.dst
           w == acc.held
           v == call.src[n + 1]
           current == IF kernel.waits = "register" THEN acc.held
                      ELSE IF kernel.op = "into" /\ n = 0 THEN 0 ELSE acc.dst[n + 1]
           h == IF kernel.op = "add" THEN acc.dst[n + 2] ELSE 0
           first == DoubledRows!Sum3(kernel.column, v * call.s0, acc.c0, current)
           second == DoubledRows!Sum3(kernel.column, v * call.s1, acc.c1, h)
           finished == [limbs EXCEPT ![n + 1] = first.limb]
           next == IF kernel.waits = "memory" THEN [finished EXCEPT ![n + 2] = second.limb] ELSE finished
           after == DoubledRows!Step(acc, n)
<1>1. after = [dst |-> next, held |-> second.limb, c0 |-> first.carry, c1 |-> second.carry]
  BY Zenon DEF DoubledRows!Step
<1> HIDE DEF after
<1>2. /\ n + 1 \in 1 .. Room /\ n + 2 \in 1 .. Room /\ Room \in Nat /\ Len(call.src) \in Nat
      /\ v \in Limb /\ call.s0 \in Limb /\ call.s1 \in Limb /\ 0 \in Limb
      /\ kernel.op \in {"add", "into"} /\ kernel.waits \in {"memory", "register"}
      /\ kernel.column \in ThreeColumns
  <2>1. 0 \in Limb
    BY BaseAssumption DEF Limb
  <2>2. Len(call.src) \in Nat /\ Room \in Nat /\ Room >= Len(call.src) + 1
    BY DoubleFacts
  <2>3. n + 1 \in 1 .. Len(call.src) /\ n + 1 \in 1 .. Room /\ n + 2 \in 1 .. Room
    BY <2>2
  <2> QED BY <2>1, <2>2, <2>3, DoubleFacts
<1>3. /\ limbs \in [1 .. Room -> Limb \union {Junk}] /\ \A j \in 1 .. n : limbs[j] \in Limb
      /\ w \in Limb /\ acc.c0 \in Limb /\ acc.c1 \in Limb
      /\ kernel.op = "add" => \A j \in n + 2 .. Room : limbs[j] = call.dst[j]
      /\ kernel.waits = "memory" /\ (n # 0 \/ kernel.op = "add") => limbs[n + 1] = w
      /\ kernel.op = "into" /\ n = 0 => w = 0
      /\ DoubleNumbers(n, limbs, w, acc.c0, acc.c1)
  BY DEF DoubleAt
<1>4. current = w
  BY <1>2, <1>3
<1>5. h \in Limb /\ (kernel.op = "add" => h = call.dst[n + 2]) /\ (kernel.op # "add" => h = 0)
  <2>1. CASE kernel.op = "add"
    <3>1. limbs[n + 2] = call.dst[n + 2] /\ n + 2 \in 1 .. Len(call.src) + 1
      BY <1>2, <1>3, <2>1
    <3> QED BY <2>1, <3>1, DoubleFacts
  <2>2. CASE kernel.op # "add"
    BY <1>2, <2>2
  <2> QED BY <2>1, <2>2
<1> HIDE DEF current, h
<1>6. Sum3Exact(first, v * call.s0, acc.c0, current) /\ Sum3Exact(second, v * call.s1, acc.c1, h)
  <2>1. current \in Limb
    BY <1>3, <1>4
  <2> HIDE DEF v
  <2> QED BY <1>2, <1>3, <1>5, <2>1, ThreeFit, Zenon
<1> HIDE DEF first, second, v
<1>7. /\ first.limb \in Limb /\ first.carry \in Limb /\ second.limb \in Limb /\ second.carry \in Limb
      /\ first.limb + Base * first.carry = w + v * call.s0 + acc.c0
      /\ second.limb + Base * second.carry = h + v * call.s1 + acc.c1
  BY <1>4, <1>6 DEF Sum3Exact
<1>8. /\ next \in [1 .. Room -> Limb \union {Junk}] /\ next[n + 1] = first.limb
      /\ \A j \in 1 .. Room : j # n + 1 /\ j # n + 2 => next[j] = limbs[j]
      /\ kernel.waits = "memory" => next[n + 2] = second.limb
  <2>1. n + 1 # n + 2
    OBVIOUS
  <2>2. /\ finished \in [1 .. Room -> Limb \union {Junk}] /\ finished[n + 1] = first.limb
        /\ \A j \in 1 .. Room : j # n + 1 => finished[j] = limbs[j]
    BY <1>2, <1>3, <1>7
  <2> HIDE DEF finished
  <2>3. CASE kernel.waits = "memory"
    BY <1>2, <1>7, <2>1, <2>2, <2>3
  <2>4. CASE kernel.waits # "memory"
    BY <2>2, <2>4
  <2> QED BY <2>3, <2>4
<1> HIDE DEF next, limbs, w
<1>9. DoubleNumbers(n + 1, next, second.limb, first.carry, second.carry)
  <2> DEFINE P == Power(Base, n)
             a == first.limb
             e0 == first.carry
             w1 == second.limb
             e1 == second.carry
             u0 == acc.c0
             u1 == acc.c1
             l == Lowest(Finished(limbs, n), n)
             b == IF kernel.op = "add" THEN Lowest(call.dst, n + 1) ELSE 0
             m == Lowest(call.src, n)
             s0 == call.s0
             s1 == call.s1
  <2>1. Lowest(Finished(next, n + 1), n + 1) = l + a * P /\ l \in Int
    <3>1. /\ n + 1 <= Room /\ Room \in Nat /\ next[n + 1] \in Limb
          /\ \A j \in 1 .. n : limbs[j] \in Limb /\ next[j] = limbs[j]
      BY <1>2, <1>3, <1>7, <1>8
    <3>2. /\ Lowest(Finished(limbs, n), n) \in Int
          /\ Lowest(Finished(next, n + 1), n + 1)
               = Lowest(Finished(limbs, n), n) + next[n + 1] * Power(Base, n)
      BY <3>1, FinishedNext, Zenon
    <3> QED BY <1>8, <3>2
  <2>2. Lowest(call.src, n + 1) = m + v * P /\ m \in Int
    <3>1. call.src \in Seq(Limb) /\ Column(call.src, n + 1) = call.src[n + 1]
      BY DoubleFacts DEF Column
    <3> QED BY <3>1, LowestFacts DEF v
  <2>3. Power(Base, n + 1) = Base * P /\ P \in Int
    BY WeightType
  <2>4. (IF kernel.op = "add" THEN Lowest(call.dst, (n + 1) + 1) ELSE 0) = b + h * (Base * P) /\ b \in Int
    <3>1. CASE kernel.op = "add"
      <4>1. call.dst \in Seq(Limb) /\ Column(call.dst, (n + 1) + 1) = call.dst[n + 2] /\ n + 1 \in Nat
        BY DoubleFacts DEF Column
      <4>2. /\ Lowest(call.dst, (n + 1) + 1)
                 = Lowest(call.dst, n + 1) + Column(call.dst, (n + 1) + 1) * Power(Base, n + 1)
            /\ Lowest(call.dst, n + 1) \in Int
        BY <4>1, LowestFacts
      <4> QED BY <1>5, <2>3, <3>1, <4>1, <4>2
    <3>2. CASE kernel.op # "add"
      <4>1. Base * P \in Int /\ h = 0
        BY <1>5, <2>3, <3>2, BaseAssumption
      <4> HIDE DEF P
      <4> QED BY <3>2, <4>1
    <3> QED BY <3>1, <3>2
  <2>5. /\ a \in Int /\ w \in Int /\ w1 \in Int /\ u0 \in Int /\ u1 \in Int /\ e0 \in Int /\ e1 \in Int
        /\ h \in Int /\ v \in Int /\ s0 \in Int /\ s1 \in Int
    BY <1>2, <1>3, <1>5, <1>7, LimbBounds
  <2>6. /\ a + Base * e0 = w + v * s0 + u0 /\ w1 + Base * e1 = h + v * s1 + u1
        /\ l + (w + u0 + u1 * Base) * P = b + (s0 + s1 * Base) * m
    BY <1>3, <1>7 DEF DoubleNumbers
  <2> HIDE DEF P, a, e0, w1, e1, u0, u1, l, b, m, s0, s1
  <2>7. TwoWeigh(a, w1, e0, e1, h, v, l, b, m, s0, s1, P)
    BY <2>1, <2>2, <2>3, <2>4, <2>5, <2>6, WeightedTwo, Zenon
  <2> QED BY <2>1, <2>2, <2>3, <2>4, <2>7, Zenon
          DEF DoubleNumbers, TwoWeigh, w1, e0, e1, s0, s1
<1>10. /\ \A j \in 1 .. n + 1 : next[j] \in Limb
       /\ \A j \in n + 3 .. Room : next[j] = limbs[j]
  BY <1>2, <1>3, <1>7, <1>8
<1>11. DoubleAt(n + 1, next, second.limb, first.carry, second.carry)
  <2>1. (n + 1) + 2 = n + 3 /\ (n + 1) + 1 = n + 2 /\ n + 1 # 0
    OBVIOUS
  <2>2. kernel.op = "add" => \A j \in n + 3 .. Room : next[j] = call.dst[j]
    BY <1>3, <1>10
  <2> QED BY <1>7, <1>8, <1>9, <1>10, <2>1, <2>2 DEF DoubleAt
<1>12. after.dst = next /\ after.held = second.limb /\ after.c0 = first.carry /\ after.c1 = second.carry
  BY <1>1
<1> QED BY <1>1, <1>11, <1>12 DEF after


\* The limbs of a block.
LEMMA WalkKeeps ==
  ASSUME DoubleCalled, done \in Nat, DoubleAt(done, dst, held, c0, c1), NEW count \in Nat,
         done + count <= Len(call.src), DoubledRows!Walk(count)
  PROVE  done' = done + count /\ DoubleAt(done + count, dst', held', c0', c1')
<1> DEFINE start == [dst |-> dst, held |-> held, c0 |-> c0, c1 |-> c1]
           Within(n, r) == DoubleAt(done + n, r.dst, r.held, r.c0, r.c1)
           S == [dst : [1 .. Room -> Limb \union {Junk}], held : Limb, c0 : Limb, c1 : Limb]
           A == [n \in 0 .. count |-> {r \in S : Within(n, r)}]
           F == [n \in 1 .. count |-> [r \in S |-> DoubledRows!Step(r, done + n - 1)]]
           Is(f) == f = [n \in 0 .. count |->
                           IF n = 0 THEN start ELSE DoubledRows!Step(f[n - 1], done + n - 1)]
           run == CHOOSE f : Is(f)
<1>1. ASSUME NEW n, NEW f, NEW w, NEW u0, NEW u1, DoubleAt(n, f, w, u0, u1)
      PROVE  [dst |-> f, held |-> w, c0 |-> u0, c1 |-> u1] \in S
  BY <1>1 DEF DoubleAt
<1>2. ASSUME NEW n \in 1 .. count, NEW r, Within(n - 1, r)
      PROVE  /\ DoubledRows!Step(r, done + n - 1) \in S
             /\ Within(n, DoubledRows!Step(r, done + n - 1))
  <2> DEFINE k == done + n - 1
             after == DoubledRows!Step(r, k)
  <2>1. k \in Nat /\ done + (n - 1) = k /\ k + 1 = done + n /\ k + 1 <= Len(call.src)
    BY DoubleFacts
  <2>2. DoubleAt(k, r.dst, r.held, r.c0, r.c1)
    BY <1>2, <2>1
  <2> HIDE DEF k
  <2>3. /\ DoubleAt(k + 1, after.dst, after.held, after.c0, after.c1)
        /\ after = [dst |-> after.dst, held |-> after.held, c0 |-> after.c0, c1 |-> after.c1]
    BY <2>1, <2>2, StepKeeps, Zenon
  <2> HIDE DEF S, after
  <2>4. after \in S
    BY <1>1, <2>3, Zenon
  <2>5. Within(n, after)
    BY <2>1, <2>3
  <2> QED BY <2>4, <2>5 DEF after, k
<1>3. start \in S /\ Within(0, start)
  <2>1. done + 0 = done
    OBVIOUS
  <2> QED BY <1>1, <2>1
<1> HIDE DEF S, Within, start
<1>4. /\ \A n \in 0 .. count : A[n] \subseteq S
      /\ start \in A[0]
      /\ \A n \in 1 .. count : \A r \in A[n - 1] : F[n][r] \in A[n]
  <2>1. \A n \in 0 .. count : \A r : r \in A[n] <=> r \in S /\ Within(n, r)
    OBVIOUS
  <2>2. \A n \in 1 .. count : n - 1 \in 0 .. count /\ n \in 0 .. count
    OBVIOUS
  <2>3. \A n \in 1 .. count : \A r \in S : F[n][r] = DoubledRows!Step(r, done + n - 1)
    OBVIOUS
  <2>4. 0 \in 0 .. count
    OBVIOUS
  <2> HIDE DEF A, F
  <2>5. ASSUME NEW n \in 1 .. count, NEW r \in A[n - 1] PROVE F[n][r] \in A[n]
    <3>1. r \in S /\ Within(n - 1, r)
      BY <2>1, <2>2
    <3>2. DoubledRows!Step(r, done + n - 1) \in S /\ Within(n, DoubledRows!Step(r, done + n - 1))
      BY <1>2, <3>1
    <3> QED BY <2>1, <2>2, <2>3, <3>1, <3>2
  <2> QED BY <1>3, <2>1, <2>4, <2>5
<1>5. PICK f \in [0 .. count -> S] : Follows(f, count, start, F) /\ \A n \in 0 .. count : f[n] \in A[n]
  <2> HIDE DEF A, F
  <2> QED BY <1>4, RunExists, ZenonT(60)
<1>6. Is(f)
  <2>1. ASSUME NEW n \in 0 .. count
        PROVE  f[n] = IF n = 0 THEN start ELSE DoubledRows!Step(f[n - 1], done + n - 1)
    <3>1. CASE n = 0
      BY <1>5, <3>1 DEF Follows
    <3>2. CASE n # 0
      <4>1. n \in 1 .. count /\ n - 1 \in 0 .. count
        BY <3>2
      <4>2. f[n - 1] \in S
        BY <4>1
      <4>3. F[n][f[n - 1]] = DoubledRows!Step(f[n - 1], done + n - 1)
        BY <4>1, <4>2
      <4> QED BY <1>5, <3>2, <4>1, <4>3 DEF Follows
    <3> QED BY <3>1, <3>2
  <2>2. f = [n \in 0 .. count |-> f[n]]
    OBVIOUS
  <2> QED BY <2>1, <2>2
<1>7. Is(run)
  <2> HIDE DEF Is
  <2> QED BY <1>6, Zenon
<1>8. /\ dst' = run[count].dst /\ held' = run[count].held /\ c0' = run[count].c0
      /\ c1' = run[count].c1 /\ done' = done + count
  BY Zenon DEF DoubledRows!Walk, start
<1> HIDE DEF run
<1>9. \A n \in 0 .. count : run[n] = IF n = 0 THEN start ELSE DoubledRows!Step(run[n - 1], done + n - 1)
  BY <1>7, Zenon
<1> DEFINE T == {n \in Nat : n <= count => Within(n, run[n])}
<1>10. 0 \in T
  BY <1>3, <1>9
<1>11. ASSUME NEW n \in Nat, n \in T PROVE n + 1 \in T
  <2>1. SUFFICES ASSUME n + 1 <= count PROVE Within(n + 1, run[n + 1])
    OBVIOUS
  <2>2. n + 1 \in 0 .. count /\ n + 1 \in 1 .. count /\ n + 1 # 0 /\ (n + 1) - 1 = n
    BY <2>1
  <2>3. Within(n, run[n])
    BY <1>11, <2>1
  <2>4. run[n + 1] = DoubledRows!Step(run[(n + 1) - 1], done + (n + 1) - 1)
    BY <1>9, <2>2, Zenon
  <2>5. Within((n + 1) - 1, run[(n + 1) - 1])
    BY <2>2, <2>3
  <2> QED BY <1>2, <2>2, <2>4, <2>5, Zenon
<1>12. count \in T
  <2> HIDE DEF T
  <2> QED BY <1>10, <1>11, SetInduction
<1> QED BY <1>8, <1>12 DEF Within

DoubleInv ==
  /\ DoubleCalled
  /\ done \in 0 .. Len(call.src)
  /\ pc \in {"enter", "loop", "returned"}
  /\ pc # "returned" => DoubleAt(done, dst, held, c0, c1)
  /\ pc = "enter" => done = 0
  /\ pc = "loop" => Covers(blocks, Len(call.src) - done)
  /\ pc = "returned" => DoubledRows!RowsComplete

LEMMA InitDouble == ASSUME DoubledRows!CallsAssumption, DoubledRows!Init PROVE DoubleInv
<1>1. DoubleCalled
  <2>1. call \in DoubleInputs /\ kernel \in DoubledRows!DoubleRowKernels
    BY DEF DoubledRows!Init
  <2>2. /\ call.dst \in Seq(DoubledRows!Limb) /\ call.src \in Seq(DoubledRows!Limb)
        /\ Len(call.dst) = Len(call.src) + 1
        /\ call.s0 \in DoubledRows!Limb /\ call.s1 \in DoubledRows!Limb
    BY <2>1, Zenon DEF DoubledRows!CallsAssumption
  <2> QED BY <2>1, <2>2, DoubleKernelShape, SameDoubleOperators, Zenon DEF DoubleCalled
<1>2. /\ dst = IF kernel.op = "add" THEN call.dst ELSE [j \in 1 .. Len(call.src) + 2 |-> Junk]
      /\ held = IF kernel.op = "add" THEN call.dst[1] ELSE 0
      /\ done = 0 /\ c0 = 0 /\ c1 = 0 /\ pc = "enter"
  BY DEF DoubledRows!Init, DoubledRows!N
<1>3. /\ Len(call.src) \in Nat /\ Room \in Nat /\ kernel.op \in {"add", "into"}
      /\ kernel.op = "add" => Room = Len(call.src) + 1
      /\ kernel.op = "into" => Room = Len(call.src) + 2
      /\ call.dst \in Seq(Limb) /\ call.src \in Seq(Limb) /\ Len(call.dst) = Len(call.src) + 1
      /\ \A j \in 1 .. Len(call.src) + 1 : call.dst[j] \in Limb
      /\ call.s0 \in Int /\ call.s1 \in Int
  BY <1>1, DoubleFacts
<1>4. 0 \in Limb
  BY BaseAssumption DEF Limb
<1>5. dst \in [1 .. Room -> Limb \union {Junk}]
  <2>1. CASE kernel.op = "add"
    BY <1>2, <1>3, <2>1
  <2>2. CASE kernel.op # "add"
    BY <1>2, <1>3, <2>2
  <2> QED BY <2>1, <2>2
<1>6. held \in Limb /\ c0 \in Limb /\ c1 \in Limb
  BY <1>2, <1>3, <1>4
<1>7. DoubleNumbers(0, dst, held, c0, c1)
  <2>1. Lowest(Finished(dst, 0), 0) = 0
    <3>1. Finished(dst, 0) \in Seq(Limb)
      BY <1>3, FinishedFacts
    <3> QED BY <3>1, LowestFacts
  <2>2. Lowest(call.src, 0) = 0
    BY <1>3, LowestFacts
  <2>3. Power(Base, 0) = 1
    BY BaseAssumption, PowerFacts
  <2>4. kernel.op = "add" => Lowest(call.dst, 0 + 1) = call.dst[1]
    <3>1. Lowest(call.dst, 0 + 1) = Lowest(call.dst, 0) + Column(call.dst, 0 + 1) * Power(Base, 0)
      BY <1>3, LowestFacts
    <3>2. Lowest(call.dst, 0) = 0
      BY <1>3, LowestFacts
    <3>3. Column(call.dst, 0 + 1) = call.dst[1]
      BY <1>3 DEF Column
    <3>4. call.dst[1] \in Int
      <4>1. 1 \in 1 .. Len(call.src) + 1
        BY <1>3
      <4> QED BY <1>3, <4>1, LimbBounds
    <3> QED BY <2>3, <3>1, <3>2, <3>3, <3>4
  <2>5. (call.s0 + call.s1 * Base) * 0 = 0
    BY <1>3, BaseAssumption
  <2>6. held + c0 + c1 * Base = held /\ held \in Int
    BY <1>2, <1>6, LimbBounds, BaseAssumption
  <2>7. held = IF kernel.op = "add" THEN Lowest(call.dst, 0 + 1) ELSE 0
    BY <1>2, <2>4
  <2>8. 0 + (held + c0 + c1 * Base) * Power(Base, 0) = held
    BY <2>3, <2>6
  <2>9. held = (IF kernel.op = "add" THEN Lowest(call.dst, 0 + 1) ELSE 0)
                  + (call.s0 + call.s1 * Base) * Lowest(call.src, 0)
    BY <2>2, <2>5, <2>6, <2>7
  <2> QED BY <2>1, <2>8, <2>9 DEF DoubleNumbers
<1>8. DoubleAt(0, dst, held, c0, c1)
  <2>1. kernel.op = "add" => dst[0 + 1] = held /\ \A j \in 0 + 2 .. Room : dst[j] = call.dst[j]
    BY <1>2
  <2>2. kernel.op = "into" => held = 0
    BY <1>2
  <2> QED BY <1>5, <1>6, <1>7, <2>1, <2>2 DEF DoubleAt
<1> QED BY <1>1, <1>2, <1>3, <1>8 DEF DoubleInv


\* A block, or the first limb apart, leaves the rows in flight.
LEMMA DoubleBlockKeeps ==
  ASSUME DoubleCalled, done \in Nat, DoubleAt(done, dst, held, c0, c1), NEW count \in Nat,
         done + count <= Len(call.src), DoubledRows!Walk(count), UNCHANGED <<kernel, call>>
  PROVE  DoubleCalled' /\ done' = done + count /\ DoubleAt(done, dst, held, c0, c1)'
<1>1. done' = done + count /\ DoubleAt(done + count, dst', held', c0', c1')
  BY WalkKeeps
<1>2. DoubleCalled'
  BY DEF DoubleCalled
<1> QED BY <1>1, <1>2 DEF DoubleAt, DoubleNumbers, Finished, Room, DoubledRows!N

LEMMA EnterDoubleStep == ASSUME DoubleInv, DoubledRows!Enter PROVE DoubleInv'
<1> DEFINE count == IF kernel.apart THEN 1 ELSE 0
           len == IF kernel.apart THEN Len(call.src) - 1 ELSE Len(call.src)
<1>1. /\ DoubleCalled /\ done = 0 /\ DoubleAt(done, dst, held, c0, c1) /\ Len(call.src) \in Nat
      /\ Len(call.src) > 0 /\ kernel.apart \in BOOLEAN /\ kernel.phases \in Shapes
  <2>1. DoubleCalled /\ pc = "enter" /\ done = 0 /\ DoubleAt(done, dst, held, c0, c1)
    BY DEF DoubleInv, DoubledRows!Enter
  <2>2. DoubledRows!N > 0 /\ DoubledRows!N = Len(call.src) /\ Len(call.src) \in Nat
    BY <2>1, DoubleFacts DEF DoubledRows!Enter
  <2>3. kernel.apart \in BOOLEAN /\ kernel.phases \in Shapes
    BY <2>1, Zenon DEF DoubleCalled, IsDouble, DoubleShapes, Shapes
  <2> QED BY <2>1, <2>2, <2>3
<1>2. /\ DoubledRows!Walk(count) /\ UNCHANGED <<kernel, call>> /\ pc' = "loop"
      /\ blocks' = Schedule(kernel.phases, TRUE, len)
  BY SameDoubleOperators DEF DoubledRows!Enter, DoubledRows!N
<1>3. /\ count \in Nat /\ count <= Len(call.src) /\ len \in Nat /\ len = Len(call.src) - count
  BY <1>1
<1> HIDE DEF count, len
<1>4. DoubleCalled' /\ done' = count /\ DoubleAt(done, dst, held, c0, c1)'
  <2>1. done \in Nat /\ done + count = count
    BY <1>1, <1>3
  <2> QED BY <1>1, <1>2, <1>3, <2>1, DoubleBlockKeeps
<1>5. Covers(blocks', len)
  <2>1. TRUE \in BOOLEAN
    OBVIOUS
  <2> QED BY <1>1, <1>2, <1>3, <2>1, ScheduleCovers
<1>6. call' = call /\ Len(call.src') = Len(call.src) /\ count \in 0 .. Len(call.src)
  BY <1>1, <1>2, <1>3
<1> QED BY <1>2, <1>3, <1>4, <1>5, <1>6 DEF DoubleInv

LEMMA DoubleBlockStep == ASSUME DoubleInv, DoubledRows!Block PROVE DoubleInv'
<1> DEFINE count == Head(blocks)
           len == Len(call.src)
<1>1. /\ DoubleCalled /\ done \in 0 .. len /\ DoubleAt(done, dst, held, c0, c1) /\ len \in Nat
      /\ Covers(blocks, len - done) /\ blocks # <<>>
  BY DoubleFacts DEF DoubleInv, DoubledRows!Block
<1>2. count \in Nat /\ count <= len - done /\ Covers(Tail(blocks), (len - done) - count)
  <2> DEFINE rest == len - done
  <2> HIDE DEF rest
  <2>1. Covers(blocks, rest) /\ blocks # <<>>
    BY <1>1 DEF rest
  <2>2. Head(blocks) \in Nat /\ Head(blocks) <= rest /\ Covers(Tail(blocks), rest - Head(blocks))
    BY <2>1, CoversNext
  <2> QED BY <2>2 DEF rest
<1>3. /\ DoubledRows!Walk(count) /\ blocks' = Tail(blocks) /\ UNCHANGED <<kernel, call>> /\ pc' = "loop"
  BY DEF DoubledRows!Block
<1> HIDE DEF count
<1>4. /\ done \in Nat /\ done + count <= len /\ done + count \in 0 .. len
      /\ (len - done) - count = len - (done + count)
  BY <1>1, <1>2
<1>5. DoubleCalled' /\ done' = done + count /\ DoubleAt(done, dst, held, c0, c1)'
  BY <1>1, <1>2, <1>3, <1>4, DoubleBlockKeeps
<1>6. Covers(blocks', len' - done') /\ len' = len
  BY <1>2, <1>3, <1>4, <1>5
<1> QED BY <1>3, <1>4, <1>5, <1>6 DEF DoubleInv

\* The limbs of the destination, once the limb above the last column is written.
LEMMA ClosedNumber ==
  ASSUME NEW n \in Nat, Room \in Nat, n + 1 <= Room, NEW limbs, NEW next \in [1 .. Room -> Limb],
         \A j \in 1 .. n : limbs[j] \in Limb /\ next[j] = limbs[j]
  PROVE  /\ next \in Seq(Limb) /\ Len(next) = Room
         /\ Lowest(next, n + 1) = Lowest(Finished(limbs, n), n) + next[n + 1] * Power(Base, n)
<1> DEFINE f == Finished(limbs, n)
<1>1. f \in [1 .. Room -> Limb] /\ \A j \in 1 .. n : f[j] = limbs[j]
  BY FinishedFacts
<1> HIDE DEF f
<1>2. \A j \in 1 .. n : next[j] = f[j]
  BY <1>1
<1>3. Lowest(next, n + 1) = Lowest(f, n) + next[n + 1] * Power(Base, n)
  BY <1>1, <1>2, LowestWritten, Zenon
<1>4. next \in Seq(Limb) /\ Len(next) = Room
  OBVIOUS
<1> QED BY <1>3, <1>4 DEF f

Stored(limbs, w) ==
  IF kernel.waits = "register" THEN [limbs EXCEPT ![Len(call.src) + 1] = w] ELSE limbs

\* An addition that stores the limb in hand has added both rows.
LEMMA StoreCompletes ==
  ASSUME DoubleCalled, kernel.op = "add", NEW limbs, NEW w, NEW u0, NEW u1,
         DoubleAt(Len(call.src), limbs, w, u0, u1), Len(call.src) > 0
  PROVE  /\ Stored(limbs, w) \in [1 .. Room -> Limb]
         /\ Value(Stored(limbs, w)) + (u0 + u1 * Base) * Power(Base, Len(call.src))
              = Value(call.dst) + (call.s0 + call.s1 * Base) * Value(call.src)
<1> DEFINE n == Len(call.src)
           next == Stored(limbs, w)
           P == Power(Base, n)
           l == Lowest(Finished(limbs, n), n)
<1>1. /\ n \in Nat /\ Room = n + 1 /\ Len(call.dst) = n + 1 /\ call.dst \in Seq(Limb)
      /\ call.src \in Seq(Limb) /\ kernel.waits \in {"memory", "register"}
  BY DoubleFacts
<1>2. /\ limbs \in [1 .. Room -> Limb \union {Junk}] /\ \A j \in 1 .. n : limbs[j] \in Limb
      /\ w \in Limb /\ u0 \in Limb /\ u1 \in Limb
      /\ kernel.waits = "memory" => limbs[n + 1] = w
      /\ DoubleNumbers(n, limbs, w, u0, u1)
  BY DEF DoubleAt
<1> HIDE DEF n
<1>3. /\ next \in [1 .. Room -> Limb] /\ next[n + 1] = w
      /\ \A j \in 1 .. n : next[j] = limbs[j]
  <2>1. n + 1 \in 1 .. Room /\ \A j \in 1 .. n : j \in 1 .. Room /\ j # n + 1
    BY <1>1
  <2>2. \A j \in 1 .. Room : j \in 1 .. n \/ j = n + 1
    BY <1>1
  <2>3. CASE kernel.waits = "register"
    <3>1. next = [limbs EXCEPT ![n + 1] = w]
      BY <2>3 DEF Stored, n
    <3>2. next[n + 1] = w /\ \A j \in 1 .. n : next[j] = limbs[j]
      BY <1>2, <2>1, <3>1
    <3> QED BY <1>2, <2>2, <3>1, <3>2
  <2>4. CASE kernel.waits = "memory"
    <3>1. next = limbs /\ limbs[n + 1] = w
      BY <1>2, <2>4 DEF Stored
    <3> QED BY <1>2, <2>2, <3>1
  <2> HIDE DEF next
  <2> QED BY <1>1, <2>3, <2>4
<1> HIDE DEF next
<1>4. Len(next) = n + 1 /\ Lowest(next, n + 1) = l + w * P
  <2>1. /\ n \in Nat /\ Room \in Nat /\ n + 1 <= Room /\ next \in [1 .. Room -> Limb]
        /\ \A j \in 1 .. n : limbs[j] \in Limb /\ next[j] = limbs[j]
    BY <1>1, <1>2, <1>3
  <2>2. /\ Len(next) = Room
        /\ Lowest(next, n + 1) = Lowest(Finished(limbs, n), n) + next[n + 1] * Power(Base, n)
    <3>1. ASSUME NEW g \in [1 .. Room -> Limb], \A j \in 1 .. n : limbs[j] \in Limb /\ g[j] = limbs[j]
          PROVE  /\ Len(g) = Room
                 /\ Lowest(g, n + 1) = Lowest(Finished(limbs, n), n) + g[n + 1] * Power(Base, n)
      BY <2>1, <3>1, ClosedNumber, Zenon
    <3> QED BY <2>1, <3>1
  <2> QED BY <1>1, <1>3, <2>2
<1>5. l + (w + u0 + u1 * Base) * P
        = Lowest(call.dst, n + 1) + (call.s0 + call.s1 * Base) * Lowest(call.src, n)
  BY <1>2 DEF DoubleNumbers
<1>6. /\ Value(next) = l + w * P /\ Value(call.dst) = Lowest(call.dst, n + 1)
      /\ Value(call.src) = Lowest(call.src, n)
  BY <1>1, <1>4 DEF Value, n
<1>7. l \in Int /\ w \in Int /\ u0 \in Int /\ u1 \in Int /\ P \in Int /\ Base \in Int
  <2>1. Room \in Nat /\ n <= Room
    BY <1>1
  <2>2. l \in Int
    BY <1>1, <1>2, <2>1, FinishedFacts
  <2> QED BY <1>1, <1>2, <2>2, LimbBounds, WeightType
<1> HIDE DEF l, P
<1>8. (w + u0 + u1 * Base) * P = w * P + (u0 + u1 * Base) * P
  BY <1>7
<1>9. w * P \in Int /\ (u0 + u1 * Base) * P \in Int
  BY <1>7
<1>10. (l + w * P) + (u0 + u1 * Base) * P
         = Lowest(call.dst, n + 1) + (call.s0 + call.s1 * Base) * Lowest(call.src, n)
  BY <1>5, <1>7, <1>8, <1>9
<1> QED BY <1>3, <1>6, <1>10 DEF n, P, next

\* The overflow of the flushed limb fits the highest one.
LEMMA FlushFits ==
  ASSUME NEW l \in Int, 0 <= l, NEW weight \in Nat, weight >= 1, NEW low \in Limb, NEW top \in Nat,
         NEW s0 \in Limb, NEW s1 \in Limb, NEW m \in Int, 0 <= m, m < weight,
         l + (low + top * Base) * weight = (s0 + s1 * Base) * m
  PROVE  top <= Base - 1
<1> DEFINE B == Base
           scalars == s0 + s1 * B
           bb == B * B
<1>1. B \in Nat /\ B >= 2 /\ low \in Nat /\ s0 \in Nat /\ s1 \in Nat /\ s0 <= B - 1 /\ s1 <= B - 1
  BY LimbBounds
<1>2. l + (low + top * B) * weight = scalars * m
  OBVIOUS
<1>3. SUFFICES ASSUME top >= B PROVE FALSE
  BY <1>1
<1> HIDE DEF B
<1>4. scalars \in Nat /\ bb \in Nat /\ scalars <= bb - 1
  <2>1. s1 * B <= (B - 1) * B /\ s1 * B \in Nat
    BY <1>1
  <2>2. (B - 1) * B = B * B - B /\ B * B \in Nat
    BY <1>1
  <2> QED BY <1>1, <2>1, <2>2
<1>5. low + top * B >= bb /\ low + top * B \in Nat
  <2>1. top * B >= B * B /\ top * B \in Nat
    BY <1>1, <1>3
  <2> QED BY <1>1, <2>1
<1> DEFINE word == low + top * B
<1> HIDE DEF scalars, bb, word
<1>6. word * weight >= bb * weight /\ word * weight \in Int /\ bb * weight \in Int
  BY <1>4, <1>5 DEF word
<1>7. scalars * m <= (bb - 1) * weight
  <2>1. scalars * m <= scalars * weight
    BY <1>4
  <2>2. scalars * weight <= (bb - 1) * weight
    BY <1>4
  <2>3. scalars * m \in Int /\ scalars * weight \in Int /\ (bb - 1) * weight \in Int
    BY <1>4
  <2> QED BY <2>1, <2>2, <2>3
<1>8. (bb - 1) * weight = bb * weight - weight
  BY <1>4
<1>9. l + word * weight = scalars * m /\ scalars * m \in Int
  BY <1>2, <1>4 DEF word
<1> QED BY <1>6, <1>7, <1>8, <1>9


\* The number of the first limbs is the number in as many columns.
LEMMA PrefixNumber ==
  ASSUME NEW z \in Seq(Limb), NEW n \in Nat, n <= Len(z)
  PROVE  Value(SubSeq(z, 1, n)) = Lowest(z, n)
<1> DEFINE f == SubSeq(z, 1, n)
<1>1. Len(z) \in Nat
  BY LenProperties
<1>2. f \in Seq(Limb) /\ Len(f) = n /\ \A j \in 1 .. n : f[j] = z[j]
  BY <1>1
<1> HIDE DEF f
<1>3. \A j \in 1 .. n : Column(f, j) = Column(z, j)
  BY <1>1, <1>2 DEF Column
<1>4. Lowest(f, n) = Lowest(z, n)
  BY <1>2, <1>3, LowestOfColumns
<1> QED BY <1>2, <1>4 DEF Value, f

\* Fresh limbs, once both carries are flushed, are both rows.
LEMMA FlushCompletes ==
  ASSUME DoubleCalled, kernel.op = "into", NEW limbs, NEW w, NEW u0, NEW u1,
         DoubleAt(Len(call.src), limbs, w, u0, u1), NEW next,
         next = [limbs EXCEPT ![Len(call.src) + 1] = Rows!Low(w + u0),
                              ![Len(call.src) + 2] = (u1 + Rows!High(w + u0)) % Base],
         Len(call.src) > 0
  PROVE  /\ next \in [1 .. Room -> Limb]
         /\ Value(next) = (call.s0 + call.s1 * Base) * Value(call.src)
<1> DEFINE n == Len(call.src)
           P == Power(Base, n)
           l == Lowest(Finished(limbs, n), n)
           m == Lowest(call.src, n)
           s0 == call.s0
           s1 == call.s1
           low == Rows!Low(w + u0)
           high == Rows!High(w + u0)
           top == u1 + high
           f == Finished(limbs, n)
<1>1. /\ n \in Nat /\ Room = n + 2 /\ call.src \in Seq(Limb) /\ s0 \in Limb /\ s1 \in Limb
  BY DoubleFacts
<1>2. /\ limbs \in [1 .. Room -> Limb \union {Junk}] /\ \A j \in 1 .. n : limbs[j] \in Limb
      /\ w \in Limb /\ u0 \in Limb /\ u1 \in Limb
      /\ DoubleNumbers(n, limbs, w, u0, u1)
  BY DEF DoubleAt
<1>3. next = [limbs EXCEPT ![n + 1] = low, ![n + 2] = top % Base]
  OBVIOUS
<1> HIDE DEF n
<1>4. /\ low \in Limb /\ high \in Nat /\ w + u0 = Base * high + low
  <2>1. w + u0 \in Int /\ 0 <= w + u0 /\ w + u0 < 2 * Base
    BY <1>2, LimbBounds
  <2> QED BY <2>1, WordHalves
<1> HIDE DEF low, high
<1>5. /\ l \in Int /\ 0 <= l /\ m \in Int /\ 0 <= m /\ m < P /\ P \in Nat /\ P >= 1
      /\ f \in [1 .. Room -> Limb] /\ \A j \in 1 .. n : f[j] = limbs[j]
  <2>1. Room \in Nat /\ n <= Room
    BY <1>1
  <2>2. /\ f \in Seq(Limb) /\ f \in [1 .. Room -> Limb] /\ \A j \in 1 .. n : f[j] = limbs[j]
    BY <1>1, <1>2, <2>1, FinishedFacts
  <2>3. Lowest(f, n) \in Int /\ 0 <= Lowest(f, n)
    BY <1>1, <2>2, LowestFacts, LowestBound
  <2>4. m \in Int /\ 0 <= m /\ m < P
    BY <1>1, LowestFacts, LowestBound
  <2> QED BY <1>1, <2>2, <2>3, <2>4, WeightType
<1>6. l + (w + u0 + u1 * Base) * P = (s0 + s1 * Base) * m
  <2>1. l + (w + u0 + u1 * Base) * P = 0 + (s0 + s1 * Base) * m
    BY <1>2 DEF DoubleNumbers
  <2>2. (s0 + s1 * Base) * m \in Int
    <3>1. s0 \in Int /\ s1 * Base \in Int
      BY <1>1, LimbBounds
    <3>2. s0 + s1 * Base \in Int /\ m \in Int
      BY <1>5, <3>1
    <3> QED BY <3>2
  <2> QED BY <2>1, <2>2
<1> HIDE DEF l, m, P, s0, s1, f
<1>7. u1 \in Nat /\ top \in Nat /\ low \in Nat /\ Base \in Nat
  BY <1>2, <1>4, LimbBounds
<1>8. w + u0 + u1 * Base = low + top * Base
  BY <1>4, <1>7
<1> HIDE DEF top
<1>9. top \in Limb /\ top % Base = top
  <2>1. l + (low + top * Base) * P = (s0 + s1 * Base) * m
    BY <1>6, <1>8
  <2>2. top <= Base - 1
    BY <1>1, <1>4, <1>5, <1>7, <2>1, FlushFits, Zenon
  <2>3. top \in Int /\ 0 <= top /\ top < Base /\ Base \in Nat
    BY <1>7, <2>2
  <2>4. top % Base = top
    BY <2>3, ChainModBase
  <2> QED BY <2>3, <2>4 DEF Limb
<1>10. /\ next \in [1 .. Room -> Limb] /\ next[n + 1] = low /\ next[n + 2] = top
       /\ \A j \in 1 .. n : next[j] = limbs[j]
  <2>1. /\ n + 1 \in 1 .. Room /\ n + 2 \in 1 .. Room /\ n + 1 # n + 2
        /\ \A j \in 1 .. n : j \in 1 .. Room /\ j # n + 1 /\ j # n + 2
        /\ \A j \in 1 .. Room : j \in 1 .. n \/ j = n + 1 \/ j = n + 2
    BY <1>1
  <2>2. next[n + 1] = low /\ next[n + 2] = top /\ \A j \in 1 .. n : next[j] = limbs[j]
    BY <1>2, <1>3, <1>9, <2>1
  <2>3. DOMAIN next = 1 .. Room /\ next = [j \in 1 .. Room |-> next[j]]
    BY <1>2, <1>3
  <2>4. \A j \in 1 .. Room : next[j] \in Limb
    BY <1>2, <1>4, <1>9, <2>1, <2>2
  <2> QED BY <2>2, <2>3, <2>4
<1>11. /\ Lowest(next, n + 1) = l + low * P
       /\ Lowest(next, (n + 1) + 1) = Lowest(next, n + 1) + next[n + 2] * Power(Base, n + 1)
       /\ Len(next) = (n + 1) + 1
  <2>1. next \in Seq(Limb) /\ Len(next) = n + 2 /\ Room \in Nat /\ n + 1 <= Room /\ n + 1 \in Nat
    <3>1. Room \in Nat /\ n + 1 <= Room /\ n + 1 \in Nat
      BY <1>1
    <3>2. ASSUME NEW g \in [1 .. Room -> Limb] PROVE g \in Seq(Limb) /\ Len(g) = Room
      BY <3>1
    <3> QED BY <1>1, <1>10, <3>1, <3>2
  <2>2. \A j \in 1 .. n : next[j] = f[j]
    BY <1>5, <1>10
  <2>3. Lowest(next, n + 1) = Lowest(f, n) + next[n + 1] * Power(Base, n)
    <3>1. ASSUME NEW g \in [1 .. Room -> Limb], \A j \in 1 .. n : g[j] = f[j]
          PROVE  Lowest(g, n + 1) = Lowest(f, n) + g[n + 1] * Power(Base, n)
      <4>1. n \in Nat /\ Room \in Nat /\ n + 1 <= Room /\ f \in [1 .. Room -> Limb]
        BY <1>1, <1>5, <2>1
      <4> QED BY <3>1, <4>1, LowestWritten, Zenon
    <3> QED BY <1>10, <2>2, <3>1
  <2>4. Column(next, (n + 1) + 1) = next[n + 2]
    BY <1>1, <2>1 DEF Column
  <2>5. Lowest(next, (n + 1) + 1)
          = Lowest(next, n + 1) + Column(next, (n + 1) + 1) * Power(Base, n + 1)
    BY <2>1, LowestFacts
  <2>6. Len(next) = (n + 1) + 1
    BY <1>1, <2>1
  <2> QED BY <1>10, <2>3, <2>4, <2>5, <2>6 DEF l, P, f
<1>12. Value(next) = (l + low * P) + top * (Base * P)
  <2>1. Power(Base, n + 1) = Base * P
    BY <1>1, WeightType DEF P
  <2> QED BY <1>10, <1>11, <2>1 DEF Value
<1>13. (l + low * P) + top * (Base * P) = l + (low + top * Base) * P
  <2>1. (low + top * Base) * P = low * P + top * (Base * P) /\ low * P \in Int /\ top * (Base * P) \in Int
    BY <1>5, <1>7
  <2> QED BY <1>5, <2>1
<1>14. Value(call.src) = m
  BY DEF Value, m, n
<1> QED BY <1>6, <1>8, <1>10, <1>12, <1>13, <1>14 DEF s0, s1

LEMMA StoreStep == ASSUME DoubleInv, DoubledRows!Store PROVE DoubleInv'
<1> DEFINE len == Len(call.src)
           P == Power(Base, len)
<1>1. /\ DoubleCalled /\ done \in 0 .. len /\ DoubleAt(done, dst, held, c0, c1) /\ len \in Nat
      /\ Covers(<<>>, len - done) /\ kernel.op = "add" /\ DoubledRows!N = len
  BY DoubleFacts DEF DoubleInv, DoubledRows!Store
<1>2. done = len
  <2>1. len - done = 0
    BY <1>1, CoversNothing
  <2> QED BY <1>1, <2>1
<1>3. /\ UNCHANGED <<kernel, call, done>> /\ pc' = "returned" /\ result' = <<c0, c1>>
      /\ dst' = IF kernel.waits = "register" THEN [dst EXCEPT ![len + 1] = held] ELSE dst
  BY <1>1 DEF DoubledRows!Store
<1>4. DoubleCalled' /\ len' = len /\ done' \in 0 .. len'
  BY <1>1, <1>3 DEF DoubleCalled
<1>5. DoubledRows!RowsComplete'
  <2>1. SUFFICES ASSUME len > 0 PROVE DoubledRows!RowsComplete'
    BY <1>1, <1>3 DEF DoubledRows!RowsComplete, DoubledRows!N
  <2>2. /\ dst' \in [1 .. Room -> Limb]
        /\ Value(dst') + (c0 + c1 * Base) * P
             = Value(call.dst) + (call.s0 + call.s1 * Base) * Value(call.src)
    <3>1. DoubleAt(len, dst, held, c0, c1)
      BY <1>1, <1>2
    <3>2. DoubleCalled /\ kernel.op = "add" /\ len > 0
      BY <1>1, <2>1
    <3>3. dst' = Stored(dst, held)
      BY <1>3 DEF Stored
    <3> QED BY <3>1, <3>2, <3>3, StoreCompletes, Zenon
  <2>3. \A j \in 1 .. Len(dst') : dst'[j] \in DoubledRows!Limb
    BY <1>1, <2>2, DoubleFacts, SameDoubleOperators
  <2>4. /\ result'[1] = c0 /\ result'[2] = c1 /\ kernel'.op = "add" /\ call' = call
        /\ DoubledRows!N' = len
    BY <1>1, <1>3 DEF DoubledRows!N
  <2>5. /\ DoubledRows!Value(dst') = Value(dst') /\ DoubledRows!Value(call.dst) = Value(call.dst)
        /\ DoubledRows!Value(call.src) = Value(call.src) /\ DoubledRows!Power(Base, len) = P
    BY SameDoubleOperators, Zenon
  <2>6. DoubledRows!Scalars' = call.s0 + call.s1 * Base
    BY <1>3 DEF DoubledRows!Scalars
  <2> HIDE DEF P, len
  <2> QED BY <2>2, <2>3, <2>4, <2>5, <2>6 DEF DoubledRows!RowsComplete
<1> QED BY <1>3, <1>4, <1>5 DEF DoubleInv

LEMMA FlushStep == ASSUME DoubleInv, DoubledRows!Flush PROVE DoubleInv'
<1> DEFINE len == Len(call.src)
           waiting == IF kernel.waits = "register" THEN held ELSE dst[DoubledRows!N + 1]
<1>1. /\ DoubleCalled /\ done \in 0 .. len /\ DoubleAt(done, dst, held, c0, c1) /\ len \in Nat
      /\ Covers(<<>>, len - done) /\ kernel.op = "into" /\ DoubledRows!N = len
      /\ kernel.waits \in {"memory", "register"}
  BY DoubleFacts DEF DoubleInv, DoubledRows!Flush
<1>2. done = len
  <2>1. len - done = 0
    BY <1>1, CoversNothing
  <2> QED BY <1>1, <2>1
<1>3. /\ UNCHANGED <<kernel, call, done>> /\ pc' = "returned"
      /\ dst' = [dst EXCEPT ![len + 1] = Rows!Low(waiting + c0),
                            ![len + 2] = (c1 + Rows!High(waiting + c0)) % Base]
  BY <1>1, SameHalves DEF DoubledRows!Flush
<1>4. DoubleCalled' /\ len' = len /\ done' \in 0 .. len'
  BY <1>1, <1>3 DEF DoubleCalled
<1>5. DoubledRows!RowsComplete'
  <2>1. SUFFICES ASSUME len > 0 PROVE DoubledRows!RowsComplete'
    BY <1>1, <1>3 DEF DoubledRows!RowsComplete, DoubledRows!N
  <2>2. waiting = held
    BY <1>1, <1>2, <2>1 DEF DoubleAt
  <2>3. /\ dst' \in [1 .. Room -> Limb]
        /\ Value(dst') = (call.s0 + call.s1 * Base) * Value(call.src)
    <3> HIDE DEF waiting
    <3> QED BY <1>1, <1>2, <1>3, <2>1, <2>2, FlushCompletes
  <2>4. \A j \in 1 .. Len(dst') : dst'[j] \in DoubledRows!Limb
    BY <1>1, <2>3, DoubleFacts, SameDoubleOperators
  <2>5. kernel'.op = "into" /\ call' = call
    BY <1>1, <1>3
  <2>6. /\ DoubledRows!Value(dst') = Value(dst') /\ DoubledRows!Value(call.src) = Value(call.src)
    BY SameDoubleOperators, Zenon
  <2>7. DoubledRows!Scalars' = call.s0 + call.s1 * Base
    BY <1>3 DEF DoubledRows!Scalars
  <2> HIDE DEF waiting, len
  <2> QED BY <2>3, <2>4, <2>5, <2>6, <2>7 DEF DoubledRows!RowsComplete
<1> QED BY <1>3, <1>4, <1>5 DEF DoubleInv

LEMMA EmptyDoubleStep == ASSUME DoubleInv, DoubledRows!Empty PROVE DoubleInv'
<1>1. /\ DoubleCalled /\ DoubledRows!N = 0 /\ pc' = "returned" /\ done \in 0 .. Len(call.src)
      /\ UNCHANGED <<kernel, call, dst, done, c0, c1, held, blocks, result>>
  BY DEF DoubleInv, DoubledRows!Empty
<1>2. DoubleCalled' /\ done' \in 0 .. Len(call'.src)
  BY <1>1 DEF DoubleCalled
<1>3. DoubledRows!RowsComplete'
  BY <1>1 DEF DoubledRows!RowsComplete, DoubledRows!N
<1> QED BY <1>1, <1>2, <1>3 DEF DoubleInv

LEMMA DoubleStep == ASSUME DoubleInv, [DoubledRows!Next]_(DoubledRows!vars) PROVE DoubleInv'
<1>1. CASE UNCHANGED DoubledRows!vars
  <2>1. UNCHANGED <<kernel, call, dst, done, c0, c1, held, blocks, pc, result>>
    BY <1>1 DEF DoubledRows!vars
  <2> QED BY <2>1 DEF DoubleInv, DoubleCalled, DoubleAt, DoubleNumbers, Finished, Room,
                      DoubledRows!N, DoubledRows!RowsComplete, DoubledRows!Scalars
<1> QED BY <1>1, EnterDoubleStep, DoubleBlockStep, StoreStep, FlushStep, EmptyDoubleStep
        DEF DoubledRows!Next

\* What the invariant says of a double row.
LEMMA DoubleExact == ASSUME DoubleInv PROVE DoubledRows!RowsInFlight /\ DoubledRows!RowsComplete
<1>1. DoubledRows!RowsComplete
  <2>1. CASE pc = "returned"
    BY <2>1 DEF DoubleInv
  <2>2. CASE pc # "returned"
    BY <2>2 DEF DoubledRows!RowsComplete
  <2> QED BY <2>1, <2>2
<1>2. DoubledRows!RowsInFlight
  <2> DEFINE waiting == IF kernel.waits = "register" \/ done = 0 THEN held ELSE dst[done + 1]
             old == IF kernel.op = "add" THEN DoubledRows!Prefix(call.dst, done + 1) ELSE 0
  <2>1. SUFFICES ASSUME pc = "loop"
                 PROVE  /\ DoubledRows!Prefix(dst, done)
                             + (waiting + c0 + c1 * Base) * DoubledRows!Power(Base, done)
                             = old + DoubledRows!Scalars * DoubledRows!Prefix(call.src, done)
                        /\ blocks # <<>> => done + Head(blocks) <= DoubledRows!N
    BY Zenon DEF DoubledRows!RowsInFlight
  <2>2. /\ DoubleCalled /\ done \in 0 .. Len(call.src) /\ DoubleAt(done, dst, held, c0, c1)
        /\ Covers(blocks, Len(call.src) - done)
    BY <2>1 DEF DoubleInv
  <2>3. /\ done \in Nat /\ done <= Len(call.src) /\ Len(call.src) \in Nat /\ Room \in Nat
        /\ Room >= Len(call.src) + 1 /\ DoubledRows!N = Len(call.src)
        /\ Len(call.dst) = Len(call.src) + 1 /\ call.dst \in Seq(Limb) /\ call.src \in Seq(Limb)
        /\ kernel.waits \in {"memory", "register"}
    BY <2>2, DoubleFacts
  <2>4. blocks # <<>> => done + Head(blocks) <= DoubledRows!N
    <3>1. SUFFICES ASSUME blocks # <<>> PROVE done + Head(blocks) <= DoubledRows!N
      OBVIOUS
    <3>2. Head(blocks) \in Nat /\ Head(blocks) <= Len(call.src) - done
      BY <2>2, <3>1, CoversNext
    <3> QED BY <2>3, <3>2
  <2>5. waiting = held
    BY <2>2, <2>3 DEF DoubleAt
  <2>6. DoubledRows!Prefix(call.src, done) = Lowest(call.src, done)
    BY <2>3, PrefixNumber, SameDoubleOperators DEF DoubledRows!Prefix
  <2>7. DoubledRows!Prefix(call.dst, done + 1) = Lowest(call.dst, done + 1)
    <3>1. done + 1 \in Nat /\ done + 1 <= Len(call.dst)
      BY <2>3
    <3> QED BY <2>3, <3>1, PrefixNumber, SameDoubleOperators DEF DoubledRows!Prefix
  <2>8. DoubledRows!Prefix(dst, done) = Lowest(Finished(dst, done), done)
    <3> DEFINE f == Finished(dst, done)
    <3>1. /\ dst \in Seq(Limb \union {Junk}) /\ Len(dst) = Room /\ done <= Room
          /\ \A j \in 1 .. done : dst[j] \in Limb
      BY <2>2, <2>3 DEF DoubleAt
    <3>2. f \in Seq(Limb) /\ Len(f) = Room /\ \A j \in 1 .. done : f[j] = dst[j]
      BY <2>3, <3>1, FinishedFacts
    <3> HIDE DEF f
    <3>3. SubSeq(dst, 1, done) = SubSeq(f, 1, done)
      BY <2>3, <3>1, <3>2
    <3>4. Value(SubSeq(f, 1, done)) = Lowest(f, done)
      BY <2>3, <3>1, <3>2, PrefixNumber
    <3> QED BY <3>3, <3>4, SameDoubleOperators DEF DoubledRows!Prefix, f
  <2>9. DoubleNumbers(done, dst, held, c0, c1)
    BY <2>2 DEF DoubleAt
  <2>10. DoubledRows!Power(Base, done) = Power(Base, done)
    BY SameDoubleOperators, Zenon
  <2> HIDE DEF waiting
  <2> QED BY <2>4, <2>5, <2>6, <2>7, <2>8, <2>9, <2>10 DEF DoubleNumbers, DoubledRows!Scalars
<1> QED BY <1>1, <1>2

-----------------------------------------------------------------------------
(* The fused kernels.                                                      *)

\* The operators of Limbs and LoopShapes, as FusedKernels has them.
LEMMA SameFusedOperators ==
  /\ Fused!Limb = Limb /\ Fused!LimbMax = LimbMax
  /\ \A a : Fused!Complement(a) = Complement(a)
  /\ \A s, n : Fused!Column(s, n) = Column(s, n)
  /\ \A s : Fused!Value(s) = Value(s)
  /\ \A b, n : Fused!Power(b, n) = Power(b, n)
  /\ \A p, tested, len : Fused!Schedule(p, tested, len) = Schedule(p, tested, len)
<1>1. Fused!Limb = Limb /\ Fused!LimbMax = LimbMax /\ \A a : Fused!Complement(a) = Complement(a)
  BY Zenon DEF Fused!Limb, Limb, Fused!LimbMax, LimbMax, Fused!Complement, Complement
<1>2. ASSUME NEW b, NEW n PROVE Fused!Power(b, n) = Power(b, n)
  BY Zenon DEF Fused!Power, Power
<1>3. ASSUME NEW s, NEW n
      PROVE  Fused!Column(s, n) = Column(s, n) /\ Fused!Value(s) = Value(s)
  BY Zenon DEF Fused!Lowest, Lowest, Fused!Column, Column, Fused!Power, Power, Fused!Value, Value
<1>4. \A s : Fused!FlattenSeq(s) = FlattenSeq(s)
  BY Zenon DEF Fused!FlattenSeq, FlattenSeq
<1>5. ASSUME NEW p, NEW len
      PROVE  /\ Fused!Size(p, len) = Size(p, len)
             /\ Fused!Rounds(p, len) = Rounds(p, len)
  BY Zenon DEF Fused!Rounds, Rounds, Fused!Size, Size, Fused!Share, Share
<1>6. ASSUME NEW phases, NEW tested, NEW len
      PROVE  Fused!Schedule(phases, tested, len) = Schedule(phases, tested, len)
  BY <1>4, <1>5 DEF Fused!Schedule, Schedule
<1> QED BY <1>1, <1>2, <1>3, <1>6

LEMMA SameFusedShapes ==
  /\ Fused!OneByOne \in Shapes /\ Fused!TwoThenOne \in Shapes /\ Fused!FourThenOne \in Shapes
  /\ Fused!EightThenOne \in Shapes
<1>1. \A a, b : Fused!Phase(a, b) = Phase(a, b)
  BY DEF Fused!Phase, Phase
<1>2. /\ Fused!OneByOne = OneByOne /\ Fused!TwoThenOne = TwoThenOne /\ Fused!FourThenOne = FourThenOne
      /\ Fused!EightThenOne = EightThenOne
  BY <1>1 DEF Fused!OneByOne, OneByOne, Fused!TwoThenOne, TwoThenOne, Fused!FourThenOne,
              FourThenOne, Fused!EightThenOne, EightThenOne
<1> QED BY <1>2 DEF Shapes

\* What the kernels have in common: the lanes carry no complemented borrow, and
\* a chain across limbs is alone.
ShiftedChain == Fused!Chain("dst", "sub", "dst", "src")

IsFused(k) ==
  /\ k.phases \in Shapes
  /\ k.noBorrow \in BOOLEAN /\ k.lanes \in BOOLEAN /\ k.shifted \in BOOLEAN
  /\ k.lanes => ~k.noBorrow /\ ~k.shifted
  /\ Len(k.chains) \in {1, 2}
  /\ \A c \in 1 .. Len(k.chains) : k.chains[c].op \in {"add", "sub"}
  /\ k.shifted => k.chains = <<ShiftedChain>>

\* A layout has every span of the chains, and no two chains one target.
LaidOut(k, layout) ==
  /\ \A c \in 1 .. Len(k.chains) :
       /\ k.chains[c].into \in DOMAIN layout
       /\ k.chains[c].left \in DOMAIN layout
       /\ k.chains[c].right \in DOMAIN layout
  /\ \A c, d \in 1 .. Len(k.chains) :
       layout[k.chains[c].into] = layout[k.chains[d].into] => c = d

Pairs ==
  {<<Fused!Sum("sum", "source"), Fused!Chain("difference", "sub", "sum", "source")>>,
   <<Fused!Sum("sum", "difference"), Fused!Chain("difference", "sub", "sum", "difference")>>,
   <<Fused!Sum("sum", "difference"), Fused!Chain("difference", "sub", "difference", "sum")>>,
   <<Fused!Sum("dst_a", "src_a"), Fused!Sum("dst_b", "src_b")>>}

IsPair(k) == IsFused(k) /\ k.chains \in Pairs /\ k.shifted = FALSE
IsShifted(k) == IsFused(k) /\ k.chains = <<ShiftedChain>> /\ k.shifted = TRUE

LEMMA PairShape ==
  ASSUME NEW chains \in Pairs, NEW phases \in Shapes, NEW noBorrow \in BOOLEAN, NEW lanes \in BOOLEAN,
         lanes => ~noBorrow
  PROVE  IsPair(Fused!Kernel(chains, phases, noBorrow, lanes, FALSE))
<1>1. Len(chains) = 2 /\ chains[1].op \in {"add", "sub"} /\ chains[2].op \in {"add", "sub"}
  BY DEF Pairs, Fused!Sum, Fused!Chain
<1>2. \A c \in 1 .. 2 : chains[c].op \in {"add", "sub"}
  <2>1. \A c \in 1 .. 2 : c = 1 \/ c = 2
    OBVIOUS
  <2> QED BY <1>1, <2>1
<1> QED BY <1>1, <1>2 DEF IsPair, IsFused, Fused!Kernel

LEMMA PairKernelShape == \A k \in Fused!Double : IsPair(k)
<1>1. \A phases \in Shapes, noBorrow \in BOOLEAN :
        /\ IsPair(Fused!AddSubFrom(phases, noBorrow, FALSE))
        /\ IsPair(Fused!AddSub(phases, noBorrow))
        /\ IsPair(Fused!AddReverseSub(phases, noBorrow))
        /\ IsPair(Fused!AddTwo(phases))
  <2>1. TRUE \in BOOLEAN /\ FALSE \in BOOLEAN
    OBVIOUS
  <2>2. /\ <<Fused!Sum("sum", "source"), Fused!Chain("difference", "sub", "sum", "source")>> \in Pairs
        /\ <<Fused!Sum("sum", "difference"), Fused!Chain("difference", "sub", "sum", "difference")>> \in Pairs
        /\ <<Fused!Sum("sum", "difference"), Fused!Chain("difference", "sub", "difference", "sum")>> \in Pairs
        /\ <<Fused!Sum("dst_a", "src_a"), Fused!Sum("dst_b", "src_b")>> \in Pairs
    BY DEF Pairs
  <2> QED BY <2>1, <2>2, PairShape, Zenon DEF Fused!AddSubFrom, Fused!AddSub, Fused!AddReverseSub, Fused!AddTwo
<1>2. \A phases \in Shapes : IsPair(Fused!AddSubFrom(phases, FALSE, TRUE))
  <2>1. TRUE \in BOOLEAN /\ FALSE \in BOOLEAN
    OBVIOUS
  <2>2. <<Fused!Sum("sum", "source"), Fused!Chain("difference", "sub", "sum", "source")>> \in Pairs
    BY DEF Pairs
  <2> QED BY <2>1, <2>2, PairShape, Zenon DEF Fused!AddSubFrom
<1>3. TRUE \in BOOLEAN /\ FALSE \in BOOLEAN
  OBVIOUS
<1> QED BY <1>1, <1>2, <1>3, SameFusedShapes, Zenon
        DEF Fused!Double, Fused!AddSubFrom_Fallback, Fused!AddSubFrom_Adx, Fused!AddSubFrom_Avx2,
            Fused!AddSub_Fallback, Fused!AddSub_Adx, Fused!AddReverseSub_Fallback,
            Fused!AddReverseSub_Adx, Fused!AddTwo_Fallback, Fused!AddTwo_Adx

LEMMA ShiftedKernelShape == \A k \in Fused!Shifted : IsShifted(k)
<1>1. ASSUME NEW phases \in Shapes, NEW noBorrow \in BOOLEAN
      PROVE  IsShifted(Fused!SubShifted(phases, noBorrow))
  <2>1. Fused!SubShifted(phases, noBorrow)
          = [chains |-> <<ShiftedChain>>, phases |-> phases, noBorrow |-> noBorrow, lanes |-> FALSE,
             shifted |-> TRUE]
    BY DEF Fused!SubShifted, Fused!Kernel, ShiftedChain
  <2>2. ShiftedChain.op = "sub"
    BY DEF ShiftedChain, Fused!Chain
  <2>3. Len(<<ShiftedChain>>) = 1 /\ <<ShiftedChain>>[1] = ShiftedChain
    OBVIOUS
  <2>4. \A c \in 1 .. 1 : <<ShiftedChain>>[c].op = "sub"
    <3>1. \A c \in 1 .. 1 : c = 1
      OBVIOUS
    <3> QED BY <2>2, <2>3, <3>1
  <2> QED BY <2>1, <2>3, <2>4 DEF IsShifted, IsFused
<1>2. TRUE \in BOOLEAN /\ FALSE \in BOOLEAN
  OBVIOUS
<1> QED BY <1>1, <1>2, SameFusedShapes, Zenon
        DEF Fused!Shifted, Fused!SubShifted_Fallback, Fused!SubShifted_AArch64,
            Fused!SubShifted_PowerPC, Fused!SubShifted_PowerPC64, Fused!SubShifted_S390x,
            Fused!SubShifted_Bmi2

\* The spans of a pair of chains.
LEMMA PairNames ==
  ASSUME NEW a, NEW b
  PROVE  UNION {{c.into, c.left, c.right} : c \in Fused!Range(<<a, b>>)}
           = {a.into, a.left, a.right, b.into, b.left, b.right}
<1> DEFINE chains == <<a, b>>
<1>1. Fused!Range(chains) = {chains[c] : c \in 1 .. 2}
  <2>1. DOMAIN chains = 1 .. 2
    OBVIOUS
  <2> HIDE DEF chains
  <2> QED BY <2>1 DEF Fused!Range
<1>2. {chains[c] : c \in 1 .. 2} = {a, b}
  <2>1. chains[1] = a /\ chains[2] = b /\ \A c \in 1 .. 2 : c = 1 \/ c = 2
    OBVIOUS
  <2> HIDE DEF chains
  <2> QED BY <2>1
<1>3. UNION {{c.into, c.left, c.right} : c \in {a, b}} = {a.into, a.left, a.right, b.into, b.left, b.right}
  OBVIOUS
<1> QED BY <1>1, <1>2, <1>3

\* Chain d of the spans e is the other one of two.
LEMMA LaidOutPair ==
  ASSUME NEW k, IsPair(k), NEW layout \in Fused!Layouts(k)
  PROVE  LaidOut(k, layout)
<1> DEFINE a == k.chains[1]
           b == k.chains[2]
           names == {a.into, a.left, a.right, b.into, b.left, b.right}
           apart == [name \in names |-> name]
<1>1. k.chains = <<a, b>> /\ Len(k.chains) = 2
  BY DEF IsPair, Pairs
<1>2. Fused!Apart(k) = apart
  <2>1. UNION {{c.into, c.left, c.right} : c \in Fused!Range(k.chains)} = names
    <3> HIDE DEF a, b
    <3> QED BY <1>1, PairNames
  <2> HIDE DEF names
  <2> QED BY <2>1, Zenon DEF Fused!Apart
<1>3. \/ layout = apart
      \/ /\ "difference" \in names /\ "source" \in names
         /\ layout = [apart EXCEPT !["difference"] = "source"]
      \/ /\ "src_a" \in names
         /\ \/ layout = [apart EXCEPT !["src_a"] = "src_b"]
            \/ layout = [apart EXCEPT !["src_a"] = "dst_a", !["src_b"] = "dst_b"]
  <2>1. DOMAIN apart = names
    OBVIOUS
  <2> HIDE DEF apart, names
  <2> QED BY <1>2, <2>1 DEF Fused!Layouts
<1>4. DOMAIN layout = names
  BY <1>3
<1>5. layout[a.into] # layout[b.into]
  <2>1. CASE k.chains = <<Fused!Sum("sum", "source"), Fused!Chain("difference", "sub", "sum", "source")>>
    <3>1. a = Fused!Sum("sum", "source") /\ b = Fused!Chain("difference", "sub", "sum", "source")
      BY <2>1
    <3>2. /\ a.into = "sum" /\ b.into = "difference" /\ names = {"sum", "source", "difference"}
      BY <3>1 DEF Fused!Sum, Fused!Chain
    <3>3. layout["sum"] = "sum" /\ layout["difference"] # "sum"
      BY <1>3, <3>2
    <3> QED BY <3>2, <3>3
  <2>2. CASE k.chains \in {<<Fused!Sum("sum", "difference"), Fused!Chain("difference", "sub", "sum", "difference")>>,
                           <<Fused!Sum("sum", "difference"), Fused!Chain("difference", "sub", "difference", "sum")>>}
    <3>1. a = Fused!Sum("sum", "difference")
          /\ b \in {Fused!Chain("difference", "sub", "sum", "difference"),
                    Fused!Chain("difference", "sub", "difference", "sum")}
      BY <2>2
    <3>2. a.into = "sum" /\ b.into = "difference" /\ names = {"sum", "difference"}
      BY <3>1 DEF Fused!Sum, Fused!Chain
    <3>3. layout = apart
      BY <1>3, <3>2
    <3> QED BY <3>2, <3>3
  <2>3. CASE k.chains = <<Fused!Sum("dst_a", "src_a"), Fused!Sum("dst_b", "src_b")>>
    <3>1. a = Fused!Sum("dst_a", "src_a") /\ b = Fused!Sum("dst_b", "src_b")
      BY <2>3
    <3>2. a.into = "dst_a" /\ b.into = "dst_b" /\ names = {"dst_a", "dst_b", "src_a", "src_b"}
      BY <3>1 DEF Fused!Sum, Fused!Chain
    <3>3. layout["dst_a"] = "dst_a" /\ layout["dst_b"] = "dst_b"
      BY <1>3, <3>2
    <3> QED BY <3>2, <3>3
  <2> QED BY <2>1, <2>2, <2>3 DEF IsPair, Pairs
<1>6. \A c \in 1 .. 2 : c = 1 \/ c = 2
  OBVIOUS
<1>7. ASSUME NEW c \in 1 .. 2
      PROVE  /\ k.chains[c].into \in names /\ k.chains[c].left \in names /\ k.chains[c].right \in names
  BY <1>6, <1>7
<1> HIDE DEF names
<1> QED BY <1>1, <1>4, <1>5, <1>6, <1>7, Zenon DEF LaidOut

LEMMA LaidOutShifted ==
  ASSUME NEW k, IsShifted(k), NEW layout \in Fused!Layouts(k)
  PROVE  LaidOut(k, layout)
<1>1. k.chains = <<ShiftedChain>>
  BY DEF IsShifted
<1> DEFINE names == {"dst", "src"}
           apart == [name \in names |-> name]
<1>2. Fused!Apart(k) = apart
  <2>1. Fused!Range(<<ShiftedChain>>) = {ShiftedChain}
    <3>1. DOMAIN <<ShiftedChain>> = {1} /\ <<ShiftedChain>>[1] = ShiftedChain
      OBVIOUS
    <3> QED BY <3>1 DEF Fused!Range
  <2>2. UNION {{c.into, c.left, c.right} : c \in {ShiftedChain}} = names
    BY DEF ShiftedChain, Fused!Chain
  <2> HIDE DEF names
  <2> QED BY <1>1, <2>1, <2>2, Zenon DEF Fused!Apart
<1>3. layout = apart
  <2>1. DOMAIN apart = names /\ "difference" \notin names /\ "src_a" \notin names
    OBVIOUS
  <2> HIDE DEF apart, names
  <2> QED BY <1>2, <2>1 DEF Fused!Layouts
<1>4. DOMAIN layout = names
  BY <1>3
<1>5. ASSUME NEW c \in 1 .. 1
      PROVE  c = 1 /\ k.chains[c].into \in names /\ k.chains[c].left \in names /\ k.chains[c].right \in names
  <2>1. c = 1 /\ <<ShiftedChain>>[1] = ShiftedChain
    OBVIOUS
  <2>2. ShiftedChain.into = "dst" /\ ShiftedChain.left = "dst" /\ ShiftedChain.right = "src"
    BY DEF ShiftedChain, Fused!Chain
  <2> QED BY <1>1, <2>1, <2>2
<1>6. Len(k.chains) = 1
  BY <1>1
<1> HIDE DEF names
<1> QED BY <1>4, <1>5, <1>6 DEF LaidOut

LEMMA FusedShape ==
  ASSUME NEW k \in Fused!Double \union Fused!Shifted, NEW layout \in Fused!Layouts(k)
  PROVE  IsFused(k) /\ LaidOut(k, layout) /\ (k \in Fused!Double <=> ~k.shifted)
<1>1. CASE k \in Fused!Double
  <2>1. IsPair(k)
    BY <1>1, PairKernelShape
  <2>2. LaidOut(k, layout)
    BY <2>1, LaidOutPair, Zenon
  <2> QED BY <1>1, <2>1, <2>2 DEF IsPair
<1>2. CASE k \in Fused!Shifted
  <2>1. IsShifted(k)
    BY <1>2, ShiftedKernelShape
  <2>2. LaidOut(k, layout)
    BY <2>1, LaidOutShifted, Zenon
  <2>3. k \notin Fused!Double
    <3>1. k.shifted = TRUE
      BY <2>1 DEF IsShifted
    <3> QED BY <3>1, PairKernelShape DEF IsPair
  <2> QED BY <2>1, <2>2, <2>3 DEF IsShifted
<1> QED BY <1>1, <1>2

-----------------------------------------------------------------------------
(* The limbs a chain adds or subtracts.                                    *)

Old(name) == call.before[call.layout[name]]
FusedChain(c) == call.kernel.chains[c]
FusedChains == 1 .. Len(call.kernel.chains)

FusedCalled ==
  /\ IsFused(call.kernel) /\ LaidOut(call.kernel, call.layout)
  /\ call.shift \in 1 .. LimbBits - 1
  /\ call.borrow \in {0, 1} /\ (~call.kernel.shifted => call.borrow = 0)
  /\ Fused!Length \in Nat
  /\ call.before \in [{call.layout[name] : name \in DOMAIN call.layout} -> [1 .. Fused!Length -> Limb]]

\* A limb across two: `part` bits of one and the others of the next.
Unit == Power(2, LimbBits - call.shift)
Across(limb, next) == limb \div Unit + ((next * Power(2, call.shift)) % Base)

OldLeft(c, col) == Old(FusedChain(c).left)[col]
OldRight(c, col) ==
  IF call.kernel.shifted THEN Across(Old("src")[col], Column(Old("src"), col + 1))
  ELSE Old(FusedChain(c).right)[col]

LEMMA FusedFacts ==
  ASSUME FusedCalled
  PROVE  /\ \A name \in DOMAIN call.layout :
              /\ Old(name) \in Seq(Limb) /\ Len(Old(name)) = Fused!Length
              /\ Old(name) \in [1 .. Fused!Length -> Limb]
              /\ call.layout[name] \in DOMAIN call.before
         /\ \A c \in FusedChains :
              /\ FusedChain(c).op \in {"add", "sub"}
              /\ FusedChain(c).into \in DOMAIN call.layout
              /\ FusedChain(c).left \in DOMAIN call.layout
              /\ FusedChain(c).right \in DOMAIN call.layout
         /\ call.kernel.shifted =>
              /\ "src" \in DOMAIN call.layout
              /\ \A c \in FusedChains : FusedChain(c) = ShiftedChain /\ FusedChain(c).op = "sub"
<1>1. ASSUME NEW name \in DOMAIN call.layout
      PROVE  /\ Old(name) \in Seq(Limb) /\ Len(Old(name)) = Fused!Length
             /\ Old(name) \in [1 .. Fused!Length -> Limb]
             /\ call.layout[name] \in DOMAIN call.before
  <2>1. call.layout[name] \in DOMAIN call.before /\ Old(name) \in [1 .. Fused!Length -> Limb]
    BY DEF FusedCalled, Old
  <2>2. Fused!Length \in Nat
    BY DEF FusedCalled
  <2> QED BY <2>1, <2>2
<1>2. ASSUME NEW c \in FusedChains
      PROVE  /\ FusedChain(c).op \in {"add", "sub"}
             /\ FusedChain(c).into \in DOMAIN call.layout
             /\ FusedChain(c).left \in DOMAIN call.layout
             /\ FusedChain(c).right \in DOMAIN call.layout
  BY Zenon DEF FusedCalled, IsFused, LaidOut, FusedChains, FusedChain
<1>3. ASSUME call.kernel.shifted
      PROVE  /\ "src" \in DOMAIN call.layout
             /\ \A c \in FusedChains : FusedChain(c) = ShiftedChain /\ FusedChain(c).op = "sub"
  <2>1. call.kernel.chains = <<ShiftedChain>>
    BY <1>3, Zenon DEF FusedCalled, IsFused
  <2>2. ShiftedChain.right = "src" /\ ShiftedChain.op = "sub"
    BY DEF ShiftedChain, Fused!Chain
  <2>3. FusedChains = 1 .. 1
    BY <2>1 DEF FusedChains
  <2>4. \A c \in FusedChains : FusedChain(c) = ShiftedChain
    <3>1. \A c \in 1 .. 1 : c = 1 /\ <<ShiftedChain>>[c] = ShiftedChain
      OBVIOUS
    <3> QED BY <2>1, <2>3, <3>1 DEF FusedChain
  <2>5. 1 \in FusedChains
    BY <2>3
  <2> QED BY <1>2, <2>2, <2>4, <2>5
<1> QED BY <1>1, <1>2, <1>3

\* The base is cut by a shift.
LEMMA UnitFacts ==
  ASSUME FusedCalled
  PROVE  /\ Unit \in Nat \ {0} /\ Power(2, call.shift) \in Nat \ {0}
         /\ Base = Power(2, call.shift) * Unit
<1>1. LimbBits \in Nat /\ Base = Power(2, LimbBits)
  BY SpanAssumptions, SameFusedOperators DEF Fused!BitsAssumption
<1>2. /\ call.shift \in Nat /\ LimbBits - call.shift \in Nat
      /\ call.shift + (LimbBits - call.shift) = LimbBits /\ 2 \in Nat \ {0}
  BY <1>1 DEF FusedCalled
<1>3. Power(2, call.shift + (LimbBits - call.shift)) = Power(2, call.shift) * Power(2, LimbBits - call.shift)
  BY <1>2, PowerSum
<1>4. Power(2, call.shift) \in Nat \ {0} /\ Power(2, LimbBits - call.shift) \in Nat \ {0}
  BY <1>2, PowerFacts
<1> QED BY <1>1, <1>2, <1>3, <1>4 DEF Unit

\* The high bits of a limb and the low ones of the next fit one limb, and stand
\* for themselves.
LEMMA AcrossExact ==
  ASSUME FusedCalled, NEW a \in Limb, NEW b \in Limb
  PROVE  /\ Across(a, b) \in Limb
         /\ Unit * Across(a, b) + (a % Unit) = a + (b % Unit) * Base
         /\ a % Unit \in 0 .. Unit - 1 /\ b % Unit \in 0 .. Unit - 1
<1> DEFINE D == Unit
           P == Power(2, call.shift)
           q == a \div D
           r == a % D
           t == b % D
<1>1. D \in Nat \ {0} /\ P \in Nat \ {0} /\ Base = P * D /\ a \in Int /\ b \in Int
      /\ 0 <= a /\ a <= Base - 1
  BY UnitFacts, LimbBounds
<1> HIDE DEF D, P
<1>2. q \in Int /\ r \in 0 .. D - 1 /\ a = D * q + r
  BY <1>1
<1>3. PICK u \in Int : b = u * D + t /\ t \in 0 .. D - 1
  BY <1>1, DivisionExists
<1> HIDE DEF q, r, t
<1>4. (b * P) % Base = t * P /\ t * P \in 0 .. Base - P
  <2>1. t * P \in Int /\ u * (P * D) \in Int /\ b * P = u * (P * D) + t * P
    BY <1>1, <1>3
  <2>2. 0 <= t * P /\ t * P <= (D - 1) * P
    BY <1>1, <1>3
  <2>3. (D - 1) * P = P * D - P /\ P * D \in Int
    BY <1>1
  <2>4. t * P \in 0 .. Base - 1 /\ Base \in Nat \ {0} /\ b * P \in Int
    BY <1>1, <1>3, <2>1, <2>2, <2>3
  <2>5. b * P = u * Base + t * P
    BY <1>1, <2>1
  <2>6. (b * P) % Base = t * P
    BY <2>1, <2>4, <2>5, DivisionUnique
  <2> QED BY <1>1, <2>1, <2>2, <2>3, <2>6
<1>5. q \in 0 .. P - 1
  <2>1. q >= 0
    <3>1. SUFFICES ASSUME q <= -1 PROVE FALSE
      BY <1>2
    <3>2. D * q <= D * (-1)
      BY <1>1, <1>2, <3>1
    <3> QED BY <1>1, <1>2, <3>2
  <2>2. q <= P - 1
    <3>1. SUFFICES ASSUME q >= P PROVE FALSE
      BY <1>1, <1>2
    <3>2. D * q >= D * P
      BY <1>1, <1>2, <3>1
    <3>3. D * P = P * D /\ D * P \in Int /\ D * q \in Int
      BY <1>1, <1>2
    <3> QED BY <1>1, <1>2, <3>2, <3>3
  <2> QED BY <1>2, <2>1, <2>2
<1>6. Across(a, b) = q + t * P
  BY <1>4 DEF Across, D, P, q
<1>7. Across(a, b) \in Limb
  BY <1>1, <1>4, <1>5, <1>6 DEF Limb
<1>8. D * Across(a, b) + r = a + t * Base
  <2>1. D * (q + t * P) = D * q + t * (P * D) /\ D * q \in Int /\ t * (P * D) \in Int
    BY <1>1, <1>2, <1>3
  <2> QED BY <1>1, <1>2, <1>3, <1>6, <2>1
<1> QED BY <1>2, <1>3, <1>7, <1>8 DEF D, r, t

LEMMA OperandLimbs ==
  ASSUME FusedCalled, NEW c \in FusedChains, NEW col \in 1 .. Fused!Length
  PROVE  OldLeft(c, col) \in Limb /\ OldRight(c, col) \in Limb
<1>1. OldLeft(c, col) \in Limb
  BY FusedFacts DEF OldLeft
<1>2. CASE call.kernel.shifted
  <2>1. Old("src") \in Seq(Limb) /\ Old("src")[col] \in Limb /\ col + 1 \in Nat \ {0}
    BY <1>2, FusedFacts DEF FusedCalled
  <2>2. Column(Old("src"), col + 1) \in Limb
    BY <2>1, ColumnType
  <2> QED BY <1>1, <1>2, <2>1, <2>2, AcrossExact DEF OldRight
<1>3. CASE ~call.kernel.shifted
  BY <1>1, <1>3, FusedFacts DEF OldRight
<1> QED BY <1>2, <1>3

-----------------------------------------------------------------------------
(* One column.                                                             *)

\* The limb a of a column with the flag up, after the flag before it.
ColumnAdds(c, col, a, bit, up) ==
  IF FusedChain(c).op = "add"
  THEN a + Base * up = OldLeft(c, col) + OldRight(c, col) + bit
  ELSE a + OldRight(c, col) + bit = OldLeft(c, col) + Base * up

\* A total of two limbs and a bit, as one limb and the bit that does not fit.
LEMMA SplitSum ==
  ASSUME NEW total \in Int, 0 <= total, total <= 2 * Base - 1
  PROVE  /\ total % Base \in Limb /\ (IF total \in Limb THEN 0 ELSE 1) \in {0, 1}
         /\ (total % Base) + Base * (IF total \in Limb THEN 0 ELSE 1) = total
<1>1. Base \in Nat \ {0}
  BY BaseAssumption
<1>2. CASE total \in Limb
  <2>1. total = 0 * Base + total /\ total \in 0 .. Base - 1
    BY <1>1, <1>2 DEF Limb
  <2>2. total % Base = total
    BY <1>1, <2>1, DivisionUnique
  <2> QED BY <1>1, <1>2, <2>2
<1>3. CASE total \notin Limb
  <2>1. total = 1 * Base + (total - Base) /\ total - Base \in 0 .. Base - 1
    BY <1>1, <1>3 DEF Limb
  <2>2. total % Base = total - Base
    BY <1>1, <2>1, DivisionUnique
  <2> QED BY <1>1, <1>3, <2>1, <2>2 DEF Limb
<1> QED BY <1>2, <1>3

LEMMA SplitDifference ==
  ASSUME NEW total \in Int, -Base <= total, total <= Base - 1
  PROVE  /\ total % Base \in Limb /\ (IF total \in Limb THEN 0 ELSE 1) \in {0, 1}
         /\ (total % Base) - Base * (IF total \in Limb THEN 0 ELSE 1) = total
<1>1. Base \in Nat \ {0}
  BY BaseAssumption
<1>2. CASE total \in Limb
  <2>1. total = 0 * Base + total /\ total \in 0 .. Base - 1
    BY <1>1, <1>2 DEF Limb
  <2>2. total % Base = total
    BY <1>1, <2>1, DivisionUnique
  <2> QED BY <1>1, <1>2, <2>2
<1>3. CASE total \notin Limb
  <2>1. total = (-1) * Base + (total + Base) /\ total + Base \in 0 .. Base - 1
    BY <1>1, <1>3 DEF Limb
  <2>2. total % Base = total + Base
    BY <1>1, <2>1, DivisionUnique
  <2> QED BY <1>1, <1>3, <2>1, <2>2 DEF Limb
<1> QED BY <1>2, <1>3

\* What is read of a column: the operands as they were.
ReadsOld(c, col) == Fused!Left(c, col) = OldLeft(c, col) /\ Fused!Right(c, col) = OldRight(c, col)

\* The carry or borrow in a flag; the flag of a bit.
BitOf(c, flag) == Fused!Extract(c, flag)
FlagOf(c, bit) == Fused!Seed(call.kernel, c, bit)

LEMMA FlagFacts ==
  ASSUME FusedCalled, NEW c \in FusedChains, NEW bit \in {0, 1}
  PROVE  FlagOf(c, bit) \in {0, 1} /\ BitOf(c, FlagOf(c, bit)) = bit /\ BitOf(c, bit) \in {0, 1}
         /\ FlagOf(c, BitOf(c, bit)) = bit
BY DEF FlagOf, BitOf, Fused!Extract, Fused!Seed, Fused!kernel

LEMMA FusedColumnExact ==
  ASSUME FusedCalled, NEW c \in FusedChains, NEW col \in 1 .. Fused!Length, ReadsOld(c, col),
         NEW flag \in {0, 1}
  PROVE  LET step == Fused!ColumnStep(c, col, flag)
         IN  /\ step.limb \in Limb /\ step.flag \in {0, 1}
             /\ ColumnAdds(c, col, step.limb, BitOf(c, flag), BitOf(c, step.flag))
<1> DEFINE step == Fused!ColumnStep(c, col, flag)
           a == OldLeft(c, col)
           b == OldRight(c, col)
           op_ == FusedChain(c).op
           Halves(total) == [limb |-> total % Base, flag |-> IF total \in Limb THEN 0 ELSE 1]
<1> SUFFICES /\ step.limb \in Limb /\ step.flag \in {0, 1}
             /\ ColumnAdds(c, col, step.limb, BitOf(c, flag), BitOf(c, step.flag))
  OBVIOUS
<1>1. a \in Int /\ 0 <= a /\ a <= Base - 1 /\ b \in Int /\ 0 <= b /\ b <= Base - 1 /\ Base \in Nat
  BY OperandLimbs, LimbBounds
<1>2. Fused!Left(c, col) = a /\ Fused!Right(c, col) = b
  BY DEF ReadsOld
<1>3. op_ \in {"add", "sub"} /\ call.kernel.noBorrow \in BOOLEAN
  BY FusedFacts, Zenon DEF FusedCalled, IsFused
<1>4. Fused!Complement(b) = (Base - 1) - b
  BY SameFusedOperators DEF Complement, LimbMax
<1> HIDE DEF a, b
<1>5. CASE op_ = "add"
  <2>1. step = Halves(a + b + flag)
    BY <1>2, <1>5, SameFusedOperators DEF Fused!ColumnStep, Fused!kernel, FusedChain
  <2>2. BitOf(c, flag) = flag /\ BitOf(c, step.flag) = step.flag
    BY <1>5 DEF BitOf, Fused!Extract, Fused!Seed, Fused!kernel, FusedChain
  <2> DEFINE total == a + b + flag
  <2>3. total \in Int /\ 0 <= total /\ total <= 2 * Base - 1
    BY <1>1
  <2>4. total = a + b + flag
    OBVIOUS
  <2>5. step.limb = total % Base /\ step.flag = IF total \in Limb THEN 0 ELSE 1
    BY <2>1
  <2> HIDE DEF total, step
  <2>6. step.limb \in Limb /\ step.flag \in {0, 1} /\ step.limb + Base * step.flag = total
    BY <2>3, <2>5, SplitSum
  <2> QED BY <1>5, <2>2, <2>4, <2>6 DEF ColumnAdds, a, b
<1>6. CASE op_ = "sub" /\ call.kernel.noBorrow
  <2>1. step = Halves(a + ((Base - 1) - b) + flag)
    BY <1>2, <1>4, <1>6, SameFusedOperators DEF Fused!ColumnStep, Fused!kernel, FusedChain
  <2>2. BitOf(c, flag) = 1 - flag /\ BitOf(c, step.flag) = 1 - step.flag
    BY <1>6 DEF BitOf, Fused!Extract, Fused!Seed, Fused!kernel, FusedChain
  <2> DEFINE total == a + ((Base - 1) - b) + flag
  <2>3. total \in Int /\ 0 <= total /\ total <= 2 * Base - 1
    BY <1>1
  <2>4. total = a + ((Base - 1) - b) + flag
    OBVIOUS
  <2>5. step.limb = total % Base /\ step.flag = IF total \in Limb THEN 0 ELSE 1
    BY <2>1
  <2> HIDE DEF total, step
  <2>6. step.limb \in Limb /\ step.flag \in {0, 1} /\ step.limb + Base * step.flag = total
    BY <2>3, <2>5, SplitSum
  <2>7. step.limb + b + (1 - flag) = a + Base * (1 - step.flag)
    <3>1. Base * (1 - step.flag) = Base - Base * step.flag /\ Base * step.flag \in Int /\ step.limb \in Int
      BY <1>1, <2>6, LimbBounds
    <3> QED BY <1>1, <2>4, <2>6, <3>1
  <2> QED BY <1>6, <2>2, <2>6, <2>7 DEF ColumnAdds, a, b
<1>7. CASE op_ = "sub" /\ ~call.kernel.noBorrow
  <2>1. step = Halves(a - b - flag)
    BY <1>2, <1>7, SameFusedOperators DEF Fused!ColumnStep, Fused!kernel, FusedChain
  <2>2. BitOf(c, flag) = flag /\ BitOf(c, step.flag) = step.flag
    BY <1>7 DEF BitOf, Fused!Extract, Fused!Seed, Fused!kernel, FusedChain
  <2> DEFINE total == a - b - flag
  <2>3. total \in Int /\ -Base <= total /\ total <= Base - 1
    BY <1>1
  <2>4. total = a - b - flag
    OBVIOUS
  <2>5. step.limb = total % Base /\ step.flag = IF total \in Limb THEN 0 ELSE 1
    BY <2>1
  <2> HIDE DEF total, step
  <2>6. step.limb \in Limb /\ step.flag \in {0, 1} /\ step.limb - Base * step.flag = total
    BY <2>3, <2>5, SplitDifference
  <2>7. step.limb + b + flag = a + Base * step.flag
    <3>1. Base * step.flag \in Int /\ step.limb \in Int
      BY <1>1, <2>6, LimbBounds
    <3> QED BY <1>1, <2>4, <2>6, <3>1
  <2> QED BY <1>7, <2>2, <2>6, <2>7 DEF ColumnAdds, a, b
<1> QED BY <1>3, <1>5, <1>6, <1>7

-----------------------------------------------------------------------------
(* The columns of a block.                                                 *)

\* The limbs of the next n columns, with a bit between every two.
Ripples(c, n, limbs, first, last) ==
  \E bits \in [0 .. n -> {0, 1}] :
    /\ bits[0] = first /\ bits[n] = last
    /\ \A j \in 1 .. n :
         limbs[j] \in Limb /\ ColumnAdds(c, done + j, limbs[j], bits[j - 1], bits[j])

\* Nothing of the columns ahead is written.
Ahead(c) == \A col \in done + 1 .. Fused!Length : ReadsOld(c, col)

\* One column more, in turn.
Onward(c, run, col) ==
  [limbs |-> Append(run.limbs, Fused!ColumnStep(c, col, run.flag).limb),
   flag |-> Fused!ColumnStep(c, col, run.flag).flag]

Turned(c, n, run) ==
  /\ run.limbs \in Seq(Limb) /\ Len(run.limbs) = n /\ run.flag \in {0, 1}
  /\ Ripples(c, n, run.limbs, BitOf(c, flags[c]), BitOf(c, run.flag))

LEMMA OnwardTurns ==
  ASSUME FusedCalled, NEW c \in FusedChains, done \in Nat, Ahead(c), NEW n \in Nat,
         done + (n + 1) <= Fused!Length, NEW run, Turned(c, n, run)
  PROVE  Turned(c, n + 1, Onward(c, run, done + (n + 1)))
<1> DEFINE col == done + (n + 1)
           next == Fused!ColumnStep(c, col, run.flag)
           up == BitOf(c, next.flag)
<1>1. Fused!Length \in Nat /\ col \in 1 .. Fused!Length /\ col \in done + 1 .. Fused!Length
  BY DEF FusedCalled
<1>2. ReadsOld(c, col) /\ run.flag \in {0, 1} /\ run.limbs \in Seq(Limb) /\ Len(run.limbs) = n
  BY <1>1 DEF Ahead, Turned
<1>3. /\ next.limb \in Limb /\ next.flag \in {0, 1}
      /\ ColumnAdds(c, col, next.limb, BitOf(c, run.flag), up)
  <2> HIDE DEF col
  <2> QED BY <1>1, <1>2, FusedColumnExact, Zenon
<1>4. up \in {0, 1}
  BY <1>3, FlagFacts
<1>5. PICK bits \in [0 .. n -> {0, 1}] :
        /\ bits[0] = BitOf(c, flags[c]) /\ bits[n] = BitOf(c, run.flag)
        /\ \A j \in 1 .. n :
             run.limbs[j] \in Limb /\ ColumnAdds(c, done + j, run.limbs[j], bits[j - 1], bits[j])
  BY DEF Turned, Ripples
<1> HIDE DEF next, up
<1> DEFINE limbs == Append(run.limbs, next.limb)
           more == [j \in 0 .. n + 1 |-> IF j <= n THEN bits[j] ELSE up]
<1>6. /\ limbs \in Seq(Limb) /\ Len(limbs) = n + 1
      /\ \A j \in 1 .. n : limbs[j] = run.limbs[j]
      /\ limbs[n + 1] = next.limb
  BY <1>2, <1>3
<1>7. /\ more \in [0 .. n + 1 -> {0, 1}] /\ more[n + 1] = up
      /\ \A j \in 0 .. n : more[j] = bits[j]
  BY <1>4
<1> HIDE DEF limbs, more
<1>8. ASSUME NEW j \in 1 .. n + 1
      PROVE  limbs[j] \in Limb /\ ColumnAdds(c, done + j, limbs[j], more[j - 1], more[j])
  <2>1. CASE j \in 1 .. n
    <3>1. j \in 0 .. n /\ j - 1 \in 0 .. n
      BY <2>1
    <3>2. limbs[j] = run.limbs[j] /\ more[j - 1] = bits[j - 1] /\ more[j] = bits[j]
      BY <1>6, <1>7, <2>1, <3>1
    <3> QED BY <1>5, <2>1, <3>2
  <2>2. CASE j = n + 1
    <3>1. j - 1 = n /\ n \in 0 .. n /\ done + j = col
      BY <2>2
    <3>2. more[j - 1] = BitOf(c, run.flag) /\ more[j] = up /\ limbs[j] = next.limb
      BY <1>5, <1>6, <1>7, <2>2, <3>1
    <3> HIDE DEF col
    <3> QED BY <1>3, <3>1, <3>2
  <2> QED BY <2>1, <2>2
<1>9. more[0] = BitOf(c, flags[c])
  BY <1>5, <1>7
<1>10. Ripples(c, n + 1, limbs, BitOf(c, flags[c]), up)
  BY <1>7, <1>8, <1>9 DEF Ripples
<1>11. Onward(c, run, col).limbs = limbs /\ Onward(c, run, col).flag = next.flag
  BY DEF Onward, limbs, next
<1> HIDE DEF col
<1>12. Turned(c, n + 1, Onward(c, run, col))
  BY <1>3, <1>6, <1>10, <1>11 DEF Turned, up
<1> QED BY <1>12 DEF col

\* The columns of a block in turn.
LEMMA TurnsRipple ==
  ASSUME FusedCalled, NEW c \in FusedChains, done \in Nat, Ahead(c), flags[c] \in {0, 1},
         NEW count \in Nat, done + count <= Fused!Length
  PROVE  Turned(c, count, Fused!InTurn(c, count))
<1> DEFINE start == [limbs |-> <<>>, flag |-> flags[c]]
           Within(n, r) == Turned(c, n, r)
           S == {[limbs |-> f, flag |-> b] : f \in Seq(Limb), b \in {0, 1}}
           A == [n \in 0 .. count |-> {r \in S : Within(n, r)}]
           F == [n \in 1 .. count |-> [r \in S |-> Onward(c, r, done + n)]]
           Is(f) == f = [n \in 0 .. count |-> IF n = 0 THEN start ELSE Onward(c, f[n - 1], done + n)]
           turn == CHOOSE f : Is(f)
<1>1. ASSUME NEW limbs, NEW b, limbs \in Seq(Limb), b \in {0, 1} PROVE [limbs |-> limbs, flag |-> b] \in S
  BY <1>1
<1>2. ASSUME NEW n \in 1 .. count, NEW r, Within(n - 1, r)
      PROVE  Onward(c, r, done + n) \in S /\ Within(n, Onward(c, r, done + n))
  <2>1. n - 1 \in Nat /\ (n - 1) + 1 = n /\ done + ((n - 1) + 1) <= Fused!Length
    BY DEF FusedCalled
  <2>2. Turned(c, (n - 1) + 1, Onward(c, r, done + ((n - 1) + 1)))
    BY <1>2, <2>1, OnwardTurns, Zenon
  <2>3. Turned(c, n, Onward(c, r, done + n))
    BY <2>1, <2>2
  <2>4. Onward(c, r, done + n)
          = [limbs |-> Onward(c, r, done + n).limbs, flag |-> Onward(c, r, done + n).flag]
    BY DEF Onward
  <2>5. Onward(c, r, done + n).limbs \in Seq(Limb) /\ Onward(c, r, done + n).flag \in {0, 1}
    BY <2>3, Zenon DEF Turned
  <2> HIDE DEF S
  <2>6. Onward(c, r, done + n) \in S
    BY <1>1, <2>4, <2>5, Zenon
  <2> QED BY <2>3, <2>6
<1>3. start \in S /\ Within(0, start)
  <2>1. start.limbs = <<>> /\ start.flag = flags[c] /\ start.flag \in {0, 1}
    OBVIOUS
  <2>2. <<>> \in Seq(Limb) /\ Len(<<>>) = 0
    OBVIOUS
  <2>3. BitOf(c, flags[c]) \in {0, 1}
    BY FlagFacts
  <2> DEFINE b == BitOf(c, flags[c])
             bits == [j \in 0 .. 0 |-> b]
  <2> HIDE DEF b
  <2>4. bits \in [0 .. 0 -> {0, 1}] /\ bits[0] = b /\ 1 .. 0 = {}
    BY <2>3 DEF b
  <2> HIDE DEF bits
  <2>5. Ripples(c, 0, <<>>, b, b)
    BY <2>4 DEF Ripples
  <2>6. Turned(c, 0, start)
    <3> HIDE DEF start
    <3> QED BY <2>1, <2>2, <2>5 DEF Turned, b
  <2> HIDE DEF S
  <2>7. start \in S
    BY <1>1, <2>2
  <2> QED BY <2>6, <2>7, Zenon
<1> HIDE DEF S, Within, start
<1>4. /\ \A n \in 0 .. count : A[n] \subseteq S
      /\ start \in A[0]
      /\ \A n \in 1 .. count : \A r \in A[n - 1] : F[n][r] \in A[n]
  <2>1. \A n \in 0 .. count : \A r : r \in A[n] <=> r \in S /\ Within(n, r)
    OBVIOUS
  <2>2. \A n \in 1 .. count : n - 1 \in 0 .. count /\ n \in 0 .. count
    OBVIOUS
  <2>3. \A n \in 1 .. count : \A r \in S : F[n][r] = Onward(c, r, done + n)
    OBVIOUS
  <2>4. 0 \in 0 .. count
    OBVIOUS
  <2> HIDE DEF A, F
  <2>5. ASSUME NEW n \in 1 .. count, NEW r \in A[n - 1] PROVE F[n][r] \in A[n]
    <3>1. r \in S /\ Within(n - 1, r)
      BY <2>1, <2>2
    <3>2. Onward(c, r, done + n) \in S /\ Within(n, Onward(c, r, done + n))
      BY <1>2, <3>1
    <3> QED BY <2>1, <2>2, <2>3, <3>1, <3>2
  <2> QED BY <1>3, <2>1, <2>4, <2>5
<1>5. PICK f \in [0 .. count -> S] : Follows(f, count, start, F) /\ \A n \in 0 .. count : f[n] \in A[n]
  <2> HIDE DEF A, F
  <2> QED BY <1>4, RunExists, ZenonT(60)
<1>6. Is(f)
  <2>1. ASSUME NEW n \in 0 .. count
        PROVE  f[n] = IF n = 0 THEN start ELSE Onward(c, f[n - 1], done + n)
    <3>1. CASE n = 0
      BY <1>5, <3>1 DEF Follows
    <3>2. CASE n # 0
      <4>1. n \in 1 .. count /\ n - 1 \in 0 .. count
        BY <3>2
      <4>2. f[n - 1] \in S
        BY <4>1
      <4>3. F[n][f[n - 1]] = Onward(c, f[n - 1], done + n)
        BY <4>1, <4>2
      <4> QED BY <1>5, <3>2, <4>1, <4>3 DEF Follows
    <3> QED BY <3>1, <3>2
  <2>2. f = [n \in 0 .. count |-> f[n]]
    OBVIOUS
  <2> QED BY <2>1, <2>2
<1>7. Is(turn)
  <2> HIDE DEF Is
  <2> QED BY <1>6, Zenon
<1>8. Fused!InTurn(c, count) = turn[count]
  BY Zenon DEF Fused!InTurn, start, Onward
<1> HIDE DEF turn
<1>9. \A n \in 0 .. count : turn[n] = IF n = 0 THEN start ELSE Onward(c, turn[n - 1], done + n)
  BY <1>7, Zenon
<1> DEFINE T == {n \in Nat : n <= count => Within(n, turn[n])}
<1>10. 0 \in T
  BY <1>3, <1>9
<1>11. ASSUME NEW n \in Nat, n \in T PROVE n + 1 \in T
  <2>1. SUFFICES ASSUME n + 1 <= count PROVE Within(n + 1, turn[n + 1])
    OBVIOUS
  <2>2. n + 1 \in 0 .. count /\ n + 1 \in 1 .. count /\ n + 1 # 0 /\ (n + 1) - 1 = n
    BY <2>1
  <2>3. Within(n, turn[n])
    BY <1>11, <2>1
  <2>4. turn[n + 1] = Onward(c, turn[(n + 1) - 1], done + (n + 1))
    BY <1>9, <2>2, Zenon
  <2>5. Within((n + 1) - 1, turn[(n + 1) - 1])
    BY <2>2, <2>3
  <2> QED BY <1>2, <2>2, <2>4, <2>5, Zenon
<1>12. count \in T
  <2> HIDE DEF T
  <2> QED BY <1>10, <1>11, SetInduction
<1> QED BY <1>8, <1>12 DEF Within

-----------------------------------------------------------------------------
(* The lanes.                                                              *)

LEMMA LanesCarry ==
  ASSUME NEW g \in [1 .. 4 -> BOOLEAN], NEW p \in [1 .. 4 -> BOOLEAN], NEW incoming \in BOOLEAN,
         NEW outputs, outputs = Fused!LaneOutputs(g, p, incoming)
  PROVE  /\ outputs \in [1 .. 4 -> BOOLEAN]
         /\ outputs[1] = (g[1] \/ (p[1] /\ incoming))
         /\ outputs[2] = (g[2] \/ (p[2] /\ outputs[1]))
         /\ outputs[3] = (g[3] \/ (p[3] /\ outputs[2]))
         /\ outputs[4] = (g[4] \/ (p[4] /\ outputs[3]))
<1> DEFINE Below(set, lane, distance, edge) == IF lane <= distance THEN edge ELSE set[lane - distance]
           generate1 == [col \in 1 .. 4 |-> g[col] \/ (p[col] /\ Below(g, col, 1, FALSE))]
           propagate1 == [col \in 1 .. 4 |-> p[col] /\ Below(p, col, 1, TRUE)]
           generate2 == [col \in 1 .. 4 |->
                          generate1[col] \/ (propagate1[col] /\ Below(generate1, col, 2, FALSE))]
           propagate2 == [col \in 1 .. 4 |-> propagate1[col] /\ Below(propagate1, col, 2, TRUE)]
           out == [col \in 1 .. 4 |-> generate2[col] \/ (propagate2[col] /\ incoming)]
<1>1. outputs = out
  BY Zenon DEF Fused!LaneOutputs
<1>2. \A f, edge : /\ Below(f, 1, 1, edge) = edge /\ Below(f, 2, 1, edge) = f[1]
                   /\ Below(f, 3, 1, edge) = f[2] /\ Below(f, 4, 1, edge) = f[3]
                   /\ Below(f, 1, 2, edge) = edge /\ Below(f, 2, 2, edge) = edge
                   /\ Below(f, 3, 2, edge) = f[1] /\ Below(f, 4, 2, edge) = f[2]
  OBVIOUS
<1> HIDE DEF Below
<1>3. 1 \in 1 .. 4 /\ 2 \in 1 .. 4 /\ 3 \in 1 .. 4 /\ 4 \in 1 .. 4
  OBVIOUS
<1>4. /\ generate1[1] = (g[1] \/ (p[1] /\ FALSE)) /\ generate1[2] = (g[2] \/ (p[2] /\ g[1]))
      /\ generate1[3] = (g[3] \/ (p[3] /\ g[2])) /\ generate1[4] = (g[4] \/ (p[4] /\ g[3]))
  <2>1. \A col \in 1 .. 4 : generate1[col] = (g[col] \/ (p[col] /\ Below(g, col, 1, FALSE)))
    BY Zenon
  <2> HIDE DEF generate1
  <2>2. generate1[1] = (g[1] \/ (p[1] /\ FALSE))
    <3>1. generate1[1] = (g[1] \/ (p[1] /\ Below(g, 1, 1, FALSE)))
      BY <1>3, <2>1, Zenon
    <3>2. Below(g, 1, 1, FALSE) = FALSE
      BY <1>2, Zenon
    <3> QED BY <3>1, <3>2, Zenon
  <2>3. generate1[2] = (g[2] \/ (p[2] /\ g[1]))
    <3>1. generate1[2] = (g[2] \/ (p[2] /\ Below(g, 2, 1, FALSE)))
      BY <1>3, <2>1, Zenon
    <3>2. Below(g, 2, 1, FALSE) = g[1]
      BY <1>2, Zenon
    <3> QED BY <3>1, <3>2, Zenon
  <2>4. generate1[3] = (g[3] \/ (p[3] /\ g[2]))
    <3>1. generate1[3] = (g[3] \/ (p[3] /\ Below(g, 3, 1, FALSE)))
      BY <1>3, <2>1, Zenon
    <3>2. Below(g, 3, 1, FALSE) = g[2]
      BY <1>2, Zenon
    <3> QED BY <3>1, <3>2, Zenon
  <2>5. generate1[4] = (g[4] \/ (p[4] /\ g[3]))
    <3>1. generate1[4] = (g[4] \/ (p[4] /\ Below(g, 4, 1, FALSE)))
      BY <1>3, <2>1, Zenon
    <3>2. Below(g, 4, 1, FALSE) = g[3]
      BY <1>2, Zenon
    <3> QED BY <3>1, <3>2, Zenon
  <2> QED BY <2>2, <2>3, <2>4, <2>5
<1>5. /\ propagate1[1] = (p[1] /\ TRUE) /\ propagate1[2] = (p[2] /\ p[1])
      /\ propagate1[3] = (p[3] /\ p[2]) /\ propagate1[4] = (p[4] /\ p[3])
  <2>1. propagate1[1] = (p[1] /\ TRUE)
    <3>1. propagate1[1] = (p[1] /\ Below(p, 1, 1, TRUE))
      BY <1>3, Zenon
    <3>2. Below(p, 1, 1, TRUE) = TRUE
      BY <1>2, Zenon
    <3> HIDE DEF propagate1
    <3> QED BY <3>1, <3>2, Zenon
  <2>2. propagate1[2] = (p[2] /\ p[1])
    <3>1. propagate1[2] = (p[2] /\ Below(p, 2, 1, TRUE))
      BY <1>3, Zenon
    <3>2. Below(p, 2, 1, TRUE) = p[1]
      BY <1>2, Zenon
    <3> HIDE DEF propagate1
    <3> QED BY <3>1, <3>2, Zenon
  <2>3. propagate1[3] = (p[3] /\ p[2])
    <3>1. propagate1[3] = (p[3] /\ Below(p, 3, 1, TRUE))
      BY <1>3, Zenon
    <3>2. Below(p, 3, 1, TRUE) = p[2]
      BY <1>2, Zenon
    <3> HIDE DEF propagate1
    <3> QED BY <3>1, <3>2, Zenon
  <2>4. propagate1[4] = (p[4] /\ p[3])
    <3>1. propagate1[4] = (p[4] /\ Below(p, 4, 1, TRUE))
      BY <1>3, Zenon
    <3>2. Below(p, 4, 1, TRUE) = p[3]
      BY <1>2, Zenon
    <3> HIDE DEF propagate1
    <3> QED BY <3>1, <3>2, Zenon
  <2> QED BY <2>1, <2>2, <2>3, <2>4
<1>6. /\ generate2[1] = (generate1[1] \/ (propagate1[1] /\ FALSE))
      /\ generate2[2] = (generate1[2] \/ (propagate1[2] /\ FALSE))
      /\ generate2[3] = (generate1[3] \/ (propagate1[3] /\ generate1[1]))
      /\ generate2[4] = (generate1[4] \/ (propagate1[4] /\ generate1[2]))
  <2> HIDE DEF generate1, propagate1
  <2>1. generate2[1] = (generate1[1] \/ (propagate1[1] /\ FALSE))
    <3>1. generate2[1] = (generate1[1] \/ (propagate1[1] /\ Below(generate1, 1, 2, FALSE)))
      BY <1>3, Zenon
    <3>2. Below(generate1, 1, 2, FALSE) = FALSE
      BY <1>2, Zenon
    <3> HIDE DEF generate2
    <3> QED BY <3>1, <3>2, Zenon
  <2>2. generate2[2] = (generate1[2] \/ (propagate1[2] /\ FALSE))
    <3>1. generate2[2] = (generate1[2] \/ (propagate1[2] /\ Below(generate1, 2, 2, FALSE)))
      BY <1>3, Zenon
    <3>2. Below(generate1, 2, 2, FALSE) = FALSE
      BY <1>2, Zenon
    <3> HIDE DEF generate2
    <3> QED BY <3>1, <3>2, Zenon
  <2>3. generate2[3] = (generate1[3] \/ (propagate1[3] /\ generate1[1]))
    <3>1. generate2[3] = (generate1[3] \/ (propagate1[3] /\ Below(generate1, 3, 2, FALSE)))
      BY <1>3, Zenon
    <3>2. Below(generate1, 3, 2, FALSE) = generate1[1]
      BY <1>2, Zenon
    <3> HIDE DEF generate2
    <3> QED BY <3>1, <3>2, Zenon
  <2>4. generate2[4] = (generate1[4] \/ (propagate1[4] /\ generate1[2]))
    <3>1. generate2[4] = (generate1[4] \/ (propagate1[4] /\ Below(generate1, 4, 2, FALSE)))
      BY <1>3, Zenon
    <3>2. Below(generate1, 4, 2, FALSE) = generate1[2]
      BY <1>2, Zenon
    <3> HIDE DEF generate2
    <3> QED BY <3>1, <3>2, Zenon
  <2> QED BY <2>1, <2>2, <2>3, <2>4
<1>7. /\ propagate2[1] = (propagate1[1] /\ TRUE) /\ propagate2[2] = (propagate1[2] /\ TRUE)
      /\ propagate2[3] = (propagate1[3] /\ propagate1[1])
      /\ propagate2[4] = (propagate1[4] /\ propagate1[2])
  <2> HIDE DEF generate1, propagate1
  <2>1. propagate2[1] = (propagate1[1] /\ TRUE)
    <3>1. propagate2[1] = (propagate1[1] /\ Below(propagate1, 1, 2, TRUE))
      BY <1>3, Zenon
    <3>2. Below(propagate1, 1, 2, TRUE) = TRUE
      BY <1>2, Zenon
    <3> HIDE DEF propagate2
    <3> QED BY <3>1, <3>2, Zenon
  <2>2. propagate2[2] = (propagate1[2] /\ TRUE)
    <3>1. propagate2[2] = (propagate1[2] /\ Below(propagate1, 2, 2, TRUE))
      BY <1>3, Zenon
    <3>2. Below(propagate1, 2, 2, TRUE) = TRUE
      BY <1>2, Zenon
    <3> HIDE DEF propagate2
    <3> QED BY <3>1, <3>2, Zenon
  <2>3. propagate2[3] = (propagate1[3] /\ propagate1[1])
    <3>1. propagate2[3] = (propagate1[3] /\ Below(propagate1, 3, 2, TRUE))
      BY <1>3, Zenon
    <3>2. Below(propagate1, 3, 2, TRUE) = propagate1[1]
      BY <1>2, Zenon
    <3> HIDE DEF propagate2
    <3> QED BY <3>1, <3>2, Zenon
  <2>4. propagate2[4] = (propagate1[4] /\ propagate1[2])
    <3>1. propagate2[4] = (propagate1[4] /\ Below(propagate1, 4, 2, TRUE))
      BY <1>3, Zenon
    <3>2. Below(propagate1, 4, 2, TRUE) = propagate1[2]
      BY <1>2, Zenon
    <3> HIDE DEF propagate2
    <3> QED BY <3>1, <3>2, Zenon
  <2> QED BY <2>1, <2>2, <2>3, <2>4
<1>8. /\ out[1] = (generate2[1] \/ (propagate2[1] /\ incoming))
      /\ out[2] = (generate2[2] \/ (propagate2[2] /\ incoming))
      /\ out[3] = (generate2[3] \/ (propagate2[3] /\ incoming))
      /\ out[4] = (generate2[4] \/ (propagate2[4] /\ incoming))
  <2> HIDE DEF generate2, propagate2
  <2> QED BY <1>3, Zenon
<1>9. out \in [1 .. 4 -> BOOLEAN]
  <2> HIDE DEF generate2, propagate2
  <2>1. \A a, b : (a \/ (b /\ incoming)) \in BOOLEAN
    BY Zenon
  <2> QED BY <2>1, Zenon
<1>10. /\ g[1] \in BOOLEAN /\ g[2] \in BOOLEAN /\ g[3] \in BOOLEAN /\ g[4] \in BOOLEAN
       /\ p[1] \in BOOLEAN /\ p[2] \in BOOLEAN /\ p[3] \in BOOLEAN /\ p[4] \in BOOLEAN
  BY <1>3
<1> HIDE DEF out, generate1, generate2, propagate1, propagate2
<1>11. /\ out[1] = (g[1] \/ (p[1] /\ incoming)) /\ out[2] = (g[2] \/ (p[2] /\ out[1]))
       /\ out[3] = (g[3] \/ (p[3] /\ out[2])) /\ out[4] = (g[4] \/ (p[4] /\ out[3]))
  <2> DEFINE G1 == g[1]
             G2 == g[2]
             G3 == g[3]
             G4 == g[4]
             P1 == p[1]
             P2 == p[2]
             P3 == p[3]
             P4 == p[4]
  <2>1. out[1] = (G1 \/ (P1 /\ incoming))
    BY <1>4, <1>5, <1>6, <1>7, <1>8, <1>10
  <2>2. out[2] = ((G2 \/ (P2 /\ G1)) \/ (P2 /\ P1 /\ incoming))
    BY <1>4, <1>5, <1>6, <1>7, <1>8, <1>10
  <2>3. out[3] = (((G3 \/ (P3 /\ G2)) \/ (P3 /\ P2 /\ G1)) \/ (P3 /\ P2 /\ P1 /\ incoming))
    BY <1>4, <1>5, <1>6, <1>7, <1>8, <1>10
  <2>4. out[4] = (((G4 \/ (P4 /\ G3)) \/ (P4 /\ P3 /\ (G2 \/ (P2 /\ G1)))) \/ (P4 /\ P3 /\ P2 /\ P1 /\ incoming))
    BY <1>4, <1>5, <1>6, <1>7, <1>8, <1>10
  <2> QED BY <1>10, <2>1, <2>2, <2>3, <2>4
<1> QED BY <1>1, <1>9, <1>11

\* A lane with what it leaves without a carry, the limb corrected by the carry that
\* comes in, and the carry out.
SumLane(l, r, bit, up, raw, limb) ==
  /\ raw = (l + r) % Base /\ limb = (raw + bit) % Base
  /\ (up = 1) <=> (raw < l \/ (raw = LimbMax /\ bit = 1))

LaneSum(l, r, bit, up, limb) == limb \in Limb /\ limb + Base * up = l + r + bit

\* One lane: the limb corrected by what comes in is the column with the carry.
LEMMA LaneAdds ==
  ASSUME NEW l \in Limb, NEW r \in Limb, NEW bit \in {0, 1}, NEW up \in {0, 1},
         NEW raw, NEW limb, SumLane(l, r, bit, up, raw, limb)
  PROVE  LaneSum(l, r, bit, up, limb)
<1>0. /\ raw = (l + r) % Base /\ limb = (raw + bit) % Base
      /\ (up = 1) <=> (raw < l \/ (raw = LimbMax /\ bit = 1))
  BY DEF SumLane
<1>1. /\ l \in Int /\ 0 <= l /\ l <= Base - 1 /\ r \in Int /\ 0 <= r /\ r <= Base - 1
      /\ Base \in Nat \ {0} /\ Base >= 2 /\ LimbMax = Base - 1
  BY LimbBounds, BaseAssumption DEF LimbMax
<1>2. raw \in Limb /\ raw + Base * (IF l + r \in Limb THEN 0 ELSE 1) = l + r
  <2>1. l + r \in Int /\ 0 <= l + r /\ l + r <= 2 * Base - 1
    BY <1>1
  <2> QED BY <1>0, <2>1, SplitSum
<1>3. raw \in Int /\ 0 <= raw /\ raw <= Base - 1
  BY <1>2, LimbBounds
<1>4. /\ limb \in Limb
      /\ limb + Base * (IF raw + bit \in Limb THEN 0 ELSE 1) = raw + bit
  <2>1. raw + bit \in Int /\ 0 <= raw + bit /\ raw + bit <= 2 * Base - 1
    BY <1>1, <1>3
  <2> QED BY <1>0, <2>1, SplitSum
<1>5. (up = 1) <=> (raw < l \/ (raw = LimbMax /\ bit = 1))
  BY <1>0
<1>6. limb \in Int
  BY <1>4, LimbBounds
<1>7. (l + r \in Limb) <=> (l + r <= Base - 1)
  BY <1>1 DEF Limb
<1>8. (raw + bit \in Limb) <=> (raw + bit <= Base - 1)
  BY <1>1, <1>3 DEF Limb
<1>9. limb + Base * up = l + r + bit
  BY <1>1, <1>2, <1>3, <1>4, <1>5, <1>6, <1>7, <1>8
<1> QED BY <1>4, <1>9 DEF LaneSum

LEMMA LaneSubtracts ==
  ASSUME NEW l \in Limb, NEW r \in Limb, NEW bit \in {0, 1}, NEW up \in {0, 1},
         NEW limb, limb = (((l - r) % Base) - bit) % Base,
         (up = 1) <=> (l < r \/ ((l - r) % Base = 0 /\ bit = 1))
  PROVE  limb \in Limb /\ limb + r + bit = l + Base * up
<1> DEFINE raw == (l - r) % Base
<1>0. limb = (raw - bit) % Base
  OBVIOUS
<1>1. /\ l \in Int /\ 0 <= l /\ l <= Base - 1 /\ r \in Int /\ 0 <= r /\ r <= Base - 1
      /\ Base \in Nat \ {0} /\ Base >= 2
  BY LimbBounds, BaseAssumption
<1>2. raw \in Limb /\ raw + (-Base) * (IF l - r \in Limb THEN 0 ELSE 1) = l - r
  <2>1. l - r \in Int /\ -Base <= l - r /\ l - r <= Base - 1
    BY <1>1
  <2>2. raw \in Limb /\ raw - Base * (IF l - r \in Limb THEN 0 ELSE 1) = l - r
    BY <2>1, SplitDifference
  <2>3. raw \in Int
    BY <2>2, LimbBounds
  <2> HIDE DEF raw
  <2> QED BY <1>1, <2>2, <2>3
<1>3. raw \in Int /\ 0 <= raw /\ raw <= Base - 1
  BY <1>2, LimbBounds
<1>4. /\ limb \in Limb
      /\ limb - Base * (IF raw - bit \in Limb THEN 0 ELSE 1) = raw - bit
  <2>1. raw - bit \in Int /\ -Base <= raw - bit /\ raw - bit <= Base - 1
    BY <1>1, <1>3
  <2> HIDE DEF raw
  <2> QED BY <1>0, <2>1, SplitDifference
<1>5. (up = 1) <=> (l < r \/ (raw = 0 /\ bit = 1))
  OBVIOUS
<1>6. limb \in Int
  BY <1>4, LimbBounds
<1>7. (l - r \in Limb) <=> (l - r >= 0)
  BY <1>1 DEF Limb
<1>8. (raw - bit \in Limb) <=> (raw - bit >= 0)
  BY <1>1, <1>3 DEF Limb
<1> HIDE DEF raw
<1> QED BY <1>1, <1>2, <1>3, <1>4, <1>5, <1>6, <1>7, <1>8

\* A block of four lanes.
LEMMA LanesRipple ==
  ASSUME FusedCalled, NEW c \in FusedChains, done \in Nat, Ahead(c), flags[c] \in {0, 1},
         call.kernel.lanes, done + 4 <= Fused!Length
  PROVE  LET run == Fused!InLanes(c)
         IN  /\ Len(run.limbs) = 4 /\ run.flag \in {0, 1}
             /\ Ripples(c, 4, run.limbs, BitOf(c, flags[c]), BitOf(c, run.flag))
<1> DEFINE add == FusedChain(c).op = "add"
           L(j) == OldLeft(c, done + j)
           R(j) == OldRight(c, done + j)
           raw == [j \in 1 .. 4 |-> (IF add THEN L(j) + R(j) ELSE L(j) - R(j)) % Base]
           g == [j \in 1 .. 4 |-> IF add THEN raw[j] < L(j) ELSE L(j) < R(j)]
           p == [j \in 1 .. 4 |-> raw[j] = IF add THEN LimbMax ELSE 0]
           incoming == flags[c] = 1
           out == Fused!LaneOutputs(g, p, incoming)
           bits == [j \in 0 .. 4 |-> IF j = 0 THEN flags[c] ELSE IF out[j] THEN 1 ELSE 0]
           limbs == [j \in 1 .. 4 |-> (IF add THEN raw[j] + bits[j - 1] ELSE raw[j] - bits[j - 1]) % Base]
<1>1. /\ ~call.kernel.noBorrow /\ FusedChain(c).op \in {"add", "sub"}
  BY FusedFacts, Zenon DEF FusedCalled, IsFused
<1>2. \A flag : BitOf(c, flag) = flag
  BY <1>1 DEF BitOf, Fused!Extract, Fused!Seed, Fused!kernel
<1>3. ASSUME NEW j \in 1 .. 4
      PROVE  /\ Fused!Left(c, done + j) = L(j) /\ Fused!Right(c, done + j) = R(j)
             /\ L(j) \in Limb /\ R(j) \in Limb
  <2>1. done + j \in done + 1 .. Fused!Length /\ done + j \in 1 .. Fused!Length
    BY DEF FusedCalled
  <2> QED BY <2>1, OperandLimbs, Zenon DEF Ahead, ReadsOld
<1>4. /\ Fused!InLanes(c).limbs = limbs
      /\ Fused!InLanes(c).flag = IF out[4] THEN 1 ELSE 0
  <2> DEFINE rawF == [w \in 1 .. 4 |-> (IF add THEN Fused!Left(c, done + w) + Fused!Right(c, done + w)
                                ELSE Fused!Left(c, done + w) - Fused!Right(c, done + w)) % Base]
             gF == [w \in 1 .. 4 |-> IF add THEN rawF[w] < Fused!Left(c, done + w)
                          ELSE Fused!Left(c, done + w) < Fused!Right(c, done + w)]
             pF == [w \in 1 .. 4 |-> rawF[w] = IF add THEN Fused!LimbMax ELSE 0]
             outF == Fused!LaneOutputs(gF, pF, flags[c] = 1)
             Input(w) == IF w = 1 THEN flags[c] ELSE IF outF[w - 1] THEN 1 ELSE 0
  <2>1. Fused!InLanes(c) =
          [limbs |-> [w \in 1 .. 4 |-> (IF add THEN rawF[w] + Input(w) ELSE rawF[w] - Input(w)) % Base],
           flag |-> IF outF[4] THEN 1 ELSE 0]
    BY Zenon DEF Fused!InLanes, FusedChain, Fused!kernel
  <2>2. rawF = raw
    BY <1>3, Zenon
  <2>3. gF = g
    <3> HIDE DEF raw, rawF
    <3> QED BY <1>3, <2>2, Zenon
  <2>4. pF = p
    <3> HIDE DEF raw, rawF
    <3> QED BY <2>2, SameFusedOperators, Zenon
  <2> HIDE DEF rawF, gF, pF, g, p
  <2>5. outF = out
    BY <2>3, <2>4, Zenon
  <2> HIDE DEF outF, out
  <2>6. \A j \in 1 .. 4 : Input(j) = bits[j - 1]
    <3>1. \A j \in 1 .. 4 : j - 1 \in 0 .. 4 /\ (j = 1 <=> j - 1 = 0)
      OBVIOUS
    <3> QED BY <2>5, <3>1
  <2> HIDE DEF Input, bits, raw
  <2> QED BY <2>1, <2>2, <2>5, <2>6
<1>5. g \in [1 .. 4 -> BOOLEAN] /\ p \in [1 .. 4 -> BOOLEAN] /\ incoming \in BOOLEAN
  <2>1. \A j \in 1 .. 4 : (IF add THEN raw[j] < L(j) ELSE L(j) < R(j)) \in BOOLEAN
    <3>1. \A j \in 1 .. 4 : L(j) \in Int /\ R(j) \in Int
      BY <1>3, LimbBounds, Zenon
    <3>2. \A j \in 1 .. 4 : raw[j] \in Int
      <4> HIDE DEF L, R
      <4> QED BY <3>1, BaseAssumption
    <3> HIDE DEF raw, L, R
    <3>3. \A j \in 1 .. 4 : (raw[j] < L(j)) \in BOOLEAN /\ (L(j) < R(j)) \in BOOLEAN
      BY <3>1, <3>2
    <3> QED BY <3>3, Zenon
  <2> HIDE DEF raw, L, R
  <2>2. \A j : (raw[j] = IF add THEN LimbMax ELSE 0) \in BOOLEAN
    OBVIOUS
  <2>3. incoming \in BOOLEAN
    OBVIOUS
  <2>4. g \in [1 .. 4 -> BOOLEAN]
    BY <2>1, Zenon
  <2>5. p \in [1 .. 4 -> BOOLEAN]
    BY <2>2, Zenon
  <2> QED BY <2>3, <2>4, <2>5
<1>6. raw = [j \in 1 .. 4 |-> raw[j]] /\ \A j \in 1 .. 4 : raw[j] = (IF add THEN L(j) + R(j) ELSE L(j) - R(j)) % Base
  BY Zenon
<1> HIDE DEF raw
<1>7. /\ \A j \in 1 .. 4 : g[j] = IF add THEN raw[j] < L(j) ELSE L(j) < R(j)
      /\ \A j \in 1 .. 4 : p[j] = (raw[j] = IF add THEN LimbMax ELSE 0)
  BY Zenon
<1> HIDE DEF g, p
<1>8. /\ out \in [1 .. 4 -> BOOLEAN]
      /\ out[1] = (g[1] \/ (p[1] /\ incoming)) /\ out[2] = (g[2] \/ (p[2] /\ out[1]))
      /\ out[3] = (g[3] \/ (p[3] /\ out[2])) /\ out[4] = (g[4] \/ (p[4] /\ out[3]))
  <2>1. out = Fused!LaneOutputs(g, p, incoming)
    OBVIOUS
  <2> HIDE DEF incoming, out
  <2> QED BY <1>5, <2>1, LanesCarry
<1> HIDE DEF out
<1>9. /\ bits \in [0 .. 4 -> {0, 1}] /\ bits[0] = flags[c]
      /\ \A j \in 1 .. 4 : bits[j] = IF out[j] THEN 1 ELSE 0
  <2>1. \A j \in 0 .. 4 : (IF j = 0 THEN flags[c] ELSE IF out[j] THEN 1 ELSE 0) \in {0, 1}
    OBVIOUS
  <2> QED BY <2>1
<1>10. \A j \in 1 .. 4 : limbs[j] = (IF add THEN raw[j] + bits[j - 1] ELSE raw[j] - bits[j - 1]) % Base
  OBVIOUS
<1>11. Len(limbs) = 4
  OBVIOUS
<1> HIDE DEF bits, limbs
<1>12. \A j \in 1 .. 4 : (bits[j] = 1) <=> (g[j] \/ (p[j] /\ bits[j - 1] = 1))
  <2>1. /\ 1 - 1 = 0 /\ 2 - 1 = 1 /\ 3 - 1 = 2 /\ 4 - 1 = 3
        /\ \A j \in 1 .. 4 : j = 1 \/ j = 2 \/ j = 3 \/ j = 4
    OBVIOUS
  <2>2. \A j \in 1 .. 4 : (bits[j] = 1) <=> out[j]
    BY <1>9
  <2>3. 1 \in 1 .. 4 /\ 2 \in 1 .. 4 /\ 3 \in 1 .. 4 /\ 4 \in 1 .. 4
    OBVIOUS
  <2>4. (bits[1] = 1) <=> (g[1] \/ (p[1] /\ bits[0] = 1))
    BY <1>8, <1>9, <2>2, <2>3, Zenon
  <2>5. (bits[2] = 1) <=> (g[2] \/ (p[2] /\ bits[1] = 1))
    BY <1>8, <2>2, <2>3, Zenon
  <2>6. (bits[3] = 1) <=> (g[3] \/ (p[3] /\ bits[2] = 1))
    BY <1>8, <2>2, <2>3, Zenon
  <2>7. (bits[4] = 1) <=> (g[4] \/ (p[4] /\ bits[3] = 1))
    BY <1>8, <2>2, <2>3, Zenon
  <2> QED BY <2>1, <2>4, <2>5, <2>6, <2>7
<1>13. ASSUME NEW j \in 1 .. 4
       PROVE  limbs[j] \in Limb /\ ColumnAdds(c, done + j, limbs[j], bits[j - 1], bits[j])
  <2> DEFINE l == L(j)
             r == R(j)
             bit == bits[j - 1]
             up == bits[j]
  <2>1. l \in Limb /\ r \in Limb /\ bit \in {0, 1} /\ up \in {0, 1}
    <3>1. j - 1 \in 0 .. 4 /\ j \in 0 .. 4
      OBVIOUS
    <3> QED BY <1>3, <1>9, <3>1
  <2>2. (up = 1) <=> (g[j] \/ (p[j] /\ bit = 1))
    BY <1>12
  <2>3. CASE add
    <3>1. raw[j] = (l + r) % Base /\ g[j] = (raw[j] < l) /\ p[j] = (raw[j] = LimbMax)
          /\ limbs[j] = (raw[j] + bit) % Base
      BY <1>6, <1>7, <1>10, <2>3, Zenon
    <3>2. (up = 1) <=> ((l + r) % Base < l \/ ((l + r) % Base = LimbMax /\ bit = 1))
      BY <2>2, <3>1, Zenon
    <3> HIDE DEF l, r, bit, up
    <3>3. LaneSum(l, r, bit, up, limbs[j])
      <4>1. SumLane(l, r, bit, up, raw[j], limbs[j])
        BY <2>2, <3>1, Zenon DEF SumLane
      <4> QED BY <2>1, <4>1, LaneAdds, Zenon
    <3> QED BY <2>3, <3>3, Zenon DEF ColumnAdds, LaneSum, l, r, bit, up
  <2>4. CASE ~add
    <3>1. raw[j] = (l - r) % Base /\ g[j] = (l < r) /\ p[j] = (raw[j] = 0)
          /\ limbs[j] = (raw[j] - bit) % Base
      BY <1>6, <1>7, <1>10, <2>4, Zenon
    <3>2. (up = 1) <=> (l < r \/ ((l - r) % Base = 0 /\ bit = 1))
      BY <2>2, <3>1, Zenon
    <3> HIDE DEF l, r, bit, up
    <3>3. limbs[j] \in Limb /\ limbs[j] + r + bit = l + Base * up
      <4>1. limbs[j] = (((l - r) % Base) - bit) % Base
        BY <3>1
      <4> QED BY <2>1, <3>2, <4>1, LaneSubtracts
    <3> QED BY <2>4, <3>3, Zenon DEF ColumnAdds, l, r, bit, up
  <2> QED BY <2>3, <2>4
<1>14. 4 \in 0 .. 4 /\ 4 \in 1 .. 4
  OBVIOUS
<1>15. bits[4] = Fused!InLanes(c).flag /\ bits[4] \in {0, 1}
  BY <1>4, <1>9, <1>14
<1>16. Ripples(c, 4, limbs, flags[c], bits[4])
  BY <1>9, <1>13, Zenon DEF Ripples
<1> QED BY <1>2, <1>4, <1>11, <1>15, <1>16

-----------------------------------------------------------------------------
(* The numbers of a chain.                                                 *)

\* What a chain adds or subtracts, limb by limb.
Addend(c) == [col \in 1 .. Fused!Length |-> OldRight(c, col)]

\* The written limbs and the bit in flight are the sum or difference so far.
FusedNumbers(c, n, limbs, bit) ==
  LET flight == bit * Power(Base, n)
      left == Lowest(Old(FusedChain(c).left), n)
  IN  IF FusedChain(c).op = "add" THEN Lowest(limbs, n) + flight = left + Lowest(Addend(c), n)
      ELSE Lowest(limbs, n) + Lowest(Addend(c), n) + call.borrow = left + flight

LEMMA AddendFacts ==
  ASSUME FusedCalled, NEW c \in FusedChains
  PROVE  /\ Addend(c) \in Seq(Limb) /\ Len(Addend(c)) = Fused!Length
         /\ \A col \in 1 .. Fused!Length : Addend(c)[col] = OldRight(c, col)
<1>1. Fused!Length \in Nat /\ \A col \in 1 .. Fused!Length : OldRight(c, col) \in Limb
  BY OperandLimbs DEF FusedCalled
<1> QED BY <1>1 DEF Addend

LEMMA FusedNumbersNext ==
  ASSUME FusedCalled, NEW c \in FusedChains, NEW n \in Nat, n + 1 <= Fused!Length,
         NEW limbs \in [1 .. Fused!Length -> Limb], NEW bit \in {0, 1}, NEW up \in {0, 1},
         FusedNumbers(c, n, limbs, bit), ColumnAdds(c, n + 1, limbs[n + 1], bit, up)
  PROVE  FusedNumbers(c, n + 1, limbs, up)
<1> DEFINE col == n + 1
           left == Old(FusedChain(c).left)
           l == Lowest(limbs, n)
           b == Lowest(left, n)
           m == Lowest(Addend(c), n)
           W == Power(Base, n)
           a == limbs[col]
           d == OldLeft(c, col)
           v == OldRight(c, col)
           borrow == call.borrow
           one == 1
<1>1. /\ col \in 1 .. Fused!Length /\ Fused!Length \in Nat /\ borrow \in Int /\ Base \in Nat \ {0}
      /\ bit \in Int /\ up \in Int
  BY BaseAssumption DEF FusedCalled
<1>2. left \in Seq(Limb) /\ Len(left) = Fused!Length /\ left[col] = d
  BY FusedFacts, Zenon DEF OldLeft
<1>3. Addend(c) \in Seq(Limb) /\ Len(Addend(c)) = Fused!Length /\ Addend(c)[col] = v
  BY <1>1, AddendFacts
<1>4. limbs \in Seq(Limb) /\ Len(limbs) = Fused!Length
  BY <1>1
<1>5. /\ d \in Int /\ v \in Int /\ a \in Int
  BY <1>1, OperandLimbs, LimbBounds
<1>6. /\ l \in Int /\ b \in Int /\ m \in Int
      /\ Lowest(limbs, col) = l + a * W /\ Lowest(left, col) = b + d * W
      /\ Lowest(Addend(c), col) = m + v * W
  <2>1. Column(limbs, col) = a /\ Column(left, col) = d /\ Column(Addend(c), col) = v
    <3> HIDE DEF left
    <3> QED BY <1>1, <1>2, <1>3, <1>4 DEF Column
  <2>2. l \in Int /\ Lowest(limbs, n + 1) = l + Column(limbs, n + 1) * W
    BY <1>4, LowestFacts
  <2>3. b \in Int /\ Lowest(left, n + 1) = b + Column(left, n + 1) * W
    <3> HIDE DEF left
    <3> QED BY <1>2, LowestFacts
  <2>4. m \in Int /\ Lowest(Addend(c), n + 1) = m + Column(Addend(c), n + 1) * W
    BY <1>3, LowestFacts
  <2> QED BY <2>1, <2>2, <2>3, <2>4
<1>7. W \in Int /\ Power(Base, col) = Base * W
  <2>1. Base \in Nat \ {0}
    BY <1>1
  <2>2. \A e \in Nat : Power(Base, e) \in Nat \ {0} /\ Power(Base, e + 1) = Base * Power(Base, e)
    BY <2>1, PowerFacts
  <2> QED BY <2>2
<1> HIDE DEF left, l, b, m, W, a, d, v, borrow
<1>10. one \in Int /\ one = 1
  OBVIOUS
<1> HIDE DEF one
<1>8. CASE FusedChain(c).op = "add"
  <2>1. a + Base * up = d + v * one + bit
    BY <1>5, <1>8, <1>10 DEF ColumnAdds, a, d, v
  <2>2. l + bit * W = b + one * m
    BY <1>6, <1>8, <1>10 DEF FusedNumbers, l, b, m, W, left
  <2>3. SumWeighs(a, up, d, v, l, b, m, one, W)
    BY <1>1, <1>5, <1>6, <1>7, <1>10, <2>1, <2>2, WeightedSum
  <2>4. (l + a * W) + up * (Base * W) = (b + d * W) + (m + v * W)
    BY <1>5, <1>6, <1>7, <1>10, <2>3 DEF SumWeighs
  <2> QED BY <1>6, <1>7, <1>8, <2>4, Zenon DEF FusedNumbers, left
<1>9. CASE FusedChain(c).op # "add"
  <2>1. a + v * one + bit = d + Base * up
    BY <1>5, <1>9, <1>10 DEF ColumnAdds, a, d, v
  <2>2. (l + borrow) + one * m = b + bit * W
    <3>1. l + m + borrow = b + bit * W
      BY <1>9 DEF FusedNumbers, l, b, m, W, left, borrow
    <3> QED BY <1>1, <1>6, <1>10, <3>1
  <2>3. DifferenceWeighs(a, up, d, v, l + borrow, b, m, one, W)
    <3>1. l + borrow \in Int
      BY <1>1, <1>6
    <3> DEFINE k == l + borrow
    <3> HIDE DEF k
    <3>2. k \in Int /\ k + one * m = b + bit * W
      BY <2>2, <3>1 DEF k
    <3>3. DifferenceWeighs(a, up, d, v, k, b, m, one, W)
      BY <1>1, <1>5, <1>6, <1>7, <1>10, <2>1, <3>2, WeightedDifference
    <3> QED BY <3>3 DEF k
  <2>4. (l + a * W) + (m + v * W) + borrow = (b + d * W) + up * (Base * W)
    <3>1. a * W \in Int /\ v * W \in Int /\ d * W \in Int /\ up * (Base * W) \in Int
      BY <1>1, <1>5, <1>7
    <3> QED BY <1>1, <1>5, <1>6, <1>7, <1>10, <2>3, <3>1 DEF DifferenceWeighs
  <2> QED BY <1>6, <1>7, <1>9, <2>4, Zenon DEF FusedNumbers, left, borrow
<1> QED BY <1>8, <1>9

\* The columns of a block: f are the limbs before, g after.
LEMMA FusedNumbersAcross ==
  ASSUME FusedCalled, NEW c \in FusedChains, done \in Nat, NEW count \in Nat,
         done + count <= Fused!Length,
         NEW f \in [1 .. Fused!Length -> Limb], NEW g \in [1 .. Fused!Length -> Limb],
         NEW limbs, NEW first, NEW last,
         \A j \in 1 .. done : g[j] = f[j],
         \A j \in 1 .. count : g[done + j] = limbs[j],
         FusedNumbers(c, done, f, first), Ripples(c, count, limbs, first, last)
  PROVE  FusedNumbers(c, done + count, g, last)
<1>1. PICK bits \in [0 .. count -> {0, 1}] :
        /\ bits[0] = first /\ bits[count] = last
        /\ \A j \in 1 .. count :
             limbs[j] \in Limb /\ ColumnAdds(c, done + j, limbs[j], bits[j - 1], bits[j])
  BY DEF Ripples
<1> DEFINE T == {n \in Nat : n <= count => FusedNumbers(c, done + n, g, bits[n])}
<1>2. 0 \in T
  <2>1. Fused!Length \in Nat
    BY DEF FusedCalled
  <2>2. f \in Seq(Limb) /\ g \in Seq(Limb) /\ Len(f) = Fused!Length /\ Len(g) = Fused!Length
    BY <2>1
  <2>3. \A j \in 1 .. done : Column(f, j) = Column(g, j)
    <3>1. \A j \in 1 .. done : j <= Fused!Length
      BY <2>1
    <3> QED BY <2>2, <3>1 DEF Column
  <2>4. Lowest(f, done) = Lowest(g, done)
    BY <2>2, <2>3, LowestOfColumns
  <2>5. FusedNumbers(c, done, g, bits[0])
    BY <1>1, <2>4, Zenon DEF FusedNumbers
  <2> QED BY <2>5
<1>3. ASSUME NEW n \in Nat, n \in T PROVE n + 1 \in T
  <2> SUFFICES ASSUME n + 1 <= count PROVE FusedNumbers(c, done + (n + 1), g, bits[n + 1])
    OBVIOUS
  <2>1. /\ n + 1 \in 1 .. count /\ n \in 0 .. count /\ n + 1 \in 0 .. count /\ (n + 1) - 1 = n
        /\ done + n \in Nat /\ (done + n) + 1 <= Fused!Length /\ (done + n) + 1 = done + (n + 1)
    BY DEF FusedCalled
  <2>2. FusedNumbers(c, done + n, g, bits[n])
    BY <1>3, <2>1
  <2>3. ColumnAdds(c, (done + n) + 1, g[(done + n) + 1], bits[n], bits[n + 1])
    <3>1. ColumnAdds(c, done + (n + 1), limbs[n + 1], bits[(n + 1) - 1], bits[n + 1])
      BY <1>1, <2>1
    <3> QED BY <2>1, <3>1
  <2>4. bits[n] \in {0, 1} /\ bits[n + 1] \in {0, 1}
    BY <2>1
  <2>5. FusedNumbers(c, (done + n) + 1, g, bits[n + 1])
    BY <2>1, <2>2, <2>3, <2>4, FusedNumbersNext, Zenon
  <2> QED BY <2>1, <2>5
<1>4. count \in T
  <2> HIDE DEF T
  <2> QED BY <1>2, <1>3, SetInduction
<1> QED BY <1>1, <1>4

-----------------------------------------------------------------------------
(* The span shifted across its limbs is the quotient of the whole span.    *)

LEMMA ShiftedNumber ==
  ASSUME FusedCalled, NEW c \in FusedChains, call.kernel.shifted
  PROVE  LET src == Old("src")
         IN  \A n \in Nat : n <= Fused!Length =>
               /\ Lowest(src, n) \in Int /\ Lowest(Addend(c), n) \in Int
               /\ Unit * Lowest(Addend(c), n) + (Column(src, 1) % Unit)
                    = Lowest(src, n) + (Column(src, n + 1) % Unit) * Power(Base, n)
<1> DEFINE src == Old("src")
           s(n) == Lowest(Addend(c), n)
           v(n) == Lowest(src, n)
           rest(n) == Column(src, n) % Unit
           W(n) == Power(Base, n)
           T == {n \in Nat : n <= Fused!Length => Unit * s(n) + rest(1) = v(n) + rest(n + 1) * W(n)}
<1>1. src \in Seq(Limb) /\ Len(src) = Fused!Length /\ Fused!Length \in Nat
  BY FusedFacts, Zenon DEF FusedCalled
<1>2. Addend(c) \in Seq(Limb) /\ Len(Addend(c)) = Fused!Length
      /\ \A col \in 1 .. Fused!Length : Addend(c)[col] = Across(Column(src, col), Column(src, col + 1))
  <2>1. ASSUME NEW col \in 1 .. Fused!Length PROVE Column(src, col) = src[col]
    BY <1>1 DEF Column
  <2> QED BY <2>1, AddendFacts DEF OldRight
<1> HIDE DEF src
<1>3. Unit \in Nat \ {0} /\ Base \in Nat \ {0}
  BY UnitFacts, BaseAssumption
<1>4. \A n \in Nat : s(n) \in Int /\ v(n) \in Int /\ W(n) \in Int
  <2>1. \A n \in Nat : s(n) \in Int
    BY <1>2, LowestFacts
  <2>2. \A n \in Nat : v(n) \in Int
    BY <1>1, LowestFacts
  <2>3. \A n \in Nat : W(n) \in Int
    BY <1>3, PowerFacts
  <2> QED BY <2>1, <2>2, <2>3
<1>5. \A n \in Nat \ {0} : Column(src, n) \in Limb /\ rest(n) \in Int
  BY <1>1, <1>3, ColumnType, LimbBounds
<1>6. 0 \in T
  <2>1. s(0) = 0 /\ v(0) = 0 /\ W(0) = 1 /\ 0 + 1 = 1 /\ rest(1) \in Int
    BY <1>1, <1>2, <1>3, <1>5, LowestFacts, PowerFacts
  <2> HIDE DEF s, v, W, rest
  <2>2. Unit * s(0) + rest(1) = v(0) + rest(0 + 1) * W(0)
    BY <1>3, <2>1
  <2> QED BY <2>2
<1>7. ASSUME NEW n \in Nat, n \in T PROVE n + 1 \in T
  <2> SUFFICES ASSUME n + 1 <= Fused!Length
               PROVE  Unit * s(n + 1) + rest(1) = v(n + 1) + rest((n + 1) + 1) * W(n + 1)
    OBVIOUS
  <2> DEFINE a == Column(src, n + 1)
             b == Column(src, (n + 1) + 1)
             q == Across(a, b)
  <2>1. n + 1 \in 1 .. Fused!Length /\ n + 1 \in Nat \ {0} /\ (n + 1) + 1 \in Nat \ {0} /\ n <= Fused!Length
    BY <1>1
  <2>2. a \in Limb /\ b \in Limb /\ a \in Int
    BY <1>5, <2>1, LimbBounds
  <2>3. /\ q \in Limb /\ Unit * q + rest(n + 1) = a + rest((n + 1) + 1) * Base
    BY <2>2, AcrossExact
  <2>4. q \in Int
    BY <2>3, LimbBounds
  <2>5. s(n + 1) = s(n) + q * W(n)
    <3>1. Column(Addend(c), n + 1) = q
      BY <1>2, <2>1 DEF Column
    <3> QED BY <1>2, <3>1, LowestFacts
  <2>6. v(n + 1) = v(n) + a * W(n)
    BY <1>1, LowestFacts
  <2>7. W(n + 1) = Base * W(n)
    BY <1>3, PowerFacts
  <2>8. Unit * s(n) + rest(1) = v(n) + rest(n + 1) * W(n)
    BY <1>7, <2>1
  <2> DEFINE S == s(n)
             V == v(n)
             P == W(n)
             r1 == rest(1)
             r == rest(n + 1)
             t == rest((n + 1) + 1)
  <2>9. /\ S \in Int /\ V \in Int /\ P \in Int /\ r1 \in Int /\ r \in Int /\ t \in Int
    BY <1>4, <1>5, <2>1
  <2>10. Unit * S + r1 = V + r * P /\ Unit * q + r = a + t * Base
    BY <2>3, <2>8
  <2> HIDE DEF S, V, P, r1, r, t, q, a, b
  <2>11. Unit * (S + q * P) + r1 = (V + a * P) + t * (Base * P)
    <3> DEFINE U == Unit
               B == Base
    <3>1. U \in Int /\ B \in Int
      BY <1>3
    <3>2. U * S + r1 = V + r * P /\ U * q + r = a + t * B
      BY <2>10
    <3> HIDE DEF U, B
    <3>3. U * (S + q * P) = U * S + (U * q) * P
      BY <2>4, <2>9, <3>1
    <3>4. (U * q + r) * P = (U * q) * P + r * P
      BY <2>4, <2>9, <3>1
    <3>5. (a + t * B) * P = a * P + t * (B * P)
      BY <2>2, <2>9, <3>1 DEF a
    <3>6. (U * q + r) * P = (a + t * B) * P
      BY <3>2
    <3>7. /\ U * S \in Int /\ (U * q) * P \in Int /\ r * P \in Int /\ a * P \in Int /\ t * (B * P) \in Int
      BY <2>2, <2>4, <2>9, <3>1 DEF a
    <3>8. U * (S + q * P) + r1 = (V + a * P) + t * (B * P)
      BY <2>9, <3>2, <3>3, <3>4, <3>5, <3>6, <3>7
    <3> QED BY <3>8 DEF U, B
  <2> HIDE DEF s, v, W, rest
  <2> QED BY <2>5, <2>6, <2>7, <2>11, Zenon DEF S, V, P, r1, t, q, a
<1>8. \A n \in Nat : n \in T
  <2> HIDE DEF T
  <2> QED BY <1>6, <1>7, SetInduction
<1> QED BY <1>4, <1>8 DEF src

\* At the end of the span.
LEMMA ShiftedQuotient ==
  ASSUME FusedCalled, NEW c \in FusedChains, call.kernel.shifted
  PROVE  Lowest(Addend(c), Fused!Length) = Value(Old("src")) \div Unit
<1> DEFINE src == Old("src")
           n == Fused!Length
           s == Lowest(Addend(c), n)
           r == Column(src, 1) % Unit
<1>1. src \in Seq(Limb) /\ Len(src) = n /\ n \in Nat
  BY FusedFacts, Zenon DEF FusedCalled
<1>2. Value(src) = Lowest(src, n)
  BY <1>1, Zenon DEF Value
<1>3. /\ Lowest(src, n) \in Int /\ s \in Int
      /\ Unit * s + r = Lowest(src, n) + (Column(src, n + 1) % Unit) * Power(Base, n)
  BY <1>1, ShiftedNumber
<1>4. Column(src, n + 1) = 0
  BY <1>1 DEF Column
<1>5. Unit \in Nat \ {0} /\ Column(src, 1) \in Int
  <2>1. Column(src, 1) \in Limb
    BY <1>1, ColumnType
  <2> QED BY <2>1, UnitFacts, LimbBounds
<1>6. r \in 0 .. Unit - 1 /\ 0 % Unit = 0
  <2>1. 0 = 0 * Unit + 0 /\ 0 \in 0 .. Unit - 1
    BY <1>5
  <2>2. 0 % Unit = 0
    BY <1>5, <2>1, DivisionUnique
  <2> QED BY <1>5, <2>2
<1>7. 0 * Power(Base, n) = 0
  BY <1>1, WeightType
<1> HIDE DEF s, r, src, n
<1>8. Lowest(src, n) = s * Unit + r
  <2>1. Unit * s = s * Unit /\ Unit * s \in Int
    BY <1>3, <1>5
  <2> QED BY <1>3, <1>4, <1>6, <1>7, <2>1
<1>9. Lowest(src, n) \div Unit = s
  BY <1>3, <1>5, <1>6, <1>8, DivisionUnique
<1> QED BY <1>2, <1>9 DEF s, n, src

-----------------------------------------------------------------------------
(* A fused kernel in flight.                                               *)

Targets == {call.layout[FusedChain(c).into] : c \in FusedChains}

\* The columns above n are as they were, and so is every span no chain replaces.
SpansAt(n, memory) ==
  /\ memory \in [DOMAIN call.before -> [1 .. Fused!Length -> Limb]]
  /\ \A name \in DOMAIN call.before :
       /\ \A col \in n + 1 .. Fused!Length : memory[name][col] = call.before[name][col]
       /\ name \notin Targets => memory[name] = call.before[name]

FusedState ==
  /\ FusedCalled
  /\ done \in 0 .. Fused!Length
  /\ flags \in [FusedChains -> {0, 1}]
  /\ SpansAt(done, mem)
  /\ \A c \in FusedChains :
       FusedNumbers(c, done, mem[call.layout[FusedChain(c).into]], BitOf(c, flags[c]))

FusedInv ==
  /\ FusedState
  /\ pc = "enter" => done = 0 /\ \A c \in FusedChains : flags[c] = FlagOf(c, call.borrow)
  /\ pc = "loop" =>
       /\ Covers(blocks, Fused!Length - done)
       /\ call.kernel.shifted => prev = Column(Old("src"), done + 1)
  /\ pc = "returned" =>
       done = Fused!Length /\ \A c \in FusedChains : result[c] = BitOf(c, flags[c])

LEMMA FusedStatePrimed ==
  ASSUME call' = call, FusedCalled, done' \in 0 .. Fused!Length,
         flags' \in [FusedChains -> {0, 1}], SpansAt(done', mem'),
         \A c \in FusedChains :
           FusedNumbers(c, done', mem'[call.layout[FusedChain(c).into]], BitOf(c, flags'[c]))
  PROVE  FusedState'
<1>1. Fused!Length' = Fused!Length /\ FusedChains' = FusedChains
  BY DEF Fused!Length, FusedChains
<1>2. FusedCalled'
  BY <1>1 DEF FusedCalled
<1>3. SpansAt(done, mem)'
  <2>1. Targets' = Targets
    BY <1>1 DEF Targets, FusedChain
  <2> QED BY <1>1, <2>1 DEF SpansAt
<1>4. \A c : Addend(c)' = Addend(c)
  BY <1>1 DEF Addend, OldRight, Across, Unit, Old, FusedChain
<1>5. ASSUME NEW c \in FusedChains
      PROVE  FusedNumbers(c, done, mem[call.layout[FusedChain(c).into]], BitOf(c, flags[c]))'
  <2>1. FusedNumbers(c, done', mem'[call.layout[FusedChain(c).into]], BitOf(c, flags'[c]))
    OBVIOUS
  <2> QED BY <1>4, <2>1 DEF FusedNumbers, Old, FusedChain, BitOf, Fused!Extract, Fused!Seed, Fused!kernel
<1> QED BY <1>1, <1>2, <1>3, <1>5 DEF FusedState

\* The call and what is in flight.
LEMMA FusedInvPrimed ==
  ASSUME call' = call, FusedState',
         pc' = "loop" => /\ Covers(blocks', Fused!Length - done')
                         /\ call.kernel.shifted => prev' = Column(Old("src"), done' + 1),
         pc' = "returned" =>
           done' = Fused!Length /\ \A c \in FusedChains : result'[c] = BitOf(c, flags'[c]),
         pc' # "enter"
  PROVE  FusedInv'
<1>1. Fused!Length' = Fused!Length /\ FusedChains' = FusedChains
  BY DEF Fused!Length, FusedChains
<1>2. (pc = "loop" =>
         /\ Covers(blocks, Fused!Length - done)
         /\ call.kernel.shifted => prev = Column(Old("src"), done + 1))'
  BY <1>1 DEF Old
<1>3. (pc = "returned" =>
         done = Fused!Length /\ \A c \in FusedChains : result[c] = BitOf(c, flags[c]))'
  BY <1>1 DEF BitOf, Fused!Extract, Fused!Seed, Fused!kernel
<1> QED BY <1>2, <1>3 DEF FusedInv

-----------------------------------------------------------------------------
(* A call.                                                                 *)

LEMMA FusedCallBegins ==
  ASSUME Fused!InputsAssumption, Fused!BitsAssumption, Fused!Init
  PROVE  FusedCalled /\ mem = call.before
<1>1. PICK k \in Fused!Double \union Fused!Shifted, input \in FusedInputs, shift \in 1 .. LimbBits - 1,
           borrow \in {0, 1} :
        \E layout \in Fused!Layouts(k) :
          /\ k \in Fused!Double => shift = 1 /\ borrow = 0
          /\ mem = Fused!Filled(layout, input)
          /\ call = [kernel |-> k, layout |-> layout, shift |-> shift, borrow |-> borrow,
                     before |-> mem]
  BY ZenonT(60) DEF Fused!Init
<1>2. PICK layout \in Fused!Layouts(k) :
        /\ k \in Fused!Double => shift = 1 /\ borrow = 0
        /\ mem = Fused!Filled(layout, input)
        /\ call = [kernel |-> k, layout |-> layout, shift |-> shift, borrow |-> borrow,
                   before |-> mem]
  BY <1>1
<1>3. /\ call.kernel = k /\ call.layout = layout /\ call.shift = shift /\ call.borrow = borrow
      /\ call.before = mem
  BY <1>2
<1>4. IsFused(k) /\ LaidOut(k, layout) /\ (k \in Fused!Double <=> ~k.shifted)
  BY <1>1, <1>2, FusedShape, Zenon
<1> DEFINE len == Len(input[1])
           names == {layout[name] : name \in DOMAIN layout}
<1>5. /\ len \in Nat /\ input[1] \in [1 .. len -> Limb] /\ input[2] \in [1 .. len -> Limb]
  <2>1. input[1] \in Seq(Limb) /\ input[2] \in Seq(Limb) /\ Len(input[2]) = len
    BY <1>1, SameFusedOperators, Zenon DEF Fused!InputsAssumption
  <2> QED BY <2>1
<1> HIDE DEF len
<1>6. Fused!Range(layout) = names
  BY DEF Fused!Range
<1>7. mem \in [names -> [1 .. len -> Limb]]
  <2>1. mem = [name \in names |->
                IF name \in {"sum", "dst", "dst_a", "src_b"} THEN input[1] ELSE input[2]]
    BY <1>2, <1>6, Zenon DEF Fused!Filled
  <2> HIDE DEF names
  <2> QED BY <1>5, <2>1
<1>8. names # {}
  <2>1. Len(k.chains) \in {1, 2}
    BY <1>4, Zenon DEF IsFused
  <2>2. 1 \in 1 .. Len(k.chains)
    <3> DEFINE n == Len(k.chains)
    <3>1. n \in {1, 2}
      BY <2>1
    <3> HIDE DEF n
    <3>2. 1 \in 1 .. n
      BY <3>1
    <3> QED BY <3>2 DEF n
  <2>3. k.chains[1].into \in DOMAIN layout
    BY <1>4, <2>2, Zenon DEF LaidOut
  <2> QED BY <2>3
<1>9. Fused!Length = len
  <2> DEFINE any == CHOOSE name \in DOMAIN mem : TRUE
  <2>1. DOMAIN mem = names
    BY <1>7
  <2>2. any \in names
    BY <1>8, <2>1
  <2> HIDE DEF any
  <2>3. mem[any] \in [1 .. len -> Limb]
    BY <1>7, <2>2
  <2>4. Len(mem[any]) = len
    BY <1>5, <2>3
  <2> QED BY <1>3, <2>4, Zenon DEF Fused!Length, any
<1>10. call.borrow \in {0, 1} /\ (~call.kernel.shifted => call.borrow = 0)
  BY <1>1, <1>2, <1>3, <1>4
<1>11. call.before \in [{call.layout[name] : name \in DOMAIN call.layout} -> [1 .. Fused!Length -> Limb]]
  BY <1>3, <1>7, <1>9
<1> QED BY <1>1, <1>3, <1>4, <1>5, <1>9, <1>10, <1>11 DEF FusedCalled

\* Before the first column.
LEMMA NumbersBegin ==
  ASSUME FusedCalled, NEW c \in FusedChains, NEW limbs \in [1 .. Fused!Length -> Limb]
  PROVE  FusedNumbers(c, 0, limbs, call.borrow)
<1>1. limbs \in Seq(Limb) /\ Old(FusedChain(c).left) \in Seq(Limb) /\ Addend(c) \in Seq(Limb)
  <2>1. Fused!Length \in Nat
    BY DEF FusedCalled
  <2>2. limbs \in Seq(Limb)
    BY <2>1
  <2> QED BY <2>2, FusedFacts, AddendFacts, Zenon
<1>2. Lowest(limbs, 0) = 0 /\ Lowest(Old(FusedChain(c).left), 0) = 0 /\ Lowest(Addend(c), 0) = 0
  <2>1. Lowest(limbs, 0) = 0
    BY <1>1, LowestFacts
  <2>2. Lowest(Old(FusedChain(c).left), 0) = 0
    BY <1>1, LowestFacts
  <2>3. Lowest(Addend(c), 0) = 0
    BY <1>1, LowestFacts
  <2> QED BY <2>1, <2>2, <2>3
<1>3. Power(Base, 0) = 1 /\ call.borrow \in {0, 1}
  BY PowerFacts, BaseAssumption DEF FusedCalled
<1>4. FusedChain(c).op = "add" => call.borrow = 0
  <2>1. FusedChain(c).op = "add" => ~call.kernel.shifted
    BY FusedFacts
  <2> QED BY <2>1 DEF FusedCalled
<1> QED BY <1>2, <1>3, <1>4 DEF FusedNumbers

LEMMA FusedInit ==
  ASSUME Fused!InputsAssumption, Fused!BitsAssumption, Fused!Init
  PROVE  FusedInv
<1>1. FusedCalled /\ mem = call.before
  BY FusedCallBegins
<1>2. /\ done = 0 /\ pc = "enter"
      /\ flags = [c \in FusedChains |-> FlagOf(c, call.borrow)]
  <2>0. PICK k \in Fused!Double \union Fused!Shifted, input \in FusedInputs, shift \in 1 .. LimbBits - 1,
             borrow \in {0, 1} :
          \E layout \in Fused!Layouts(k) :
            /\ call = [kernel |-> k, layout |-> layout, shift |-> shift, borrow |-> borrow,
                       before |-> mem]
            /\ flags = [c \in 1 .. Len(k.chains) |-> Fused!Seed(k, c, borrow)]
    BY Zenon DEF Fused!Init
  <2>1. PICK layout \in Fused!Layouts(k) :
          /\ call = [kernel |-> k, layout |-> layout, shift |-> shift, borrow |-> borrow,
                     before |-> mem]
          /\ flags = [c \in 1 .. Len(k.chains) |-> Fused!Seed(k, c, borrow)]
    BY <2>0
  <2>2. call.kernel = k /\ call.borrow = borrow
    BY <2>1
  <2>3. flags = [c \in FusedChains |-> FlagOf(c, call.borrow)]
    BY <2>1, <2>2, Zenon DEF FusedChains, FlagOf
  <2> QED BY <2>3 DEF Fused!Init
<1>3. call.borrow \in {0, 1} /\ Fused!Length \in Nat
  BY <1>1 DEF FusedCalled
<1>4. ASSUME NEW c \in FusedChains
      PROVE  flags[c] = FlagOf(c, call.borrow) /\ flags[c] \in {0, 1} /\ BitOf(c, flags[c]) = call.borrow
  BY <1>1, <1>2, <1>3, FlagFacts
<1>5. flags \in [FusedChains -> {0, 1}]
  BY <1>2, <1>4
<1>6. /\ mem \in [DOMAIN call.before -> [1 .. Fused!Length -> Limb]]
      /\ \A c \in FusedChains : mem[call.layout[FusedChain(c).into]] \in [1 .. Fused!Length -> Limb]
  BY <1>1, FusedFacts DEF FusedCalled, Old
<1>7. SpansAt(done, mem)
  BY <1>1, <1>6 DEF SpansAt
<1>8. ASSUME NEW c \in FusedChains
      PROVE  FusedNumbers(c, done, mem[call.layout[FusedChain(c).into]], BitOf(c, flags[c]))
  BY <1>1, <1>2, <1>4, <1>6, NumbersBegin
<1>9. FusedState
  BY <1>1, <1>2, <1>3, <1>5, <1>7, <1>8 DEF FusedState
<1> QED BY <1>2, <1>4, <1>9 DEF FusedInv

\* An empty span.
LEMMA FusedNothing == ASSUME FusedInv, Fused!Nothing PROVE FusedInv'
<1>1. /\ UNCHANGED <<call, mem, done, flags>> /\ pc' = "returned" /\ pc = "enter"
      /\ Fused!Length = 0 /\ result' = [c \in Fused!Chains |-> call.borrow]
  BY DEF Fused!Nothing
<1>2. FusedState /\ FusedCalled /\ done = 0 /\ \A c \in FusedChains : flags[c] = FlagOf(c, call.borrow)
  BY <1>1 DEF FusedInv, FusedState
<1>3. FusedState'
  BY <1>1, <1>2, FusedStatePrimed DEF FusedState
<1>4. ASSUME NEW c \in FusedChains PROVE result'[c] = BitOf(c, flags'[c])
  <2>1. c \in Fused!Chains
    BY DEF FusedChains, Fused!Chains, Fused!kernel
  <2>2. result'[c] = call.borrow
    BY <1>1, <2>1
  <2>3. BitOf(c, FlagOf(c, call.borrow)) = call.borrow
    BY <1>2, FlagFacts DEF FusedCalled
  <2> QED BY <1>1, <1>2, <2>2, <2>3
<1> QED BY <1>1, <1>2, <1>3, <1>4, FusedInvPrimed

\* The blocks of a call.
LEMMA FusedEnter == ASSUME FusedInv, Fused!Enter PROVE FusedInv'
<1> DEFINE len == Fused!Length
           phases == call.kernel.phases
<1>1. /\ UNCHANGED <<call, mem, done, flags>> /\ pc' = "loop" /\ pc = "enter" /\ len > 0
      /\ blocks' = IF call.kernel.shifted THEN Append(Schedule(phases, TRUE, len - 1), 1)
                   ELSE Schedule(phases, TRUE, len)
      /\ prev' = IF call.kernel.shifted THEN Fused!Span(mem, "src")[1] ELSE prev
  BY SameFusedOperators, Zenon DEF Fused!Enter, Fused!kernel
<1>2. FusedState /\ FusedCalled /\ done = 0 /\ len \in Nat /\ phases \in Shapes
  BY <1>1 DEF FusedInv, FusedState, FusedCalled, IsFused
<1>3. FusedState'
  BY <1>1, <1>2, FusedStatePrimed DEF FusedState
<1>4. Covers(blocks', len - done')
  <2>1. CASE ~call.kernel.shifted
    <3>1. Covers(Schedule(phases, TRUE, len), len)
      BY <1>2, ScheduleCovers
    <3>2. len - done' = len /\ blocks' = Schedule(phases, TRUE, len)
      BY <1>1, <1>2, <2>1
    <3> QED BY <3>1, <3>2
  <2>2. CASE call.kernel.shifted
    <3> DEFINE most == Schedule(phases, TRUE, len - 1)
    <3>1. len - 1 \in Nat /\ (len - 1) + 1 = len /\ len - 0 = len
      BY <1>1, <1>2
    <3>2. Covers(most, len - 1)
      BY <1>2, <3>1, ScheduleCovers
    <3> HIDE DEF most
    <3>3. Covers(<<1>>, 1)
      <4>1. Covers([r \in 1 .. 1 |-> 1], 1 * 1)
        BY CoversRun
      <4>2. [r \in 1 .. 1 |-> 1] = <<1>>
        OBVIOUS
      <4> QED BY <4>1, <4>2
    <3>4. Covers(most \o <<1>>, (len - 1) + 1)
      BY <3>1, <3>2, <3>3, CoversBoth
    <3>5. Append(most, 1) = most \o <<1>>
      <4>1. most \in Seq(Nat)
        BY <3>2 DEF Covers
      <4> QED BY <4>1
    <3>6. blocks' = most \o <<1>>
      BY <1>1, <2>2, <3>5 DEF most
    <3> QED BY <1>1, <1>2, <3>1, <3>4, <3>6
  <2> QED BY <2>1, <2>2
<1>5. ASSUME call.kernel.shifted PROVE prev' = Column(Old("src"), done' + 1)
  <2>1. "src" \in DOMAIN call.layout /\ Old("src") \in Seq(Limb) /\ Len(Old("src")) = len
        /\ call.layout["src"] \in DOMAIN call.before
    BY <1>2, <1>5, FusedFacts
  <2>2. 1 \in 0 + 1 .. len
    BY <1>1, <1>2
  <2>3. mem[call.layout["src"]][1] = Old("src")[1]
    BY <1>2, <2>1, <2>2 DEF FusedState, SpansAt, Old
  <2>4. Column(Old("src"), 0 + 1) = Old("src")[1]
    BY <1>1, <1>2, <2>1 DEF Column
  <2> QED BY <1>1, <1>2, <1>5, <2>3, <2>4 DEF Fused!Span
<1> QED BY <1>1, <1>3, <1>4, <1>5, FusedInvPrimed

\* The register, or nothing ahead, and the memory: the operands as they were.
LEMMA NothingAhead ==
  ASSUME FusedState, NEW c \in FusedChains, call.kernel.shifted => prev = Column(Old("src"), done + 1)
  PROVE  Ahead(c)
<1>1. FusedCalled /\ SpansAt(done, mem) /\ done \in Nat /\ Fused!Length \in Nat
  BY DEF FusedState, FusedCalled
<1>2. ASSUME NEW name \in DOMAIN call.layout
      PROVE  /\ Len(mem[call.layout[name]]) = Fused!Length
             /\ \A col \in done + 1 .. Fused!Length : mem[call.layout[name]][col] = Old(name)[col]
             /\ \A col \in Nat : col >= done + 1 => Column(mem[call.layout[name]], col) = Column(Old(name), col)
  <2>1. call.layout[name] \in DOMAIN call.before /\ Len(Old(name)) = Fused!Length
    BY <1>1, FusedFacts
  <2>2. mem[call.layout[name]] \in [1 .. Fused!Length -> Limb]
    BY <1>1, <2>1 DEF SpansAt
  <2>3. Len(mem[call.layout[name]]) = Fused!Length
    BY <1>1, <2>2
  <2>4. \A col \in done + 1 .. Fused!Length : mem[call.layout[name]][col] = Old(name)[col]
    BY <1>1, <2>1 DEF SpansAt, Old
  <2>5. ASSUME NEW col \in Nat, col >= done + 1
        PROVE  Column(mem[call.layout[name]], col) = Column(Old(name), col)
    <3>1. CASE col <= Fused!Length
      <4>1. col \in done + 1 .. Fused!Length
        BY <1>1, <2>5, <3>1
      <4> QED BY <2>1, <2>3, <2>4, <3>1, <4>1 DEF Column
    <3>2. CASE ~(col <= Fused!Length)
      BY <2>1, <2>3, <3>2 DEF Column
    <3> QED BY <3>1, <3>2
  <2> QED BY <2>3, <2>4, <2>5
<1>3. ASSUME NEW col \in done + 1 .. Fused!Length PROVE ReadsOld(c, col)
  <2>1. /\ FusedChain(c).left \in DOMAIN call.layout /\ FusedChain(c).right \in DOMAIN call.layout
        /\ col \in Nat /\ col + 1 \in Nat /\ col + 1 >= done + 1
    BY <1>1, FusedFacts
  <2>2. Fused!Left(c, col) = OldLeft(c, col)
    BY <1>2, <2>1, Zenon DEF Fused!Left, Fused!Span, OldLeft, FusedChain, Fused!kernel
  <2>3. CASE ~call.kernel.shifted
    <3>1. Fused!Right(c, col) = mem[call.layout[FusedChain(c).right]][col]
      BY <2>3, Zenon DEF Fused!Right, Fused!Span, FusedChain, Fused!kernel
    <3> QED BY <1>2, <2>1, <2>2, <2>3, <3>1 DEF ReadsOld, OldRight
  <2>4. CASE call.kernel.shifted
    <3> DEFINE limbs == mem[call.layout["src"]]
               low == IF col = done + 1 THEN prev ELSE limbs[col]
    <3>1. "src" \in DOMAIN call.layout /\ FusedChain(c).right = "src"
      BY <1>1, <2>4, FusedFacts DEF ShiftedChain, Fused!Chain
    <3>2. Fused!Right(c, col) = Across(low, Column(limbs, col + 1))
      BY <2>4, <3>1, SameFusedOperators, Zenon
      DEF Fused!Right, Fused!Span, FusedChain, Fused!kernel, Across, Unit
    <3>3. Column(limbs, col + 1) = Column(Old("src"), col + 1)
      BY <1>2, <2>1, <3>1
    <3>4. low = Old("src")[col]
      <4>1. Len(Old("src")) = Fused!Length
        BY <1>1, <3>1, FusedFacts
      <4>2. limbs[col] = Old("src")[col]
        BY <1>2, <3>1
      <4>3. Column(Old("src"), col) = Old("src")[col]
        BY <1>1, <4>1 DEF Column
      <4> QED BY <2>4, <4>2, <4>3
    <3> HIDE DEF limbs, low
    <3> QED BY <2>2, <2>4, <3>2, <3>3, <3>4 DEF ReadsOld, OldRight
  <2> QED BY <2>3, <2>4
<1> QED BY <1>3 DEF Ahead

-----------------------------------------------------------------------------
(* A block.                                                                *)

FusedRun(c, count) ==
  IF call.kernel.lanes /\ count = 4 THEN Fused!InLanes(c) ELSE Fused!InTurn(c, count)

FusedWritten(c, count, limbs) ==
  [col \in 1 .. Len(limbs) |->
    IF col \in done + 1 .. done + count THEN FusedRun(c, count).limbs[col - done] ELSE limbs[col]]

\* A block in turn or in lanes.
LEMMA BlockRipples ==
  ASSUME FusedState, NEW c \in FusedChains, call.kernel.shifted => prev = Column(Old("src"), done + 1),
         NEW count \in Nat, done + count <= Fused!Length
  PROVE  LET run == FusedRun(c, count)
         IN  run.flag \in {0, 1} /\ Ripples(c, count, run.limbs, BitOf(c, flags[c]), BitOf(c, run.flag))
<1>1. FusedCalled /\ done \in Nat /\ flags[c] \in {0, 1}
  BY DEF FusedState
<1>2. Ahead(c)
  BY NothingAhead
<1>3. CASE call.kernel.lanes /\ count = 4
  BY <1>1, <1>2, <1>3, LanesRipple DEF FusedRun
<1>4. CASE ~(call.kernel.lanes /\ count = 4)
  BY <1>1, <1>2, <1>4, TurnsRipple DEF FusedRun, Turned
<1> QED BY <1>3, <1>4

\* What a block leaves of a chain's target, and of the other spans.
LEMMA BlockWrites ==
  ASSUME FusedState, Fused!Block
  PROVE  LET count == Head(blocks)
         IN  /\ mem' = [name \in DOMAIN mem |-> mem'[name]]
             /\ \A c \in FusedChains :
                  LET target == call.layout[FusedChain(c).into]
                  IN  mem'[target] = FusedWritten(c, count, mem[target])
             /\ \A name \in DOMAIN mem \ Targets : mem'[name] = mem[name]
             /\ flags' = [c \in FusedChains |-> FusedRun(c, count).flag]
<1> DEFINE count == Head(blocks)
           run == [c \in FusedChains |-> FusedRun(c, count)]
           Wrote(c, limbs) == [col \in 1 .. Len(limbs) |->
             IF col \in done + 1 .. done + count THEN run[c].limbs[col - done] ELSE limbs[col]]
           To(name) == {c \in FusedChains : call.layout[FusedChain(c).into] = name}
<1>1. /\ mem' = [name \in DOMAIN mem |->
                  IF To(name) = {} THEN mem[name]
                  ELSE Wrote(CHOOSE c \in To(name) : TRUE, mem[name])]
      /\ flags' = [c \in FusedChains |-> run[c].flag]
  BY Zenon DEF Fused!Block, FusedRun, FusedChains, FusedChain, Fused!Chains, Fused!kernel
<1>2. \A c \in FusedChains : run[c] = FusedRun(c, count)
  OBVIOUS
<1> HIDE DEF run
<1>3. flags' = [c \in FusedChains |-> FusedRun(c, count).flag]
  BY <1>1, <1>2
<1>4. mem' = [name \in DOMAIN mem |-> mem'[name]]
  <2> HIDE DEF To, Wrote
  <2> QED BY <1>1
<1>5. \A name \in DOMAIN mem :
        mem'[name] = IF To(name) = {} THEN mem[name] ELSE Wrote(CHOOSE c \in To(name) : TRUE, mem[name])
  <2> HIDE DEF To, Wrote
  <2> QED BY <1>1
<1>6. ASSUME NEW c \in FusedChains
      PROVE  LET target == call.layout[FusedChain(c).into]
             IN  mem'[target] = FusedWritten(c, count, mem[target])
  <2> DEFINE target == call.layout[FusedChain(c).into]
  <2>1. target \in DOMAIN mem
    <3>1. FusedCalled /\ SpansAt(done, mem)
      BY DEF FusedState
    <3>2. target \in DOMAIN call.before
      BY <3>1, FusedFacts
    <3> QED BY <3>1, <3>2 DEF SpansAt
  <2>2. To(target) = {c}
    <3>1. \A d \in FusedChains : call.layout[FusedChain(d).into] = target => d = c
      BY Zenon DEF FusedState, FusedCalled, LaidOut, FusedChain, FusedChains
    <3> QED BY <3>1
  <2>3. (CHOOSE d \in To(target) : TRUE) = c /\ To(target) # {}
    BY <2>2
  <2> HIDE DEF target, To
  <2>4. mem'[target] = Wrote(c, mem[target])
    BY <1>5, <2>1, <2>3
  <2>5. Wrote(c, mem[target]) = FusedWritten(c, count, mem[target])
    BY <1>2, Zenon DEF FusedWritten
  <2> QED BY <2>4, <2>5 DEF target
<1>7. ASSUME NEW name \in DOMAIN mem \ Targets PROVE mem'[name] = mem[name]
  <2>1. To(name) = {}
    BY DEF Targets
  <2> HIDE DEF To, Wrote
  <2> QED BY <1>5, <2>1
<1> QED BY <1>3, <1>4, <1>6, <1>7, Zenon

LEMMA FusedBlock == ASSUME FusedInv, Fused!Block PROVE FusedInv'
<1> DEFINE count == Head(blocks)
           len == Fused!Length
           end == done + count
<1>1. /\ FusedState /\ FusedCalled /\ done \in 0 .. len /\ len \in Nat /\ blocks # <<>>
      /\ Covers(blocks, len - done) /\ SpansAt(done, mem)
      /\ call.kernel.shifted => prev = Column(Old("src"), done + 1)
  BY DEF FusedInv, FusedState, FusedCalled, Fused!Block
<1>2. count \in Nat /\ count <= len - done /\ Covers(Tail(blocks), (len - done) - count)
  <2> DEFINE rest == len - done
  <2> HIDE DEF rest
  <2>1. Covers(blocks, rest) /\ blocks # <<>>
    BY <1>1 DEF rest
  <2>2. Head(blocks) \in Nat /\ Head(blocks) <= rest /\ Covers(Tail(blocks), rest - Head(blocks))
    BY <2>1, CoversNext
  <2> QED BY <2>2 DEF rest
<1>3. /\ done' = end /\ blocks' = Tail(blocks) /\ call' = call /\ pc' = "loop"
      /\ prev' = IF call.kernel.shifted THEN Column(mem[call.layout["src"]], end + 1) ELSE prev
  BY SameFusedOperators, Zenon DEF Fused!Block, Fused!kernel, Fused!Span
<1>4. /\ mem' = [name \in DOMAIN mem |-> mem'[name]]
      /\ \A c \in FusedChains :
           LET target == call.layout[FusedChain(c).into]
           IN  mem'[target] = FusedWritten(c, count, mem[target])
      /\ \A name \in DOMAIN mem \ Targets : mem'[name] = mem[name]
      /\ flags' = [c \in FusedChains |-> FusedRun(c, count).flag]
  BY <1>1, BlockWrites, Zenon
<1> HIDE DEF count
<1>5. /\ done \in Nat /\ end \in 0 .. len /\ (len - done) - count = len - end /\ done + count <= len
  BY <1>1, <1>2
<1>6. ASSUME NEW c \in FusedChains
      PROVE  /\ FusedRun(c, count).flag \in {0, 1}
             /\ Ripples(c, count, FusedRun(c, count).limbs, BitOf(c, flags[c]),
                        BitOf(c, FusedRun(c, count).flag))
  BY <1>1, <1>2, <1>5, BlockRipples, Zenon
<1>7. ASSUME NEW c \in FusedChains
      PROVE  LET target == call.layout[FusedChain(c).into]
             IN  /\ mem[target] \in [1 .. len -> Limb] /\ mem'[target] \in [1 .. len -> Limb]
                 /\ \A j \in 1 .. done : mem'[target][j] = mem[target][j]
                 /\ \A j \in 1 .. count : mem'[target][done + j] = FusedRun(c, count).limbs[j]
                 /\ \A col \in end + 1 .. len : mem'[target][col] = mem[target][col]
  <2> DEFINE target == call.layout[FusedChain(c).into]
             f == mem[target]
             g == mem'[target]
             limbs == FusedRun(c, count).limbs
  <2>1. f \in [1 .. len -> Limb]
    <3>1. target \in DOMAIN call.before
      BY <1>1, FusedFacts
    <3> QED BY <1>1, <3>1 DEF SpansAt
  <2>2. g = [col \in 1 .. Len(f) |-> IF col \in done + 1 .. done + count THEN limbs[col - done] ELSE f[col]]
    BY <1>4, Zenon DEF FusedWritten
  <2>3. \A j \in 1 .. count : limbs[j] \in Limb
    BY <1>6, Zenon DEF Ripples
  <2>4. Len(f) = len
    BY <1>1, <2>1
  <2> HIDE DEF f, g, limbs
  <2>5. \A col \in 1 .. len : g[col] = IF col \in done + 1 .. done + count THEN limbs[col - done] ELSE f[col]
    BY <2>2, <2>4
  <2>6. \A col \in done + 1 .. done + count : col - done \in 1 .. count
    BY <1>2, <1>5
  <2>7. g \in [1 .. len -> Limb]
    BY <2>1, <2>2, <2>3, <2>4, <2>6
  <2>8. \A j \in 1 .. done : g[j] = f[j]
    BY <1>1, <1>5, <2>5
  <2>9. \A j \in 1 .. count : g[done + j] = limbs[j]
    <3>1. \A j \in 1 .. count : done + j \in 1 .. len /\ done + j \in done + 1 .. done + count /\ (done + j) - done = j
      BY <1>1, <1>2, <1>5
    <3> QED BY <2>5, <3>1
  <2>10. \A col \in end + 1 .. len : g[col] = f[col]
    BY <1>1, <1>2, <1>5, <2>5
  <2> QED BY <2>1, <2>7, <2>8, <2>9, <2>10 DEF f, g, limbs
<1>8. flags' \in [FusedChains -> {0, 1}] /\ \A c \in FusedChains : flags'[c] = FusedRun(c, count).flag
  BY <1>4, <1>6
<1>9. ASSUME NEW c \in FusedChains
      PROVE  FusedNumbers(c, end, mem'[call.layout[FusedChain(c).into]], BitOf(c, flags'[c]))
  <2> DEFINE f == mem[call.layout[FusedChain(c).into]]
             g == mem'[call.layout[FusedChain(c).into]]
             limbs == FusedRun(c, count).limbs
             first == BitOf(c, flags[c])
             last == BitOf(c, flags'[c])
  <2>1. /\ f \in [1 .. len -> Limb] /\ g \in [1 .. len -> Limb]
        /\ \A j \in 1 .. done : g[j] = f[j]
        /\ \A j \in 1 .. count : g[done + j] = limbs[j]
    BY <1>7, Zenon
  <2>2. FusedNumbers(c, done, f, first)
    BY <1>1, Zenon DEF FusedState
  <2>3. Ripples(c, count, limbs, first, last)
    BY <1>6, <1>8
  <2> HIDE DEF f, g, limbs, first, last
  <2>4. FusedNumbers(c, done + count, g, last)
    BY <1>1, <1>2, <1>5, <2>1, <2>2, <2>3, FusedNumbersAcross, Zenon
  <2> QED BY <2>4 DEF g, last
<1>10. SpansAt(end, mem')
  <2>1. /\ mem \in [DOMAIN call.before -> [1 .. len -> Limb]] /\ DOMAIN mem' = DOMAIN call.before
        /\ DOMAIN mem = DOMAIN call.before
    BY <1>1, <1>4 DEF SpansAt
  <2>2. ASSUME NEW name \in DOMAIN call.before
        PROVE  /\ mem'[name] \in [1 .. len -> Limb]
               /\ \A col \in end + 1 .. len : mem'[name][col] = call.before[name][col]
               /\ name \notin Targets => mem'[name] = call.before[name]
    <3>0. \A col \in end + 1 .. len : mem[name][col] = call.before[name][col]
      <4>1. \A col \in end + 1 .. len : col \in done + 1 .. len
        BY <1>2, <1>5
      <4> QED BY <1>1, <4>1 DEF SpansAt
    <3>1. CASE name \in Targets
      <4>1. PICK c \in FusedChains : name = call.layout[FusedChain(c).into]
        BY <3>1 DEF Targets
      <4>2. /\ mem'[name] \in [1 .. len -> Limb]
            /\ \A col \in end + 1 .. len : mem'[name][col] = mem[name][col]
        BY <1>7, <4>1, Zenon
      <4> QED BY <3>0, <3>1, <4>2
    <3>2. CASE name \notin Targets
      <4>1. mem'[name] = mem[name]
        BY <1>4, <2>1, <3>2
      <4>2. mem[name] = call.before[name]
        BY <1>1, <3>2 DEF SpansAt
      <4> QED BY <2>1, <3>0, <4>1, <4>2
    <3> QED BY <3>1, <3>2
  <2>3. mem' = [name \in DOMAIN call.before |-> mem'[name]]
    BY <1>4, <2>1
  <2> QED BY <2>2, <2>3 DEF SpansAt
<1>11. FusedState'
  BY <1>1, <1>3, <1>5, <1>8, <1>9, <1>10, FusedStatePrimed
<1>12. Covers(blocks', len - done')
  BY <1>2, <1>3, <1>5
<1>13. ASSUME call.kernel.shifted PROVE prev' = Column(Old("src"), done' + 1)
  <2>1. /\ "src" \in DOMAIN call.layout /\ Len(Old("src")) = len
        /\ call.layout["src"] \in DOMAIN call.before
    BY <1>1, <1>13, FusedFacts
  <2>2. mem[call.layout["src"]] \in [1 .. len -> Limb]
    BY <1>1, <2>1 DEF SpansAt
  <2>3. Len(mem[call.layout["src"]]) = len
    BY <1>1, <2>2
  <2>4. Column(mem[call.layout["src"]], end + 1) = Column(Old("src"), end + 1)
    <3>1. CASE end + 1 <= len
      <4>1. end + 1 \in done + 1 .. len
        BY <1>1, <1>2, <1>5, <3>1
      <4>2. mem[call.layout["src"]][end + 1] = Old("src")[end + 1]
        BY <1>1, <2>1, <4>1 DEF SpansAt, Old
      <4> QED BY <2>1, <2>3, <3>1, <4>2 DEF Column
    <3>2. CASE ~(end + 1 <= len)
      BY <2>1, <2>3, <3>2 DEF Column
    <3> QED BY <3>1, <3>2
  <2> QED BY <1>3, <1>13, <2>4
<1> QED BY <1>3, <1>11, <1>12, <1>13, FusedInvPrimed

LEMMA FusedReturn == ASSUME FusedInv, Fused!Return PROVE FusedInv'
<1>1. /\ FusedState /\ Covers(<<>>, Fused!Length - done) /\ done \in 0 .. Fused!Length
      /\ Fused!Length \in Nat
  BY DEF FusedInv, FusedState, FusedCalled, Fused!Return
<1>2. done = Fused!Length
  <2>1. Fused!Length - done = 0
    BY <1>1, CoversNothing
  <2> QED BY <1>1, <2>1
<1>3. /\ UNCHANGED <<call, mem, done, flags>> /\ pc' = "returned"
      /\ result' = [c \in FusedChains |-> BitOf(c, flags[c])]
  BY Zenon DEF Fused!Return, FusedChains, Fused!Chains, Fused!kernel, BitOf
<1>4. FusedState'
  BY <1>1, <1>3, FusedStatePrimed DEF FusedState
<1> QED BY <1>2, <1>3, <1>4, FusedInvPrimed

LEMMA FusedStep == ASSUME FusedInv, [Fused!Next]_(Fused!vars) PROVE FusedInv'
<1>1. CASE UNCHANGED Fused!vars
  <2>1. UNCHANGED <<call, mem, done, flags, prev, blocks, pc, result>>
    BY <1>1 DEF Fused!vars
  <2>2. FusedState'
    BY <2>1, FusedStatePrimed DEF FusedInv, FusedState
  <2>3. CASE pc # "enter"
    BY <2>1, <2>2, <2>3, FusedInvPrimed DEF FusedInv
  <2>4. CASE pc = "enter"
    <3>1. FusedChains' = FusedChains
      BY <2>1 DEF FusedChains
    <3>2. (done = 0 /\ \A c \in FusedChains : flags[c] = FlagOf(c, call.borrow))'
      BY <2>1, <2>4, <3>1 DEF FusedInv, FlagOf, Fused!Seed
    <3> QED BY <2>1, <2>2, <2>4, <3>2 DEF FusedInv
  <2> QED BY <2>3, <2>4
<1> QED BY <1>1, FusedNothing, FusedEnter, FusedBlock, FusedReturn DEF Fused!Next

\* What the invariant says of a kernel that returned.
LEMMA FusedExact == ASSUME FusedInv PROVE Fused!FusedIsExact
<1> SUFFICES ASSUME pc = "returned" PROVE Fused!FusedIsExact
  BY Zenon DEF Fused!FusedIsExact
<1> DEFINE len == Fused!Length
           P == Power(Base, len)
<1>1. FusedState /\ FusedCalled /\ done = len /\ SpansAt(len, mem) /\ len \in Nat
      /\ \A c \in FusedChains : result[c] = BitOf(c, flags[c])
  BY DEF FusedInv, FusedState, FusedCalled
<1>2. /\ DOMAIN mem = DOMAIN call.before
      /\ \A name \in DOMAIN mem \ Targets : mem[name] = call.before[name]
  BY <1>1 DEF SpansAt
<1>3. {call.layout[Fused!kernel.chains[c].into] : c \in Fused!Chains} = Targets
  BY Zenon DEF Targets, FusedChains, FusedChain, Fused!Chains, Fused!kernel
<1>4. ASSUME NEW c \in Fused!Chains
      PROVE  LET Before(name) == Fused!Value(Fused!Span(call.before, name))
                 Operand(d) == IF Fused!kernel.shifted
                               THEN Before("src") \div Fused!Power(2, LimbBits - call.shift)
                               ELSE Before(Fused!kernel.chains[d].right)
                 step == Fused!kernel.chains[c]
                 after == Fused!Value(Fused!Span(mem, step.into))
                 out == result[c] * Fused!Power(Base, Fused!Length)
             IN  IF step.op = "add" THEN after + out = Before(step.left) + Operand(c)
                 ELSE after - out = Before(step.left) - Operand(c) - call.borrow
  <2>1. c \in FusedChains
    BY DEF FusedChains, Fused!Chains, Fused!kernel
  <2> DEFINE after == Lowest(mem[call.layout[FusedChain(c).into]], len)
             left == Lowest(Old(FusedChain(c).left), len)
             s == Lowest(Addend(c), len)
             out == result[c] * P
             borrow == call.borrow
  <2>2. /\ FusedChain(c).into \in DOMAIN call.layout /\ FusedChain(c).left \in DOMAIN call.layout
        /\ FusedChain(c).right \in DOMAIN call.layout
    BY <1>1, <2>1, FusedFacts
  <2>3. mem[call.layout[FusedChain(c).into]] \in [1 .. len -> Limb]
    <3>1. call.layout[FusedChain(c).into] \in DOMAIN call.before
      BY <1>1, <2>2, FusedFacts
    <3> QED BY <1>1, <3>1 DEF SpansAt
  <2>4. /\ Fused!Value(Fused!Span(mem, FusedChain(c).into)) = after
        /\ mem[call.layout[FusedChain(c).into]] \in Seq(Limb)
    <3>1. /\ Len(mem[call.layout[FusedChain(c).into]]) = len
          /\ mem[call.layout[FusedChain(c).into]] \in Seq(Limb)
      BY <1>1, <2>3
    <3> QED BY <3>1, SameFusedOperators, Zenon DEF Value, Fused!Span
  <2>5. ASSUME NEW name \in DOMAIN call.layout
        PROVE  /\ Fused!Value(Fused!Span(call.before, name)) = Lowest(Old(name), len)
               /\ Old(name) \in Seq(Limb)
    <3>1. Len(Old(name)) = len /\ Old(name) \in Seq(Limb)
      BY <1>1, FusedFacts
    <3> QED BY <3>1, SameFusedOperators, Zenon DEF Value, Fused!Span, Old
  <2>6. (IF call.kernel.shifted THEN Fused!Value(Fused!Span(call.before, "src")) \div Fused!Power(2, LimbBits - call.shift)
         ELSE Fused!Value(Fused!Span(call.before, FusedChain(c).right))) = s
    <3>1. CASE call.kernel.shifted
      <4>1. "src" \in DOMAIN call.layout
        BY <1>1, <3>1, FusedFacts
      <4>2. Fused!Value(Fused!Span(call.before, "src")) = Value(Old("src"))
        BY SameFusedOperators, Zenon DEF Fused!Span, Old
      <4>3. s = Value(Old("src")) \div Unit
        BY <1>1, <2>1, <3>1, ShiftedQuotient
      <4>4. Fused!Power(2, LimbBits - call.shift) = Unit
        BY SameFusedOperators, Zenon DEF Unit
      <4> QED BY <3>1, <4>2, <4>3, <4>4, Zenon
    <3>2. CASE ~call.kernel.shifted
      <4>1. Lowest(Old(FusedChain(c).right), len) = s
        <5>1. /\ Addend(c) \in Seq(Limb) /\ Len(Addend(c)) = len
              /\ \A col \in 1 .. len : Addend(c)[col] = Old(FusedChain(c).right)[col]
          BY <1>1, <2>1, <3>2, AddendFacts DEF OldRight
        <5>2. Old(FusedChain(c).right) \in Seq(Limb) /\ Len(Old(FusedChain(c).right)) = len
          BY <1>1, <2>2, FusedFacts
        <5>3. \A col \in 1 .. len : Column(Old(FusedChain(c).right), col) = Column(Addend(c), col)
          BY <5>1, <5>2 DEF Column
        <5> QED BY <1>1, <5>1, <5>2, <5>3, LowestOfColumns
      <4> QED BY <2>2, <2>5, <3>2, <4>1, Zenon
    <3> QED BY <3>1, <3>2
  <2>7. FusedNumbers(c, len, mem[call.layout[FusedChain(c).into]], result[c])
    BY <1>1, <2>1 DEF FusedState
  <2>8. /\ after \in Int /\ left \in Int /\ s \in Int /\ out \in Int /\ borrow \in Int
    <3>1. after \in Int
      BY <1>1, <2>4, LowestFacts
    <3>2. left \in Int
      BY <1>1, <2>2, <2>5, LowestFacts
    <3>3. s \in Int
      <4>1. Addend(c) \in Seq(Limb)
        BY <1>1, <2>1, AddendFacts
      <4> QED BY <1>1, <4>1, LowestFacts
    <3>4. result[c] \in {0, 1} /\ P \in Int
      <4>1. flags[c] \in {0, 1}
        BY <1>1, <2>1 DEF FusedState
      <4>2. BitOf(c, flags[c]) \in {0, 1}
        BY <1>1, <2>1, <4>1, FlagFacts
      <4> QED BY <1>1, <2>1, <4>2, WeightType
    <3> QED BY <1>1, <3>1, <3>2, <3>3, <3>4 DEF FusedCalled
  <2>9. IF FusedChain(c).op = "add" THEN after + out = left + s ELSE after + s + borrow = left + out
    BY <2>7, Zenon DEF FusedNumbers
  <2>10. Fused!Power(Base, Fused!Length) = P
    BY SameFusedOperators, Zenon
  <2>11. Fused!Value(Fused!Span(call.before, FusedChain(c).left)) = left
    BY <2>2, <2>5
  <2> HIDE DEF after, left, s, out, borrow
  <2>12. IF FusedChain(c).op = "add" THEN after + out = left + s ELSE after - out = left - s - borrow
    BY <2>8, <2>9
  <2> QED BY <2>4, <2>6, <2>10, <2>11, <2>12, Zenon DEF Fused!kernel, FusedChain, out, borrow
<1> QED BY <1>2, <1>3, <1>4, Zenon DEF Fused!FusedIsExact

-----------------------------------------------------------------------------
(* A call of either family.                                                *)

PairedInv ==
  /\ family = "double rows" => DoubleInv
  /\ family = "fused" => FusedInv

LEMMA PairedInitially == CallInit => PairedInv
BY InitDouble, FusedInit, SpanAssumptions, Zenon DEF CallInit, PairedInv

LEMMA PairedStep == ASSUME PairedInv, [CallNext /\ UNCHANGED family]_allVars PROVE PairedInv'
<1>1. family' = family
  BY DEF allVars
<1>2. ASSUME family = "double rows" PROVE DoubleInv'
  <2>1. DoubledRows!Next \/ UNCHANGED DoubledRows!vars
    BY <1>2, Zenon DEF CallNext, allVars, vars, DoubledRows!vars
  <2>2. DoubleInv
    BY <1>2, Zenon DEF PairedInv
  <2> QED BY <2>1, <2>2, DoubleStep
<1>3. ASSUME family = "fused" PROVE FusedInv'
  <2>1. Fused!Next \/ UNCHANGED Fused!vars
    BY <1>3, Zenon DEF CallNext, allVars, vars, Fused!vars
  <2>2. FusedInv
    BY <1>3, Zenon DEF PairedInv
  <2> QED BY <2>1, <2>2, FusedStep
<1> QED BY <1>1, <1>2, <1>3, Zenon DEF PairedInv

LEMMA PairedAlways == CallSpec => []PairedInv
BY PairedInitially, PairedStep, PTL DEF CallSpec

\* In every state of two rows run side by side the written limbs, the limb in hand
\* and the words in flight are the old limbs and both products so far: no column drops a carry, the first limb
\* may be done apart or as a round of the loops, the limb in hand may wait in
\* memory or in a register, the flushed overflow fits the highest limb and no
\* uninitialized limb is left.
THEOREM DoubleRowsCorrect == CallSpec => []DoubleRowsSound
<1>1. PairedInv => DoubleRowsSound
  BY DoubleExact, Zenon DEF PairedInv, DoubleRowsSound
<1> QED BY <1>1, PairedAlways, PTL

\* A kernel that adds and subtracts, or shifts and subtracts, in one pass leaves
\* each target the sum or difference of what its operands were when it began,
\* whichever spans are one memory, whether a subtraction keeps a borrow or its
\* complement, a block goes limb by limb or in corrected lanes, and wherever a
\* shifted limb straddles two blocks; it returns each carry and borrow and writes
\* nothing else.
THEOREM FusedKernelsCorrect == CallSpec => []FusedSound
<1>1. PairedInv => FusedSound
  BY FusedExact, Zenon DEF PairedInv, FusedSound
<1> QED BY <1>1, PairedAlways, PTL
=============================================================================

----------------------------- MODULE DoubleRows -----------------------------
(***************************************************************************)
(* math/arch: the assembly kernels that process two product rows at once:   *)
(* dst + src * (s0 + s1 B) in place and src * (s0 + s1 B) into fresh limbs. *)
(* Each row keeps a carry word.  The limb the second row leaves for the     *)
(* first row of the next column waits in memory or in a register.           *)
(*                                                                         *)
(* A step is a block of limbs.  Registers and addresses are left out.       *)
(***************************************************************************)
EXTENDS Limbs, LoopShapes

CONSTANTS
  Calls,       \* records of dst, one limb longer than src, src, s0 and s1
  Junk         \* an uninitialized limb

CallsAssumption ==
  \A c \in Calls :
    /\ c.dst \in Seq(Limb) /\ c.src \in Seq(Limb) /\ Len(c.dst) = Len(c.src) + 1
    /\ c.s0 \in Limb /\ c.s1 \in Limb

-----------------------------------------------------------------------------

\* column: how the additions to a product are made.  waits: where the second
\* row's limb does.  apart: whether the first limb is done before the loops,
\* which then are entered for the rest.
DoubleRow(op, column, waits, apart, phases) ==
  [op |-> op, column |-> column, waits |-> waits, apart |-> apart, phases |-> phases]

AddTwo(column, waits, phases) == DoubleRow("add", column, waits, FALSE, phases)

(* add_mul_2_limbs_unchecked *)

AddMul2_X86 == AddTwo("sums", "memory", TwoThenOne)
AddMul2_X86_64 == AddTwo("sums", "memory", FourThenOne)
AddMul2_Bmi2 == AddTwo("sums", "register", FourThenOne)
AddMul2_AArch64 == AddTwo("sums", "register", OneByOne)
AddMul2_Arm == AddTwo("umaal", "memory", TwoThenOne)
AddMul2_PowerPC == AddTwo("sums", "register", OneByOne)
AddMul2_PowerPC64 == AddTwo("sums", "register", OneByOne)
AddMul2_Power9 == AddTwo("fused", "register", OneByOne)
AddMul2_S390x == AddTwo("sums", "memory", OneByOne)
AddMul2_RiscV32 == AddTwo("sums", "memory", OneByOne)
AddMul2_RiscV64 == AddTwo("sums", "memory", OneByOne)
AddMul2_LoongArch32 == AddTwo("sums", "memory", OneByOne)
AddMul2_LoongArch64 == AddTwo("sums", "memory", OneByOne)
AddMul2_Mips == AddTwo("sums", "memory", OneByOne)
AddMul2_Mips64 == AddTwo("sums", "memory", OneByOne)

(* mul_2_limbs_unchecked *)

Mul2_X86 == DoubleRow("into", "sums", "memory", TRUE, TwoThenOne)
Mul2_X86_64 == DoubleRow("into", "sums", "register", TRUE, OneByOne)
Mul2_Bmi2 == DoubleRow("into", "sums", "register", TRUE, OneByOne)
Mul2_AArch64 == DoubleRow("into", "sums", "register", FALSE, TwoThenOne)
Mul2_Arm == DoubleRow("into", "umaal", "register", FALSE, TwoThenOne)
Mul2_PowerPC64 == DoubleRow("into", "sums", "register", FALSE, OneByOne)
Mul2_RiscV64 == DoubleRow("into", "sums", "register", FALSE, OneByOne)
Mul2_S390x == DoubleRow("into", "sums", "register", FALSE, OneByOne)

DoubleRowKernels ==
  {AddMul2_X86, AddMul2_X86_64, AddMul2_Bmi2, AddMul2_AArch64, AddMul2_Arm, AddMul2_PowerPC,
   AddMul2_PowerPC64, AddMul2_Power9, AddMul2_S390x, AddMul2_RiscV32, AddMul2_RiscV64,
   AddMul2_LoongArch32, AddMul2_LoongArch64, AddMul2_Mips, AddMul2_Mips64,
   Mul2_X86, Mul2_X86_64, Mul2_Bmi2, Mul2_AArch64, Mul2_Arm, Mul2_PowerPC64, Mul2_RiscV64,
   Mul2_S390x}

-----------------------------------------------------------------------------

Low(wide) == wide % Base
High(wide) == wide \div Base

Sum3_DropsSecondCarry(column, product, carry, limb) ==
  LET low == Low(product) + carry
      sum == Low(low) + limb
  IN [limb |-> Low(sum), carry |-> (High(product) + High(low)) % Base]

\* product + carry + limb: in two additions whose carries the high half absorbs,
\* with the limb or with both taken by the multiplier at full width.
Sum3(column, product, carry, limb) ==
  CASE column = "sums" ->
         LET low == Low(product) + carry
             sum == Low(low) + limb
         IN [limb |-> Low(sum), carry |-> (High(product) + High(low) + High(sum)) % Base]
    [] column = "fused" ->
         LET sum == Low(product + limb) + carry
         IN [limb |-> Low(sum), carry |-> (High(product + limb) + High(sum)) % Base]
    [] column = "umaal" ->
         LET sum == product + carry + limb IN [limb |-> Low(sum), carry |-> High(sum) % Base]

VARIABLES
  kernel, call,  \* the kernel and what it was called with
  dst,           \* the limbs of the destination
  done,          \* the columns the first row has finished
  c0, c1,        \* the carries of the rows
  held,          \* the second row's limb, if it waits in a register
  blocks,        \* the blocks still to run
  pc, result

vars == <<kernel, call, dst, done, c0, c1, held, blocks, pc, result>>

N == Len(call.src)

Init ==
  /\ kernel \in DoubleRowKernels
  /\ call \in Calls
  /\ dst = IF kernel.op = "add" THEN call.dst ELSE [i \in 1 .. N + 2 |-> Junk]
  /\ done = 0
  /\ c0 = 0
  /\ c1 = 0
  /\ held = IF kernel.op = "add" THEN call.dst[1] ELSE 0
  /\ blocks = <<>>
  /\ pc = "enter"
  /\ result = <<0, 0>>

\* An empty span: no access, and no carry.
Empty ==
  /\ pc = "enter"
  /\ N = 0
  /\ pc' = "returned"
  /\ UNCHANGED <<kernel, call, dst, done, c0, c1, held, blocks, result>>

\* One limb of src through both rows, after i columns.  The second row adds to
\* the old limb of the destination, or starts a fresh one.
Step(acc, i) ==
  LET s == call.src[i + 1]
      current == IF kernel.waits = "register" THEN acc.held
                 ELSE IF kernel.op = "into" /\ i = 0 THEN 0 ELSE acc.dst[i + 1]
      first == Sum3(kernel.column, s * call.s0, acc.c0, current)
      old == IF kernel.op = "add" THEN acc.dst[i + 2] ELSE 0
      second == Sum3(kernel.column, s * call.s1, acc.c1, old)
      finished == [acc.dst EXCEPT ![i + 1] = first.limb]
  IN [dst |-> IF kernel.waits = "memory" THEN [finished EXCEPT ![i + 2] = second.limb] ELSE finished,
      held |-> second.limb, c0 |-> first.carry, c1 |-> second.carry]

Walk(count) ==
  LET walk[n \in 0 .. count] ==
        IF n = 0 THEN [dst |-> dst, held |-> held, c0 |-> c0, c1 |-> c1]
        ELSE Step(walk[n - 1], done + n - 1)
      run == walk[count]
  IN /\ dst' = run.dst
     /\ held' = run.held
     /\ c0' = run.c0
     /\ c1' = run.c1
     /\ done' = done + count

\* The first limb, apart from the loops or as their first round.
Enter ==
  /\ pc = "enter"
  /\ N > 0
  /\ pc' = "loop"
  /\ blocks' = Schedule(kernel.phases, TRUE, IF kernel.apart THEN N - 1 ELSE N)
  /\ Walk(IF kernel.apart THEN 1 ELSE 0)
  /\ UNCHANGED <<kernel, call, result>>

Block ==
  /\ pc = "loop"
  /\ blocks # <<>>
  /\ Walk(Head(blocks))
  /\ blocks' = Tail(blocks)
  /\ UNCHANGED <<kernel, call, pc, result>>

\* A held limb is stored; an addition returns its carries.
Store ==
  /\ pc = "loop"
  /\ blocks = <<>>
  /\ kernel.op = "add"
  /\ pc' = "returned"
  /\ dst' = IF kernel.waits = "register" THEN [dst EXCEPT ![N + 1] = held] ELSE dst
  /\ result' = <<c0, c1>>
  /\ UNCHANGED <<kernel, call, done, c0, c1, held, blocks>>

\* The first carry joins the waiting limb and the second takes the overflow.
Flush ==
  /\ pc = "loop"
  /\ blocks = <<>>
  /\ kernel.op = "into"
  /\ pc' = "returned"
  /\ LET sum == (IF kernel.waits = "register" THEN held ELSE dst[N + 1]) + c0
     IN dst' = [dst EXCEPT ![N + 1] = Low(sum), ![N + 2] = (c1 + High(sum)) % Base]
  /\ UNCHANGED <<kernel, call, done, c0, c1, held, blocks, result>>

Next == Empty \/ Enter \/ Block \/ Store \/ Flush
Spec == Init /\ [][Next]_vars

-----------------------------------------------------------------------------
(* Properties.                                                             *)

Scalars == call.s0 + call.s1 * Base
Prefix(x, n) == Value(SubSeq(x, 1, n))

\* Between two blocks of any kernel, the finished limbs, the limb that waits
\* and the two carries are together the old limbs and the products so far, and
\* the next block lies within the source.
RowsInFlight ==
  pc = "loop" =>
    LET waiting == IF kernel.waits = "register" \/ done = 0 THEN held ELSE dst[done + 1]
        old == IF kernel.op = "add" THEN Prefix(call.dst, done + 1) ELSE 0
    IN /\ Prefix(dst, done) + (waiting + c0 + c1 * Base) * Power(Base, done)
            = old + Scalars * Prefix(call.src, done)
       /\ blocks # <<>> => done + Head(blocks) <= N

\* What is stored and returned is the sum with the double row, or the double row
\* alone, and nothing uninitialized is left in it.
RowsComplete ==
  pc = "returned" /\ N > 0 =>
    /\ \A i \in 1 .. Len(dst) : dst[i] \in Limb
    /\ kernel.op = "add" =>
         Value(dst) + (result[1] + result[2] * Base) * Power(Base, N)
           = Value(call.dst) + Scalars * Value(call.src)
    /\ kernel.op = "into" => Value(dst) = Scalars * Value(call.src)
=============================================================================

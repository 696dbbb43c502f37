----------------------------- MODULE CarryChains -----------------------------
(***************************************************************************)
(* math/arch: the assembly kernels of addition, subtraction and carry       *)
(* propagation, one per processor.  Each is a straight chain for a few      *)
(* lengths and otherwise loops over blocks of limbs and a tail; between two *)
(* limbs the carry lives in a flag of the processor or in a register, and   *)
(* the instructions that count the rounds may spoil it.                     *)
(*                                                                         *)
(* A processor runs one kernel at a time: a step is a block.  Registers and *)
(* addresses are left out.                                                  *)
(***************************************************************************)
EXTENDS Limbs, LoopShapes

CONSTANTS
  Inputs,        \* pairs of limb sequences of one length
  Junk           \* what a disjoint destination held

InputsAssumption ==
  \A input \in Inputs :
    input[1] \in Seq(Limb) /\ input[2] \in Seq(Limb) /\ Len(input[1]) = Len(input[2])

-----------------------------------------------------------------------------
(* Where the chain lives: a flag that is the carry or the borrow, a flag    *)
(* that is set when there is no borrow, or a register and comparisons.      *)
(* Counting spoils a flag that is saved around it.                          *)

Flag == [kept |-> "flag", saved |-> FALSE]
SavedFlag == [kept |-> "flag", saved |-> TRUE]
NoBorrowFlag == [kept |-> "no borrow", saved |-> FALSE]
SavedNoBorrowFlag == [kept |-> "no borrow", saved |-> TRUE]
Word == [kept |-> "word", saved |-> FALSE]

\* straight: the lengths done without a loop.  tested: whether the first loop
\* is skipped when it has no round.
Kernel(op, inPlace, straight, tested, phases, chain) ==
  [op |-> op, inPlace |-> inPlace, straight |-> straight, tested |-> tested,
   phases |-> phases, chain |-> chain, unary |-> FALSE, lead |-> FALSE, exits |-> FALSE]

Into(straight, tested, phases, chain) == Kernel("add", FALSE, straight, tested, phases, chain)
Onto(straight, tested, phases, chain) == Kernel("add", TRUE, straight, tested, phases, chain)
Minus(straight, phases, chain) == Kernel("sub", FALSE, straight, TRUE, phases, chain)
MinusOnto(straight, phases, chain) == Kernel("sub", TRUE, straight, TRUE, phases, chain)

\* unary: a carry goes over one span.  lead: the first limb is done apart and ends
\* most calls.  exits: a block that absorbs the carry is the last.
Propagating(op, lead, exits, phases, chain) ==
  [op |-> op, inPlace |-> TRUE, straight |-> {}, tested |-> TRUE,
   phases |-> phases, chain |-> chain, unary |-> TRUE, lead |-> lead, exits |-> exits]

-----------------------------------------------------------------------------
(* add_limbs_3_unchecked: the sum of two spans in a third.                  *)

AddInto_X86 == Into({1}, TRUE, FourThenOne, Flag)
AddInto_X86_64 == Into(1 .. 4, TRUE, Halving, Flag)
AddInto_AArch64 == Into(1 .. 4, TRUE, FourThenOne, Flag)
AddInto_Arm == Into(0 .. 4, FALSE, FourThenOne, SavedFlag)
AddInto_PowerPC == Into(0 .. 4, FALSE, FourThenOne, Flag)
AddInto_PowerPC64 == Into(0 .. 4, FALSE, FourThenOne, Flag)
AddInto_S390x == Into(0 .. 4, FALSE, TwoThenOne, Flag)
AddInto_RiscV32 == Into(0 .. 4, FALSE, FourThenOne, Word)
AddInto_RiscV64 == Into(0 .. 4, FALSE, FourThenOne, Word)
AddInto_LoongArch32 == Into(0 .. 4, FALSE, FourThenOne, Word)
AddInto_LoongArch64 == Into(0 .. 4, FALSE, FourThenOne, Word)
AddInto_Mips == Into(0 .. 4, FALSE, FourThenOne, Word)
AddInto_Mips64 == Into(0 .. 4, FALSE, FourThenOne, Word)

(* add_limbs_unchecked: the sum over the first span. *)

AddOnto_X86 == Onto({1}, TRUE, FourBeforeEight, Flag)
AddOnto_X86_64 == Onto(0 .. 4, TRUE, Halving, Flag)
AddOnto_AArch64 == Onto(1 .. 4, TRUE, FourThenOne, Flag)
AddOnto_Arm == Onto(0 .. 4, FALSE, FourThenOne, SavedFlag)
AddOnto_PowerPC == Onto(0 .. 4, FALSE, FourThenOne, Flag)
AddOnto_PowerPC64 == Onto(0 .. 4, FALSE, FourThenOne, Flag)
AddOnto_S390x == Onto(0 .. 4, FALSE, TwoThenOne, Flag)
AddOnto_RiscV32 == Onto(0 .. 4, FALSE, FourThenOne, Word)
AddOnto_RiscV64 == Onto(0 .. 4, FALSE, FourThenOne, Word)
AddOnto_LoongArch32 == Onto(0 .. 4, FALSE, FourThenOne, Word)
AddOnto_LoongArch64 == Onto(0 .. 4, FALSE, FourThenOne, Word)
AddOnto_Mips == Onto(0 .. 4, FALSE, FourThenOne, Word)
AddOnto_Mips64 == Onto(0 .. 4, FALSE, FourThenOne, Word)

(* sub_limbs_3_unchecked: the difference of two spans in a third. *)

SubInto_X86 == Minus({1}, FourThenOne, Flag)
SubInto_X86_64 == Minus(2 .. 4, Halving, Flag)
SubInto_AArch64 == Minus({}, FourThenOne, NoBorrowFlag)
SubInto_Arm == Minus({}, FourThenOne, SavedNoBorrowFlag)
SubInto_PowerPC == Minus({}, FourThenOne, NoBorrowFlag)
SubInto_PowerPC64 == Minus({}, FourThenOne, NoBorrowFlag)
SubInto_S390x == Minus({}, TwoThenOne, NoBorrowFlag)
SubInto_RiscV32 == Minus({}, FourThenOne, Word)
SubInto_RiscV64 == Minus({}, FourThenOne, Word)
SubInto_LoongArch32 == Minus({}, FourThenOne, Word)
SubInto_LoongArch64 == Minus({}, FourThenOne, Word)
SubInto_Mips == Minus({}, FourThenOne, Word)
SubInto_Mips64 == Minus({}, FourThenOne, Word)

(* sub_limbs_unchecked: the difference over the first span. *)

SubOnto_X86 == MinusOnto({1}, FourBeforeEight, Flag)
SubOnto_X86_64 == MinusOnto(2 .. 4, Halving, Flag)
SubOnto_AArch64 == MinusOnto({}, FourThenOne, NoBorrowFlag)
SubOnto_Arm == MinusOnto({}, FourThenOne, SavedNoBorrowFlag)
SubOnto_PowerPC == MinusOnto({}, FourThenOne, NoBorrowFlag)
SubOnto_PowerPC64 == MinusOnto({}, FourThenOne, NoBorrowFlag)
SubOnto_S390x == MinusOnto({}, TwoThenOne, NoBorrowFlag)
SubOnto_RiscV32 == MinusOnto({}, FourThenOne, Word)
SubOnto_RiscV64 == MinusOnto({}, FourThenOne, Word)
SubOnto_LoongArch32 == MinusOnto({}, FourThenOne, Word)
SubOnto_LoongArch64 == MinusOnto({}, FourThenOne, Word)
SubOnto_Mips == MinusOnto({}, FourThenOne, Word)
SubOnto_Mips64 == MinusOnto({}, FourThenOne, Word)

(* propagate_carry_unchecked, propagate_borrow_unchecked. *)

CarryOver_X86_64 == Propagating("add", TRUE, TRUE, OneByOne, Flag)
CarryOver_AArch64 == Propagating("add", TRUE, TRUE, FourThenOne, Flag)
CarryOver_S390x == Propagating("add", FALSE, FALSE, TwoThenOne, Flag)
BorrowOver_X86_64 == Propagating("sub", TRUE, TRUE, OneByOne, Flag)
BorrowOver_AArch64 == Propagating("sub", TRUE, TRUE, FourThenOne, NoBorrowFlag)
BorrowOver_S390x == Propagating("sub", FALSE, FALSE, TwoThenOne, NoBorrowFlag)

Binary ==
  {AddInto_X86, AddInto_X86_64, AddInto_AArch64, AddInto_Arm, AddInto_PowerPC,
   AddInto_PowerPC64, AddInto_S390x, AddInto_RiscV32, AddInto_RiscV64, AddInto_LoongArch32,
   AddInto_LoongArch64, AddInto_Mips, AddInto_Mips64,
   AddOnto_X86, AddOnto_X86_64, AddOnto_AArch64, AddOnto_Arm, AddOnto_PowerPC,
   AddOnto_PowerPC64, AddOnto_S390x, AddOnto_RiscV32, AddOnto_RiscV64, AddOnto_LoongArch32,
   AddOnto_LoongArch64, AddOnto_Mips, AddOnto_Mips64,
   SubInto_X86, SubInto_X86_64, SubInto_AArch64, SubInto_Arm, SubInto_PowerPC,
   SubInto_PowerPC64, SubInto_S390x, SubInto_RiscV32, SubInto_RiscV64, SubInto_LoongArch32,
   SubInto_LoongArch64, SubInto_Mips, SubInto_Mips64,
   SubOnto_X86, SubOnto_X86_64, SubOnto_AArch64, SubOnto_Arm, SubOnto_PowerPC,
   SubOnto_PowerPC64, SubOnto_S390x, SubOnto_RiscV32, SubOnto_RiscV64, SubOnto_LoongArch32,
   SubOnto_LoongArch64, SubOnto_Mips, SubOnto_Mips64}
Unary ==
  {CarryOver_X86_64, CarryOver_AArch64, CarryOver_S390x,
   BorrowOver_X86_64, BorrowOver_AArch64, BorrowOver_S390x}
-----------------------------------------------------------------------------
(* One column on each way of keeping the chain: the limb and the chain out. *)

ColumnStep(k, a, b, c) ==
  LET Bit(p) == IF p THEN 1 ELSE 0
      sum == (a + b) % Base
      difference == (a - b) % Base
      total == a + (IF k.op = "add" THEN b ELSE Complement(b)) + c
  IN CASE k.chain.kept = "word" /\ k.op = "add" ->
            LET limb == (sum + c) % Base IN [limb |-> limb, chain |-> Bit(sum < a \/ limb < c)]
       [] k.chain.kept = "word" /\ k.op = "sub" ->
            [limb |-> (difference - c) % Base, chain |-> Bit(a < b \/ difference < c)]
       [] k.chain.kept = "flag" /\ k.op = "sub" ->
            [limb |-> (a - b - c) % Base, chain |-> Bit(a < b + c)]
       [] OTHER -> [limb |-> total % Base, chain |-> total \div Base]

\* The chain for a carry, and the carry for a chain.
Seed(k, carry) == IF k.chain.kept = "no borrow" THEN 1 - carry ELSE carry
Extract(k, chain) == Seed(k, chain)

-----------------------------------------------------------------------------

VARIABLES
  kernel, x, y,  \* the call: y is empty for a propagation
  carryIn,       \* 0 unless the kernel propagates
  dst,           \* the destination
  done,          \* how many limbs of it are written
  chain,         \* the flag or the register
  saved,         \* the carry put aside while counting
  blocks,        \* those still to run
  pc, result

vars == <<kernel, x, y, carryIn, dst, done, chain, saved, blocks, pc, result>>
call == <<kernel, x, y, carryIn>>

Init ==
  /\ \/ /\ kernel \in Binary
        /\ \E input \in Inputs : x = input[1] /\ y = input[2]
        /\ carryIn = 0
     \/ /\ kernel \in Unary
        /\ x \in {input[1] : input \in Inputs}
        /\ y = <<>>
        /\ carryIn \in {0, 1}
  /\ dst = IF kernel.inPlace THEN x ELSE [i \in 1 .. Len(x) |-> Junk]
  /\ done = 0
  /\ chain = Seed(kernel, carryIn)
  /\ saved = carryIn
  /\ blocks = <<>>
  /\ pc = "enter"
  /\ result = 0

Left(i) == IF kernel.inPlace THEN dst[i] ELSE x[i]

\* The columns after the first `done`, count of them, from chain c.
Columns(count, c) ==
  LET run[n \in 0 .. count] ==
        IF n = 0 THEN [limbs |-> dst, chain |-> c]
        ELSE LET before == run[n - 1]
                 i == done + n
                 step == ColumnStep(kernel, Left(i), Column(y, i), before.chain)
             IN  [limbs |-> [before.limbs EXCEPT ![i] = step.limb], chain |-> step.chain]
  IN  run[count]

Answer(carry) == pc' = "returned" /\ result' = carry

\* The lengths that need no loop.
Straight ==
  /\ pc = "enter"
  /\ Len(x) \in kernel.straight
  /\ LET run == Columns(Len(x), Seed(kernel, 0))
     IN /\ dst' = run.limbs
        /\ done' = Len(x)
        /\ Answer(Extract(kernel, run.chain))
  /\ UNCHANGED <<call, chain, saved, blocks>>

\* Nothing to propagate, or nothing to propagate into.
NothingToDo ==
  /\ pc = "enter"
  /\ kernel.unary
  /\ Len(x) = 0 \/ (~kernel.lead /\ carryIn = 0)
  /\ Answer(carryIn)
  /\ UNCHANGED <<call, dst, done, chain, saved, blocks>>

Enter(len) ==
  /\ pc' = "loop"
  /\ blocks' = Schedule(kernel.phases, kernel.tested, len)

\* The first limb of a propagation, outside the assembly.
Lead ==
  /\ pc = "enter"
  /\ kernel.lead
  /\ Len(x) > 0
  /\ LET total == IF kernel.op = "add" THEN x[1] + carryIn ELSE x[1] - carryIn
         overflow == total \notin Limb
     IN /\ dst' = [dst EXCEPT ![1] = total % Base]
        /\ done' = 1
        /\ chain' = Seed(kernel, 1)
        /\ IF ~overflow \/ Len(x) = 1
           THEN Answer(IF overflow THEN 1 ELSE 0) /\ UNCHANGED blocks
           ELSE Enter(Len(x) - 1) /\ UNCHANGED result
  /\ UNCHANGED <<call, saved>>

Start ==
  /\ pc = "enter"
  /\ Len(x) \notin kernel.straight
  /\ ~kernel.lead
  /\ kernel.unary => Len(x) > 0 /\ carryIn = 1
  /\ Enter(Len(x))
  /\ UNCHANGED <<call, dst, done, chain, saved, result>>

\* The chain a block takes up and how it leaves it: put aside where the count
\* would spoil it (subs leaves C set).
Resumed_CountSpoilsFlag == chain

Resumed == IF kernel.chain.saved THEN Seed(kernel, saved) ELSE chain

Block ==
  /\ pc = "loop"
  /\ blocks # <<>>
  /\ LET count == Head(blocks)
         run == Columns(count, Resumed)
         carry == Extract(kernel, run.chain)
     IN /\ dst' = run.limbs
        /\ done' = done + count
        /\ chain' = IF kernel.chain.saved THEN 1 ELSE run.chain
        /\ saved' = IF kernel.chain.saved THEN carry ELSE saved
        /\ blocks' = Tail(blocks)
        /\ IF kernel.exits /\ carry = 0 THEN Answer(0) ELSE UNCHANGED <<pc, result>>
  /\ UNCHANGED call

Return ==
  /\ pc = "loop"
  /\ blocks = <<>>
  /\ Answer(IF kernel.chain.saved THEN saved ELSE Extract(kernel, chain))
  /\ UNCHANGED <<call, dst, done, chain, saved, blocks>>

Next == Straight \/ NothingToDo \/ Lead \/ Start \/ Block \/ Return
Spec == Init /\ [][Next]_vars

-----------------------------------------------------------------------------
(* Properties.                                                             *)

Addend == IF kernel.unary THEN <<carryIn>> ELSE y

Limb_(i) == IF kernel.op = "add" THEN SumLimb(x, Addend, i) ELSE DifferenceLimb(x, Addend, i)

CarryAfter(n) ==
  IF n = 0 THEN carryIn
  ELSE IF kernel.op = "add" THEN CarryOut(x, Addend, n) ELSE BorrowOut(x, Addend, n)

\* Between two blocks of any kernel on any processor, the written limbs are the
\* columns of the sum or the difference, the others are untouched, the live
\* chain is the carry into the next limb, and a block that is about to start
\* lies within the spans.
ChainFollowsColumns ==
  /\ \A i \in 1 .. Len(x) :
       dst[i] = IF i <= done THEN Limb_(i) ELSE IF kernel.inPlace THEN x[i] ELSE Junk
  /\ pc = "loop" =>
       /\ CarryAfter(done) = IF kernel.chain.saved THEN saved ELSE Extract(kernel, chain)
       /\ blocks # <<>> => done + Head(blocks) <= Len(x)

\* Every processor's kernel returns the same limbs and the same carry, those of
\* the portable column recurrence, also when it stops before the end.
ProcessorsAgree ==
  pc = "returned" =>
    /\ \A i \in 1 .. Len(x) : dst[i] = Limb_(i)
    /\ result = CarryAfter(Len(x))

=============================================================================

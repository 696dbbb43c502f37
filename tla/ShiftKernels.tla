----------------------------- MODULE ShiftKernels -----------------------------
(***************************************************************************)
(* math/arch: the kernels that shift a span of limbs by less than a limb,   *)
(* in place, into a disjoint span, or into an overlapping span further up.  *)
(* Each walks up or down the span in blocks.  Every limb needs one          *)
(* neighbour: the one below for a left shift, the one above for a right.    *)
(*                                                                         *)
(* A step is a block: all its loads come before its stores.                 *)
(***************************************************************************)
EXTENDS Integers, LoopShapes

CONSTANTS
  Bits,          \* bits of a limb
  MaxLen,        \* the longest span
  MaxOffset,     \* the furthest an overlapping span is moved
  Patterns       \* functions from positions to limbs: what memory may hold

ShiftAssumption == Bits \in Nat \ {0, 1} /\ MaxLen \in Nat /\ MaxOffset \in Nat

VARIABLES
  call,          \* kernel, len, shift, offset of the destination, memory before
  mem,           \* memory around the span
  moves,         \* the blocks still to do
  done,          \* limbs already visited
  kept,          \* the limb a register holds from the block before
  result         \* the bits shifted out, -1 while the call runs
vars == <<call, mem, moves, done, kept, result>>

Radix == 2 ^ Bits
Lens == 0 .. MaxLen
Offsets(place, len) == CASE place = "in place" -> {0}
                         [] place = "apart" -> {len}
                         [] place = "displaced" -> 0 .. MaxOffset
-----------------------------------------------------------------------------
(* A block and where the neighbours come from: all loaded with it, or one    *)
(* kept by the block before: the limb it visited last, or the limb it        *)
(* loaded ahead, which is then this block's first.  The bare limb has no     *)
(* neighbour in the span.                                                    *)

Move(size, from, bare) == [size |-> size, from |-> from, bare |-> bare]
Blocks(phases, n, from) ==
  LET sizes == Schedule(phases, TRUE, n)
  IN [j \in 1 .. Len(sizes) |-> Move(sizes[j], from, FALSE)]
Bare(from) == <<Move(1, from, TRUE)>>

Kernel(op, walk, place, plan) == [op |-> op, walk |-> walk, place |-> place, plan |-> plan]

\* The bare limb comes last: the neighbours are ahead of the walk.
BareLast(phases, from) == [len \in 1 .. MaxLen |-> Blocks(phases, len - 1, from) \o Bare(from)]
BareFirst(phases) == [len \in 1 .. MaxLen |-> Bare("loads") \o Blocks(phases, len - 1, "loads")]
\* The first limb apart, the bare limb last.
BothApart(phases) ==
  [len \in 1 .. MaxLen |->
    (IF len = 1 THEN <<>> ELSE Blocks(OneByOne, 1, "loads") \o Blocks(phases, len - 2, "loads"))
    \o Bare("loads")]
Carrying == [len \in 1 .. MaxLen |-> Blocks(OneByOne, len, "behind")]
\* Blocks of eight carry a register; if there is none the first limb is bare.
EightsCarrying ==
  [len \in 1 .. MaxLen |->
    IF len < 8 THEN Bare("loads") \o Blocks(OneByOne, len - 1, "loads")
    ELSE Blocks(<<Phase(8, 0)>>, len, "behind") \o Blocks(<<Phase(1, 8)>>, len, "loads")]

FourTwoOne == <<Phase(4, 0), Phase(2, 4), Phase(1, 2)>>

(* lshift_unchecked: in place. *)
Left_Fallback_LoadsBelow == Kernel("left", "up", "in place", BareFirst(OneByOne))
Left_Fallback == Kernel("left", "up", "in place", Carrying)
Left_AArch64 == Kernel("left", "down", "in place", BareLast(OneByOne, "ahead"))
Left_X86_64 == Kernel("left", "down", "in place", BareLast(FourThenOne, "ahead"))
Left_Avx2 == Kernel("left", "down", "in place", BareLast(FourThenOne, "loads"))
Left_Selected ==
  Kernel("left", "down", "in place",
         [n \in 1 .. MaxLen |-> IF n >= 5 THEN Left_Avx2.plan[n] ELSE Left_X86_64.plan[n]])

(* lshift_into_unchecked: into a disjoint span. *)
LeftInto_Fallback == Kernel("left", "up", "apart", Carrying)
LeftInto_AArch64 == Kernel("left", "up", "apart", BareFirst(TwoThenOne))
LeftInto_X86_64 == Kernel("left", "up", "apart", BareFirst(TwoThenOne))
LeftInto_Avx2 == Kernel("left", "up", "apart", BareFirst(FourTwoOne))
LeftInto_Avx512 == Kernel("left", "up", "apart", EightsCarrying)

(* lshift_overlapping_unchecked: further up the same buffer. *)
LeftOver_Fallback == Kernel("left", "down", "displaced", BareLast(OneByOne, "loads"))
LeftOver_X86_64 == Kernel("left", "down", "displaced", BareLast(TwoThenOne, "loads"))
LeftOver_Avx2 == Kernel("left", "down", "displaced", BareLast(FourThenOne, "loads"))
\* Exactly eight limbs left: one block whose lowest limb is bare ends the call.
LeftOver_Avx512 ==
  Kernel("left", "down", "displaced",
         [n \in 1 .. MaxLen |-> IF n % 8 = 0 THEN Blocks(<<Phase(8, 0)>>, n - 1, "loads")
                                      \o <<Move(8, "loads", TRUE)>>
                    ELSE BareLast(EightThenOne, "loads")[n]])
LeftOver_Selected(wide) ==
  Kernel("left", "down", "displaced",
         [n \in 1 .. MaxLen |-> CASE wide /\ n >= 8 -> LeftOver_Avx512.plan[n]
                      [] n >= 5 /\ ~(wide /\ n >= 8) -> LeftOver_Avx2.plan[n]
                      [] n < 5 -> LeftOver_X86_64.plan[n]])

(* rshift_unchecked: in place. *)
Right_Fallback == Kernel("right", "down", "in place", Carrying)
Right_AArch64 == Kernel("right", "up", "in place", BareLast(OneByOne, "ahead"))
Right_X86_64 == Kernel("right", "up", "in place", BareLast(FourThenOne, "ahead"))
Right_Avx2 == Kernel("right", "up", "in place", BareLast(FourThenOne, "loads"))
Right_Selected ==
  Kernel("right", "up", "in place",
         [n \in 1 .. MaxLen |-> IF n >= 5 THEN Right_Avx2.plan[n] ELSE Right_X86_64.plan[n]])

(* rshift_into_unchecked: into a disjoint span. *)
RightInto_Fallback == Kernel("right", "down", "apart", Carrying)
RightInto_AArch64 == Kernel("right", "up", "apart", BothApart(TwoThenOne))
RightInto_X86_64 == Kernel("right", "up", "apart", BothApart(TwoThenOne))
RightInto_Avx2 == Kernel("right", "up", "apart", BothApart(FourTwoOne))
RightInto_Avx512 == Kernel("right", "down", "apart", EightsCarrying)

Kernels ==
  {Left_Fallback, Left_AArch64, Left_X86_64, Left_Avx2, Left_Selected,
   LeftInto_Fallback, LeftInto_AArch64, LeftInto_X86_64, LeftInto_Avx2, LeftInto_Avx512,
   LeftOver_Fallback, LeftOver_X86_64, LeftOver_Avx2, LeftOver_Avx512,
   LeftOver_Selected(TRUE), LeftOver_Selected(FALSE),
   Right_Fallback, Right_AArch64, Right_X86_64, Right_Avx2, Right_Selected,
   RightInto_Fallback, RightInto_AArch64, RightInto_X86_64, RightInto_Avx2, RightInto_Avx512}
-----------------------------------------------------------------------------
(* What two neighbouring limbs give, and what the limb at the end loses.    *)

Merge(op, shift, own, neighbour) ==
  IF op = "left" THEN ((own * 2 ^ shift) % Radix) + neighbour \div 2 ^ (Bits - shift)
  ELSE own \div 2 ^ shift + ((neighbour * 2 ^ (Bits - shift)) % Radix)
Lost(op, shift, limb) ==
  IF op = "left" THEN limb \div 2 ^ (Bits - shift) ELSE (limb * 2 ^ (Bits - shift)) % Radix

NeighbourOf(op, p) == IF op = "left" THEN p - 1 ELSE p + 1

\* The n-th limb of a walk.
Visited(kernel, len, n) == IF kernel.walk = "up" THEN n ELSE len - 1 - n

Places == -1 .. 2 * MaxLen + MaxOffset

Init ==
  /\ \E kernel \in Kernels, len \in Lens, shift \in 1 .. Bits - 1, pattern \in Patterns :
       \E offset \in Offsets(kernel.place, len) :
         /\ mem = [p \in Places |-> pattern[p]]
         /\ call = [kernel |-> kernel, len |-> len, shift |-> shift, offset |-> offset,
                    before |-> mem]
  /\ moves = <<>> /\ done = 0 /\ kept = 0
  /\ result = -1

Idle == moves = <<>> /\ done = 0 /\ result = -1

\* len == 0: memory is not touched.
Nothing ==
  /\ Idle /\ call.len = 0
  /\ result' = 0
  /\ UNCHANGED <<call, mem, moves, done, kept>>

\* The bits shifted out come from a limb that is read before it is written; a
\* walk that loads ahead starts with its first limb in the register.
Enter ==
  /\ Idle /\ call.len > 0
  /\ moves' = call.kernel.plan[call.len]
  /\ kept' = IF moves'[1].from = "ahead" THEN mem[Visited(call.kernel, call.len, 0)] ELSE 0
  /\ UNCHANGED <<call, mem, done, result>>

Own(n) ==
  IF n = done /\ Head(moves).from = "ahead" THEN kept
  ELSE mem[Visited(call.kernel, call.len, n)]

Neighbour(n) ==
  LET move == Head(moves)
      p == Visited(call.kernel, call.len, n)
  IN CASE move.bare /\ n = done + move.size - 1 -> 0
       [] n = done /\ move.from = "behind" /\ ~move.bare -> kept
       [] OTHER -> mem[NeighbourOf(call.kernel.op, p)]

\* The first eight limbs of a walk behind, or the bare one, may have no neighbour
\* yet: the register starts at zero.
Block ==
  /\ moves # <<>>
  /\ LET move == Head(moves)
         last == done + move.size - 1
         Target(n) == Visited(call.kernel, call.len, n) + call.offset
         value == [n \in done .. last |->
                    Merge(call.kernel.op, call.shift, Own(n), Neighbour(n))]
     IN /\ mem' = [p \in Places |->
                    IF \E n \in done .. last : Target(n) = p
                    THEN value[CHOOSE n \in done .. last : Target(n) = p] ELSE mem[p]]
        /\ kept' = CASE move.from = "behind" -> Own(last)
                     [] move.from = "ahead" /\ ~move.bare ->
                          mem[Visited(call.kernel, call.len, last + 1)]
                     [] OTHER -> kept
        /\ done' = last + 1
  /\ moves' = Tail(moves)
  /\ UNCHANGED <<call, result>>

Return ==
  /\ moves = <<>> /\ done > 0 /\ result = -1
  /\ result' = Lost(call.kernel.op, call.shift,
                    call.before[IF call.kernel.op = "left" THEN call.len - 1 ELSE 0])
  /\ UNCHANGED <<call, mem, moves, done, kept>>

Next == Nothing \/ Enter \/ Block \/ Return
Spec == Init /\ [][Next]_vars
-----------------------------------------------------------------------------
(* Bit k of the number in a span that starts at a place. *)
BitOf(memory, start, k) == (memory[start + k \div Bits] \div 2 ^ (k % Bits)) % 2

\* A returned call left in its destination the number of the source shifted as a
\* whole, returned the bits that fell out, and wrote nothing else: whichever way
\* the walk goes, no limb was read after a store of an earlier block spoiled it.
ShiftIsExact ==
  (result # -1 /\ call.len > 0) =>
    LET width == Bits * call.len
        left == call.kernel.op = "left"
        Old(k) == BitOf(call.before, 0, k)
        Shifted(k) ==
          IF left THEN IF k < call.shift THEN 0 ELSE Old(k - call.shift)
          ELSE IF k + call.shift < width THEN Old(k + call.shift) ELSE 0
        Out(k) == (result \div 2 ^ k) % 2
    IN /\ \A k \in 0 .. width - 1 : BitOf(mem, call.offset, k) = Shifted(k)
       /\ \A k \in 0 .. Bits - 1 :
            Out(k) = IF left THEN IF k < call.shift THEN Old(width - call.shift + k) ELSE 0
                     ELSE IF k < Bits - call.shift THEN 0 ELSE Old(k - (Bits - call.shift))
       /\ \A p \in Places \ (call.offset .. call.offset + call.len - 1) :
            mem[p] = call.before[p]
=============================================================================

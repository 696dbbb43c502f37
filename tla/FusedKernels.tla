----------------------------- MODULE FusedKernels -----------------------------
(***************************************************************************)
(* math/arch: the kernels that do two additions or subtractions in one pass *)
(* over their spans, with both chains live at once, and the one that        *)
(* subtracts a span shifted across its limbs.  Spans may be the same.       *)
(*                                                                         *)
(* A step is a block.                                                       *)
(***************************************************************************)
EXTENDS Limbs, LoopShapes

CONSTANTS
  Bits,          \* bits of a limb
  Inputs         \* pairs of limb sequences of one length

BitsAssumption == Bits \in Nat \ {0, 1} /\ Base = Power(2, Bits)
InputsAssumption ==
  \A input \in Inputs : input[1] \in Seq(Limb) /\ input[2] \in Seq(Limb) /\ Len(input[2]) = Len(input[1])
-----------------------------------------------------------------------------
(* A chain replaces one span by a sum or difference of two.  A subtraction  *)
(* keeps its borrow, or in a flag that is set when there is none.  Lanes:   *)
(* a block is added without carries first, and corrected.                   *)

Chain(into, op, left, right) == [into |-> into, op |-> op, left |-> left, right |-> right]

Sum(into, from) == Chain(into, "add", into, from)

Kernel(chains, phases, noBorrow, lanes, shifted) ==
  [chains |-> chains, phases |-> phases, noBorrow |-> noBorrow, lanes |-> lanes,
   shifted |-> shifted]

\* Spans a and x meet in both chains; `difference` may be the span `source`.
AddSubFrom(phases, noBorrow, lanes) ==
  Kernel(<<Sum("sum", "source"), Chain("difference", "sub", "sum", "source")>>,
         phases, noBorrow, lanes, FALSE)
AddSub(phases, noBorrow) ==
  Kernel(<<Sum("sum", "difference"), Chain("difference", "sub", "sum", "difference")>>,
         phases, noBorrow, FALSE, FALSE)
AddReverseSub(phases, noBorrow) ==
  Kernel(<<Sum("sum", "difference"), Chain("difference", "sub", "difference", "sum")>>,
         phases, noBorrow, FALSE, FALSE)
AddTwo(phases) ==
  Kernel(<<Sum("dst_a", "src_a"), Sum("dst_b", "src_b")>>, phases, FALSE, FALSE, FALSE)

\* The top limb of the span is done after the others.
SubShifted(phases, noBorrow) ==
  Kernel(<<Chain("dst", "sub", "dst", "src")>>, phases, noBorrow, FALSE, TRUE)

(* add_sub_from_limbs_unchecked *)
AddSubFrom_Fallback == AddSubFrom(OneByOne, FALSE, FALSE)
AddSubFrom_Adx == AddSubFrom(EightThenOne, TRUE, FALSE)
AddSubFrom_Avx2 == AddSubFrom(FourThenOne, FALSE, TRUE)

(* add_sub_limbs_unchecked, add_reverse_sub_limbs_unchecked *)
AddSub_Fallback == AddSub(OneByOne, FALSE)
AddSub_Adx == AddSub(FourThenOne, TRUE)
AddReverseSub_Fallback == AddReverseSub(OneByOne, FALSE)
AddReverseSub_Adx == AddReverseSub(FourThenOne, TRUE)

(* add_two_limbs_unchecked *)
AddTwo_Fallback == AddTwo(OneByOne)
AddTwo_Adx == AddTwo(FourThenOne)

(* sub_shifted_high_limbs_unchecked *)
SubShifted_Fallback == SubShifted(OneByOne, FALSE)
SubShifted_AArch64 == SubShifted(TwoThenOne, TRUE)
SubShifted_PowerPC == SubShifted(OneByOne, TRUE)
SubShifted_PowerPC64 == SubShifted(OneByOne, TRUE)
SubShifted_S390x == SubShifted(OneByOne, TRUE)
SubShifted_Bmi2 == SubShifted(TwoThenOne, FALSE)

Double ==
  {AddSubFrom_Fallback, AddSubFrom_Adx, AddSubFrom_Avx2, AddSub_Fallback, AddSub_Adx,
   AddReverseSub_Fallback, AddReverseSub_Adx, AddTwo_Fallback, AddTwo_Adx}
Shifted ==
  {SubShifted_Fallback, SubShifted_AArch64, SubShifted_PowerPC, SubShifted_PowerPC64,
   SubShifted_S390x, SubShifted_Bmi2}

\* Which memory each span names: one for each, unless a span is given twice.
Apart(kernel) ==
  LET names == UNION {{c.into, c.left, c.right} : c \in Range(kernel.chains)}
  IN [name \in names |-> name]
Layouts(kernel) ==
  LET apart == Apart(kernel)
  IN {apart}
       \union (IF {"difference", "source"} \subseteq DOMAIN apart
               THEN {[apart EXCEPT !["difference"] = "source"]} ELSE {})
       \union (IF "src_a" \in DOMAIN apart
               THEN {[apart EXCEPT !["src_a"] = "src_b"],
                     [apart EXCEPT !["src_a"] = "dst_a", !["src_b"] = "dst_b"]} ELSE {})
-----------------------------------------------------------------------------
VARIABLES
  call,          \* kernel, layout, shift, borrow and the memory at the start
  mem,           \* the spans
  done,          \* limbs done
  flags,         \* the chains
  prev,          \* the source limb a register holds from the block before
  blocks,        \* those still to run
  pc, result
vars == <<call, mem, done, flags, prev, blocks, pc, result>>

kernel == call.kernel
Chains == 1 .. Len(kernel.chains)
Length == Len(call.before[CHOOSE name \in DOMAIN call.before : TRUE])
Span(memory, name) == memory[call.layout[name]]

Seed(k, c, carry) == IF k.noBorrow /\ k.chains[c].op = "sub" THEN 1 - carry ELSE carry
Extract(c, flag) == Seed(kernel, c, flag)

\* The first two spans hold the input, the other two its halves exchanged.
Filled(layout, input) ==
  [name \in Range(layout) |->
    IF name \in {"sum", "dst", "dst_a", "src_b"} THEN input[1] ELSE input[2]]

Init ==
  /\ \E k \in Double \union Shifted, input \in Inputs, shift \in 1 .. Bits - 1, borrow \in {0, 1} :
       \E layout \in Layouts(k) :
         /\ k \in Double => shift = 1 /\ borrow = 0
         /\ mem = Filled(layout, input)
         /\ call = [kernel |-> k, layout |-> layout, shift |-> shift, borrow |-> borrow,
                    before |-> mem]
         /\ flags = [c \in 1 .. Len(k.chains) |-> Seed(k, c, borrow)]
  /\ done = 0 /\ prev = 0 /\ blocks = <<>> /\ pc = "enter" /\ result = <<>>

\* len == 0
Nothing ==
  /\ pc = "enter" /\ Length = 0
  /\ result' = [c \in Chains |-> call.borrow]
  /\ pc' = "returned"
  /\ UNCHANGED <<call, mem, done, flags, prev, blocks>>

Enter ==
  /\ pc = "enter" /\ Length > 0
  /\ blocks' = IF kernel.shifted THEN Append(Schedule(kernel.phases, TRUE, Length - 1), 1)
               ELSE Schedule(kernel.phases, TRUE, Length)
  /\ prev' = IF kernel.shifted THEN Span(mem, "src")[1] ELSE prev
  /\ pc' = "loop"
  /\ UNCHANGED <<call, mem, done, flags, result>>

\* The right operand of a chain in column i.  Across limbs: the high bits of the
\* limb, from the register at the start of a block, and the low bits of the next,
\* which is zero above the span.
Right(c, i) ==
  LET limbs == Span(mem, kernel.chains[c].right)
      low == IF i = done + 1 THEN prev ELSE limbs[i]
  IN IF kernel.shifted
     THEN low \div Power(2, Bits - call.shift)
            + ((Column(limbs, i + 1) * Power(2, call.shift)) % Base)
     ELSE limbs[i]
Left(c, i) == Span(mem, kernel.chains[c].left)[i]

\* One column with a flag: the limb and the flag out.
ColumnStep(c, i, flag) ==
  LET chain == kernel.chains[c]
      total == CASE chain.op = "add" -> Left(c, i) + Right(c, i) + flag
                 [] chain.op = "sub" /\ kernel.noBorrow ->
                      Left(c, i) + Complement(Right(c, i)) + flag
                 [] OTHER -> Left(c, i) - Right(c, i) - flag
  IN [limb |-> total % Base, flag |-> IF total \in Limb THEN 0 ELSE 1]

\* What n columns leave, from the flag in.
InTurn(c, n) ==
  LET After(run, i) == LET step == ColumnStep(c, i, run.flag)
                       IN [limbs |-> Append(run.limbs, step.limb), flag |-> step.flag]
      turn[j \in 0 .. n] ==
        IF j = 0 THEN [limbs |-> <<>>, flag |-> flags[c]] ELSE After(turn[j - 1], done + j)
  IN turn[n]

\* lane_carries: the carry out of each of four lanes from two doublings of what a
\* lane generates and passes on.  A lane of a sum passes a carry on when it is all
\* ones, one of a difference when it is zero.
LaneOutputs(generate, propagate, incoming) ==
  LET Below(set, lane, distance, edge) == IF lane <= distance THEN edge ELSE set[lane - distance]
      generate1 == [i \in 1 .. 4 |-> generate[i] \/ (propagate[i] /\ Below(generate, i, 1, FALSE))]
      propagate1 == [i \in 1 .. 4 |-> propagate[i] /\ Below(propagate, i, 1, TRUE)]
      generate2 == [i \in 1 .. 4 |->
                     generate1[i] \/ (propagate1[i] /\ Below(generate1, i, 2, FALSE))]
      propagate2 == [i \in 1 .. 4 |-> propagate1[i] /\ Below(propagate1, i, 2, TRUE)]
  IN [i \in 1 .. 4 |-> generate2[i] \/ (propagate2[i] /\ incoming)]

InLanes(c) ==
  LET add == kernel.chains[c].op = "add"
      raw == [i \in 1 .. 4 |-> (IF add THEN Left(c, done + i) + Right(c, done + i)
                                ELSE Left(c, done + i) - Right(c, done + i)) % Base]
      outputs == LaneOutputs(
        [i \in 1 .. 4 |-> IF add THEN raw[i] < Left(c, done + i)
                          ELSE Left(c, done + i) < Right(c, done + i)],
        [i \in 1 .. 4 |-> raw[i] = IF add THEN LimbMax ELSE 0], flags[c] = 1)
      Input(i) == IF i = 1 THEN flags[c] ELSE IF outputs[i - 1] THEN 1 ELSE 0
  IN [limbs |-> [i \in 1 .. 4 |-> (IF add THEN raw[i] + Input(i) ELSE raw[i] - Input(i)) % Base],
      flag |-> IF outputs[4] THEN 1 ELSE 0]

Block ==
  /\ pc = "loop" /\ blocks # <<>>
  /\ LET count == Head(blocks)
         run == [c \in Chains |-> IF kernel.lanes /\ count = 4 THEN InLanes(c) ELSE InTurn(c, count)]
         Written(c, limbs) == [i \in 1 .. Len(limbs) |->
           IF i \in done + 1 .. done + count THEN run[c].limbs[i - done] ELSE limbs[i]]
         Into(name) == {c \in Chains : call.layout[kernel.chains[c].into] = name}
     IN /\ mem' = [name \in DOMAIN mem |->
                    IF Into(name) = {} THEN mem[name]
                    ELSE Written(CHOOSE c \in Into(name) : TRUE, mem[name])]
        /\ flags' = [c \in Chains |-> run[c].flag]
        /\ done' = done + count
        /\ prev' = IF kernel.shifted THEN Column(Span(mem, "src"), done + count + 1) ELSE prev
        /\ blocks' = Tail(blocks)
  /\ UNCHANGED <<call, pc, result>>

Return_ReadsTheFlag ==
  /\ pc = "loop" /\ blocks = <<>>
  /\ result' = flags
  /\ pc' = "returned"
  /\ UNCHANGED <<call, mem, done, flags, prev, blocks>>

Return ==
  /\ pc = "loop" /\ blocks = <<>>
  /\ result' = [c \in Chains |-> Extract(c, flags[c])]
  /\ pc' = "returned"
  /\ UNCHANGED <<call, mem, done, flags, prev, blocks>>

Next == Nothing \/ Enter \/ Block \/ Return
Spec == Init /\ [][Next]_vars
-----------------------------------------------------------------------------
\* A returned call has replaced each target by the sum or difference of what its
\* operands were when it began, also where the other chain overwrote an operand or
\* two spans are one, returned each carry and borrow, and written nothing else.
FusedIsExact ==
  pc = "returned" =>
    LET Before(name) == Value(Span(call.before, name))
        Operand(c) == IF kernel.shifted THEN Before("src") \div Power(2, Bits - call.shift)
                      ELSE Before(kernel.chains[c].right)
        targets == {call.layout[kernel.chains[c].into] : c \in Chains}
    IN /\ \A c \in Chains :
            LET chain == kernel.chains[c]
                after == Value(Span(mem, chain.into))
                out == result[c] * Power(Base, Length)
            IN IF chain.op = "add"
               THEN after + out = Before(chain.left) + Operand(c)
               ELSE after - out = Before(chain.left) - Operand(c) - call.borrow
       /\ \A name \in DOMAIN mem \ targets : mem[name] = call.before[name]
=============================================================================

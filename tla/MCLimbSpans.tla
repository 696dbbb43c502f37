---------------------------- MODULE MCLimbSpans ----------------------------
(***************************************************************************)
(* One call of any kernel over spans of limbs: the portable carry kernels    *)
(* and every family of assembly kernels, each from short spans of every      *)
(* pattern of extreme limbs and longer ones whose carries cross the ends of  *)
(* the unrolled blocks.                                                      *)
(***************************************************************************)
EXTENDS LimbKernels

CONSTANTS
  MaxChainLimbs, MaxRowLimbs, MaxDoubleLimbs, MaxShiftLimbs,   \* the longest spans
  MaxShiftOffset,
  LimbBits,      \* bits of a limb of the fused kernels
  ChainInputs,   \* the operands of the carry chains
  RowInputs,     \* the calls of the product rows
  DoubleInputs,  \* the calls of the double rows
  FusedInputs    \* the spans of the fused kernels

VARIABLES
  family,      \* whose call it is; the variables of the others are None
  kernel, row, call, mem, carryIn, done, chain, saved, st, c0, c1, held, moves, kept, flags, prev,
  blocks, result

None == "none"
allVars ==
  <<vars, family, kernel, row, call, mem, carryIn, done, chain, saved, st, c0, c1, held, moves, kept,
    flags, prev, blocks, result>>

-----------------------------------------------------------------------------
(* Inputs. *)

Split(columns) ==
  << [c \in 1 .. Len(columns) |-> columns[c][1]], [c \in 1 .. Len(columns) |-> columns[c][2]] >>

\* quiet below `from`, which starts the carry; passing up to `upto`; quiet above.
Passing(n, from, upto, start, pass, quiet) ==
  [c \in 1 .. n |-> IF c = from THEN start ELSE IF c \in from .. upto THEN pass ELSE quiet]

PortableInputs == BoundedSeq(Limb, 3)

\* For a sum and for a difference: a column that absorbs, passes on or starts
\* a carry, with and without limbs that differ.
PatternedChains ==
  {Split(c) : c \in BoundedSeq({<<0, 0>>, <<LimbMax, 0>>, <<0, 1>>, <<LimbMax, LimbMax>>}, 5)}
    \union
  {Split(Passing(n, from, upto, p[1], p[2], p[3])) :
     n \in 6 .. MaxChainLimbs, from \in {1, 2, 5}, upto \in {1, 4, 7, 8, 9, MaxChainLimbs},
     p \in {<< <<LimbMax, 1>>, <<LimbMax, 0>>, <<0, 0>> >>,
            << <<0, LimbMax>>, <<1, 1>>, <<LimbMax, 0>> >>}}

Extremes == {<<0, 0>>, <<LimbMax, LimbMax>>, <<0, LimbMax>>, <<LimbMax, 0>>, <<1, LimbMax>>}

PatternedRows ==
  LET Row(columns, scalar) == [dst |-> Split(columns)[1], src |-> Split(columns)[2], scalar |-> scalar]
  IN {Row(c, s) : c \in BoundedSeq(Extremes, 4), s \in 1 .. LimbMax}
       \union
     {Row([c \in 1 .. n |-> IF c = odd THEN p ELSE q], LimbMax) :
        n \in 5 .. MaxRowLimbs, odd \in {1, 4, 8, 9}, p \in Extremes, q \in Extremes}

\* The highest limb of dst lies over no limb of src.
PatternedDoubles ==
  LET Pairs == {<<0, LimbMax>>, <<LimbMax, LimbMax>>, <<LimbMax, 0>>, <<1, 1>>}
      Rows(columns, top, s0, s1) ==
        [dst |-> Append(Split(columns)[1], top), src |-> Split(columns)[2], s0 |-> s0, s1 |-> s1]
  IN {Rows(c, t, s0, s1) :
        c \in BoundedSeq(Pairs, 4), t \in {0, LimbMax}, s0 \in {1, LimbMax}, s1 \in {0, LimbMax}}
       \union
     {Rows([c \in 1 .. n |-> IF c = odd THEN p ELSE q], LimbMax, LimbMax, LimbMax) :
        n \in 5 .. MaxDoubleLimbs, odd \in {1, 4}, p \in Pairs, q \in Pairs}

\* Limbs that differ wherever two could be taken for each other, and memory whose
\* every four-bit limb loses and keeps ones.
ShiftPatterns ==
  {[p \in -1 .. 2 * MaxShiftLimbs + MaxShiftOffset |-> (5 * (p + 1) + 3) % 16],
   [p \in -1 .. 2 * MaxShiftLimbs + MaxShiftOffset |-> 15]}

\* Every pattern of columns that start, pass on or absorb a carry or a borrow in
\* short spans; in longer ones runs across the ends of the blocks.
FusedPatterns ==
  {Split(c) : c \in BoundedSeq({<<0, 0>>, <<LimbMax, 0>>, <<0, 1>>, <<LimbMax, LimbMax>>, <<2, 1>>}, 4)}
    \union
  {Split(Passing(n, from, upto, p[1], p[2], p[3])) :
     n \in 5 .. 11, from \in {1, 4, 5}, upto \in {3, 4, 8, 9, 11},
     p \in {<< <<LimbMax, 1>>, <<LimbMax, 0>>, <<0, 1>> >>, << <<0, LimbMax>>, <<1, 1>>, <<LimbMax, 0>> >>,
            << <<1, 0>>, <<0, LimbMax>>, <<2, 1>> >>}}

-----------------------------------------------------------------------------

Chains == INSTANCE CarryChains WITH Inputs <- ChainInputs
Rows == INSTANCE ProductRows WITH Calls <- RowInputs
DoubledRows == INSTANCE DoubleRows WITH Calls <- DoubleInputs
Shifts == INSTANCE ShiftKernels
  WITH Bits <- 4, MaxLen <- MaxShiftLimbs, MaxOffset <- MaxShiftOffset, Patterns <- ShiftPatterns

Fused == INSTANCE FusedKernels WITH Bits <- LimbBits, Inputs <- FusedInputs

ASSUME SpanAssumptions ==
  /\ Chains!InputsAssumption
  /\ Rows!CallsAssumption
  /\ DoubledRows!CallsAssumption
  /\ Shifts!ShiftAssumption
  /\ Fused!BitsAssumption /\ Fused!InputsAssumption

NoPortable == op = None /\ inPlace = None /\ i = None /\ carry = None
NoChain == carryIn = None /\ chain = None /\ saved = None
NoRow == row = None /\ st = None
NoDouble == c0 = None /\ c1 = None /\ held = None
NoShift == moves = None /\ kept = None
NoFused == flags = None /\ prev = None

CallInit ==
  \/ /\ family = "portable" /\ Init
     /\ NoChain /\ NoRow /\ NoDouble /\ NoShift /\ NoFused
     /\ kernel = None /\ call = None /\ mem = None /\ done = None /\ blocks = None /\ result = None
  \/ /\ family = "chains" /\ Chains!Init
     /\ NoPortable /\ NoRow /\ NoDouble /\ NoShift /\ NoFused
     /\ call = None /\ mem = None
  \/ /\ family = "rows" /\ Rows!Init
     /\ NoPortable /\ NoChain /\ NoDouble /\ NoShift /\ NoFused
     /\ x = None /\ y = None /\ kernel = None /\ mem = None
  \/ /\ family = "double rows" /\ DoubledRows!Init
     /\ NoPortable /\ NoChain /\ NoRow /\ NoShift /\ NoFused
     /\ x = None /\ y = None /\ mem = None
  \/ /\ family = "shifts" /\ Shifts!Init
     /\ NoPortable /\ NoChain /\ NoRow /\ NoDouble /\ NoFused
     /\ x = None /\ y = None /\ dst = None /\ pc = None /\ kernel = None /\ blocks = None
  \/ /\ family = "fused" /\ Fused!Init
     /\ NoPortable /\ NoChain /\ NoRow /\ NoDouble /\ NoShift
     /\ x = None /\ y = None /\ dst = None /\ kernel = None

CallNext ==
  \/ /\ family = "portable" /\ Next
     /\ UNCHANGED <<kernel, row, call, mem, carryIn, done, chain, saved, st, c0, c1, held, moves, kept,
                    flags, prev, blocks, result>>
  \/ /\ family = "chains" /\ Chains!Next
     /\ UNCHANGED <<op, inPlace, i, carry, row, call, mem, st, c0, c1, held, moves, kept, flags, prev>>
  \/ /\ family = "rows" /\ Rows!Next
     /\ UNCHANGED <<op, inPlace, x, y, i, carry, kernel, mem, carryIn, chain, saved, c0, c1, held,
                    moves, kept, flags, prev>>
  \/ /\ family = "double rows" /\ DoubledRows!Next
     /\ UNCHANGED <<op, inPlace, x, y, i, carry, row, mem, carryIn, chain, saved, st, moves, kept,
                    flags, prev>>
  \/ /\ family = "shifts" /\ Shifts!Next
     /\ UNCHANGED <<op, inPlace, x, y, dst, i, carry, pc, kernel, row, carryIn, chain, saved, st, c0, c1, held,
                    flags, prev, blocks>>
  \/ /\ family = "fused" /\ Fused!Next
     /\ UNCHANGED <<op, inPlace, x, y, dst, i, carry, kernel, row, carryIn, chain, saved, st, c0, c1, held,
                    moves, kept>>

CallSpec == CallInit /\ [][CallNext /\ UNCHANGED family]_allVars

-----------------------------------------------------------------------------
(* KernelsYieldColumns, and what the assembly promises.                     *)

\* Every processor's carry chain follows the portable column recurrence block by
\* block, whichever flag or register carries it, and returns the same carry.
ChainsSound == family = "chains" => Chains!ChainFollowsColumns /\ Chains!ProcessorsAgree

\* A row of products added or subtracted loses no carry between its blocks and
\* returns the one limb and the one borrow that complete it.
RowsSound == family = "rows" => Rows!RowIsExact /\ Rows!RowReturns

\* The same of two rows run side by side, one column apart.
DoubleRowsSound == family = "double rows" => DoubledRows!RowsInFlight /\ DoubledRows!RowsComplete

\* A shift in place or between overlapping spans reads no limb it has written.
ShiftsSound == family = "shifts" => Shifts!ShiftIsExact

\* A kernel that adds and subtracts, or shifts and subtracts, in one pass is the
\* passes one by one, also when spans are the same.
FusedSound == family = "fused" => Fused!FusedIsExact
=============================================================================

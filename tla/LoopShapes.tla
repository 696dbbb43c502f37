----------------------------- MODULE LoopShapes -----------------------------
(***************************************************************************)
(* How the assembly kernels of math/arch cut a span of limbs: loops over    *)
(* blocks of decreasing size and a tail.  A loop counts its rounds down and *)
(* tests the count after the block; some first loops are entered without a  *)
(* test before it.                                                          *)
(***************************************************************************)
EXTENDS Integers, SequencesExt

\* Rounds of a block of limbs, among the limbs below a multiple of the next
\* larger block; a block of 0 takes all of those at once.
Phase(block, below) == [block |-> block, below |-> below]
Rest(below) == Phase(0, below)

Share(p, len) == IF p.below = 0 THEN len ELSE len % p.below
Size(p, len) == IF p.block = 0 THEN Share(p, len) ELSE p.block
Rounds(p, len) == IF Size(p, len) = 0 THEN 0 ELSE Share(p, len) \div Size(p, len)

\* The blocks a call runs.  A counter that starts at zero in an untested loop
\* wraps: the first of its blocks is already too many.
Schedule(phases, tested, len) ==
  FlattenSeq([n \in 1 .. Len(phases) |->
    LET p == phases[n]
        rounds == IF Rounds(p, len) = 0 /\ n = 1 /\ ~tested THEN 1 ELSE Rounds(p, len)
    IN [r \in 1 .. rounds |-> Size(p, len)]])

OneByOne == <<Phase(1, 0)>>
TwoThenOne == <<Phase(2, 0), Phase(1, 2)>>
FourThenOne == <<Phase(4, 0), Phase(1, 4)>>
EightThenOne == <<Phase(8, 0), Phase(1, 8)>>
FourThenRest == <<Phase(4, 0), Rest(4)>>
FourBeforeEight == <<Phase(4, 8), Phase(8, 0), Phase(1, 4)>>
Halving == <<Phase(8, 0), Phase(4, 8), Phase(2, 4), Phase(1, 2)>>
=============================================================================

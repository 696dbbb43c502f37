---------------------------- MODULE HighProducts ----------------------------
(***************************************************************************)
(* math/mul/high: the product of two operands without its low limbs.  What   *)
(* is left out is bounded, and two guard limbs below the result certify that *)
(* it cannot matter; where they do not, the rest is computed after all.      *)
(* Wide products recurse into blocks: a stack of frames, in one output and   *)
(* one work buffer, both dirty.                                              *)
(***************************************************************************)
EXTENDS SharedEvaluation

CONSTANTS
  Thresholds,  \* those of the multiplication tiers, as a record
  Slack,       \* a bound: work limbs kept past the reservation, to see it exceeded
  Calls        \* records of operands a and b, and the limbs to skip

CallsAssumption ==
  \A c \in Calls : c.a # <<>> /\ c.b # <<>> /\ c.skip < Len(c.a) + Len(c.b)

RECURSIVE_THRESHOLD == Larger(Thresholds.karatsuba, 6)

VARIABLES
  call,
  out, work,   \* the output and the work buffer
  reserved,    \* the limbs of work the root reserves
  stack,       \* frames, the running one first
  returned,    \* the frame that returned last, and where its result starts
  result,      \* the limbs given back, once there are any
  pc, sound

vars == <<call, out, work, reserved, stack, returned, result, pc, sound>>

Total(c) == Len(c.a) + Len(c.b)
Least(c) == Smaller(Len(c.a), Len(c.b))
Most(c) == Larger(Len(c.a), Len(c.b))

Init ==
  /\ call \in Calls
  /\ out = [i \in 1 .. Total(call) |-> LimbMax]
  /\ work = [i \in 1 .. 2 * Least(call) + Slack |-> LimbMax]
  /\ reserved = 0
  /\ stack = <<>>
  /\ returned = <<>>
  /\ result = <<>>
  /\ pc = "enter"
  /\ sound = TRUE

-----------------------------------------------------------------------------
(* Schoolbook widths: the retained diagonals.                               *)

\* high_product_diagonals: a row reads only what earlier rows wrote and writes
\* its carry above it.
HighDiagonals(a, b, cut) ==
  LET first == Larger(0, cut - (Len(b) - 1))
      run[r \in first .. Len(a) - 1] ==
        LET column == Larger(0, cut - r)
            row == From(b, column)
            offset == Larger(0, r - cut)
        IN IF r = first
           THEN [limbs |-> Append(AddMul(Zeroes(Len(row)), row, a[r + 1]), AddMulCarry(Zeroes(Len(row)), row, a[r + 1])),
                 defined |-> TRUE]
           ELSE LET below == run[r - 1]
                    d == SubSeq(below.limbs, offset + 1, offset + Len(row))
                IN [limbs |-> Prefix(below.limbs, offset) \o Append(AddMul(d, row, a[r + 1]), AddMulCarry(d, row, a[r + 1])),
                    defined |-> below.defined /\ Len(below.limbs) = offset + Len(row)]
  IN run[Len(a) - 1]

\* low_product_diagonals: what they omit, with both carry limbs.
LowDiagonals(a, b, cut) ==
  LET run[r \in 0 .. Smaller(cut, Len(a))] ==
        IF r = 0 THEN [limbs |-> Zeroes(cut + 2), fits |-> TRUE]
        ELSE LET below == run[r - 1]
                 row == Prefix(b, Smaller(Len(b), cut - r + 1))
                 product == Append(AddMul(Zeroes(Len(row)), row, a[r]), AddMulCarry(Zeroes(Len(row)), row, a[r]))
             IN [limbs |-> AddShifted(below.limbs, product, r - 1),
                 fits |-> below.fits /\ AddShiftedFits(below.limbs, product, r - 1)]
  IN run[Smaller(cut, Len(a))]

\* certified_high_product: the second guard limb leaves room for every column
\* that was omitted, or the omitted part is added.
Certified_TrustsGuard(a, b, cut) == [limbs |-> HighDiagonals(a, b, cut).limbs, fits |-> TRUE]

Certified(a, b, cut) ==
  LET high == HighDiagonals(a, b, cut)
      bound == Smaller(cut, Least([a |-> a, b |-> b]))
  IN IF high.limbs[2] <= LimbMax - bound THEN [limbs |-> high.limbs, fits |-> high.defined]
     ELSE LET low == LowDiagonals(a, b, cut)
              carry == From(low.limbs, cut)
          IN [limbs |-> AddTo(high.limbs, carry),
              fits |-> high.defined /\ low.fits /\ AddMulCarry(high.limbs, carry, 1) = 0]

-----------------------------------------------------------------------------
(* The root.                                                                *)

Retained(c) == Total(c) - c.skip
Trims(c) == Least(c) >= Thresholds.karatsuba /\ Retained(c) < Most(c) \div 2
Blocks(c) == ~Trims(c) /\ Least(c) >= RECURSIVE_THRESHOLD /\ c.skip >= Most(c)
Full(c) == ~Trims(c) /\ ~Blocks(c) /\ (Least(c) >= Thresholds.karatsuba \/ c.skip < 3)

Give(limbs) == result' = limbs /\ pc' = "returned"

\* trimmed_high_product: only the operands' high limbs that reach the cut.
Trimmed ==
  /\ pc = "enter" /\ Trims(call)
  /\ LET cut == call.skip - 2
         leftDrop == Larger(0, cut - (Len(call.b) - 1))
         rightDrop == Larger(0, cut - (Len(call.a) - 1))
         product == ProductLimbs(From(call.a, leftDrop), From(call.b, rightDrop))
         offset == cut - leftDrop - rightDrop
         bound == Smaller(cut, Least(call))
     IN Give(IF product[offset + 2] > LimbMax - bound
             THEN From(ProductLimbs(call.a, call.b), call.skip)
             ELSE From(product, offset + 2))
  /\ UNCHANGED <<call, out, work, reserved, stack, returned, sound>>

WholeProduct ==
  /\ pc = "enter" /\ Full(call)
  /\ Give(From(ProductLimbs(call.a, call.b), call.skip))
  /\ UNCHANGED <<call, out, work, reserved, stack, returned, sound>>

RetainedDiagonals ==
  /\ pc = "enter" /\ ~Trims(call) /\ ~Blocks(call) /\ ~Full(call)
  /\ LET certified == Certified(call.a, call.b, call.skip - 2)
     IN Give(From(certified.limbs, 2)) /\ sound' = (sound /\ certified.fits)
  /\ UNCHANGED <<call, out, work, reserved, stack, returned>>

\* A frame's output is the whole output, or the part of work at "at".
Frame(a, b, skip, in, at, rest) ==
  [a |-> a, b |-> b, skip |-> skip, in |-> in, at |-> at, rest |-> rest, stage |-> "enter"]

ScratchLen(c) == IF Least(c) < RECURSIVE_THRESHOLD THEN 0 ELSE 2 * Least(c)

EnterBlocks ==
  /\ pc = "enter" /\ Blocks(call)
  /\ stack' = << Frame(call.a, call.b, call.skip, "out", 0, 0) >>
  /\ reserved' = ScratchLen(call)
  /\ pc' = "blocks"
  /\ UNCHANGED <<call, out, work, returned, result, sound>>

\* Both guards would have to overflow for the omitted part to matter.
Certify ==
  /\ pc = "blocks" /\ stack = <<>>
  /\ Give(IF out[returned.start - 1] + 7 >= Base /\ out[returned.start] = LimbMax
          THEN From(ProductLimbs(call.a, call.b), call.skip)
          ELSE SubSeq(out, returned.start + 1, returned.end))
  /\ UNCHANGED <<call, out, work, reserved, stack, returned, sound>>

-----------------------------------------------------------------------------
(* high_product_blocks                                                      *)

Top == Head(stack)
Running(stage) == stack # <<>> /\ Top.stage = stage
Turn(stage) == << [Top EXCEPT !.stage = stage] >> \o Tail(stack)

Small(f) == MuldersSmallLen(Thresholds, Least(f), 3)
Offset(f) == f.skip - 2 - 2 * Small(f)
TopStart(f) == f.skip - 2 - Small(f)
ProductLen(f) == Total(f) - 2 * Small(f)

Write(f, start, limbs) ==
  IF f.in = "out" THEN out' = Splice(out, start, limbs) /\ UNCHANGED work
  ELSE work' = Splice(work, f.at + start, limbs) /\ UNCHANGED out

Return(f, start, end) ==
  /\ stack' = Tail(stack)
  /\ returned' = [frame |-> f, start |-> start, end |-> end]

Leaf ==
  /\ Running("enter") /\ Least(Top) < RECURSIVE_THRESHOLD
  /\ IF Top.skip < 3
     THEN /\ Write(Top, 0, ProductLimbs(Top.a, Top.b))
          /\ Return(Top, Top.skip, Total(Top))
          /\ UNCHANGED sound
     ELSE LET high == HighDiagonals(Top.a, Top.b, Top.skip - 2)
          IN /\ Write(Top, 0, high.limbs)
             /\ Return(Top, 2, Len(high.limbs))
             /\ sound' = (sound /\ high.defined /\ Len(high.limbs) = Total(Top) - Top.skip + 2)
  /\ UNCHANGED <<call, reserved, result, pc>>

HighBlocks ==
  /\ Running("enter") /\ Least(Top) >= RECURSIVE_THRESHOLD
  /\ Write(Top, 0, ProductLimbs(From(Top.a, Small(Top)), From(Top.b, Small(Top))))
  /\ stack' = Turn("cross a")
  /\ UNCHANGED <<call, reserved, returned, result, pc, sound>>

\* The two cross terms: the high limbs of one operand above the cut with the low
\* block of the other.
Outer(f) == IF f.stage \in {"cross a", "add a"} THEN f.a ELSE f.b
Other(f) == IF f.stage \in {"cross a", "add a"} THEN f.b ELSE f.a
HighWidth(f) == Len(Outer(f)) - TopStart(f)

CrossTerm(stage, next, skipTo) ==
  /\ Running(stage)
  /\ LET f == Top IN
     IF TopStart(f) >= Len(Outer(f)) THEN stack' = Turn(skipTo)
     ELSE stack' = << Frame(From(Outer(f), TopStart(f)), Prefix(Other(f), Small(f)), Small(f), "work", f.rest,
                            f.rest + HighWidth(f) + Small(f)) >> \o Turn(next)
  /\ UNCHANGED <<call, out, work, reserved, returned, result, pc, sound>>

\* The term joins the low limbs of the retained part; its carry runs through the
\* rest.
AddCross(stage, next) ==
  /\ Running(stage)
  /\ LET f == Top
         at == returned.frame.at + returned.start
         cross == SubSeq(work, at + 1, at + HighWidth(f))
         buffer == IF f.in = "out" THEN out ELSE From(work, f.at)
         retained == SubSeq(buffer, Offset(f) + 1, ProductLen(f))
     IN /\ Write(f, Offset(f), AddTo(retained, cross))
        /\ sound' = (sound /\ AddMulCarry(retained, cross, 1) = 0)
  /\ stack' = Turn(next)
  /\ UNCHANGED <<call, reserved, returned, result, pc>>

ReturnBlocks ==
  /\ Running("done")
  /\ Return(Top, Offset(Top) + 2, ProductLen(Top))
  /\ UNCHANGED <<call, out, work, reserved, result, pc, sound>>

Next ==
  \/ Trimmed \/ WholeProduct \/ RetainedDiagonals
  \/ EnterBlocks \/ Leaf \/ HighBlocks
  \/ CrossTerm("cross a", "add a", "cross b") \/ AddCross("add a", "cross b")
  \/ CrossTerm("cross b", "add b", "done") \/ AddCross("add b", "done")
  \/ ReturnBlocks \/ Certify

Spec == Init /\ [][Next]_vars

-----------------------------------------------------------------------------
(* Properties.                                                              *)

\* The limbs of a frame's result from "guards" limbs below it, against the exact
\* ones: below them by at most "units" of the lowest.
Below(r, guards, units) ==
  LET buffer == IF r.frame.in = "out" THEN out ELSE From(work, r.frame.at)
      held == SubSeq(buffer, r.start + 1 - guards, r.end)
      exact == From(ProductLimbs(r.frame.a, r.frame.b), r.frame.skip - guards)
      missing == SubFrom(exact, held)
  IN /\ Len(exact) = Len(held)
     /\ SubMulBorrow(exact, held, 1) = 0
     /\ missing[1] <= units /\ Len(Normalized(missing)) <= 1

\* Whatever is omitted, the limbs given back are the exact high limbs: a frame's
\* result is at most one below, with its guards at most seven where it recursed,
\* and the frames stay within the work reserved at the root.
HighProductExact ==
  /\ sound
  /\ \A i \in DOMAIN stack : stack[i].rest <= reserved
  /\ returned # <<>> /\ (stack = <<>> \/ Top.stage \in {"add a", "add b"}) =>
       /\ Below(returned, 0, 1)
       /\ Least(returned.frame) >= RECURSIVE_THRESHOLD => Below(returned, 2, 7)
  /\ pc = "returned" => result = From(ProductLimbs(call.a, call.b), call.skip)
=============================================================================

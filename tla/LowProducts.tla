---------------------------- MODULE LowProducts ----------------------------
(***************************************************************************)
(* math/mul/low and the truncated schoolbook rows: the low limbs of a        *)
(* product of two operands of one width, and a product with one guard limb.  *)
(* A wide product multiplies the low blocks whole and recurses for the two   *)
(* cross terms, whose limbs above the width are dropped; one scratch buffer, *)
(* dirty and of exactly the promised length, holds every level.              *)
(***************************************************************************)
EXTENDS SharedEvaluation

CONSTANTS
  Thresholds,  \* those of the multiplication tiers, as a record
  LOW_PRODUCT_RECURSIVE_THRESHOLD,
  LOW_PRODUCT_FULL_THRESHOLD,   \* zero disables it
  TRANSFORM_WIDTH,              \* the width from which a plan is a transform
  PlanScratchLen(_),            \* external: what the plan of an equal product needs
  Calls        \* records of an op and operands a and b

CallsAssumption ==
  \A c \in Calls :
    \/ c.op = "low" /\ Len(c.a) = Len(c.b)
    \/ c.op = "guard" /\ c.a # <<>> /\ Len(c.b) <= Len(c.a)

RecursiveThresholdAssumption == LOW_PRODUCT_RECURSIVE_THRESHOLD >= 4

VARIABLES
  call,
  dst,         \* the output of the truncated product
  scratch,     \* the multiplication scratch
  guarded,     \* the output of a product with a guard limb
  stack,       \* frames of mulders_at_split, the running one first
  pc, sound

vars == <<call, dst, scratch, guarded, stack, pc, sound>>

Dirty(n) == [i \in 1 .. n |-> LimbMax]
Whole(width) == width >= TRANSFORM_WIDTH \/ (LOW_PRODUCT_FULL_THRESHOLD # 0 /\ width >= LOW_PRODUCT_FULL_THRESHOLD)

\* mulders_scratch_len: the widest level's product and its plan, past the cross
\* terms of the levels above it.
MuldersScratchLen(len) ==
  LET need[width \in 0 .. len] ==
        LET small == MuldersSmallLen(Thresholds, width, 2)
            large == width - small
            phase == 2 * large + PlanScratchLen(large)
        IN IF small < LOW_PRODUCT_RECURSIVE_THRESHOLD THEN phase ELSE Larger(phase, small + need[small])
  IN need[len]

\* The operands of LowProduct::mul: a guarded product pads the factor's high part
\* with a zero limb to the multiplier's width.
Multiplier(c) == c.b
SplitAt(c) == Len(c.a) + 1 - Len(c.b)
Higher(c) == From(c.a, SplitAt(c))
Left(c) == IF c.op = "low" THEN c.a ELSE Multiplier(c)
Right(c) == IF c.op = "low" THEN c.b ELSE Append(Higher(c), 0)

Init ==
  /\ call \in Calls
  /\ dst = Dirty(Len(Right(call)))
  /\ scratch = <<>>
  /\ guarded = Dirty(IF call.op = "guard" THEN Len(call.a) + 1 ELSE 0)
  /\ stack = <<>>
  /\ pc = IF call.op = "guard" THEN "guard" ELSE "low"
  /\ sound = TRUE

-----------------------------------------------------------------------------
(* mul_with_guard                                                           *)

GuardNothing ==
  /\ pc = "guard" /\ call.b = <<>>
  /\ guarded' = Zeroes(Len(guarded)) /\ pc' = "returned"
  /\ UNCHANGED <<call, dst, scratch, stack, sound>>

\* The whole product, of which the low limbs are copied.
GuardWhole ==
  /\ pc = "guard" /\ call.b # <<>> /\ (Whole(Len(guarded)) \/ Len(call.b) >= TRANSFORM_WIDTH)
  /\ guarded' = Prefix(ProductLimbs(call.b, call.a), Len(guarded)) /\ pc' = "returned"
  /\ UNCHANGED <<call, dst, scratch, stack, sound>>

GuardLower ==
  /\ pc = "guard" /\ call.b # <<>> /\ ~(Whole(Len(guarded)) \/ Len(call.b) >= TRANSFORM_WIDTH)
  /\ guarded' = ProductLimbs(Multiplier(call), Prefix(call.a, SplitAt(call)))
  /\ pc' = IF Higher(call) = <<>> THEN "returned" ELSE "low"
  /\ UNCHANGED <<call, dst, scratch, stack, sound>>

\* The carry out of the guard limb is above the width.
GuardUpper(upper, cross) == AddTo(upper, cross)

GuardJoin ==
  /\ pc = "join" /\ call.op = "guard"
  /\ guarded' = Splice(guarded, SplitAt(call), GuardUpper(From(guarded, SplitAt(call)), dst))
  /\ pc' = "returned"
  /\ UNCHANGED <<call, dst, scratch, stack, sound>>

-----------------------------------------------------------------------------
(* LowProduct::mul                                                          *)

Done == pc' = IF call.op = "guard" THEN "join" ELSE "returned"
Width(c) == Len(Right(c))

LowNothing ==
  /\ pc = "low" /\ Width(call) = 0
  /\ Done /\ UNCHANGED <<call, dst, scratch, guarded, stack, sound>>

\* mullo_basecase: each row is one limb shorter than the row before, and its
\* carry is dropped.
Rows(a, b) ==
  LET n == Len(a)
      run[r \in 0 .. n] ==
        IF r = 0 THEN Zeroes(n)
        ELSE LET below == run[r - 1]
             IN Splice(below, r - 1, AddMul(From(below, r - 1), Prefix(b, n - r + 1), a[r]))
  IN run[n]

LowRows ==
  /\ pc = "low" /\ Width(call) \in 1 .. LOW_PRODUCT_RECURSIVE_THRESHOLD - 1
  /\ dst' = Rows(Left(call), Right(call)) /\ Done
  /\ UNCHANGED <<call, scratch, guarded, stack, sound>>

LowWhole ==
  /\ pc = "low" /\ Width(call) >= LOW_PRODUCT_RECURSIVE_THRESHOLD /\ Whole(Width(call))
  /\ dst' = Prefix(ProductLimbs(Left(call), Right(call)), Width(call)) /\ Done
  /\ UNCHANGED <<call, scratch, guarded, stack, sound>>

\* A frame writes dst, or the cross term at the bottom of its parent's scratch.
Frame(a, b, to, at) == [a |-> a, b |-> b, to |-> to, at |-> at, stage |-> "low block"]

LowMulders ==
  /\ pc = "low" /\ Width(call) >= LOW_PRODUCT_RECURSIVE_THRESHOLD /\ ~Whole(Width(call))
  /\ scratch' = Dirty(MuldersScratchLen(Width(call)))
  /\ stack' = << Frame(Left(call), Right(call), "dst", 0) >>
  /\ pc' = "mulders"
  /\ UNCHANGED <<call, dst, guarded, sound>>

-----------------------------------------------------------------------------
(* mulders_at_split                                                         *)

Top == Head(stack)
Running(stage) == stack # <<>> /\ Top.stage = stage
Turn(stage) == << [Top EXCEPT !.stage = stage] >> \o Tail(stack)

Small(f) == MuldersSmallLen(Thresholds, Len(f.a), 2)
Large(f) == Len(f.a) - Small(f)
Recurses(f) == Small(f) >= LOW_PRODUCT_RECURSIVE_THRESHOLD

\* The limbs a frame has written, in dst or in its parent's scratch.
Written(f) == IF f.to = "dst" THEN dst ELSE SubSeq(scratch, f.at - Len(f.a) + 1, f.at)

LowBlock ==
  /\ Running("low block")
  /\ LET f == Top
         product == ProductLimbs(Prefix(f.a, Large(f)), Prefix(f.b, Large(f)))
         carved == 2 * Large(f) + PlanScratchLen(Large(f))
         used == Splice(scratch, f.at, product \o Dirty(PlanScratchLen(Large(f))))
     IN /\ sound' = (sound /\ f.at + carved <= Len(scratch))
        /\ IF f.to = "dst" THEN dst' = Prefix(product, Len(f.a)) /\ scratch' = used
           ELSE scratch' = Splice(used, f.at - Len(f.a), Prefix(product, Len(f.a))) /\ UNCHANGED dst
  /\ stack' = Turn(IF Recurses(Top) THEN "left cross" ELSE "rows")
  /\ UNCHANGED <<call, guarded, pc>>

Update(f, limbs) ==
  IF f.to = "dst" THEN dst' = limbs /\ UNCHANGED scratch
  ELSE scratch' = Splice(scratch, f.at - Len(f.a), limbs) /\ UNCHANGED dst

Return == stack' = Tail(stack) /\ IF Len(stack) = 1 THEN Done ELSE UNCHANGED pc

\* Both cross terms in pairs of shortening rows.
CrossRows(f) ==
  LET run[r \in 0 .. Small(f)] ==
        IF r = 0 THEN Written(f)
        ELSE LET below == run[r - 1]
                 at == Large(f) + r - 1
                 inner == Small(f) - r + 1
                 once == Splice(below, at, AddMul(From(below, at), Prefix(f.b, inner), f.a[Large(f) + r]))
             IN Splice(once, at, AddMul(From(once, at), Prefix(f.a, inner), f.b[Large(f) + r]))
  IN run[Small(f)]

Rest ==
  /\ Running("rows")
  /\ Update(Top, CrossRows(Top)) /\ Return
  /\ UNCHANGED <<call, guarded, sound>>

\* The cross terms take turns at the bottom of the scratch, over the product.
Cross(stage, next, a, b) ==
  /\ Running(stage)
  /\ stack' = << Frame(a, b, "scratch", Top.at + Small(Top)) >> \o Turn(next)
  /\ UNCHANGED <<call, dst, scratch, guarded, pc, sound>>

LeftCross == Cross("left cross", "add left", From(Top.a, Large(Top)), Prefix(Top.b, Small(Top)))
RightCross == Cross("right cross", "add right", Prefix(Top.a, Small(Top)), From(Top.b, Large(Top)))

Added(f) ==
  LET cross == SubSeq(scratch, f.at + 1, f.at + Small(f))
  IN Prefix(Written(f), Large(f)) \o AddTo(From(Written(f), Large(f)), cross)

AddLeft ==
  /\ Running("add left")
  /\ Update(Top, Added(Top)) /\ stack' = Turn("right cross")
  /\ UNCHANGED <<call, guarded, pc, sound>>

AddRight ==
  /\ Running("add right")
  /\ Update(Top, Added(Top)) /\ Return
  /\ UNCHANGED <<call, guarded, sound>>

Next ==
  \/ GuardNothing \/ GuardWhole \/ GuardLower \/ GuardJoin
  \/ LowNothing \/ LowRows \/ LowWhole \/ LowMulders
  \/ LowBlock \/ Rest \/ LeftCross \/ AddLeft \/ RightCross \/ AddRight

Spec == Init /\ [][Next]_vars

-----------------------------------------------------------------------------
(* Properties.                                                              *)

Exact(a, b, n) == Prefix(ProductLimbs(a, b) \o Zeroes(n), n)

\* From dirty buffers, a truncated product is the low limbs of the whole one and
\* a guarded one keeps the limb above the factor; no level reaches past the
\* promised scratch, or overwrites the cross term an outer level is waiting for.
LowProductExact ==
  /\ sound
  /\ Running("add left") => SubSeq(scratch, Top.at + 1, Top.at + Small(Top)) =
                              Exact(From(Top.a, Large(Top)), Prefix(Top.b, Small(Top)), Small(Top))
  /\ pc = "returned" =>
       IF call.op = "low" THEN dst = Exact(call.a, call.b, Len(call.a))
       ELSE guarded = Exact(call.a, call.b, Len(call.a) + 1)
=============================================================================

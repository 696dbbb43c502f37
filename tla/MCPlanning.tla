----------------------------- MODULE MCPlanning -----------------------------
(***************************************************************************)
(* The transform planner: two threads that plan rings, Mersenne recursions   *)
(* and products through the caches, or one search of the planner itself.     *)
(***************************************************************************)
EXTENDS PlanCaches

CONSTANTS t1, t2

VARIABLES
  family,                  \* whose run it is
  request, result, done    \* of a search

MCThreads == {t1, t2}
MCRingWidths == {4, 6, 8, 12, 14}
MCPowersOfTwo == {4, 8}
MCLevelLimbs == {3, 6, 7, 12}
MCSetOf == [b \in {6, 12, 14} |-> "set"]

\* Widths of at most two bits need no transform.  A square of the ring of 14
\* nests differently from a product.
MCInner ==
  [b \in MCRingWidths, op \in Operations |->
     CASE b = 14 -> IF op = "Square" THEN 4 ELSE 12
       [] b = 12 -> IF op = "Multiply" THEN 6 ELSE 4
       [] b = 6 -> 4
       [] b = 8 -> 4
       [] b = 4 -> 2]

Ring(bits, op) == [bits |-> bits, op |-> op]
Recursion(limbs, op) == [limbs |-> limbs, op |-> op]

MCRings ==
  (t1 :> {Ring(14, "Pair"), Ring(12, "Pair")}) @@ (t2 :> {Ring(14, "Square")})
MCRecursions ==
  (t1 :> {}) @@ (t2 :> {Recursion(12, "Multiply"), Recursion(7, "Square")})
MCProducts ==
  (t1 :> {Ring(5, "Multiply"), Ring(5, "Square"), Ring(6, "Multiply")}) @@ (t2 :> {})
MCHalfWidth ==
  [b \in {5, 6}, op \in Operations |-> IF b = 6 THEN None ELSE IF op = "Square" THEN 2 ELSE 3]

-----------------------------------------------------------------------------

\* Quadratic products, squares at three quarters of them.
QuadraticCost(limbs, op) ==
  CASE op = "Multiply" -> 12 * limbs * limbs
    [] op = "Square" -> 9 * limbs * limbs
    [] op = "Pair" -> 24 * limbs * limbs

\* Rings of whole limbs, and products one bit wider.
Searches ==
  [kind : {"geometry"}, bits : {8 * k : k \in 1 .. 36 \union {58, 62}}, op : Operations]
    \union [kind : {"half width"}, bits : {8 * k + 1 : k \in 1 .. 24}, op : Operations]

Planner == INSTANCE RingPlanner
  WITH LimbBits <- 8, BaseBits <- 32, BaseLimbs <- 3, MaxDepth <- 3, MemoSlots <- 6,
       LeafCost <- QuadraticCost, VisitOverhead <- 1, Sqrt2Passes <- 4, NestedPenalty <- 20,
       Requests <- Searches

search == <<request, result, done>>

RunInit ==
  /\ Init
  /\ \/ family = "caches" /\ request = None /\ result = None /\ done = None
     \/ family = "planner" /\ Planner!Init

RunNext ==
  \/ family = "caches" /\ Next /\ UNCHANGED search
  \/ family = "planner" /\ Planner!Next /\ UNCHANGED vars

RunSpec == RunInit /\ [][RunNext /\ UNCHANGED family]_<<vars, family, search>>

-----------------------------------------------------------------------------
(* PlansExact, CachesKeepLatest, and what a search promises.                *)

\* A search chooses a geometry that represents its ring, the same with a memo of
\* six slots, whatever it evicted, as without one, and a half-width whose products
\* all fit.
PlannerSound ==
  family = "planner" => Planner!GeometrySound /\ Planner!MemoChangesNothing /\ Planner!HalfWidthLegal
=============================================================================

------------------------------ MODULE PlanCaches ------------------------------
(***************************************************************************)
(* The caches of the Schoenhage-Strassen planner (math/mul/ssa).  A plan   *)
(* for a Fermat ring is a chain of geometries, one per nested ring: the     *)
(* planner searches the cheapest geometry of a ring, and the coefficients   *)
(* of that geometry are multiplied in a smaller ring planned the same way.  *)
(*                                                                         *)
(*   - Geometries are cached for the process: power-of-two rings in a once *)
(*     cell per width and operation, the other rings in small sets under a *)
(*     read-write lock (plan/cache.rs).  A lookup and a store are two      *)
(*     critical sections with the search between them.                     *)
(*   - Every thread retains the plans of coefficient rings, the plans of   *)
(*     Mersenne recursions and the half-widths it found, four or 64 at a   *)
(*     time (product/plan.rs, crt/execution.rs).                           *)
(*                                                                         *)
(* The search is a pure function of the ring and the operation; a geometry *)
(* is represented by the request it answers and the ring of its            *)
(* coefficients.                                                           *)
(***************************************************************************)
EXTENDS Naturals, Sequences, SequencesExt

CONSTANTS
  Threads,         \* threads that plan products
  RingWidths,      \* the ring widths they plan for
  PowersOfTwo,     \* those that have a once cell
  SetOf,           \* the set that caches every other width
  Inner,           \* the coefficient ring of the cheapest geometry
  BaseBits,        \* SSA_BASE_MODULUS_BITS: smaller rings are not transformed
  LimbBits,
  BaseLimbs,       \* SSA_BNM1_BASECASE_LIMBS
  LevelLimbs,      \* the limbs that Mersenne recursions come down to
  HalfWidth,       \* the result of the half-width search, or None
  Rings, Recursions, Products,   \* the requests of each thread
  Ways,            \* IRREGULAR_GEOMETRY_CACHE_WAYS
  PlanSlots,       \* RETAINED_PLAN_SLOTS
  WidthSlots,      \* CRT_WIDTH_CACHE_WAYS
  None

Operations == {"Multiply", "Square", "Pair"}
Retaining == {"Multiply", "Square"}
SetIds == {SetOf[b] : b \in RingWidths \ PowersOfTwo}

\* A geometry whose coefficients nest is priced only if they are narrower than the
\* ring (plan/cost.rs:248).
ASSUME RingAssumption ==
  /\ RingWidths \subseteq Nat /\ PowersOfTwo \subseteq RingWidths
  /\ BaseBits \in Nat
  /\ \A b \in RingWidths : \A op \in Operations : Inner[<<b, op>>] \in Nat
  /\ \A b \in RingWidths : \A op \in Operations :
       Inner[<<b, op>>] > BaseBits => Inner[<<b, op>>] \in RingWidths /\ Inner[<<b, op>>] < b
ASSUME LevelAssumption ==
  /\ LevelLimbs \subseteq Nat /\ BaseLimbs \in Nat /\ LimbBits \in Nat
  /\ \A n \in LevelLimbs : n > BaseLimbs =>
       n \div 2 \in LevelLimbs /\ (n \div 2) * LimbBits \in RingWidths
ASSUME RequestAssumption ==
  \A t \in Threads :
    /\ Rings[t] \subseteq [bits : RingWidths, op : Operations]
    /\ Recursions[t] \subseteq [limbs : LevelLimbs, op : Retaining]
ASSUME SlotAssumption ==
  Ways \in Nat \ {0} /\ PlanSlots \in Nat \ {0} /\ WidthSlots \in Nat \ {0}

VARIABLES
  cells,       \* POWER_OF_TWO_GEOMETRY_CACHE
  sets,        \* IRREGULAR_GEOMETRY_CACHE
  plans,       \* per thread: MUL_PLANS and SQUARE_PLANS of product/plan.rs
  recursions,  \* per thread: MUL_PLANS and SQUARE_PLANS of crt/execution.rs
  widths,      \* per thread: CRT_WIDTH_CACHE
  pc,          \* per thread: where its planning call is
  job,         \* per thread: the request it plans
  ring,        \* per thread: the ring it plans at the moment
  path,        \* per thread: the geometries chosen on the way down to it
  tail,        \* per thread: the finished plan below the last of them
  current,     \* per thread: the width a Mersenne recursion has come down to
  levels,      \* per thread: the finished levels of a Mersenne recursion
  answer       \* per thread: the last request answered and its answer

shared == <<cells, sets>>
vars ==
  <<cells, sets, plans, recursions, widths, pc, job, ring, path, tail,
          current, levels, answer>>

(***************************************************************************)
(* The caches.  A cache is an array of slots and a cursor.                 *)
(***************************************************************************)
Empty(size) == [slots |-> [i \in 1 .. size |-> None], next |-> 0]
Matches(c, k) == {i \in DOMAIN c.slots : c.slots[i] # None /\ c.slots[i].key = k}
Holds(c, k) == Matches(c, k) # {}
Cached(c, k) == c.slots[CHOOSE i \in Matches(c, k) : \A j \in Matches(c, k) : i <= j].value
Entry(k, v) == [key |-> k, value |-> v]

Vacant(c) == {i \in DOMAIN c.slots : c.slots[i] = None}
AtCursor(c, e) ==
  [slots |-> [c.slots EXCEPT ![c.next + 1] = e], next |-> (c.next + 1) % Len(c.slots)]

InsertGeometry_NoDuplicateCheck(c, e) ==
  IF Vacant(c) # {}
  THEN [c EXCEPT !.slots[CHOOSE i \in Vacant(c) : \A j \in Vacant(c) : i <= j] = e]
  ELSE AtCursor(c, e)

\* IrregularGeometryCacheSet::insert, under the write lock.
InsertGeometry(c, e) ==
  IF Holds(c, e.key) THEN c
  ELSE IF Vacant(c) # {}
  THEN [c EXCEPT !.slots[CHOOSE i \in Vacant(c) : \A j \in Vacant(c) : i <= j] = e]
  ELSE AtCursor(c, e)

\* CrtWidthCache::insert
InsertWidth(c, e) == IF Holds(c, e.key) THEN c ELSE AtCursor(c, e)

\* RetainedPlanCache::insert: no look for the key, and a cursor that rests one
\* past the last slot.
Retain(c, e) ==
  LET slot == c.next % Len(c.slots)
  IN  [slots |-> [c.slots EXCEPT ![slot + 1] = e], next |-> slot + 1]

(***************************************************************************)
(* The planner.                                                            *)
(***************************************************************************)
Best(bits, op) == [bits |-> bits, op |-> op, inner |-> Inner[<<bits, op>>]]

\* Coefficients of squares are squared, all others multiplied.
CoefficientOp(op) == IF op = "Square" THEN "Square" ELSE "Multiply"
\* The operation of the ring planned now.
RingOp(t) == IF path[t] = <<>> THEN job[t].op ELSE CoefficientOp(job[t].op)

Init ==
  /\ cells = [x \in PowersOfTwo \X Operations |-> None]
  /\ sets = [s \in SetIds |-> Empty(Ways)]
  /\ plans = [x \in Threads \X Retaining |-> Empty(PlanSlots)]
  /\ recursions = [x \in Threads \X Retaining |-> Empty(PlanSlots)]
  /\ widths = [t \in Threads |-> Empty(WidthSlots)]
  /\ pc = [t \in Threads |-> "idle"]
  /\ job = [t \in Threads |-> None]
  /\ ring = [t \in Threads |-> 0]
  /\ path = [t \in Threads |-> <<>>]
  /\ tail = [t \in Threads |-> <<>>]
  /\ current = [t \in Threads |-> 0]
  /\ levels = [t \in Threads |-> <<>>]
  /\ answer = [t \in Threads |-> None]

Job(kind, key, op) == [kind |-> kind, key |-> key, op |-> op]
Answered(t, request, value) == answer' = [answer EXCEPT ![t] = Entry(request, value)]

\* A transform plan of a ring: MulTransformPlan::new(FftPlan::new*(bits)) and
\* its square counterpart.
StartRing(t) ==
  /\ pc[t] = "idle"
  /\ \E request \in Rings[t] :
       /\ job' = [job EXCEPT ![t] = Job("ring", request.bits, request.op)]
       /\ ring' = [ring EXCEPT ![t] = request.bits]
  /\ pc' = [pc EXCEPT ![t] = "geometry"]
  /\ answer' = [answer EXCEPT ![t] = None]
  /\ UNCHANGED <<shared, plans, recursions, widths, path, tail, levels, current>>

(***************************************************************************)
(* Geometry::best_for_operation: a lookup, and on a miss a search whose     *)
(* result is stored unless another thread stored it meanwhile.             *)
(***************************************************************************)
GeometryHeld(bits, op) ==
  IF bits \in PowersOfTwo THEN cells[<<bits, op>>] # None
  ELSE Holds(sets[SetOf[bits]], <<bits, op>>)

HeldGeometry(bits, op) ==
  IF bits \in PowersOfTwo THEN cells[<<bits, op>>]
  ELSE Cached(sets[SetOf[bits]], <<bits, op>>)

\* The coefficients' ring is the next to plan, unless it is small enough to be
\* multiplied without a transform.
Descend(t, g) ==
  /\ path' = [path EXCEPT ![t] = Append(@, g)]
  /\ ring' = [ring EXCEPT ![t] = g.inner]
  /\ pc' = [pc EXCEPT ![t] = IF g.inner > BaseBits THEN "retained" ELSE "ascend"]

LookUpGeometry(t) ==
  /\ pc[t] = "geometry"
  /\ IF GeometryHeld(ring[t], RingOp(t))
     THEN Descend(t, HeldGeometry(ring[t], RingOp(t)))
     ELSE pc' = [pc EXCEPT ![t] = "search"] /\ UNCHANGED <<path, ring>>
  /\ UNCHANGED <<shared, plans, recursions, widths, job, tail, levels, answer, current>>

CacheGeometry(bits, op, g) ==
  IF bits \in PowersOfTwo
  THEN /\ cells' = [cells EXCEPT ![<<bits, op>>] = IF @ = None THEN g ELSE @]
       /\ UNCHANGED sets
  ELSE /\ sets' = [sets EXCEPT ![SetOf[bits]] = InsertGeometry(@, Entry(<<bits, op>>, g))]
       /\ UNCHANGED cells

Search_RootOperation(t) ==
  /\ pc[t] = "search"
  /\ LET g == Best(ring[t], RingOp(t)) IN
       CacheGeometry(ring[t], job[t].op, g) /\ Descend(t, g)
  /\ UNCHANGED <<plans, recursions, widths, job, tail, levels, answer, current>>

Search(t) ==
  /\ pc[t] = "search"
  /\ LET g == Best(ring[t], RingOp(t)) IN
       CacheGeometry(ring[t], RingOp(t), g) /\ Descend(t, g)
  /\ UNCHANGED <<plans, recursions, widths, job, tail, levels, answer, current>>

(***************************************************************************)
(* mul_transform and square_transform: the coefficient ring's plan is the  *)
(* thread's retained one, or is built and then retained.  The cache is not *)
(* borrowed while it is built, and building it changes the cache.          *)
(***************************************************************************)
LookUpRetained(t) ==
  /\ pc[t] = "retained"
  /\ LET mine == plans[<<t, CoefficientOp(job[t].op)>>] IN
       IF Holds(mine, ring[t])
       THEN /\ tail' = [tail EXCEPT ![t] = Cached(mine, ring[t])]
            /\ pc' = [pc EXCEPT ![t] = "ascend"]
       ELSE /\ pc' = [pc EXCEPT ![t] = "geometry"]
            /\ UNCHANGED tail
  /\ UNCHANGED <<shared, plans, recursions, widths, job, ring, path, levels, answer, current>>

\* One ring's plan is complete: the geometry and the plan below it.
Complete(t) == <<path[t][Len(path[t])]>> \o tail[t]

\* A coefficient ring returns to the ring it was planned for.
AscendNested(t) ==
  /\ pc[t] = "ascend" /\ Len(path[t]) > 1
  /\ LET g == path[t][Len(path[t])] IN
       plans' = [plans EXCEPT ![<<t, CoefficientOp(job[t].op)>>] =
                   Retain(@, Entry(g.bits, Complete(t)))]
  /\ path' = [path EXCEPT ![t] = Front(@)]
  /\ tail' = [tail EXCEPT ![t] = Complete(t)]
  /\ UNCHANGED <<shared, recursions, widths, pc, job, ring, levels, answer, current>>

\* CrtMulLevel::Split: a ring of n limbs and its plan.
Level(n, plan) == [half |-> n, plan |-> plan]

\* The outermost ring is not retained here: its caller keeps it.
AscendOutermost(t) ==
  /\ pc[t] = "ascend" /\ Len(path[t]) = 1
  /\ path' = [path EXCEPT ![t] = <<>>]
  /\ tail' = [tail EXCEPT ![t] = <<>>]
  /\ ring' = [ring EXCEPT ![t] = 0]
  /\ \/ /\ job[t].kind = "ring"
        /\ Answered(t, job[t], Complete(t))
        /\ pc' = [pc EXCEPT ![t] = "idle"]
        /\ job' = [job EXCEPT ![t] = None]
        /\ UNCHANGED levels
     \/ /\ job[t].kind = "recursion"
        /\ levels' = [levels EXCEPT ![t] = Append(@, Level(current[t], Complete(t)))]
        /\ pc' = [pc EXCEPT ![t] = "level"]
        /\ UNCHANGED <<answer, job>>
  /\ UNCHANGED <<shared, plans, recursions, widths, current>>

(***************************************************************************)
(* CrtMulPlan::new and CrtSquarePlan::new: the plans of every halving of a *)
(* product modulo B^n - 1, down to the basecase.                           *)
(***************************************************************************)
\* level_count admits a width whose every halving above the basecase is even.
Halves(n) ==
  n # 0 /\ \A j \in 0 .. n : n \div 2 ^ j > BaseLimbs => (n \div 2 ^ j) % 2 = 0

StartRecursion(t) ==
  /\ pc[t] = "idle"
  /\ \E request \in Recursions[t] :
       LET mine == recursions[<<t, request.op>>]
           this == Job("recursion", request.limbs, request.op)
       IN \/ /\ Holds(mine, request.limbs)
             /\ Answered(t, this, Cached(mine, request.limbs))
             /\ UNCHANGED <<pc, job, current>>
          \/ /\ ~ Holds(mine, request.limbs) /\ ~ Halves(request.limbs)
             /\ Answered(t, this, None)
             /\ UNCHANGED <<pc, job, current>>
          \/ /\ ~ Holds(mine, request.limbs) /\ Halves(request.limbs)
             /\ job' = [job EXCEPT ![t] = this]
             /\ current' = [current EXCEPT ![t] = request.limbs]
             /\ pc' = [pc EXCEPT ![t] = "level"]
             /\ answer' = [answer EXCEPT ![t] = None]
  /\ UNCHANGED <<shared, plans, recursions, widths, ring, path, tail, levels>>

PlanLevel(t) ==
  /\ pc[t] = "level" /\ current[t] > BaseLimbs
  /\ current' = [current EXCEPT ![t] = @ \div 2]
  /\ ring' = [ring EXCEPT ![t] = current'[t] * LimbBits]
  /\ pc' = [pc EXCEPT ![t] = "geometry"]
  /\ UNCHANGED <<shared, plans, recursions, widths, job, path, tail, levels, answer>>

FinishRecursion(t) ==
  /\ pc[t] = "level" /\ current[t] <= BaseLimbs
  /\ recursions' = [recursions EXCEPT ![<<t, job[t].op>>] = Retain(@, Entry(job[t].key, levels[t]))]
  /\ Answered(t, job[t], levels[t])
  /\ levels' = [levels EXCEPT ![t] = <<>>]
  /\ current' = [current EXCEPT ![t] = 0]
  /\ pc' = [pc EXCEPT ![t] = "idle"]
  /\ job' = [job EXCEPT ![t] = None]
  /\ UNCHANGED <<shared, plans, widths, ring, path, tail>>

(***************************************************************************)
(* SsaPlan::best_crt_half_width touches nothing but the thread's own cache *)
(* of complete search results.  A search without a result is not cached.   *)
(***************************************************************************)
BestHalfWidth(t) ==
  /\ pc[t] = "idle"
  /\ \E request \in Products[t] :
       LET k == <<request.bits, request.op>>
           found == HalfWidth[<<request.bits, request.op>>]
           this == Job("width", request.bits, request.op)
       IN \/ /\ Holds(widths[t], k)
             /\ Answered(t, this, Cached(widths[t], k))
             /\ UNCHANGED widths
          \/ /\ ~ Holds(widths[t], k)
             /\ Answered(t, this, found)
             /\ widths' = IF found = None THEN widths
                          ELSE [widths EXCEPT ![t] = InsertWidth(@, Entry(k, found))]
  /\ UNCHANGED <<shared, plans, recursions, pc, job, ring, path, tail, levels, current>>

Continue(t) ==
  \/ LookUpGeometry(t) \/ Search(t) \/ LookUpRetained(t)
  \/ AscendNested(t) \/ AscendOutermost(t)
  \/ PlanLevel(t) \/ FinishRecursion(t)

Start(t) == StartRing(t) \/ StartRecursion(t) \/ BestHalfWidth(t)

Next == \E t \in Threads : Start(t) \/ Continue(t)

Spec == Init /\ [][Next]_vars

(***************************************************************************)
(* Properties.                                                             *)
(***************************************************************************)
\* A plan is the cheapest geometry of its ring followed by those of the nested
\* rings, down to one whose coefficients need no transform.
IsPlan(p, bits, op) ==
  /\ p # <<>> /\ p[1] = Best(bits, op)
  /\ \A i \in 1 .. Len(p) - 1 :
       p[i].inner > BaseBits /\ p[i + 1] = Best(p[i].inner, CoefficientOp(op))
  /\ p[Len(p)].inner <= BaseBits

WidthAt(r, i, n) == IF i = 0 THEN n ELSE r[i].half

\* The first i levels of a recursion from n limbs.
IsRecursion(r, n, op) ==
  \A i \in 1 .. Len(r) :
    /\ WidthAt(r, i - 1, n) > BaseLimbs
    /\ r[i].half = WidthAt(r, i - 1, n) \div 2
    /\ IsPlan(r[i].plan, r[i].half * LimbBits, op)

Exact(request, value) ==
  LET n == request.key IN
  CASE request.kind = "ring" -> IsPlan(value, n, request.op)
    [] request.kind = "width" -> value = HalfWidth[<<n, request.op>>]
    [] request.kind = "recursion" ->
         IF Halves(n)
         THEN IsRecursion(value, n, request.op) /\ WidthAt(value, Len(value), n) <= BaseLimbs
         ELSE value = None

\* Whatever the caches held, evicted or stored meanwhile, a planning call answers
\* what the planner computes for exactly that ring and operation
\* (plan/cache.rs:41, cost.rs:383: caching never changes a later result).
PlansExact == \A t \in Threads : answer[t] # None => Exact(answer[t].key, answer[t].value)

\* A cache fills its slots in turn, then overwrites the oldest.
Fill(c) == CHOOSE n \in 0 .. Len(c.slots) : \A i \in DOMAIN c.slots : c.slots[i] # None <=> i <= n
Oldest(c) == IF Fill(c) < Len(c.slots) THEN 0 ELSE c.next % Len(c.slots)

\* The entries of a cache in the order they were stored.
Order(c) ==
  LET size == Len(c.slots)
      from == Oldest(c)
  IN  [k \in 1 .. Fill(c) |-> c.slots[IF from + k <= size THEN from + k ELSE from + k - size]]

Caches ==
  ({"set"} \X SetIds) \union ({"width"} \X Threads)
    \union ({"plan", "recursion"} \X Threads \X Retaining)

CacheAt(id) ==
  CASE id[1] = "set" -> sets[id[2]]
    [] id[1] = "width" -> widths[id[2]]
    [] id[1] = "plan" -> plans[<<id[2], id[3]>>]
    [] id[1] = "recursion" -> recursions[<<id[2], id[3]>>]

Recent == [id \in Caches |-> Order(CacheAt(id))]
SlotsOf ==
  [id \in Caches |-> CASE id[1] = "set" -> Ways
                       [] id[1] = "width" -> WidthSlots
                       [] OTHER -> PlanSlots]

Recency == INSTANCE RecentEntries WITH Slots <- SlotsOf, recent <- Recent

\* Racing and nested stores leave every cache what it promises: the latest
\* entries, no key twice, the oldest replaced first (plan/cache.rs:382).
CachesKeepLatest == Recency!Spec
=============================================================================

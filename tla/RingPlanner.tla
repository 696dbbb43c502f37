------------------------------ MODULE RingPlanner ------------------------------
(***************************************************************************)
(* The search behind the plan caches (math/mul/ssa/plan): the cheapest      *)
(* transform geometry of a Fermat ring, priced by a recurrence over the     *)
(* nested rings of its coefficients with a small memo of priced rings, and  *)
(* the half-width of a Mersenne recursion (geometry.rs, cost.rs).           *)
(*                                                                         *)
(* Costs of products too small for a transform are constants of the model.  *)
(* Widths stay far from the machine word, so checked arithmetic succeeds.   *)
(***************************************************************************)
EXTENDS Naturals, Sequences, SequencesExt

CONSTANTS
  LimbBits,
  BaseBits,          \* SSA_BASE_MODULUS_BITS
  BaseLimbs,         \* SSA_BNM1_BASECASE_LIMBS
  MaxDepth,          \* MAX_COST_RECURSION_DEPTH
  MemoSlots,         \* COST_MEMO_SLOTS
  LeafCost(_, _),    \* the cost of a product of so many limbs, by operation
  VisitOverhead, Sqrt2Passes, NestedPenalty,
  Requests           \* the searches asked for

NoCost == [found |-> FALSE, cost |-> 0]

(***************************************************************************)
(* Geometries (geometry.rs).                                               *)
(***************************************************************************)
Log2(n) == CHOOSE k \in 0 .. n : 2 ^ k <= n /\ n < 2 ^ (k + 1)
TrailingZeros(n) == CHOOSE k \in 0 .. n : n % 2 ^ k = 0 /\ n % 2 ^ (k + 1) # 0
Larger(a, b) == IF a >= b THEN a ELSE b
RoundUp(n, unit) == ((n + unit - 1) \div unit) * unit
CeilDiv(n, d) == (n + d - 1) \div d
NextPowerOfTwo(n) == CHOOSE p \in {2 ^ k : k \in 0 .. n} : p >= n /\ p < 2 * n

ModLimbs(bits) == bits \div LimbBits
CoeffLimbs(bits) == ModLimbs(bits) + 1

Shape(log, chunk, inner) ==
  [len |-> 2 ^ log, log |-> log, chunk |-> chunk, inner |-> inner,
   twist |-> (2 * inner) \div 2 ^ log]

TwoPoint(bits) ==
  LET aligned == bits + LimbBits
  IN  [Shape(1, bits \div 2, IF aligned <= BaseBits THEN aligned ELSE NextPowerOfTwo(bits + 2))
         EXCEPT !.twist = IF aligned <= BaseBits THEN aligned ELSE NextPowerOfTwo(bits + 2)]

\* The centred coefficients fit, and two has the root of unity it must.
Assembles(log, chunk, inner) ==
  /\ 2 * chunk + log < inner
  /\ inner >= 2 ^ log \div 2
  /\ (2 * inner) % 2 ^ log = 0

Assemble(log, chunk, inner) ==
  IF Assembles(log, chunk, inner) THEN <<Shape(log, chunk, inner)>> ELSE <<>>

SearchCentre(width) == Larger(Log2(width) \div 2, 1)

\* Rounds up to the nested transform's length until that no longer grows.
RECURSIVE NestedRingBits(_, _, _)
NestedRingBits(width, alignment, bump) ==
  LET rounded == RoundUp(width, Larger(Larger(alignment, 2 ^ (SearchCentre(width) + bump)), LimbBits))
  IN  IF rounded = width THEN width ELSE NestedRingBits(rounded, alignment, bump)

AlignedCandidates(log, chunk, aligned, alignment) ==
  LET nested == [bump \in 1 .. 3 |-> NestedRingBits(aligned, alignment, bump)]
      fresh == SelectSeq(<<1, 2, 3>>, LAMBDA b : b = 1 \/ nested[b] # nested[b - 1])
  IN  IF aligned <= BaseBits THEN Assemble(log, chunk, aligned)
      ELSE FlattenSeq([i \in DOMAIN fresh |-> Assemble(log, chunk, nested[fresh[i]])])

ExponentCandidates(log, bits, wholeStep) ==
  LET len == 2 ^ log
      alignment == Larger(IF wholeStep THEN len ELSE len \div 2, LimbBits)
      needed == 2 * (bits \div len) + log + 1
  IN  IF bits % len # 0 THEN <<>>
      ELSE AlignedCandidates(log, bits \div len, RoundUp(needed, alignment), alignment)

\* All geometries of one exponent, each coefficient width once.
FirstOfEach(all) ==
  LET first == SelectSeq([i \in DOMAIN all |-> i],
                         LAMBDA i : \A j \in 1 .. i - 1 : all[j].inner # all[i].inner)
  IN  [i \in DOMAIN first |-> all[first[i]]]
DistinctCandidates(log, bits) ==
  FirstOfEach(ExponentCandidates(log, bits, FALSE) \o ExponentCandidates(log, bits, TRUE))

Candidates(bits) ==
  FlattenSeq([log \in 1 .. TrailingZeros(bits) - 1 |-> DistinctCandidates(log, bits)])

(***************************************************************************)
(* CostMemo (cache.rs): a ring of slots, overwritten in turn.               *)
(***************************************************************************)
EmptyMemo(slots) == [slots |-> [i \in 1 .. slots |-> NoCost], next |-> 0]
MemoKey_AnyDepth(bits, depth, op) == <<bits, op>>

MemoKey(bits, depth, op) == <<bits, depth, op>>
Remembered(memo, k) == {i \in DOMAIN memo.slots : memo.slots[i].found /\ memo.slots[i].key = k}
Recall(memo, k) == memo.slots[CHOOSE i \in Remembered(memo, k) : TRUE].cost
Memorize(memo, k, cost) ==
  IF memo.slots = <<>> THEN memo
  ELSE [slots |-> [memo.slots EXCEPT ![memo.next + 1] = [found |-> TRUE, key |-> k, cost |-> cost]],
        next |-> (memo.next + 1) % Len(memo.slots)]

(***************************************************************************)
(* Prices (cost.rs).  Every search returns its result and the memo.        *)
(***************************************************************************)
Twice(op) == IF op = "Pair" THEN 2 ELSE 1
Forwards(op) == CASE op = "Multiply" -> 2 [] op = "Square" -> 1 [] op = "Pair" -> 3
Inverses(op) == IF op = "Pair" THEN 2 ELSE 1
PointOp(op) == IF op = "Square" THEN "Square" ELSE "Multiply"

TransformCost(g, op) ==
  LET sqrt2 == IF g.twist % 2 = 0 THEN 0 ELSE Sqrt2Passes
  IN  g.len * (Forwards(op) * (g.log + 1 + sqrt2) + Inverses(op) * (g.log + 2 + sqrt2))
        * (CoeffLimbs(g.inner) + VisitOverhead)

Nests(g) == g.inner > BaseBits

\* Dominated by half the length in the same ring, or nesting without shrinking.
Priceless(g, bits) ==
  \/ 2 * (2 * g.chunk + g.log) < g.inner
  \/ Nests(g) /\ g.inner >= bits

Surcharged(g, cost) == IF Nests(g) THEN (cost * NestedPenalty) \div 16 ELSE cost

Found(cost, memo) == [found |-> TRUE, cost |-> cost, memo |-> memo]

\* The first of the cheapest wins, and every price leaves its memo.
Cheaper(best, price, choice) ==
  IF price.found /\ (~ best.found \/ price.cost < best.cost)
  THEN [found |-> TRUE, cost |-> price.cost, choice |-> choice, memo |-> price.memo]
  ELSE [best EXCEPT !.memo = price.memo]
NoneYet(memo) == [found |-> FALSE, cost |-> 0, memo |-> memo]

RECURSIVE BestExponent(_, _, _, _), RingCost(_, _, _, _)

Whole(g, op, unit) == Found(TransformCost(g, op) + g.len * Surcharged(g, unit.cost) * Twice(op), unit.memo)

Price(g, bits, depth, op, memo) ==
  IF Priceless(g, bits) THEN [found |-> FALSE, memo |-> memo]
  ELSE Whole(g, op, RingCost(g.inner, depth + 1, PointOp(op), memo))

BestExponent(bits, depth, op, memo) ==
  FoldLeft(LAMBDA best, g : Cheaper(best, Price(g, bits, depth, op, best.memo), g),
           NoneYet(memo), Candidates(bits))

\* A ring no transform is worth it for costs its direct product.
Noted(best, bits, op, k) ==
  LET cost == IF best.found THEN best.cost ELSE LeafCost(CoeffLimbs(bits), "Multiply") * Twice(op)
  IN  Found(cost, Memorize(best.memo, k, cost))

RingCost(bits, depth, op, memo) ==
  LET k == MemoKey(bits, depth, op)
  IN  IF bits <= BaseBits THEN Found(LeafCost(ModLimbs(bits), op), memo)
      ELSE IF depth >= MaxDepth
      THEN Found(LeafCost(ModLimbs(bits), "Multiply") * Twice(op), memo)
      ELSE IF Remembered(memo, k) # {} THEN Found(Recall(memo, k), memo)
      ELSE Noted(BestExponent(bits, depth, op, memo), bits, op, k)

OrTwoPoint(best, bits) ==
  IF best.found THEN [geometry |-> best.choice, cost |-> best.cost]
  ELSE [geometry |-> TwoPoint(bits), cost |-> 0]
BestForOperation(bits, op, memo) == OrTwoPoint(BestExponent(bits, 0, op, memo), bits)

(***************************************************************************)
(* Half-widths of a product modulo B^(2n) - 1 (cost.rs).                    *)
(***************************************************************************)
Minimum(required) == Larger(CeilDiv(required, 2 * LimbBits), 2)

\* The smallest legal half-width.
CrtHalfWidth(required) ==
  LET step == NextPowerOfTwo(CeilDiv(Minimum(required), BaseLimbs))
  IN  RoundUp(Minimum(required), step)

\* The widths at every alignment up to the first that covers the minimum.
CrtCandidates(required) ==
  LET n == Minimum(required)
      steps == Log2(NextPowerOfTwo(n)) + 1
      aligned == [i \in 1 .. steps |-> CeilDiv(n, 2 ^ (i - 1))]
      legal == SelectSeq([i \in 1 .. steps |-> i], LAMBDA i : aligned[i] <= BaseLimbs)
      widths == [j \in DOMAIN legal |-> aligned[legal[j]] * 2 ^ (legal[j] - 1)]
      fresh == SelectSeq([j \in DOMAIN widths |-> j],
                         LAMBDA j : j = 1 \/ widths[j] # widths[j - 1])
  IN  IF n <= BaseLimbs THEN <<n>> ELSE [j \in DOMAIN fresh |-> widths[fresh[j]]]

Staging(op) == CASE op = "Multiply" -> 2 [] op = "Square" -> 1 [] op = "Pair" -> 3
Merge(op) == IF op = "Pair" THEN 4 ELSE 2

\* The rings below the first and the leaf of a recursion, from a width down.
RECURSIVE CrtLevels(_, _, _)
Plus(ring, cost) == [ring EXCEPT !.cost = @ + cost]
CrtLevels(width, op, priced) ==
  IF width <= BaseLimbs THEN Plus(priced, LeafCost(width, PointOp(op)) * Twice(op))
  ELSE CrtLevels(width \div 2, op,
         Plus(RingCost((width \div 2) * LimbBits, 0, op, priced.memo),
              priced.cost + width * (2 * Staging(op) + Merge(op))))

CrtWork(width, op, memo) ==
  CrtLevels(width, op, Plus(RingCost(width * LimbBits, 0, op, memo), width * (Staging(op) + Merge(op))))

Winner(best) == [width |-> best.choice, cost |-> best.cost]
BestCrtHalfWidth(required, op, memo) ==
  Winner(FoldLeft(LAMBDA best, width : Cheaper(best, CrtWork(width, op, best.memo), width),
                  NoneYet(memo), CrtCandidates(required)))

(***************************************************************************)
(* One search per behaviour.                                               *)
(***************************************************************************)
VARIABLES
  request,    \* [kind, bits, op]
  result,     \* the geometry, or the half-width, and its cost
  done

vars == <<request, result, done>>

Init ==
  /\ request \in Requests
  /\ result = 0
  /\ done = FALSE

SearchGeometry ==
  /\ ~ done /\ request.kind = "geometry"
  /\ result' = BestForOperation(request.bits, request.op, EmptyMemo(MemoSlots))
  /\ done' = TRUE
  /\ UNCHANGED request

SearchHalfWidth ==
  /\ ~ done /\ request.kind = "half width"
  /\ result' = BestCrtHalfWidth(request.bits, request.op, EmptyMemo(MemoSlots))
  /\ done' = TRUE
  /\ UNCHANGED request

Next == SearchGeometry \/ SearchHalfWidth
Spec == Init /\ [][Next]_vars

(***************************************************************************)
(* Properties.                                                             *)
(***************************************************************************)
Searched(kind) == done /\ request.kind = kind

\* A chosen geometry splits its ring exactly, its coefficients hold every centred
\* sum of products, two is a root of unity of the order the transform needs, and
\* the nested ring of a ring that is transformed again is smaller, so planning
\* ends (geometry.rs:30, product/plan.rs:86).
GeometrySound ==
  Searched("geometry") =>
    LET g == result.geometry IN
    /\ g.chunk * g.len = request.bits
    /\ g.len = 2 ^ g.log /\ 2 * g.chunk + g.log < g.inner
    /\ g.twist * g.len = 2 * g.inner
    /\ g.inner % LimbBits = 0
    /\ request.bits > BaseBits => g.inner < request.bits

\* The memo, whatever it has evicted, changes no choice and no cost: its key names all that
\* the price of a ring depends on (cache.rs:36).
MemoChangesNothing ==
  /\ Searched("geometry") =>
       result = BestForOperation(request.bits, request.op, EmptyMemo(0))
  /\ Searched("half width") =>
       result = BestCrtHalfWidth(request.bits, request.op, EmptyMemo(0))

\* A recursion from n limbs meets no odd width above the basecase.
Halvable(n) == \A j \in 0 .. Log2(n) : n \div 2 ^ j > BaseLimbs => (n \div 2 ^ j) % 2 = 0
Legal(n, required) == n >= 2 /\ 2 * n * LimbBits >= required /\ Halvable(n)

\* The half-width chosen holds the product and halves down to the basecase, and
\* the width that is not searched for is the least such width (cost.rs:318).
HalfWidthLegal ==
  Searched("half width") =>
    /\ Legal(result.width, request.bits)
    /\ LET least == CrtHalfWidth(request.bits) IN
         Legal(least, request.bits) /\ \A n \in 2 .. least - 1 : ~ Legal(n, request.bits)
=============================================================================

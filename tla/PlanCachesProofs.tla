-------------------------- MODULE PlanCachesProofs --------------------------
(***************************************************************************)
(* Whatever the caches of PlanCaches hold, evict or take over from another *)
(* thread, a planning call answers what the planner computes: for every    *)
(* set of threads, every search result and every number of slots.          *)
(*                                                                         *)
(* Every entry of every cache is exact for its key, and what a thread has  *)
(* planned so far is the beginning of the plan it was asked for: the       *)
(* geometries on its path are a chain from the outermost ring down, and    *)
(* what it came back with hangs below the last of them.                    *)
(*                                                                         *)
(* The second half shows that the slots and cursors of the caches keep     *)
(* what RecentEntries promises: entries are stored in turn, so the order   *)
(* in which they were stored can be read off the slots, and a thread       *)
(* retains a plan that is not retained yet, because the rings on its path  *)
(* are narrower the further down.                                          *)
(***************************************************************************)
EXTENDS PlanCaches, TLAPS, SequenceTheorems, WellFoundedInduction

-----------------------------------------------------------------------------
(* What a cache holds.                                                     *)

CacheShape(c, size) ==
  /\ c = [slots |-> c.slots, next |-> c.next]
  /\ c.slots = [i \in 1 .. size |-> c.slots[i]]
  /\ c.next \in Nat

Filled(c) == {c.slots[i] : i \in DOMAIN c.slots} \ {None}

-----------------------------------------------------------------------------
(* The plans.                                                              *)

Geometries == {Best(b, op) : b \in RingWidths, op \in Operations}
Plans == Seq(Geometries)
Levels == [half : Nat, plan : Plans]

RingJobs == [kind : {"ring"}, key : RingWidths, op : Operations]
RecursionJobs == [kind : {"recursion"}, key : LevelLimbs, op : Retaining]

\* A chain of geometries from a ring down.
Chain(p, bits, op) ==
  /\ p[1] = Best(bits, op)
  /\ \A i \in 1 .. Len(p) - 1 :
       p[i].inner > BaseBits /\ p[i + 1] = Best(p[i].inner, CoefficientOp(op))

\* What a thread came back with to a geometry whose coefficients are in this ring.
Below(inner, p, op) ==
  IF inner > BaseBits THEN IsPlan(p, inner, op) ELSE p = <<>>

\* The limbs a recursion has come down to with the levels it has.
Reached(v, n) == WidthAt(v, Len(v), n)

\* The ring a job plans at the outermost.
RootOf(j, c) == IF j.kind = "ring" THEN j.key ELSE c * LimbBits

OpAt(j, w) == IF w = <<>> THEN j.op ELSE CoefficientOp(j.op)

\* What a recursion from n limbs is answered.
RecursionExact(n, op, v) == Exact(Job("recursion", n, op), v)
EntryExact(e, op) == RecursionExact(e.key, op, e.value)

(***************************************************************************)
(* What holds of one thread: at p in job j, planning ring r below path w,  *)
(* having come back with l, in a recursion at c limbs with levels v, its   *)
(* last answer being a.                                                    *)
(***************************************************************************)
Places == {"idle", "geometry", "search", "retained", "ascend", "level"}
Descending == {"geometry", "search", "retained"}

\* The outermost ring is the job's, or the next level's.
AtRoot(j, c, v) ==
  \/ j \in RingJobs /\ v = <<>>
  \/ /\ j \in RecursionJobs /\ Halves(j.key)
     /\ IsRecursion(v, j.key, j.op)
     /\ Reached(v, j.key) > BaseLimbs /\ c = Reached(v, j.key) \div 2 /\ c \in LevelLimbs

InRing(j, w, c, v) ==
  /\ AtRoot(j, c, v)
  /\ RootOf(j, c) \in RingWidths
  /\ w # <<>> => Chain(w, RootOf(j, c), j.op)

Typed(w, l, c, v, a) ==
  /\ w \in Plans /\ l \in Plans /\ v \in Seq(Levels) /\ c \in LevelLimbs \union {0}
  /\ a # None => Exact(a.key, a.value)

Located(p, j, r, w, l, c, v) ==
  /\ p \in Places
  /\ p = "idle" => w = <<>> /\ l = <<>> /\ v = <<>>
  /\ p = "level" =>
       /\ j \in RecursionJobs /\ Halves(j.key) /\ w = <<>> /\ l = <<>>
       /\ IsRecursion(v, j.key, j.op) /\ c = Reached(v, j.key) /\ c \in LevelLimbs
  /\ p \in Descending \union {"ascend"} => InRing(j, w, c, v)
  /\ p \in Descending =>
       /\ l = <<>>
       /\ r = IF w = <<>> THEN RootOf(j, c) ELSE w[Len(w)].inner
       /\ w # <<>> => w[Len(w)].inner > BaseBits
  /\ p = "retained" => w # <<>>
  /\ p = "ascend" => w # <<>> /\ Below(w[Len(w)].inner, l, CoefficientOp(j.op))

Local(p, j, r, w, l, c, v, a) ==
  Typed(w, l, c, v, a) /\ Located(p, j, r, w, l, c, v)

-----------------------------------------------------------------------------
(* The inductive invariant.                                                *)

SharedInv ==
  /\ cells = [x \in PowersOfTwo \X Operations |-> cells[x]]
  /\ \A b \in PowersOfTwo, op \in Operations : cells[<<b, op>>] \in {None, Best(b, op)}
  /\ sets = [s \in SetIds |-> sets[s]]
  /\ \A s \in SetIds :
       /\ CacheShape(sets[s], Ways)
       /\ \A e \in Filled(sets[s]) : e.value = Best(e.key[1], e.key[2])

PlansHeld(f) ==
  /\ f = [x \in Threads \X Retaining |-> f[x]]
  /\ \A t \in Threads, op \in Retaining :
       /\ CacheShape(f[<< t, op >>], PlanSlots)
       /\ \A e \in Filled(f[<< t, op >>]) : e.value \in Plans /\ IsPlan(e.value, e.key, op)

RecursionsHeld(f) ==
  /\ f = [x \in Threads \X Retaining |-> f[x]]
  /\ \A t \in Threads, op \in Retaining :
       /\ CacheShape(f[<< t, op >>], PlanSlots)
       /\ \A e \in Filled(f[<< t, op >>]) : EntryExact(e, op)

PlansInv == PlansHeld(plans)
RecursionsInv == RecursionsHeld(recursions)

WidthsInv ==
  /\ widths = [t \in Threads |-> widths[t]]
  /\ \A t \in Threads :
       /\ CacheShape(widths[t], WidthSlots)
       /\ \A e \in Filled(widths[t]) : e.value = HalfWidth[<<e.key[1], e.key[2]>>]

OwnInv == PlansInv /\ RecursionsInv /\ WidthsInv

LocalDomains ==
  /\ pc = [t \in Threads |-> pc[t]] /\ job = [t \in Threads |-> job[t]]
  /\ ring = [t \in Threads |-> ring[t]] /\ path = [t \in Threads |-> path[t]]
  /\ tail = [t \in Threads |-> tail[t]] /\ current = [t \in Threads |-> current[t]]
  /\ levels = [t \in Threads |-> levels[t]] /\ answer = [t \in Threads |-> answer[t]]

LocalAt(t) ==
  Local(pc[t], job[t], ring[t], path[t], tail[t], current[t], levels[t], answer[t])

LocalInv == LocalDomains /\ \A t \in Threads : LocalAt(t)

IInv == SharedInv /\ OwnInv /\ LocalInv

-----------------------------------------------------------------------------
(* What the caches do with what they hold.                                 *)

\* Among naturals that are there, one is the least.
LEMMA Earliest ==
  ASSUME NEW S, S \subseteq Nat, S # {}
  PROVE  \E i \in S : \A j \in S : i <= j
<1>1. PICK n \in S : \A m \in S : ~ (<< m, n >> \in OpToRel(<, Nat))
  BY NatLessThanWellFounded, WFMin, Zenon
<1>2. \A m \in S : n <= m
  <2> TAKE m \in S
  <2>1. ~ (<< m, n >> \in OpToRel(<, Nat))
    BY <1>1
  <2>2. m \in Nat /\ n \in Nat
    OBVIOUS
  <2>3. ~ (m < n)
    BY <2>1, <2>2 DEF OpToRel
  <2> QED BY <2>2, <2>3
<1> QED BY <1>2

\* A hit returns the value of an entry with that key.
LEMMA CachedEntry ==
  ASSUME NEW c, NEW size \in Nat, CacheShape(c, size), NEW k, Holds(c, k)
  PROVE  \E e \in Filled(c) : e.key = k /\ Cached(c, k) = e.value
<1> DEFINE S == Matches(c, k)
           i == CHOOSE i \in S : \A j \in S : i <= j
<1>1. S \subseteq Nat /\ S # {} /\ \A n \in S : n \in DOMAIN c.slots
                                      /\ c.slots[n] # None /\ c.slots[n].key = k
  BY DEF CacheShape, Holds, Matches
<1> HIDE DEF S
<1>2. i \in S
  BY <1>1, Earliest
<1>3. Cached(c, k) = c.slots[i].value
  BY DEF Cached, S
<1> HIDE DEF i
<1> QED BY <1>1, <1>2, <1>3 DEF Filled

Replaced(c, k, e, n) == [slots |-> [c.slots EXCEPT ![k] = e], next |-> n]

\* Overwriting a slot adds one entry and keeps others.
LEMMA Overwritten ==
  ASSUME NEW c, NEW size \in Nat, CacheShape(c, size), NEW k, NEW e, NEW n \in Nat
  PROVE  /\ CacheShape(Replaced(c, k, e, n), size)
         /\ \A f \in Filled(Replaced(c, k, e, n)) : f \in Filled(c) \/ f = e
<1> DEFINE s == [c.slots EXCEPT ![k] = e]
           d == Replaced(c, k, e, n)
<1>1. c.slots = [i \in 1 .. size |-> c.slots[i]]
  BY DEF CacheShape
<1>2. s = [i \in 1 .. size |-> s[i]]
  BY <1>1
<1>3. \A i \in 1 .. size : s[i] = c.slots[i] \/ s[i] = e
  BY <1>1
<1>4. d = [slots |-> s, next |-> n]
  BY DEF Replaced
<1> HIDE DEF s, d
<1>5. d.slots = s /\ d.next = n /\ d = [slots |-> d.slots, next |-> d.next]
  BY <1>4
<1>6. DOMAIN s = 1 .. size /\ DOMAIN c.slots = 1 .. size
  BY <1>1, <1>2
<1>7. CacheShape(d, size)
  BY <1>2, <1>5 DEF CacheShape
<1>8. \A f \in Filled(d) : f \in Filled(c) \/ f = e
  BY <1>3, <1>5, <1>6 DEF Filled
<1> QED BY <1>7, <1>8 DEF d

LEMMA Length ==
  ASSUME NEW c, NEW size \in Nat, CacheShape(c, size)
  PROVE  Len(c.slots) = size
<1>1. c.slots = [i \in 1 .. size |-> c.slots[i]]
  BY DEF CacheShape
<1> DEFINE S == {c.slots[i] : i \in 1 .. size}
<1>2. \A i \in 1 .. size : c.slots[i] \in S
  OBVIOUS
<1> HIDE DEF S
<1>3. [i \in 1 .. size |-> c.slots[i]] \in Seq(S)
  BY <1>2, IsASeq
<1>4. c.slots \in Seq(S) /\ DOMAIN c.slots = 1 .. size
  BY <1>1, <1>3
<1> QED BY <1>4, LenProperties

LEMMA StoredAtCursor ==
  ASSUME NEW c, NEW size \in Nat \ {0}, CacheShape(c, size), NEW e
  PROVE  /\ CacheShape(AtCursor(c, e), size)
         /\ \A f \in Filled(AtCursor(c, e)) : f \in Filled(c) \/ f = e
<1> DEFINE n == (c.next + 1) % size
<1>1. n \in Nat
  BY DEF CacheShape
<1>2. AtCursor(c, e) = Replaced(c, c.next + 1, e, n)
  BY Length DEF AtCursor, Replaced
<1> HIDE DEF n
<1> QED BY <1>1, <1>2, Overwritten

LEMMA WidthInserted ==
  ASSUME NEW c, NEW size \in Nat \ {0}, CacheShape(c, size), NEW e
  PROVE  /\ CacheShape(InsertWidth(c, e), size)
         /\ \A f \in Filled(InsertWidth(c, e)) : f \in Filled(c) \/ f = e
BY StoredAtCursor DEF InsertWidth

LEMMA GeometryInserted ==
  ASSUME NEW c, NEW size \in Nat \ {0}, CacheShape(c, size), NEW e
  PROVE  /\ CacheShape(InsertGeometry(c, e), size)
         /\ \A f \in Filled(InsertGeometry(c, e)) : f \in Filled(c) \/ f = e
<1>1. CASE Holds(c, e.key)
  BY <1>1 DEF InsertGeometry
<1>2. CASE ~ Holds(c, e.key) /\ Vacant(c) # {}
  <2> DEFINE k == CHOOSE i \in Vacant(c) : \A j \in Vacant(c) : i <= j
             d == [c EXCEPT !.slots[k] = e]
  <2>1. InsertGeometry(c, e) = d
    BY <1>2 DEF InsertGeometry
  <2> HIDE DEF k
  <2>2. c = [slots |-> c.slots, next |-> c.next] /\ c.next \in Nat
    BY DEF CacheShape
  <2>3. d = Replaced(c, k, e, c.next)
    BY <2>2 DEF Replaced
  <2> HIDE DEF d
  <2> QED BY <2>1, <2>2, <2>3, Overwritten
<1>3. CASE ~ Holds(c, e.key) /\ ~ (Vacant(c) # {})
  BY <1>3, StoredAtCursor DEF InsertGeometry
<1> QED BY <1>1, <1>2, <1>3

LEMMA EntryRetained ==
  ASSUME NEW c, NEW size \in Nat \ {0}, CacheShape(c, size), NEW e
  PROVE  /\ CacheShape(Retain(c, e), size)
         /\ \A f \in Filled(Retain(c, e)) : f \in Filled(c) \/ f = e
<1> DEFINE slot == c.next % size
<1>1. slot + 1 \in Nat
  BY DEF CacheShape
<1>2. Retain(c, e) = Replaced(c, slot + 1, e, slot + 1)
  BY Length DEF Retain, Replaced
<1> HIDE DEF slot
<1> QED BY <1>1, <1>2, Overwritten

LEMMA EmptyShape ==
  ASSUME NEW size \in Nat
  PROVE  CacheShape(Empty(size), size) /\ Filled(Empty(size)) = {}
BY DEF CacheShape, Filled, Empty

-----------------------------------------------------------------------------
(* Chains of geometries.                                                   *)

LEMMA BestFacts ==
  ASSUME NEW bits \in RingWidths, NEW op \in Operations
  PROVE  /\ Best(bits, op) \in Geometries
         /\ Best(bits, op).bits = bits /\ Best(bits, op).inner \in Nat
         /\ Best(bits, op).inner > BaseBits => Best(bits, op).inner \in RingWidths
BY RingAssumption DEF Best, Geometries

LEMMA GeometryFacts ==
  ASSUME NEW g \in Geometries
  PROVE  /\ g.inner \in Nat
         /\ g.inner > BaseBits => g.inner \in RingWidths
<1>1. PICK bits \in RingWidths, op \in Operations : g = Best(bits, op)
  BY DEF Geometries
<1> QED BY <1>1, BestFacts

LEMMA OperationFacts ==
  /\ Retaining \subseteq Operations
  /\ \A op \in Operations : CoefficientOp(op) \in Retaining
  /\ \A op \in Retaining : CoefficientOp(op) = op
  /\ \A op \in Operations : CoefficientOp(CoefficientOp(op)) = CoefficientOp(op)
BY DEF Operations, Retaining, CoefficientOp

\* A geometry whose ring is that of the last one's coefficients extends the chain.
LEMMA ChainExtended ==
  ASSUME NEW w \in Plans, NEW bits \in RingWidths, NEW op \in Operations,
         w # <<>> => Chain(w, bits, op) /\ w[Len(w)].inner > BaseBits,
         NEW r, r = IF w = <<>> THEN bits ELSE w[Len(w)].inner,
         NEW o, o = IF w = <<>> THEN op ELSE CoefficientOp(op),
         NEW g \in Geometries, g = Best(r, o)
  PROVE  /\ Append(w, g) \in Plans /\ Append(w, g) # <<>>
         /\ Append(w, g)[Len(Append(w, g))] = g
         /\ Chain(Append(w, g), bits, op)
<1> DEFINE u == Append(w, g)
           n == Len(w)
<1>1. /\ u \in Plans /\ n \in Nat /\ Len(u) = n + 1 /\ u[n + 1] = g
      /\ \A i \in 1 .. n : u[i] = w[i]
  BY AppendProperties, LenProperties DEF Plans
<1>2. w = <<>> <=> n = 0
  BY EmptySeq DEF Plans
<1> HIDE DEF u, n
<1>3. u # <<>>
  BY <1>1, EmptySeq DEF Plans
<1>4. u[1] = Best(bits, op)
  <2>1. CASE w = <<>>
    BY <1>1, <1>2, <2>1
  <2>2. CASE w # <<>>
    <3>1. 1 \in 1 .. n
      BY <1>1, <1>2, <2>2
    <3> QED BY <1>1, <2>2, <3>1 DEF Chain
  <2> QED BY <2>1, <2>2
<1>5. ASSUME NEW i \in 1 .. Len(u) - 1
      PROVE  u[i].inner > BaseBits /\ u[i + 1] = Best(u[i].inner, CoefficientOp(op))
  <2>1. i \in 1 .. n /\ w # <<>>
    BY <1>1, <1>2, <1>5
  <2>2. CASE i = n
    <3>1. u[i] = w[n] /\ u[i + 1] = g
      BY <1>1, <2>1, <2>2
    <3> QED BY <2>1, <3>1 DEF n
  <2>3. CASE i # n
    <3>1. i \in 1 .. n - 1 /\ i + 1 \in 1 .. n
      BY <1>1, <2>1, <2>3
    <3>2. w[i].inner > BaseBits /\ w[i + 1] = Best(w[i].inner, CoefficientOp(op))
      BY <2>1, <3>1 DEF Chain, n
    <3> QED BY <1>1, <2>1, <3>1, <3>2
  <2> QED BY <2>2, <2>3
<1>6. Chain(u, bits, op)
  BY <1>4, <1>5 DEF Chain
<1>7. u[Len(u)] = g
  BY <1>1
<1> QED BY <1>1, <1>3, <1>6, <1>7 DEF u

\* A geometry and what hangs below it are the plan of its ring.
LEMMA PlanCompleted ==
  ASSUME NEW bits, NEW op \in Operations, NEW g \in Geometries, g = Best(bits, op),
         NEW l \in Plans, Below(g.inner, l, CoefficientOp(op)),
         NEW u, u = << g >> \o l
  PROVE  u \in Plans /\ IsPlan(u, bits, op)
<1> DEFINE n == Len(l)
<1>1. << g >> \in Plans /\ Len(<< g >>) = 1 /\ << g >>[1] = g
  BY DEF Plans
<1>2. n \in Nat
  BY LenProperties DEF Plans
<1>3. /\ u \in Plans /\ Len(u) = n + 1 /\ u[1] = g
      /\ \A i \in 1 .. n : u[i + 1] = l[i]
  <2>1. ASSUME NEW a \in Seq(Geometries), NEW b \in Seq(Geometries), Len(a) = 1, a[1] = g
        PROVE  /\ a \o b \in Seq(Geometries) /\ Len(a \o b) = Len(b) + 1 /\ (a \o b)[1] = g
               /\ \A i \in 1 .. Len(b) : (a \o b)[i + 1] = b[i]
    <3>1. /\ a \o b \in Seq(Geometries) /\ Len(a \o b) = Len(a) + Len(b)
          /\ \A i \in 1 .. Len(a) + Len(b) :
               (a \o b)[i] = IF i <= Len(a) THEN a[i] ELSE b[i - Len(a)]
      BY ConcatProperties
    <3>2. Len(b) \in Nat
      BY LenProperties
    <3>3. 1 \in 1 .. Len(a) + Len(b)
      BY <2>1, <3>2
    <3>4. \A i \in 1 .. Len(b) : i + 1 \in 1 .. Len(a) + Len(b) /\ ~ (i + 1 <= Len(a))
                                 /\ (i + 1) - Len(a) = i
      BY <2>1, <3>2
    <3> QED BY <2>1, <3>1, <3>2, <3>3, <3>4
  <2> QED BY <1>1, <2>1 DEF Plans
<1>4. u # <<>>
  BY <1>2, <1>3, EmptySeq DEF Plans
<1>5. g.inner \in Nat /\ BaseBits \in Nat
  BY GeometryFacts, RingAssumption
<1> HIDE DEF n
<1>6. CASE g.inner > BaseBits
  <2>1. IsPlan(l, g.inner, CoefficientOp(op))
    BY <1>6 DEF Below
  <2>2. /\ l # <<>> /\ l[1] = Best(g.inner, CoefficientOp(op))
        /\ \A i \in 1 .. n - 1 :
             l[i].inner > BaseBits
               /\ l[i + 1] = Best(l[i].inner, CoefficientOp(CoefficientOp(op)))
        /\ l[n].inner <= BaseBits
    BY <2>1 DEF IsPlan, n
  <2>3. n >= 1
    <3>1. n # 0
      BY <2>2, EmptySeq DEF n, Plans
    <3> QED BY <1>2, <3>1
  <2>4. u[Len(u)].inner <= BaseBits
    <3>1. n \in 1 .. n
      BY <1>2, <2>3
    <3>2. u[n + 1] = l[n]
      BY <1>3, <3>1
    <3> QED BY <1>3, <2>2, <3>2
  <2>5. ASSUME NEW i \in 1 .. Len(u) - 1
        PROVE  u[i].inner > BaseBits /\ u[i + 1] = Best(u[i].inner, CoefficientOp(op))
    <3>1. i \in 1 .. n /\ 1 \in 1 .. n
      BY <1>2, <1>3, <2>5, <2>3
    <3>2. CASE i = 1
      <4>1. u[1] = g /\ u[2] = l[1]
        BY <1>3, <3>1
      <4> QED BY <1>6, <2>2, <3>2, <4>1
    <3>3. CASE i # 1
      <4>1. i - 1 \in 1 .. n - 1 /\ i - 1 \in 1 .. n /\ (i - 1) + 1 = i
        BY <1>2, <3>1, <3>3
      <4>2. u[i] = l[i - 1] /\ u[i + 1] = l[i]
        BY <1>3, <3>1, <4>1
      <4>3. l[i - 1].inner > BaseBits
              /\ l[i] = Best(l[i - 1].inner, CoefficientOp(CoefficientOp(op)))
        BY <2>2, <4>1
      <4> QED BY <4>2, <4>3, OperationFacts
    <3> QED BY <3>2, <3>3
  <2> QED BY <1>3, <1>4, <2>4, <2>5 DEF IsPlan
<1>7. CASE ~ (g.inner > BaseBits)
  <2>1. l = <<>>
    BY <1>7 DEF Below
  <2>2. n = 0
    BY <2>1, EmptySeq DEF n
  <2>3. Len(u) = 1
    BY <1>3, <2>2
  <2>4. u[Len(u)].inner <= BaseBits
    BY <1>3, <1>5, <1>7, <2>3
  <2>5. 1 .. Len(u) - 1 = {}
    BY <2>3
  <2> QED BY <1>3, <1>4, <2>4, <2>5 DEF IsPlan
<1> QED BY <1>6, <1>7

\* Without its last geometry a chain is one still, and the last is the cheapest of
\* the ring the one before it leads to.
LEMMA ChainShortened ==
  ASSUME NEW w \in Plans, NEW bits, NEW op \in Operations, Chain(w, bits, op), Len(w) > 1
  PROVE  /\ Front(w) \in Plans /\ Front(w) # <<>>
         /\ Chain(Front(w), bits, op)
         /\ Front(w)[Len(Front(w))].inner > BaseBits
         /\ w[Len(w)] = Best(Front(w)[Len(Front(w))].inner, CoefficientOp(op))
<1> DEFINE n == Len(w)
           u == Front(w)
<1>1. n \in Nat /\ n > 1
  BY LenProperties DEF Plans
<1>2. u = SubSeq(w, 1, n - 1)
  BY DEF Front
<1>3. u \in Plans /\ Len(u) = n - 1 /\ \A i \in 1 .. n - 1 : u[i] = w[i]
  <2>1. 1 .. n - 1 \subseteq 1 .. Len(w) /\ n - 1 \in Nat
    BY <1>1
  <2> QED BY <1>1, <1>2, <2>1, SubSeqProperties DEF Plans
<1>4. /\ w[1] = Best(bits, op)
      /\ \A i \in 1 .. n - 1 :
           w[i].inner > BaseBits /\ w[i + 1] = Best(w[i].inner, CoefficientOp(op))
  BY DEF Chain
<1> HIDE DEF n, u
<1>5. u # <<>>
  BY <1>1, <1>3, EmptySeq DEF Plans
<1>6. u[1] = Best(bits, op)
  <2>1. 1 \in 1 .. n - 1
    BY <1>1
  <2> QED BY <1>3, <1>4, <2>1
<1>7. ASSUME NEW i \in 1 .. Len(u) - 1
      PROVE  u[i].inner > BaseBits /\ u[i + 1] = Best(u[i].inner, CoefficientOp(op))
  <2>1. i \in 1 .. n - 1 /\ i + 1 \in 1 .. n - 1
    BY <1>1, <1>3, <1>7
  <2> QED BY <1>3, <1>4, <2>1
<1>8. Chain(u, bits, op)
  BY <1>6, <1>7 DEF Chain
<1>9. u[Len(u)].inner > BaseBits /\ w[n] = Best(u[Len(u)].inner, CoefficientOp(op))
  <2>1. n - 1 \in 1 .. n - 1 /\ (n - 1) + 1 = n
    BY <1>1
  <2>2. w[n - 1].inner > BaseBits /\ w[n] = Best(w[n - 1].inner, CoefficientOp(op))
    BY <1>4, <2>1
  <2>3. u[Len(u)] = w[n - 1]
    BY <1>3, <2>1
  <2> QED BY <2>2, <2>3
<1> QED BY <1>3, <1>5, <1>8, <1>9 DEF n, u

-----------------------------------------------------------------------------
(* The steps of one planning call.                                         *)

\* The last geometry of a path.
LEMMA LastGeometry ==
  ASSUME NEW w \in Plans, w # <<>>
  PROVE  Len(w) \in Nat /\ Len(w) >= 1 /\ w[Len(w)] \in Geometries
<1>1. Len(w) \in Nat /\ Len(w) # 0
  BY LenProperties, EmptySeq DEF Plans
<1>2. Len(w) \in 1 .. Len(w)
  BY <1>1
<1> QED BY <1>1, <1>2, ElementOfSeq DEF Plans

LEMMA JobOperation ==
  ASSUME NEW j, NEW w, NEW c, NEW v, InRing(j, w, c, v)
  PROVE  /\ j.op \in Operations /\ CoefficientOp(j.op) \in Retaining
         /\ OpAt(j, w) \in Operations
         /\ j.kind = "ring" \/ j.kind = "recursion"
<1>1. j.op \in Operations /\ (j.kind = "ring" \/ j.kind = "recursion")
  BY OperationFacts DEF InRing, AtRoot, RingJobs, RecursionJobs
<1> QED BY <1>1, OperationFacts DEF OpAt

\* The ring planned is one the search knows.
LEMMA RingPlanned ==
  ASSUME NEW p, NEW j, NEW r, NEW w, NEW l, NEW c, NEW v, NEW a,
         Local(p, j, r, w, l, c, v, a), p \in Descending
  PROVE  r \in RingWidths
<1>1. /\ w \in Plans /\ RootOf(j, c) \in RingWidths
      /\ r = IF w = <<>> THEN RootOf(j, c) ELSE w[Len(w)].inner
      /\ w # <<>> => w[Len(w)].inner > BaseBits
  BY DEF Local, Typed, Located, InRing
<1>2. w # <<>> => w[Len(w)].inner \in RingWidths
  BY <1>1, LastGeometry, GeometryFacts
<1> QED BY <1>1, <1>2

LEMMA Descended ==
  ASSUME NEW p, NEW j, NEW r, NEW w, NEW l, NEW c, NEW v, NEW a,
         Local(p, j, r, w, l, c, v, a), p \in {"geometry", "search"},
         NEW g, g = Best(r, OpAt(j, w)),
         NEW q, q = IF g.inner > BaseBits THEN "retained" ELSE "ascend"
  PROVE  Local(q, j, g.inner, Append(w, g), l, c, v, a)
<1>1. p \in Descending
  BY DEF Descending
<1>2. /\ Typed(w, l, c, v, a) /\ InRing(j, w, c, v) /\ l = <<>> /\ w \in Plans
      /\ RootOf(j, c) \in RingWidths
      /\ r = IF w = <<>> THEN RootOf(j, c) ELSE w[Len(w)].inner
      /\ w # <<>> => Chain(w, RootOf(j, c), j.op) /\ w[Len(w)].inner > BaseBits
  BY <1>1 DEF Local, Typed, Located, InRing
<1>3. r \in RingWidths
  BY <1>1, RingPlanned
<1>4. /\ j.op \in Operations /\ OpAt(j, w) \in Operations
      /\ OpAt(j, w) = IF w = <<>> THEN j.op ELSE CoefficientOp(j.op)
  BY <1>2, JobOperation DEF OpAt
<1>5. g \in Geometries
  BY <1>3, <1>4, BestFacts
<1> DEFINE u == Append(w, g)
<1>6. u \in Plans /\ u # <<>> /\ u[Len(u)] = g /\ Chain(u, RootOf(j, c), j.op)
  BY <1>2, <1>4, <1>5, ChainExtended
<1> HIDE DEF u
<1>7. Typed(u, l, c, v, a)
  BY <1>2, <1>6 DEF Typed
<1>8. InRing(j, u, c, v)
  BY <1>2, <1>6 DEF InRing
<1>9. CASE g.inner > BaseBits
  <2>1. q = "retained"
    BY <1>9
  <2>2. Located(q, j, g.inner, u, l, c, v)
    BY <1>2, <1>6, <1>8, <1>9, <2>1 DEF Located, Places, Descending
  <2> QED BY <1>7, <2>2 DEF Local, u
<1>10. CASE ~ (g.inner > BaseBits)
  <2>1. q = "ascend"
    BY <1>10
  <2>2. Below(g.inner, l, CoefficientOp(j.op))
    BY <1>2, <1>10 DEF Below
  <2>3. Located(q, j, g.inner, u, l, c, v)
    BY <1>6, <1>8, <2>1, <2>2 DEF Located, Places, Descending
  <2> QED BY <1>7, <2>3 DEF Local, u
<1> QED BY <1>9, <1>10

LEMMA Missed ==
  ASSUME NEW p, NEW j, NEW r, NEW w, NEW l, NEW c, NEW v, NEW a,
         Local(p, j, r, w, l, c, v, a), p \in Descending,
         NEW q \in {"geometry", "search"}
  PROVE  Local(q, j, r, w, l, c, v, a)
BY DEF Local, Located, Places, Descending

LEMMA PlanFound ==
  ASSUME NEW j, NEW r, NEW w, NEW l, NEW c, NEW v, NEW a,
         Local("retained", j, r, w, l, c, v, a),
         NEW m \in Plans, IsPlan(m, r, CoefficientOp(j.op))
  PROVE  Local("ascend", j, r, w, m, c, v, a)
<1>1. /\ Typed(w, l, c, v, a) /\ InRing(j, w, c, v) /\ w # <<>>
      /\ r = w[Len(w)].inner /\ w[Len(w)].inner > BaseBits
  BY DEF Local, Located, Descending
<1>2. Below(w[Len(w)].inner, m, CoefficientOp(j.op))
  BY <1>1 DEF Below
<1>3. Typed(w, m, c, v, a)
  BY <1>1 DEF Typed
<1>4. Located("ascend", j, r, w, m, c, v)
  BY <1>1, <1>2 DEF Located, Places, Descending
<1> QED BY <1>3, <1>4 DEF Local

LEMMA AscendedNested ==
  ASSUME NEW j, NEW r, NEW w, NEW l, NEW c, NEW v, NEW a,
         Local("ascend", j, r, w, l, c, v, a), Len(w) > 1,
         NEW u, u = << w[Len(w)] >> \o l
  PROVE  /\ u \in Plans /\ IsPlan(u, w[Len(w)].bits, CoefficientOp(j.op))
         /\ Local("ascend", j, r, Front(w), u, c, v, a)
<1> DEFINE g == w[Len(w)]
           f == Front(w)
           o == CoefficientOp(j.op)
<1>1. /\ Typed(w, l, c, v, a) /\ InRing(j, w, c, v) /\ w # <<>> /\ w \in Plans /\ l \in Plans
      /\ Below(g.inner, l, o) /\ Chain(w, RootOf(j, c), j.op)
  BY DEF Local, Typed, Located, InRing, Descending
<1>2. j.op \in Operations /\ o \in Operations /\ CoefficientOp(o) = o
  BY <1>1, JobOperation, OperationFacts
<1>3. /\ f \in Plans /\ f # <<>> /\ Chain(f, RootOf(j, c), j.op)
      /\ f[Len(f)].inner > BaseBits
      /\ g = Best(f[Len(f)].inner, o)
  BY <1>1, <1>2, ChainShortened
<1>4. g \in Geometries
  BY <1>1, LastGeometry
<1> HIDE DEF g, f, o
<1>5. u = << g >> \o l
  BY DEF g
<1> DEFINE b == f[Len(f)].inner
<1>6. g = Best(b, o)
  BY <1>3
<1>7. g.bits = b
  BY <1>6 DEF Best
<1>8. Below(g.inner, l, CoefficientOp(o))
  BY <1>1, <1>2
<1> HIDE DEF b
<1>9. u \in Plans /\ IsPlan(u, b, o)
  BY <1>1, <1>2, <1>4, <1>5, <1>6, <1>8, PlanCompleted
<1>10. Below(f[Len(f)].inner, u, o)
  BY <1>3, <1>9 DEF Below, b
<1>11. Typed(f, u, c, v, a)
  BY <1>1, <1>3, <1>9 DEF Typed
<1>12. InRing(j, f, c, v)
  BY <1>1, <1>3 DEF InRing
<1>13. Located("ascend", j, r, f, u, c, v)
  BY <1>3, <1>10, <1>12 DEF Located, Places, Descending, o
<1> QED BY <1>7, <1>9, <1>11, <1>13 DEF Local, f, g, o

LEMMA AscendedOutermost ==
  ASSUME NEW j, NEW r, NEW w, NEW l, NEW c, NEW v, NEW a,
         Local("ascend", j, r, w, l, c, v, a), Len(w) = 1,
         NEW u, u = << w[Len(w)] >> \o l
  PROVE  u \in Plans /\ IsPlan(u, RootOf(j, c), j.op)
<1> DEFINE g == w[Len(w)]
<1>1. /\ Typed(w, l, c, v, a) /\ InRing(j, w, c, v) /\ w # <<>> /\ w \in Plans /\ l \in Plans
      /\ Below(g.inner, l, CoefficientOp(j.op)) /\ Chain(w, RootOf(j, c), j.op)
  BY DEF Local, Typed, Located, InRing, Descending
<1>2. j.op \in Operations
  BY <1>1, JobOperation
<1>3. g = Best(RootOf(j, c), j.op)
  BY <1>1 DEF Chain
<1>4. g \in Geometries
  BY <1>1, LastGeometry
<1> HIDE DEF g
<1>5. u = << g >> \o l
  BY DEF g
<1> QED BY <1>1, <1>2, <1>3, <1>4, <1>5, PlanCompleted

LEMMA RingAnswered ==
  ASSUME NEW j, NEW r, NEW w, NEW l, NEW c, NEW v, NEW a,
         Local("ascend", j, r, w, l, c, v, a), j.kind = "ring",
         NEW u, IsPlan(u, RootOf(j, c), j.op)
  PROVE  Local("idle", None, 0, <<>>, <<>>, c, v, Entry(j, u))
<1>1. Typed(w, l, c, v, a) /\ InRing(j, w, c, v)
  BY DEF Local, Located, Descending
<1>2. v = <<>> /\ RootOf(j, c) = j.key
  BY <1>1 DEF InRing, AtRoot, RecursionJobs, RootOf
<1>3. Exact(j, u)
  BY <1>2 DEF Exact
<1>4. Entry(j, u).key = j /\ Entry(j, u).value = u
  BY DEF Entry
<1>5. <<>> \in Plans
  BY DEF Plans
<1>6. Typed(<<>>, <<>>, c, v, Entry(j, u))
  BY <1>1, <1>3, <1>4, <1>5 DEF Typed
<1>7. Located("idle", None, 0, <<>>, <<>>, c, v)
  BY <1>2 DEF Located, Places, Descending
<1> QED BY <1>6, <1>7 DEF Local

\* One level more of a recursion.
LEMMA LevelAppended ==
  ASSUME NEW v \in Seq(Levels), NEW n, NEW op,
         IsRecursion(v, n, op), Reached(v, n) > BaseLimbs,
         NEW c \in Nat, c = Reached(v, n) \div 2,
         NEW u \in Plans, IsPlan(u, c * LimbBits, op)
  PROVE  /\ Append(v, Level(c, u)) \in Seq(Levels)
         /\ IsRecursion(Append(v, Level(c, u)), n, op)
         /\ Reached(Append(v, Level(c, u)), n) = c
<1> DEFINE y == Level(c, u)
           x == Append(v, y)
           m == Len(v)
<1>1. y \in Levels /\ y.half = c /\ y.plan = u
  BY DEF Level, Levels
<1>2. m \in Nat
  BY LenProperties
<1> HIDE DEF y
<1>3. x \in Seq(Levels) /\ Len(x) = m + 1 /\ x[m + 1] = y /\ \A i \in 1 .. m : x[i] = v[i]
  BY <1>1, AppendProperties
<1>4. \A i \in 1 .. m : /\ WidthAt(v, i - 1, n) > BaseLimbs
                        /\ v[i].half = WidthAt(v, i - 1, n) \div 2
                        /\ IsPlan(v[i].plan, v[i].half * LimbBits, op)
  BY DEF IsRecursion
<1>5. WidthAt(v, m, n) > BaseLimbs /\ c = WidthAt(v, m, n) \div 2
  BY DEF Reached
<1> HIDE DEF x, m
<1>6. \A i \in 0 .. m : WidthAt(x, i, n) = WidthAt(v, i, n)
  BY <1>2, <1>3 DEF WidthAt
<1>7. ASSUME NEW i \in 1 .. Len(x)
      PROVE  /\ WidthAt(x, i - 1, n) > BaseLimbs
             /\ x[i].half = WidthAt(x, i - 1, n) \div 2
             /\ IsPlan(x[i].plan, x[i].half * LimbBits, op)
  <2>1. i \in 1 .. m + 1 /\ i - 1 \in 0 .. m
    BY <1>2, <1>3, <1>7
  <2>2. WidthAt(x, i - 1, n) = WidthAt(v, i - 1, n)
    BY <1>6, <2>1
  <2>3. CASE i \in 1 .. m
    BY <1>3, <1>4, <2>2, <2>3
  <2>4. CASE i = m + 1
    <3>1. x[i] = y /\ i - 1 = m
      BY <1>2, <1>3, <2>4
    <3>2. WidthAt(x, i - 1, n) = WidthAt(v, m, n)
      BY <2>2, <3>1
    <3> QED BY <1>1, <1>5, <3>1, <3>2
  <2> QED BY <1>2, <2>1, <2>3, <2>4
<1>8. IsRecursion(x, n, op)
  BY <1>7 DEF IsRecursion
<1>9. Reached(x, n) = c
  BY <1>1, <1>2, <1>3 DEF Reached, WidthAt
<1> QED BY <1>3, <1>8, <1>9 DEF x, y

LEMMA LevelAnswered ==
  ASSUME NEW j, NEW r, NEW w, NEW l, NEW c, NEW v, NEW a,
         Local("ascend", j, r, w, l, c, v, a), j.kind = "recursion",
         NEW u \in Plans, IsPlan(u, RootOf(j, c), j.op)
  PROVE  Local("level", j, 0, <<>>, <<>>, c, Append(v, Level(c, u)), a)
<1>1. Typed(w, l, c, v, a) /\ InRing(j, w, c, v)
  BY DEF Local, Located, Descending
<1>2. /\ j \in RecursionJobs /\ Halves(j.key) /\ IsRecursion(v, j.key, j.op)
      /\ Reached(v, j.key) > BaseLimbs /\ c = Reached(v, j.key) \div 2 /\ c \in LevelLimbs
      /\ RootOf(j, c) = c * LimbBits
  BY <1>1 DEF InRing, AtRoot, RingJobs, RootOf
<1>3. v \in Seq(Levels) /\ c \in Nat
  BY <1>1, <1>2, LevelAssumption DEF Typed
<1> DEFINE x == Append(v, Level(c, u))
<1>4. IsPlan(u, c * LimbBits, j.op)
  BY <1>2
<1>5. x \in Seq(Levels) /\ IsRecursion(x, j.key, j.op) /\ Reached(x, j.key) = c
  BY <1>2, <1>3, <1>4, LevelAppended
<1> HIDE DEF x
<1>6. <<>> \in Plans
  BY DEF Plans
<1>7. Typed(<<>>, <<>>, c, x, a)
  BY <1>1, <1>5, <1>6 DEF Typed
<1>8. Located("level", j, 0, <<>>, <<>>, c, x)
  BY <1>2, <1>5 DEF Located, Places, Descending
<1> QED BY <1>7, <1>8 DEF Local, x

LEMMA LevelPlanned ==
  ASSUME NEW j, NEW r, NEW w, NEW l, NEW c, NEW v, NEW a,
         Local("level", j, r, w, l, c, v, a), c > BaseLimbs,
         NEW h, h = c \div 2
  PROVE  Local("geometry", j, h * LimbBits, w, l, h, v, a)
<1>1. /\ Typed(w, l, c, v, a) /\ w = <<>> /\ l = <<>>
      /\ j \in RecursionJobs /\ Halves(j.key)
      /\ IsRecursion(v, j.key, j.op) /\ c = Reached(v, j.key) /\ c \in LevelLimbs
  BY DEF Local, Located
<1>2. h \in LevelLimbs /\ h * LimbBits \in RingWidths
  BY <1>1, LevelAssumption
<1>3. RootOf(j, h) = h * LimbBits
  BY <1>1 DEF RecursionJobs, RootOf
<1>4. InRing(j, w, h, v)
  BY <1>1, <1>2, <1>3 DEF InRing, AtRoot
<1>5. Typed(w, l, h, v, a)
  BY <1>1, <1>2 DEF Typed
<1>6. Located("geometry", j, h * LimbBits, w, l, h, v)
  BY <1>1, <1>3, <1>4 DEF Located, Places, Descending
<1> QED BY <1>5, <1>6 DEF Local

LEMMA RecursionAnswered ==
  ASSUME NEW j, NEW r, NEW w, NEW l, NEW c, NEW v, NEW a,
         Local("level", j, r, w, l, c, v, a), c <= BaseLimbs
  PROVE  /\ j \in RecursionJobs
         /\ Exact(j, v) /\ RecursionExact(j.key, j.op, v)
         /\ Local("idle", None, r, w, l, 0, <<>>, Entry(j, v))
<1>1. /\ Typed(w, l, c, v, a) /\ w = <<>> /\ l = <<>>
      /\ j \in RecursionJobs /\ Halves(j.key)
      /\ IsRecursion(v, j.key, j.op) /\ c = WidthAt(v, Len(v), j.key)
  BY DEF Local, Located, Reached
<1>2. Exact(j, v) /\ RecursionExact(j.key, j.op, v)
  BY <1>1 DEF Exact, RecursionExact, RecursionJobs, Job
<1>3. Entry(j, v).key = j /\ Entry(j, v).value = v
  BY DEF Entry
<1>4. <<>> \in Seq(Levels)
  OBVIOUS
<1>5. Typed(w, l, 0, <<>>, Entry(j, v))
  BY <1>1, <1>2, <1>3, <1>4 DEF Typed
<1>6. Located("idle", None, r, w, l, 0, <<>>)
  BY <1>1 DEF Located, Places, Descending
<1> QED BY <1>1, <1>2, <1>5, <1>6 DEF Local

\* An idle thread is asked for a ring, for a recursion, or answers at once.
LEMMA RingStarted ==
  ASSUME NEW j, NEW r, NEW w, NEW l, NEW c, NEW v, NEW a,
         Local("idle", j, r, w, l, c, v, a),
         NEW bits \in RingWidths, NEW op \in Operations
  PROVE  Local("geometry", Job("ring", bits, op), bits, w, l, c, v, None)
<1> DEFINE k == Job("ring", bits, op)
<1>1. Typed(w, l, c, v, a) /\ w = <<>> /\ l = <<>> /\ v = <<>>
  BY DEF Local, Located
<1>2. k \in RingJobs /\ RootOf(k, c) = bits
  BY DEF RingJobs, RootOf, Job
<1> HIDE DEF k
<1>3. InRing(k, w, c, v)
  BY <1>1, <1>2 DEF InRing, AtRoot
<1>4. Typed(w, l, c, v, None)
  BY <1>1 DEF Typed
<1>5. Located("geometry", k, bits, w, l, c, v)
  BY <1>1, <1>2, <1>3 DEF Located, Places, Descending
<1> QED BY <1>4, <1>5 DEF Local, k

LEMMA RecursionStarted ==
  ASSUME NEW j, NEW r, NEW w, NEW l, NEW c, NEW v, NEW a,
         Local("idle", j, r, w, l, c, v, a),
         NEW n \in LevelLimbs, NEW op \in Retaining, Halves(n)
  PROVE  Local("level", Job("recursion", n, op), r, w, l, n, v, None)
<1> DEFINE k == Job("recursion", n, op)
<1>1. Typed(w, l, c, v, a) /\ w = <<>> /\ l = <<>> /\ v = <<>>
  BY DEF Local, Located
<1>2. k \in RecursionJobs /\ k.key = n
  BY DEF RecursionJobs, Job
<1> HIDE DEF k
<1>3. Len(v) = 0
  BY <1>1, EmptySeq
<1>4. IsRecursion(v, n, k.op) /\ Reached(v, n) = n
  BY <1>3 DEF IsRecursion, Reached, WidthAt
<1>5. Typed(w, l, n, v, None)
  BY <1>1 DEF Typed
<1>6. Located("level", k, r, w, l, n, v)
  BY <1>1, <1>2, <1>4 DEF Located, Places, Descending
<1> QED BY <1>5, <1>6 DEF Local, k

LEMMA AnsweredAtOnce ==
  ASSUME NEW p, NEW j, NEW r, NEW w, NEW l, NEW c, NEW v, NEW a,
         Local(p, j, r, w, l, c, v, a), NEW k, NEW x, Exact(k, x)
  PROVE  Local(p, j, r, w, l, c, v, Entry(k, x))
<1>1. Entry(k, x).key = k /\ Entry(k, x).value = x
  BY DEF Entry
<1> QED BY <1>1 DEF Local, Typed

-----------------------------------------------------------------------------
(* What a step leaves of the other caches and the other threads.           *)

LEMMA SharedKept ==
  ASSUME SharedInv, UNCHANGED shared
  PROVE  SharedInv'
BY DEF SharedInv, shared

LEMMA OwnKept ==
  /\ PlansInv /\ UNCHANGED plans => PlansInv'
  /\ RecursionsInv /\ UNCHANGED recursions => RecursionsInv'
  /\ WidthsInv /\ UNCHANGED widths => WidthsInv'
BY DEF PlansInv, PlansHeld, RecursionsInv, RecursionsHeld, WidthsInv

With(f, x, e) == [f EXCEPT ![x] = e]

Changed(x, y, t) ==
  /\ y = [s \in Threads |-> y[s]]
  /\ \A s \in Threads : s # t => y[s] = x[s]

LEMMA Updated ==
  ASSUME NEW x, x = [s \in Threads |-> x[s]], NEW t \in Threads, NEW e,
         NEW y, y = [x EXCEPT ![t] = e]
  PROVE  Changed(x, y, t) /\ y[t] = e
BY DEF Changed

LEMMA Same ==
  ASSUME NEW x, x = [s \in Threads |-> x[s]], NEW t \in Threads, NEW y, y = x
  PROVE  Changed(x, y, t) /\ y[t] = x[t]
BY DEF Changed

LEMMA Framed ==
  ASSUME LocalInv, NEW t \in Threads, LocalAt(t)',
         Changed(pc, pc', t), Changed(job, job', t), Changed(ring, ring', t),
         Changed(path, path', t), Changed(tail, tail', t), Changed(current, current', t),
         Changed(levels, levels', t), Changed(answer, answer', t)
  PROVE  LocalInv'
<1>1. LocalDomains'
  BY DEF LocalDomains, Changed
<1>2. ASSUME NEW s \in Threads
      PROVE  LocalAt(s)'
  <2>1. CASE s = t
    BY <2>1
  <2>2. CASE s # t
    <3>1. /\ pc'[s] = pc[s] /\ job'[s] = job[s] /\ ring'[s] = ring[s] /\ path'[s] = path[s]
          /\ tail'[s] = tail[s] /\ current'[s] = current[s] /\ levels'[s] = levels[s]
          /\ answer'[s] = answer[s]
      BY <2>2 DEF Changed
    <3>2. LocalAt(s)
      BY DEF LocalInv
    <3> QED BY <3>1, <3>2 DEF LocalAt
  <2> QED BY <2>1, <2>2
<1> QED BY <1>1, <1>2 DEF LocalInv

-----------------------------------------------------------------------------
(* The steps that look geometries up, search and store them.               *)

LEMMA GeometryHit ==
  ASSUME SharedInv, NEW bits \in RingWidths, NEW op \in Operations, GeometryHeld(bits, op)
  PROVE  HeldGeometry(bits, op) = Best(bits, op)
<1>1. CASE bits \in PowersOfTwo
  BY <1>1 DEF SharedInv, GeometryHeld, HeldGeometry
<1>2. CASE bits \notin PowersOfTwo
  <2> DEFINE c == sets[SetOf[bits]]
             k == << bits, op >>
  <2>1. SetOf[bits] \in SetIds
    BY <1>2 DEF SetIds
  <2>2. CacheShape(c, Ways) /\ \A e \in Filled(c) : e.value = Best(e.key[1], e.key[2])
    BY <2>1 DEF SharedInv
  <2>3. Holds(c, k) /\ HeldGeometry(bits, op) = Cached(c, k)
    BY <1>2 DEF GeometryHeld, HeldGeometry
  <2>4. k[1] = bits /\ k[2] = op /\ Ways \in Nat
    BY SlotAssumption
  <2> HIDE DEF c, k
  <2>5. PICK e \in Filled(c) : e.key = k /\ Cached(c, k) = e.value
    BY <2>2, <2>3, <2>4, CachedEntry
  <2> QED BY <2>2, <2>3, <2>4, <2>5
<1> QED BY <1>1, <1>2

LEMMA GeometryCached ==
  ASSUME SharedInv, NEW bits \in RingWidths, NEW op \in Operations,
         CacheGeometry(bits, op, Best(bits, op))
  PROVE  SharedInv'
<1>1. CASE bits \in PowersOfTwo
  <2>1. /\ cells' = [cells EXCEPT ![<< bits, op >>] =
                       IF cells[<< bits, op >>] = None THEN Best(bits, op)
                       ELSE cells[<< bits, op >>]]
        /\ sets' = sets
    BY <1>1 DEF CacheGeometry
  <2>2. /\ cells = [x \in PowersOfTwo \X Operations |-> cells[x]]
        /\ \A b \in PowersOfTwo, o \in Operations : cells[<< b, o >>] \in {None, Best(b, o)}
    BY DEF SharedInv
  <2>3. cells' = [x \in PowersOfTwo \X Operations |-> cells'[x]]
    BY <2>1, <2>2
  <2>4. ASSUME NEW b \in PowersOfTwo, NEW o \in Operations
        PROVE  cells'[<< b, o >>] \in {None, Best(b, o)}
    <3>1. cells[<< b, o >>] \in {None, Best(b, o)} /\ << b, o >> \in PowersOfTwo \X Operations
      BY <2>2
    <3>2. CASE b = bits /\ o = op
      <4>1. cells'[<< b, o >>] = IF cells[<< b, o >>] = None THEN Best(b, o)
                                 ELSE cells[<< b, o >>]
        BY <2>1, <2>2, <3>1, <3>2
      <4> QED BY <3>1, <4>1
    <3>3. CASE ~ (b = bits /\ o = op)
      <4>1. << b, o >> # << bits, op >>
        BY <3>3
      <4>2. cells'[<< b, o >>] = cells[<< b, o >>]
        BY <2>1, <2>2, <3>1, <4>1
      <4> QED BY <3>1, <4>2
    <3> QED BY <3>2, <3>3
  <2> QED BY <2>1, <2>3, <2>4 DEF SharedInv
<1>2. CASE bits \notin PowersOfTwo
  <2> DEFINE i == SetOf[bits]
             e == Entry(<< bits, op >>, Best(bits, op))
  <2>1. i \in SetIds
    BY <1>2 DEF SetIds
  <2>2. sets' = [sets EXCEPT ![i] = InsertGeometry(sets[i], e)] /\ cells' = cells
    BY <1>2 DEF CacheGeometry
  <2>3. /\ sets = [s \in SetIds |-> sets[s]]
        /\ \A s \in SetIds : /\ CacheShape(sets[s], Ways)
                             /\ \A f \in Filled(sets[s]) : f.value = Best(f.key[1], f.key[2])
    BY DEF SharedInv
  <2>4. e.value = Best(e.key[1], e.key[2])
    BY DEF Entry
  <2>5. Ways \in Nat \ {0}
    BY SlotAssumption
  <2> HIDE DEF i, e
  <2>6. /\ CacheShape(InsertGeometry(sets[i], e), Ways)
        /\ \A f \in Filled(InsertGeometry(sets[i], e)) : f \in Filled(sets[i]) \/ f = e
    BY <2>1, <2>3, <2>5, GeometryInserted
  <2>7. sets' = [s \in SetIds |-> sets'[s]]
    BY <2>2, <2>3
  <2>8. ASSUME NEW s \in SetIds
        PROVE  /\ CacheShape(sets'[s], Ways)
               /\ \A f \in Filled(sets'[s]) : f.value = Best(f.key[1], f.key[2])
    <3>1. CASE s = i
      <4>1. sets'[s] = InsertGeometry(sets[i], e)
        BY <2>2, <2>3, <3>1
      <4> QED BY <2>1, <2>3, <2>4, <2>6, <4>1
    <3>2. CASE s # i
      <4>1. sets'[s] = sets[s]
        BY <2>2, <2>3, <3>2
      <4> QED BY <2>3, <4>1
    <3> QED BY <3>1, <3>2
  <2> QED BY <2>2, <2>7, <2>8 DEF SharedInv
<1> QED BY <1>1, <1>2

\* The ring and the operation a thread plans.
LEMMA Planned ==
  ASSUME LocalInv, NEW t \in Threads, pc[t] \in Descending
  PROVE  /\ ring[t] \in RingWidths /\ RingOp(t) \in Operations
         /\ RingOp(t) = OpAt(job[t], path[t])
<1>1. Local(pc[t], job[t], ring[t], path[t], tail[t], current[t], levels[t], answer[t])
  BY DEF LocalInv, LocalAt
<1>2. InRing(job[t], path[t], current[t], levels[t])
  BY <1>1 DEF Local, Located
<1>3. RingOp(t) = OpAt(job[t], path[t])
  BY DEF RingOp, OpAt
<1> QED BY <1>1, <1>2, <1>3, RingPlanned, JobOperation

LEMMA DescendStep ==
  ASSUME LocalInv, NEW t \in Threads, pc[t] \in {"geometry", "search"},
         Descend(t, Best(ring[t], RingOp(t))), UNCHANGED <<job, tail, levels, answer, current>>
  PROVE  LocalInv'
<1> DEFINE g == Best(ring[t], RingOp(t))
           q == IF g.inner > BaseBits THEN "retained" ELSE "ascend"
<1>1. Local(pc[t], job[t], ring[t], path[t], tail[t], current[t], levels[t], answer[t])
  BY DEF LocalInv, LocalAt
<1>2. RingOp(t) = OpAt(job[t], path[t])
  BY Planned DEF Descending
<1>3. LocalDomains
  BY DEF LocalInv
<1>4. /\ path' = [path EXCEPT ![t] = Append(path[t], g)]
      /\ ring' = [ring EXCEPT ![t] = g.inner]
      /\ pc' = [pc EXCEPT ![t] = q]
      /\ job' = job /\ tail' = tail /\ levels' = levels /\ answer' = answer
      /\ current' = current
  BY DEF Descend
<1>5. g = Best(ring[t], OpAt(job[t], path[t]))
  BY <1>2
<1> HIDE DEF g
<1>6. Local(q, job[t], g.inner, Append(path[t], g), tail[t], current[t], levels[t], answer[t])
  BY <1>1, <1>5, Descended
<1> HIDE DEF q
<1>7. /\ Changed(path, path', t) /\ path'[t] = Append(path[t], g)
      /\ Changed(ring, ring', t) /\ ring'[t] = g.inner
      /\ Changed(pc, pc', t) /\ pc'[t] = q
  BY <1>3, <1>4, Updated DEF LocalDomains
<1>8. /\ Changed(job, job', t) /\ Changed(tail, tail', t) /\ Changed(levels, levels', t)
      /\ Changed(answer, answer', t) /\ Changed(current, current', t)
  BY <1>3, <1>4, Same DEF LocalDomains
<1>9. LocalAt(t)'
  BY <1>4, <1>6, <1>7 DEF LocalAt
<1> QED BY <1>7, <1>8, <1>9, Framed

\* A step that changes nothing of a thread but where it is.
LEMMA MoveStep ==
  ASSUME LocalInv, NEW t \in Threads, pc[t] \in Descending,
         NEW q \in {"geometry", "search"}, pc' = [pc EXCEPT ![t] = q],
         UNCHANGED <<job, ring, path, tail, levels, answer, current>>
  PROVE  LocalInv'
<1>1. Local(pc[t], job[t], ring[t], path[t], tail[t], current[t], levels[t], answer[t])
  BY DEF LocalInv, LocalAt
<1>2. LocalDomains
  BY DEF LocalInv
<1>3. Local(q, job[t], ring[t], path[t], tail[t], current[t], levels[t], answer[t])
  BY <1>1, Missed
<1>4. Changed(pc, pc', t) /\ pc'[t] = q
  BY <1>2, Updated DEF LocalDomains
<1>5. /\ Changed(job, job', t) /\ Changed(ring, ring', t) /\ Changed(path, path', t)
      /\ Changed(tail, tail', t) /\ Changed(levels, levels', t)
      /\ Changed(answer, answer', t) /\ Changed(current, current', t)
  BY <1>2, Same DEF LocalDomains
<1>6. LocalAt(t)'
  BY <1>3, <1>4 DEF LocalAt
<1> QED BY <1>4, <1>5, <1>6, Framed

LEMMA LookUpGeometryStep ==
  ASSUME IInv, NEW t \in Threads, LookUpGeometry(t)
  PROVE  IInv'
<1>1. SharedInv /\ OwnInv /\ LocalInv
  BY DEF IInv
<1>2. /\ pc[t] = "geometry" /\ UNCHANGED <<shared, plans, recursions, widths>>
      /\ UNCHANGED <<job, tail, levels, answer, current>>
  BY DEF LookUpGeometry
<1>3. SharedInv' /\ OwnInv'
  BY <1>1, <1>2, SharedKept, OwnKept DEF OwnInv
<1>4. CASE GeometryHeld(ring[t], RingOp(t))
  <2>1. Descend(t, HeldGeometry(ring[t], RingOp(t)))
    BY <1>4 DEF LookUpGeometry
  <2>2. HeldGeometry(ring[t], RingOp(t)) = Best(ring[t], RingOp(t))
    BY <1>1, <1>2, <1>4, Planned, GeometryHit DEF Descending
  <2>3. LocalInv'
    BY <1>1, <1>2, <2>1, <2>2, DescendStep
  <2> QED BY <1>3, <2>3 DEF IInv
<1>5. CASE ~ GeometryHeld(ring[t], RingOp(t))
  <2>1. pc' = [pc EXCEPT ![t] = "search"] /\ UNCHANGED <<path, ring>>
    BY <1>5 DEF LookUpGeometry
  <2>2. LocalInv'
    BY <1>1, <1>2, <2>1, MoveStep DEF Descending
  <2> QED BY <1>3, <2>2 DEF IInv
<1> QED BY <1>4, <1>5

LEMMA SearchStep ==
  ASSUME IInv, NEW t \in Threads, Search(t)
  PROVE  IInv'
<1>1. SharedInv /\ OwnInv /\ LocalInv
  BY DEF IInv
<1>2. /\ pc[t] = "search" /\ UNCHANGED <<plans, recursions, widths>>
      /\ UNCHANGED <<job, tail, levels, answer, current>>
      /\ CacheGeometry(ring[t], RingOp(t), Best(ring[t], RingOp(t)))
      /\ Descend(t, Best(ring[t], RingOp(t)))
  BY DEF Search
<1>3. OwnInv'
  BY <1>1, <1>2, OwnKept DEF OwnInv
<1>4. ring[t] \in RingWidths /\ RingOp(t) \in Operations
  BY <1>1, <1>2, Planned DEF Descending
<1>5. SharedInv'
  BY <1>1, <1>2, <1>4, GeometryCached
<1>6. LocalInv'
  BY <1>1, <1>2, DescendStep
<1> QED BY <1>3, <1>5, <1>6 DEF IInv

-----------------------------------------------------------------------------
(* The steps through a thread's retained plans.                            *)

\* What a job multiplies its coefficients with.
LEMMA Coefficients ==
  ASSUME LocalInv, NEW t \in Threads, pc[t] \in Descending \union {"ascend"}
  PROVE  CoefficientOp(job[t].op) \in Retaining
<1>1. InRing(job[t], path[t], current[t], levels[t])
  BY DEF LocalInv, LocalAt, Local, Located
<1> QED BY <1>1, JobOperation

LEMMA RetainedHit ==
  ASSUME PlansInv, NEW t \in Threads, NEW op \in Retaining, NEW bits,
         Holds(plans[<< t, op >>], bits)
  PROVE  /\ Cached(plans[<< t, op >>], bits) \in Plans
         /\ IsPlan(Cached(plans[<< t, op >>], bits), bits, op)
<1> DEFINE c == plans[<< t, op >>]
<1>1. /\ CacheShape(c, PlanSlots) /\ PlanSlots \in Nat
      /\ \A e \in Filled(c) : e.value \in Plans /\ IsPlan(e.value, e.key, op)
  BY SlotAssumption DEF PlansInv, PlansHeld
<1> HIDE DEF c
<1>2. Holds(c, bits)
  BY DEF c
<1>3. PICK e \in Filled(c) : e.key = bits /\ Cached(c, bits) = e.value
  BY <1>1, <1>2, CachedEntry
<1>4. Cached(c, bits) \in Plans /\ IsPlan(Cached(c, bits), bits, op)
  BY <1>1, <1>3
<1> QED BY <1>4 DEF c

LEMMA LookUpRetainedStep ==
  ASSUME IInv, NEW t \in Threads, LookUpRetained(t)
  PROVE  IInv'
<1> DEFINE op == CoefficientOp(job[t].op)
           mine == plans[<< t, op >>]
<1>1. SharedInv /\ OwnInv /\ LocalInv /\ PlansInv /\ LocalDomains
  BY DEF IInv, OwnInv, LocalInv
<1>2. /\ pc[t] = "retained" /\ UNCHANGED <<shared, plans, recursions, widths>>
      /\ UNCHANGED <<job, ring, path, levels, answer, current>>
  BY DEF LookUpRetained
<1>3. SharedInv' /\ OwnInv'
  BY <1>1, <1>2, SharedKept, OwnKept DEF OwnInv
<1>4. op \in Retaining
  BY <1>1, <1>2, Coefficients DEF Descending
<1>5. CASE Holds(mine, ring[t])
  <2> DEFINE m == Cached(mine, ring[t])
  <2>1. tail' = [tail EXCEPT ![t] = m] /\ pc' = [pc EXCEPT ![t] = "ascend"]
    BY <1>5 DEF LookUpRetained
  <2>2. m \in Plans /\ IsPlan(m, ring[t], op)
    BY <1>1, <1>4, <1>5, RetainedHit
  <2> HIDE DEF m
  <2>3. Local("retained", job[t], ring[t], path[t], tail[t], current[t], levels[t], answer[t])
    BY <1>1, <1>2 DEF LocalInv, LocalAt
  <2>4. Local("ascend", job[t], ring[t], path[t], m, current[t], levels[t], answer[t])
    BY <2>2, <2>3, PlanFound
  <2>5. /\ Changed(tail, tail', t) /\ tail'[t] = m
        /\ Changed(pc, pc', t) /\ pc'[t] = "ascend"
    BY <1>1, <2>1, Updated DEF LocalDomains
  <2>6. /\ Changed(job, job', t) /\ Changed(ring, ring', t) /\ Changed(path, path', t)
        /\ Changed(levels, levels', t) /\ Changed(answer, answer', t)
        /\ Changed(current, current', t)
    BY <1>1, <1>2, Same DEF LocalDomains
  <2>7. LocalAt(t)'
    BY <1>2, <2>4, <2>5 DEF LocalAt
  <2>8. LocalInv'
    BY <1>1, <2>5, <2>6, <2>7, Framed
  <2> QED BY <1>3, <2>8 DEF IInv
<1>6. CASE ~ Holds(mine, ring[t])
  <2>1. pc' = [pc EXCEPT ![t] = "geometry"] /\ tail' = tail
    BY <1>6 DEF LookUpRetained
  <2>2. LocalInv'
    BY <1>1, <1>2, <2>1, MoveStep DEF Descending
  <2> QED BY <1>3, <2>2 DEF IInv
<1> QED BY <1>5, <1>6

LEMMA PlanRetained ==
  ASSUME NEW f, PlansHeld(f), NEW t \in Threads, NEW op \in Retaining, NEW e,
         e.value \in Plans, IsPlan(e.value, e.key, op)
  PROVE  PlansHeld(With(f, << t, op >>, Retain(f[<< t, op >>], e)))
<1> DEFINE new == With(f, << t, op >>, Retain(f[<< t, op >>], e))
<1>1. /\ f = [x \in Threads \X Retaining |-> f[x]]
      /\ \A s \in Threads, o \in Retaining :
           /\ CacheShape(f[<< s, o >>], PlanSlots)
           /\ \A g \in Filled(f[<< s, o >>]) : g.value \in Plans /\ IsPlan(g.value, g.key, o)
  BY DEF PlansHeld
<1>2. PlanSlots \in Nat \ {0}
  BY SlotAssumption
<1>3. /\ CacheShape(Retain(f[<< t, op >>], e), PlanSlots)
      /\ \A g \in Filled(Retain(f[<< t, op >>], e)) : g \in Filled(f[<< t, op >>]) \/ g = e
  BY <1>1, <1>2, EntryRetained
<1>4. new = [x \in Threads \X Retaining |-> new[x]]
  BY <1>1 DEF With
<1>5. ASSUME NEW s \in Threads, NEW o \in Retaining
      PROVE  /\ CacheShape(new[<< s, o >>], PlanSlots)
             /\ \A g \in Filled(new[<< s, o >>]) : g.value \in Plans /\ IsPlan(g.value, g.key, o)
  <2>1. CASE s = t /\ o = op
    <3>1. new[<< s, o >>] = Retain(f[<< t, op >>], e)
      BY <1>1, <2>1 DEF With
    <3> QED BY <1>1, <1>3, <2>1, <3>1
  <2>2. CASE ~ (s = t /\ o = op)
    <3>1. << s, o >> # << t, op >>
      BY <2>2
    <3>2. new[<< s, o >>] = f[<< s, o >>]
      BY <1>1, <3>1 DEF With
    <3> QED BY <1>1, <3>2
  <2> QED BY <2>1, <2>2
<1> QED BY <1>4, <1>5 DEF PlansHeld

LEMMA RecursionRetained ==
  ASSUME NEW f, RecursionsHeld(f), NEW t \in Threads, NEW op \in Retaining, NEW e,
         EntryExact(e, op)
  PROVE  RecursionsHeld(With(f, << t, op >>, Retain(f[<< t, op >>], e)))
<1> DEFINE new == With(f, << t, op >>, Retain(f[<< t, op >>], e))
<1>1. /\ f = [x \in Threads \X Retaining |-> f[x]]
      /\ \A s \in Threads, o \in Retaining :
           /\ CacheShape(f[<< s, o >>], PlanSlots)
           /\ \A g \in Filled(f[<< s, o >>]) : EntryExact(g, o)
  BY DEF RecursionsHeld
<1>2. PlanSlots \in Nat \ {0}
  BY SlotAssumption
<1>3. /\ CacheShape(Retain(f[<< t, op >>], e), PlanSlots)
      /\ \A g \in Filled(Retain(f[<< t, op >>], e)) :
           g \in Filled(f[<< t, op >>]) \/ g = e
  BY <1>1, <1>2, EntryRetained
<1>4. new = [x \in Threads \X Retaining |-> new[x]]
  BY <1>1 DEF With
<1>5. ASSUME NEW s \in Threads, NEW o \in Retaining
      PROVE  /\ CacheShape(new[<< s, o >>], PlanSlots)
             /\ \A g \in Filled(new[<< s, o >>]) : EntryExact(g, o)
  <2>1. CASE s = t /\ o = op
    <3>1. new[<< s, o >>] = Retain(f[<< t, op >>], e)
      BY <1>1, <2>1 DEF With
    <3> QED BY <1>1, <1>3, <2>1, <3>1
  <2>2. CASE ~ (s = t /\ o = op)
    <3>1. << s, o >> # << t, op >>
      BY <2>2
    <3>2. new[<< s, o >>] = f[<< s, o >>]
      BY <1>1, <3>1 DEF With
    <3> QED BY <1>1, <3>2
  <2> QED BY <2>1, <2>2
<1> QED BY <1>4, <1>5 DEF RecursionsHeld

LEMMA AscendNestedStep ==
  ASSUME IInv, NEW t \in Threads, AscendNested(t)
  PROVE  IInv'
<1> DEFINE op == CoefficientOp(job[t].op)
           g == path[t][Len(path[t])]
           u == << path[t][Len(path[t])] >> \o tail[t]
           e == Entry(g.bits, u)
<1>1. SharedInv /\ OwnInv /\ LocalInv /\ PlansInv /\ LocalDomains
  BY DEF IInv, OwnInv, LocalInv
<1>2. /\ pc[t] = "ascend" /\ Len(path[t]) > 1
      /\ shared' = shared /\ recursions' = recursions /\ widths' = widths
      /\ UNCHANGED <<pc, job, ring, levels, answer, current>>
      /\ path' = [path EXCEPT ![t] = Front(path[t])]
      /\ tail' = [tail EXCEPT ![t] = u]
      /\ plans' = With(plans, << t, op >>, Retain(plans[<< t, op >>], e))
  BY DEF AscendNested, Complete, With
<1>3. op \in Retaining
  BY <1>1, <1>2, Coefficients
<1>4. Local("ascend", job[t], ring[t], path[t], tail[t], current[t], levels[t], answer[t])
  BY <1>1, <1>2 DEF LocalInv, LocalAt
<1>5. /\ u \in Plans /\ IsPlan(u, g.bits, op)
      /\ Local("ascend", job[t], ring[t], Front(path[t]), u, current[t], levels[t], answer[t])
  BY <1>2, <1>4, AscendedNested
<1>6. e.key = g.bits /\ e.value = u
  BY DEF Entry
<1> HIDE DEF u, g, e, op
<1>7. PlansInv'
  <2>1. PlansHeld(plans)
    BY <1>1 DEF PlansInv
  <2>2. PlansHeld(With(plans, << t, op >>, Retain(plans[<< t, op >>], e)))
    BY <1>3, <1>5, <1>6, <2>1, PlanRetained
  <2> QED BY <1>2, <2>2 DEF PlansInv
<1>8. SharedInv' /\ OwnInv'
  BY <1>1, <1>2, <1>7, SharedKept, OwnKept DEF OwnInv
<1>9. /\ Changed(path, path', t) /\ path'[t] = Front(path[t])
      /\ Changed(tail, tail', t) /\ tail'[t] = u
  BY <1>1, <1>2, Updated DEF LocalDomains
<1>10. /\ Changed(job, job', t) /\ Changed(ring, ring', t) /\ Changed(pc, pc', t)
       /\ Changed(levels, levels', t) /\ Changed(answer, answer', t)
       /\ Changed(current, current', t)
  BY <1>1, <1>2, Same DEF LocalDomains
<1>11. LocalAt(t)'
  BY <1>2, <1>5, <1>9 DEF LocalAt
<1>12. LocalInv'
  BY <1>1, <1>9, <1>10, <1>11, Framed
<1> QED BY <1>8, <1>12 DEF IInv

LEMMA AscendOutermostStep ==
  ASSUME IInv, NEW t \in Threads, AscendOutermost(t)
  PROVE  IInv'
<1> DEFINE u == << path[t][Len(path[t])] >> \o tail[t]
<1>1. SharedInv /\ OwnInv /\ LocalInv /\ LocalDomains
  BY DEF IInv, LocalInv
<1>2. /\ pc[t] = "ascend" /\ Len(path[t]) = 1
      /\ UNCHANGED <<shared, plans, recursions, widths, current>>
      /\ path' = [path EXCEPT ![t] = <<>>] /\ tail' = [tail EXCEPT ![t] = <<>>]
      /\ ring' = [ring EXCEPT ![t] = 0]
  BY DEF AscendOutermost
<1>3. SharedInv' /\ OwnInv'
  BY <1>1, <1>2, SharedKept, OwnKept DEF OwnInv
<1>4. Local("ascend", job[t], ring[t], path[t], tail[t], current[t], levels[t], answer[t])
  BY <1>1, <1>2 DEF LocalInv, LocalAt
<1>5. u \in Plans /\ IsPlan(u, RootOf(job[t], current[t]), job[t].op)
  BY <1>2, <1>4, AscendedOutermost
<1>6. /\ Changed(path, path', t) /\ path'[t] = <<>>
      /\ Changed(tail, tail', t) /\ tail'[t] = <<>>
      /\ Changed(ring, ring', t) /\ ring'[t] = 0
  BY <1>1, <1>2, Updated DEF LocalDomains
<1>7. Changed(current, current', t) /\ current'[t] = current[t]
  BY <1>1, <1>2, Same DEF LocalDomains
<1>8. CASE /\ job[t].kind = "ring" /\ Answered(t, job[t], Complete(t))
           /\ pc' = [pc EXCEPT ![t] = "idle"] /\ job' = [job EXCEPT ![t] = None]
           /\ UNCHANGED levels
  <2>1. answer' = [answer EXCEPT ![t] = Entry(job[t], u)]
    BY <1>8 DEF Answered, Complete
  <2> HIDE DEF u
  <2>2. Local("idle", None, 0, <<>>, <<>>, current[t], levels[t], Entry(job[t], u))
    BY <1>4, <1>5, <1>8, RingAnswered
  <2>3. /\ Changed(pc, pc', t) /\ pc'[t] = "idle" /\ Changed(job, job', t) /\ job'[t] = None
        /\ Changed(answer, answer', t) /\ answer'[t] = Entry(job[t], u)
    BY <1>1, <1>8, <2>1, Updated DEF LocalDomains
  <2>4. Changed(levels, levels', t) /\ levels'[t] = levels[t]
    BY <1>1, <1>8, Same DEF LocalDomains
  <2>5. LocalAt(t)'
    BY <1>6, <1>7, <2>2, <2>3, <2>4 DEF LocalAt
  <2>6. LocalInv'
    BY <1>1, <1>6, <1>7, <2>3, <2>4, <2>5, Framed
  <2> QED BY <1>3, <2>6 DEF IInv
<1>9. CASE /\ job[t].kind = "recursion"
           /\ levels' = [levels EXCEPT ![t] = Append(levels[t], Level(current[t], u))]
           /\ pc' = [pc EXCEPT ![t] = "level"] /\ UNCHANGED <<answer, job>>
  <2> DEFINE v == Append(levels[t], Level(current[t], u))
  <2> HIDE DEF u
  <2>1. Local("level", job[t], 0, <<>>, <<>>, current[t], v, answer[t])
    BY <1>4, <1>5, <1>9, LevelAnswered
  <2> HIDE DEF v
  <2>2. levels' = [levels EXCEPT ![t] = v]
    BY <1>9 DEF v
  <2>3. /\ Changed(pc, pc', t) /\ pc'[t] = "level" /\ Changed(levels, levels', t)
        /\ levels'[t] = v
    BY <1>1, <1>9, <2>2, Updated DEF LocalDomains
  <2>4. /\ Changed(job, job', t) /\ job'[t] = job[t]
        /\ Changed(answer, answer', t) /\ answer'[t] = answer[t]
    BY <1>1, <1>9, Same DEF LocalDomains
  <2>5. LocalAt(t)'
    BY <1>6, <1>7, <2>1, <2>3, <2>4 DEF LocalAt
  <2>6. LocalInv'
    BY <1>1, <1>6, <1>7, <2>3, <2>4, <2>5, Framed
  <2> QED BY <1>3, <2>6 DEF IInv
<1> QED BY <1>8, <1>9 DEF AscendOutermost, Complete

-----------------------------------------------------------------------------
(* The steps that start and finish a call.                                 *)

LEMMA StartRingStep ==
  ASSUME IInv, NEW t \in Threads, StartRing(t)
  PROVE  IInv'
<1>1. SharedInv /\ OwnInv /\ LocalInv /\ LocalDomains
  BY DEF IInv, LocalInv
<1>2. /\ pc[t] = "idle" /\ pc' = [pc EXCEPT ![t] = "geometry"]
      /\ answer' = [answer EXCEPT ![t] = None]
      /\ UNCHANGED <<shared, plans, recursions, widths, path, tail, levels, current>>
  BY DEF StartRing
<1>3. SharedInv' /\ OwnInv'
  BY <1>1, <1>2, SharedKept, OwnKept DEF OwnInv
<1>4. PICK request \in Rings[t] :
        /\ job' = [job EXCEPT ![t] = Job("ring", request.bits, request.op)]
        /\ ring' = [ring EXCEPT ![t] = request.bits]
  BY DEF StartRing
<1> DEFINE b == request.bits
           o == request.op
           k == Job("ring", b, o)
<1>5. b \in RingWidths /\ o \in Operations
  BY <1>4, RequestAssumption
<1> HIDE DEF b, o
<1>6. Local("idle", job[t], ring[t], path[t], tail[t], current[t], levels[t], answer[t])
  BY <1>1, <1>2 DEF LocalInv, LocalAt
<1>7. Local("geometry", k, b, path[t], tail[t], current[t], levels[t], None)
  BY <1>5, <1>6, RingStarted
<1>8. job' = [job EXCEPT ![t] = k] /\ ring' = [ring EXCEPT ![t] = b]
  BY <1>4 DEF b, o
<1> HIDE DEF k
<1>9. /\ Changed(pc, pc', t) /\ pc'[t] = "geometry" /\ Changed(answer, answer', t)
      /\ answer'[t] = None /\ Changed(job, job', t) /\ job'[t] = k
      /\ Changed(ring, ring', t) /\ ring'[t] = b
  BY <1>1, <1>2, <1>8, Updated DEF LocalDomains
<1>10. /\ Changed(path, path', t) /\ Changed(tail, tail', t) /\ Changed(levels, levels', t)
       /\ Changed(current, current', t)
  BY <1>1, <1>2, Same DEF LocalDomains
<1>11. LocalAt(t)'
  BY <1>2, <1>7, <1>9 DEF LocalAt
<1>12. LocalInv'
  BY <1>1, <1>9, <1>10, <1>11, Framed
<1> QED BY <1>3, <1>12 DEF IInv

\* An idle thread that answers at once.
LEMMA AnswerStep ==
  ASSUME LocalInv, NEW t \in Threads, NEW k, NEW x, Exact(k, x), Answered(t, k, x),
         UNCHANGED <<pc, job, ring, path, tail, levels, current>>
  PROVE  LocalInv'
<1>1. Local(pc[t], job[t], ring[t], path[t], tail[t], current[t], levels[t], answer[t])
  BY DEF LocalInv, LocalAt
<1>2. LocalDomains
  BY DEF LocalInv
<1>3. Local(pc[t], job[t], ring[t], path[t], tail[t], current[t], levels[t], Entry(k, x))
  BY <1>1, AnsweredAtOnce
<1>4. Changed(answer, answer', t) /\ answer'[t] = Entry(k, x)
  BY <1>2, Updated DEF LocalDomains, Answered
<1>5. /\ Changed(job, job', t) /\ Changed(ring, ring', t) /\ Changed(path, path', t)
      /\ Changed(tail, tail', t) /\ Changed(levels, levels', t)
      /\ Changed(pc, pc', t) /\ Changed(current, current', t)
  BY <1>2, Same DEF LocalDomains
<1>6. LocalAt(t)'
  BY <1>3, <1>4 DEF LocalAt
<1> QED BY <1>4, <1>5, <1>6, Framed

LEMMA RecursionHit ==
  ASSUME RecursionsInv, NEW t \in Threads, NEW op \in Retaining, NEW n,
         Holds(recursions[<< t, op >>], n)
  PROVE  RecursionExact(n, op, Cached(recursions[<< t, op >>], n))
<1> DEFINE c == recursions[<< t, op >>]
<1>1. /\ CacheShape(c, PlanSlots) /\ PlanSlots \in Nat
      /\ \A e \in Filled(c) : EntryExact(e, op)
  BY SlotAssumption DEF RecursionsInv, RecursionsHeld
<1> HIDE DEF c
<1>2. Holds(c, n)
  BY DEF c
<1>3. PICK e \in Filled(c) : e.key = n /\ Cached(c, n) = e.value
  BY <1>1, <1>2, CachedEntry
<1>4. RecursionExact(n, op, Cached(c, n))
  BY <1>1, <1>3 DEF EntryExact
<1> QED BY <1>4 DEF c

LEMMA StartRecursionStep ==
  ASSUME IInv, NEW t \in Threads, StartRecursion(t)
  PROVE  IInv'
<1>1. SharedInv /\ OwnInv /\ LocalInv /\ LocalDomains /\ RecursionsInv
  BY DEF IInv, OwnInv, LocalInv
<1>2. /\ pc[t] = "idle"
      /\ UNCHANGED <<shared, plans, recursions, widths, ring, path, tail, levels>>
  BY DEF StartRecursion
<1>3. SharedInv' /\ OwnInv'
  BY <1>1, <1>2, SharedKept, OwnKept DEF OwnInv
<1>4. PICK request \in Recursions[t] :
        LET mine == recursions[<< t, request.op >>]
            this == Job("recursion", request.limbs, request.op)
        IN \/ /\ Holds(mine, request.limbs)
              /\ Answered(t, this, Cached(mine, request.limbs))
              /\ UNCHANGED <<pc, job, current>>
           \/ /\ ~ Holds(mine, request.limbs) /\ ~ Halves(request.limbs)
              /\ Answered(t, this, None)
              /\ UNCHANGED <<pc, job, current>>
           \/ /\ ~ Holds(mine, request.limbs) /\ Halves(request.limbs)
              /\ job' = [job EXCEPT ![t] = this]
              /\ current' = [current EXCEPT ![t] = request.limbs]
              /\ pc' = [pc EXCEPT ![t] = "level"]
              /\ answer' = [answer EXCEPT ![t] = None]
  BY DEF StartRecursion
<1> DEFINE n == request.limbs
           o == request.op
           k == Job("recursion", n, o)
           mine == recursions[<< t, o >>]
<1>5. n \in LevelLimbs /\ o \in Retaining
  BY <1>4, RequestAssumption
<1>6. \/ Holds(mine, n) /\ Answered(t, k, Cached(mine, n)) /\ UNCHANGED <<pc, job, current>>
      \/ ~ Halves(n) /\ Answered(t, k, None) /\ UNCHANGED <<pc, job, current>>
      \/ /\ Halves(n)
         /\ job' = [job EXCEPT ![t] = k] /\ current' = [current EXCEPT ![t] = n]
         /\ pc' = [pc EXCEPT ![t] = "level"] /\ answer' = [answer EXCEPT ![t] = None]
  BY <1>4
<1> HIDE DEF n, o
<1>7. CASE Holds(mine, n) /\ Answered(t, k, Cached(mine, n)) /\ UNCHANGED <<pc, job, current>>
  <2>1. Exact(k, Cached(mine, n))
    BY <1>1, <1>5, <1>7, RecursionHit DEF RecursionExact
  <2> HIDE DEF k, mine
  <2>2. LocalInv'
    BY <1>1, <1>2, <1>7, <2>1, AnswerStep
  <2> QED BY <1>3, <2>2 DEF IInv
<1>8. CASE ~ Halves(n) /\ Answered(t, k, None) /\ UNCHANGED <<pc, job, current>>
  <2>1. Exact(k, None)
    BY <1>8 DEF Exact, Job
  <2> HIDE DEF k
  <2>2. LocalInv'
    BY <1>1, <1>2, <1>8, <2>1, AnswerStep
  <2> QED BY <1>3, <2>2 DEF IInv
<1>9. CASE /\ Halves(n)
           /\ job' = [job EXCEPT ![t] = k] /\ current' = [current EXCEPT ![t] = n]
           /\ pc' = [pc EXCEPT ![t] = "level"] /\ answer' = [answer EXCEPT ![t] = None]
  <2>1. Local("idle", job[t], ring[t], path[t], tail[t], current[t], levels[t], answer[t])
    BY <1>1, <1>2 DEF LocalInv, LocalAt
  <2>2. Local("level", k, ring[t], path[t], tail[t], n, levels[t], None)
    BY <1>5, <1>9, <2>1, RecursionStarted
  <2> HIDE DEF k
  <2>3. /\ Changed(pc, pc', t) /\ pc'[t] = "level" /\ Changed(answer, answer', t)
        /\ answer'[t] = None /\ Changed(job, job', t) /\ job'[t] = k
        /\ Changed(current, current', t) /\ current'[t] = n
    BY <1>1, <1>9, Updated DEF LocalDomains
  <2>4. /\ Changed(path, path', t) /\ Changed(tail, tail', t) /\ Changed(levels, levels', t)
        /\ Changed(ring, ring', t)
    BY <1>1, <1>2, Same DEF LocalDomains
  <2>5. LocalAt(t)'
    BY <1>2, <2>2, <2>3 DEF LocalAt
  <2>6. LocalInv'
    BY <1>1, <2>3, <2>4, <2>5, Framed
  <2> QED BY <1>3, <2>6 DEF IInv
<1> QED BY <1>6, <1>7, <1>8, <1>9

LEMMA PlanLevelStep ==
  ASSUME IInv, NEW t \in Threads, PlanLevel(t)
  PROVE  IInv'
<1> DEFINE h == current[t] \div 2
<1>1. SharedInv /\ OwnInv /\ LocalInv /\ LocalDomains
  BY DEF IInv, LocalInv
<1>2. /\ pc[t] = "level" /\ current[t] > BaseLimbs
      /\ current' = [current EXCEPT ![t] = h]
      /\ ring' = [ring EXCEPT ![t] = current'[t] * LimbBits]
      /\ pc' = [pc EXCEPT ![t] = "geometry"]
      /\ UNCHANGED <<shared, plans, recursions, widths, job, path, tail, levels, answer>>
  BY DEF PlanLevel
<1>3. SharedInv' /\ OwnInv'
  BY <1>1, <1>2, SharedKept, OwnKept DEF OwnInv
<1>4. Local("level", job[t], ring[t], path[t], tail[t], current[t], levels[t], answer[t])
  BY <1>1, <1>2 DEF LocalInv, LocalAt
<1>5. Local("geometry", job[t], h * LimbBits, path[t], tail[t], h, levels[t], answer[t])
  BY <1>2, <1>4, LevelPlanned
<1> HIDE DEF h
<1>6. Changed(current, current', t) /\ current'[t] = h
  BY <1>1, <1>2, Updated DEF LocalDomains
<1>7. ring' = [ring EXCEPT ![t] = h * LimbBits]
  BY <1>2, <1>6
<1>8. /\ Changed(pc, pc', t) /\ pc'[t] = "geometry"
      /\ Changed(ring, ring', t) /\ ring'[t] = h * LimbBits
  BY <1>1, <1>2, <1>7, Updated DEF LocalDomains
<1>9. /\ Changed(job, job', t) /\ Changed(path, path', t) /\ Changed(tail, tail', t)
      /\ Changed(levels, levels', t) /\ Changed(answer, answer', t)
  BY <1>1, <1>2, Same DEF LocalDomains
<1>10. LocalAt(t)'
  BY <1>2, <1>5, <1>6, <1>8 DEF LocalAt
<1>11. LocalInv'
  BY <1>1, <1>6, <1>8, <1>9, <1>10, Framed
<1> QED BY <1>3, <1>11 DEF IInv

LEMMA FinishRecursionStep ==
  ASSUME IInv, NEW t \in Threads, FinishRecursion(t)
  PROVE  IInv'
<1> DEFINE j == job[t]
           op == job[t].op
           v == levels[t]
           e == Entry(job[t].key, levels[t])
<1>1. SharedInv /\ OwnInv /\ LocalInv /\ LocalDomains /\ RecursionsInv
  BY DEF IInv, OwnInv, LocalInv
<1>2. /\ pc[t] = "level" /\ current[t] <= BaseLimbs
      /\ recursions' = With(recursions, << t, op >>, Retain(recursions[<< t, op >>], e))
      /\ answer' = [answer EXCEPT ![t] = Entry(j, v)]
      /\ levels' = [levels EXCEPT ![t] = <<>>] /\ current' = [current EXCEPT ![t] = 0]
      /\ pc' = [pc EXCEPT ![t] = "idle"] /\ job' = [job EXCEPT ![t] = None]
      /\ shared' = shared /\ plans' = plans /\ widths' = widths
      /\ UNCHANGED <<ring, path, tail>>
  BY DEF FinishRecursion, Answered, With
<1>3. Local("level", j, ring[t], path[t], tail[t], current[t], v, answer[t])
  BY <1>1, <1>2 DEF LocalInv, LocalAt
<1>4. /\ j \in RecursionJobs /\ RecursionExact(j.key, j.op, v)
      /\ Local("idle", None, ring[t], path[t], tail[t], 0, <<>>, Entry(j, v))
  BY <1>2, <1>3, RecursionAnswered
<1>5. op \in Retaining
  BY <1>4 DEF RecursionJobs
<1>6. e.key = j.key /\ e.value = v
  BY DEF Entry
<1>7. EntryExact(e, op)
  BY <1>4, <1>6 DEF EntryExact
<1> HIDE DEF e, op, j, v
<1>8. RecursionsInv'
  <2>1. RecursionsHeld(recursions)
    BY <1>1 DEF RecursionsInv
  <2>2. RecursionsHeld(With(recursions, << t, op >>, Retain(recursions[<< t, op >>], e)))
    BY <1>5, <1>7, <2>1, RecursionRetained
  <2> QED BY <1>2, <2>2 DEF RecursionsInv
<1>9. SharedInv' /\ OwnInv'
  BY <1>1, <1>2, <1>8, SharedKept, OwnKept DEF OwnInv
<1>10. /\ Changed(pc, pc', t) /\ pc'[t] = "idle" /\ Changed(job, job', t) /\ job'[t] = None
       /\ Changed(levels, levels', t) /\ levels'[t] = <<>>
       /\ Changed(current, current', t) /\ current'[t] = 0
       /\ Changed(answer, answer', t) /\ answer'[t] = Entry(j, v)
  BY <1>1, <1>2, Updated DEF LocalDomains
<1>11. Changed(ring, ring', t) /\ Changed(path, path', t) /\ Changed(tail, tail', t)
  BY <1>1, <1>2, Same DEF LocalDomains
<1>12. LocalAt(t)'
  BY <1>2, <1>4, <1>10 DEF LocalAt
<1>13. LocalInv'
  BY <1>1, <1>10, <1>11, <1>12, Framed
<1> QED BY <1>9, <1>13 DEF IInv

LEMMA BestHalfWidthStep ==
  ASSUME IInv, NEW t \in Threads, BestHalfWidth(t)
  PROVE  IInv'
<1>1. SharedInv /\ OwnInv /\ LocalInv /\ WidthsInv
  BY DEF IInv, OwnInv
<1>2. /\ shared' = shared /\ plans' = plans /\ recursions' = recursions
      /\ UNCHANGED <<pc, job, ring, path, tail, levels, current>>
  BY DEF BestHalfWidth
<1>3. PICK request \in Products[t] :
        LET k == << request.bits, request.op >>
            found == HalfWidth[<< request.bits, request.op >>]
            this == Job("width", request.bits, request.op)
        IN \/ /\ Holds(widths[t], k)
              /\ Answered(t, this, Cached(widths[t], k))
              /\ UNCHANGED widths
           \/ /\ ~ Holds(widths[t], k)
              /\ Answered(t, this, found)
              /\ widths' = IF found = None THEN widths
                           ELSE [widths EXCEPT ![t] = InsertWidth(@, Entry(k, found))]
  BY DEF BestHalfWidth
<1> DEFINE k == << request.bits, request.op >>
           found == HalfWidth[k]
           this == Job("width", request.bits, request.op)
           c == widths[t]
           e == Entry(k, found)
<1>4. \/ Holds(c, k) /\ Answered(t, this, Cached(c, k)) /\ widths' = widths
      \/ /\ Answered(t, this, found)
         /\ \/ widths' = widths
            \/ widths' = [widths EXCEPT ![t] = InsertWidth(c, e)]
  BY <1>3
<1>5. k = << k[1], k[2] >>
  OBVIOUS
<1>6. Exact(this, found)
  BY DEF Exact, Job
<1>7. /\ widths = [s \in Threads |-> widths[s]]
      /\ \A s \in Threads : /\ CacheShape(widths[s], WidthSlots)
                            /\ \A f \in Filled(widths[s]) :
                                 f.value = HalfWidth[<< f.key[1], f.key[2] >>]
  BY <1>1 DEF WidthsInv
<1>8. e.value = HalfWidth[<< e.key[1], e.key[2] >>]
  BY DEF Entry
<1>9. WidthSlots \in Nat \ {0} /\ WidthSlots \in Nat
  BY SlotAssumption
<1> HIDE DEF k, this, c, e
<1>10. CASE Holds(c, k) /\ Answered(t, this, Cached(c, k)) /\ widths' = widths
  <2>1. /\ CacheShape(c, WidthSlots)
        /\ \A f \in Filled(c) : f.value = HalfWidth[<< f.key[1], f.key[2] >>]
    BY <1>7 DEF c
  <2>2. PICK f \in Filled(c) : f.key = k /\ Cached(c, k) = f.value
    BY <1>9, <1>10, <2>1, CachedEntry
  <2>3. Cached(c, k) = found
    BY <1>5, <2>1, <2>2
  <2>4. LocalInv'
    BY <1>1, <1>2, <1>6, <1>10, <2>3, AnswerStep
  <2>5. WidthsInv'
    BY <1>1, <1>10, OwnKept
  <2> QED BY <1>1, <1>2, <2>4, <2>5, SharedKept, OwnKept DEF IInv, OwnInv
<1>11. CASE Answered(t, this, found) /\ widths' = widths
  <2>1. LocalInv'
    BY <1>1, <1>2, <1>6, <1>11, AnswerStep
  <2>2. WidthsInv'
    BY <1>1, <1>11, OwnKept
  <2> QED BY <1>1, <1>2, <2>1, <2>2, SharedKept, OwnKept DEF IInv, OwnInv
<1>12. CASE Answered(t, this, found) /\ widths' = [widths EXCEPT ![t] = InsertWidth(c, e)]
  <2>1. LocalInv'
    BY <1>1, <1>2, <1>6, <1>12, AnswerStep
  <2>2. /\ CacheShape(c, WidthSlots)
        /\ \A f \in Filled(c) : f.value = HalfWidth[<< f.key[1], f.key[2] >>]
    BY <1>7 DEF c
  <2>3. /\ CacheShape(InsertWidth(c, e), WidthSlots)
        /\ \A f \in Filled(InsertWidth(c, e)) : f \in Filled(c) \/ f = e
    BY <1>9, <2>2, WidthInserted
  <2>4. widths' = [s \in Threads |-> widths'[s]]
    BY <1>7, <1>12
  <2>5. ASSUME NEW s \in Threads
        PROVE  /\ CacheShape(widths'[s], WidthSlots)
               /\ \A f \in Filled(widths'[s]) : f.value = HalfWidth[<< f.key[1], f.key[2] >>]
    <3>1. CASE s = t
      <4>1. widths'[s] = InsertWidth(c, e)
        BY <1>7, <1>12, <3>1
      <4> QED BY <1>8, <2>2, <2>3, <4>1
    <3>2. CASE s # t
      <4>1. widths'[s] = widths[s]
        BY <1>7, <1>12, <3>2
      <4> QED BY <1>7, <4>1
    <3> QED BY <3>1, <3>2
  <2>6. WidthsInv'
    BY <2>4, <2>5 DEF WidthsInv
  <2> QED BY <1>1, <1>2, <2>1, <2>6, SharedKept, OwnKept DEF IInv, OwnInv
<1> QED BY <1>4, <1>10, <1>11, <1>12

-----------------------------------------------------------------------------

LEMMA InitialCaches ==
  ASSUME Init
  PROVE  SharedInv /\ OwnInv
<1>1. CacheShape(Empty(Ways), Ways) /\ Filled(Empty(Ways)) = {}
  BY SlotAssumption, EmptyShape
<1>2. CacheShape(Empty(PlanSlots), PlanSlots) /\ Filled(Empty(PlanSlots)) = {}
  BY SlotAssumption, EmptyShape
<1>3. CacheShape(Empty(WidthSlots), WidthSlots) /\ Filled(Empty(WidthSlots)) = {}
  BY SlotAssumption, EmptyShape
<1>4. SharedInv
  BY <1>1 DEF Init, SharedInv
<1>5. PlansInv
  BY <1>2 DEF Init, PlansInv, PlansHeld
<1>6. RecursionsInv
  BY <1>2 DEF Init, RecursionsInv, RecursionsHeld
<1>7. WidthsInv
  BY <1>3 DEF Init, WidthsInv
<1> QED BY <1>4, <1>5, <1>6, <1>7 DEF OwnInv

LEMMA InitialThreads ==
  ASSUME Init
  PROVE  LocalInv
<1>1. LocalDomains
  BY DEF Init, LocalDomains
<1>2. ASSUME NEW t \in Threads
      PROVE  LocalAt(t)
  <2>1. /\ pc[t] = "idle" /\ job[t] = None /\ ring[t] = 0 /\ path[t] = <<>>
        /\ tail[t] = <<>> /\ current[t] = 0 /\ levels[t] = <<>> /\ answer[t] = None
    BY DEF Init
  <2>2. <<>> \in Plans /\ <<>> \in Seq(Levels)
    BY DEF Plans
  <2>3. Typed(<<>>, <<>>, 0, <<>>, None)
    BY <2>2 DEF Typed
  <2>4. Located("idle", None, 0, <<>>, <<>>, 0, <<>>)
    BY DEF Located, Places, Descending
  <2> QED BY <2>1, <2>3, <2>4 DEF LocalAt, Local
<1> QED BY <1>1, <1>2 DEF LocalInv

LEMMA Stuttering ==
  ASSUME IInv, UNCHANGED vars
  PROVE  IInv'
<1>1. SharedInv /\ OwnInv /\ LocalInv
  BY DEF IInv
<1>2. UNCHANGED shared /\ plans' = plans /\ recursions' = recursions /\ widths' = widths
  BY DEF vars, shared
<1>3. SharedInv' /\ OwnInv'
  BY <1>1, <1>2, SharedKept, OwnKept DEF OwnInv
<1>4. LocalInv'
  BY <1>1 DEF vars, LocalInv, LocalDomains, LocalAt
<1> QED BY <1>3, <1>4 DEF IInv

\* Every entry of every cache is exact for its key, and every thread is on the way
\* to the answer of its request.
THEOREM CachesExact == Spec => []IInv
<1>1. Init => IInv
  BY InitialCaches, InitialThreads DEF IInv
<1>2. IInv /\ [Next]_vars => IInv'
  <2> SUFFICES ASSUME IInv, [Next]_vars PROVE IInv'
    OBVIOUS
  <2>1. CASE UNCHANGED vars
    BY <2>1, Stuttering
  <2>2. ASSUME NEW t \in Threads, StartRing(t) PROVE IInv'
    BY <2>2, StartRingStep
  <2>3. ASSUME NEW t \in Threads, StartRecursion(t) PROVE IInv'
    BY <2>3, StartRecursionStep
  <2>4. ASSUME NEW t \in Threads, BestHalfWidth(t) PROVE IInv'
    BY <2>4, BestHalfWidthStep
  <2>5. ASSUME NEW t \in Threads, LookUpGeometry(t) PROVE IInv'
    BY <2>5, LookUpGeometryStep
  <2>6. ASSUME NEW t \in Threads, Search(t) PROVE IInv'
    BY <2>6, SearchStep
  <2>7. ASSUME NEW t \in Threads, LookUpRetained(t) PROVE IInv'
    BY <2>7, LookUpRetainedStep
  <2>8. ASSUME NEW t \in Threads, AscendNested(t) PROVE IInv'
    BY <2>8, AscendNestedStep
  <2>9. ASSUME NEW t \in Threads, AscendOutermost(t) PROVE IInv'
    BY <2>9, AscendOutermostStep
  <2>10. ASSUME NEW t \in Threads, PlanLevel(t) PROVE IInv'
    BY <2>10, PlanLevelStep
  <2>11. ASSUME NEW t \in Threads, FinishRecursion(t) PROVE IInv'
    BY <2>11, FinishRecursionStep
  <2> QED BY <2>1, <2>2, <2>3, <2>4, <2>5, <2>6, <2>7, <2>8, <2>9, <2>10, <2>11
          DEF Next, Start, Continue
<1> QED BY <1>1, <1>2, PTL DEF Spec

\* Caching never changes what a planning call answers (plan/cache.rs:41,
\* cost.rs:383): not for any interleaving of lookups and stores, any eviction, or
\* any nesting of the calls that fill a cache while it is looked at.
THEOREM PlansAreExact == Spec => []PlansExact
<1>1. IInv => PlansExact
  BY DEF IInv, LocalInv, LocalAt, Local, Typed, PlansExact
<1> QED BY <1>1, CachesExact, PTL

-----------------------------------------------------------------------------
(* What the caches promise.                                                *)

\* A cache whose slots are filled from the first on, and what its cursor does
\* until they are: it rests at the first slot, or it is at the next to fill.
FilledTo(c, size, n) == \A i \in 1 .. size : c.slots[i] # None <=> i <= n
Resting(c, size) ==
  \E n \in 0 .. size : FilledTo(c, size, n) /\ c.next < size /\ (n < size => c.next = 0)
Following(c, size, last) ==
  \E n \in 0 .. size : FilledTo(c, size, n) /\ c.next <= last /\ (n < size => c.next = n)

CursorsInv ==
  /\ \A s \in SetIds : Resting(sets[s], Ways)
  /\ \A t \in Threads : Following(widths[t], WidthSlots, WidthSlots - 1)
  /\ \A t \in Threads, op \in Retaining :
       /\ Following(plans[<< t, op >>], PlanSlots, PlanSlots)
       /\ Following(recursions[<< t, op >>], PlanSlots, PlanSlots)

\* What a thread will retain is not retained yet: the plans of the rings on its
\* path, which are narrower the further down, and the levels of its recursion.
Narrowing(w) == \A i, j \in 1 .. Len(w) : i < j => w[j].bits < w[i].bits
Missing(c, w) == \A i \in 2 .. Len(w) : ~ Holds(c, w[i].bits)

PathMissing(t) ==
  pc[t] \in Descending \union {"ascend"} =>
    LET mine == plans[<< t, CoefficientOp(job[t].op) >>] IN
    /\ Narrowing(path[t]) /\ Missing(mine, path[t])
    /\ pc[t] \in {"geometry", "search"} /\ path[t] # <<>> => ~ Holds(mine, ring[t])

RecursionMissing(t) ==
  pc[t] # "idle" /\ job[t].kind = "recursion" =>
    ~ Holds(recursions[<< t, job[t].op >>], job[t].key)

MissingInv == \A t \in Threads : PathMissing(t) /\ RecursionMissing(t)

KInv == IInv /\ CursorsInv /\ MissingInv

-----------------------------------------------------------------------------
(* The order in which a cache was filled.                                  *)

\* A cursor at most one past the last slot, taken around.
LEMMA Around ==
  ASSUME NEW m \in Nat \ {0}, NEW a \in 0 .. m
  PROVE  a % m = IF a = m THEN 0 ELSE a
<1> DEFINE s == a % m
           p == a \div m
<1>1. s \in 0 .. m - 1 /\ p \in Int /\ a = m * p + s
  OBVIOUS
<1> HIDE DEF s, p
<1>2. CASE p >= 2
  <2>1. m * p >= m + m
    BY <1>1, <1>2
  <2>2. m * p \in Int
    BY <1>1
  <2> QED BY <1>1, <2>1, <2>2
<1>3. CASE p < 0
  <2>1. m * p <= 0 - m /\ m * p \in Int
    BY <1>1, <1>3
  <2> QED BY <1>1, <2>1
<1>4. CASE p = 0
  BY <1>1, <1>4 DEF s
<1>5. CASE p = 1
  BY <1>1, <1>5 DEF s
<1> QED BY <1>1, <1>2, <1>3, <1>4, <1>5

LEMMA FillFacts ==
  ASSUME NEW c, NEW size \in Nat, CacheShape(c, size), NEW n \in 0 .. size, FilledTo(c, size, n)
  PROVE  Fill(c) = n /\ Len(c.slots) = size
<1>1. Len(c.slots) = size /\ DOMAIN c.slots = 1 .. size
  BY Length DEF CacheShape
<1> DEFINE Good(m) == \A i \in DOMAIN c.slots : c.slots[i] # None <=> i <= m
<1>2. Good(n)
  BY <1>1 DEF FilledTo
<1>3. ASSUME NEW m \in 0 .. size, Good(m)
      PROVE  m = n
  <2>1. CASE m < n
    <3>1. n \in 1 .. size /\ ~ (n <= m)
      BY <2>1
    <3> QED BY <1>1, <1>2, <1>3, <3>1
  <2>2. CASE n < m
    <3>1. m \in 1 .. size /\ m <= m /\ ~ (m <= n)
      BY <2>2
    <3>2. c.slots[m] # None
      BY <1>1, <1>3, <3>1
    <3> QED BY <1>1, <1>2, <3>1, <3>2
  <2>3. m < n \/ n < m \/ m = n
    OBVIOUS
  <2> QED BY <2>1, <2>2, <2>3
<1>4. Fill(c) = CHOOSE m \in 0 .. size : Good(m)
  BY <1>1 DEF Fill
<1> HIDE DEF Good
<1> QED BY <1>1, <1>2, <1>3, <1>4

\* The first n entries of slots s from a slot on, around.
Listed(s, size, n, from) ==
  [k \in 1 .. n |-> s[IF from + k <= size THEN from + k ELSE from + k - size]]

LEMMA OrderFacts ==
  ASSUME NEW c, NEW size \in Nat \ {0}, CacheShape(c, size),
         NEW n \in 0 .. size, FilledTo(c, size, n)
  PROVE  /\ n < size => Order(c) = Listed(c.slots, size, n, 0)
         /\ n = size => Order(c) = Listed(c.slots, size, size, c.next % size)
<1>1. Fill(c) = n /\ Len(c.slots) = size
  BY FillFacts
<1> QED BY <1>1 DEF Order, Oldest, Listed

\* A list of slots is a sequence.
Lists(f, s, size, n, from, S) ==
  /\ f \in Seq(S) /\ Len(f) = n
  /\ \A k \in 1 .. n : f[k] = s[IF from + k <= size THEN from + k ELSE from + k - size]

LEMMA ListedFacts ==
  ASSUME NEW s, NEW size \in Nat, NEW n \in 0 .. size, NEW from \in 0 .. size - 1
  PROVE  \E S : Lists(Listed(s, size, n, from), s, size, n, from, S)
<1> DEFINE f == Listed(s, size, n, from)
           S == {f[k] : k \in 1 .. n}
<1>1. \A k \in 1 .. n : f[k] = s[IF from + k <= size THEN from + k ELSE from + k - size]
  BY DEF Listed
<1>2. f = [k \in 1 .. n |-> f[k]]
  BY DEF Listed
<1>3. \A k \in 1 .. n : f[k] \in S
  OBVIOUS
<1> HIDE DEF f, S
<1>4. [k \in 1 .. n |-> f[k]] \in Seq(S)
  BY <1>3, IsASeq
<1>5. f \in Seq(S) /\ DOMAIN f = 1 .. n
  BY <1>2, <1>4
<1>6. Len(f) = n
  BY <1>5, LenProperties
<1>7. Lists(f, s, size, n, from, S)
  BY <1>1, <1>5, <1>6 DEF Lists
<1> QED BY <1>7 DEF f

\* A key that is not held is none of an entry in the list.
LEMMA KeyIsNew ==
  ASSUME NEW c, NEW size \in Nat \ {0}, CacheShape(c, size),
         NEW n \in 0 .. size, FilledTo(c, size, n), c.next \in 0 .. size,
         NEW key, ~ Holds(c, key)
  PROVE  \A k \in DOMAIN Order(c) : Order(c)[k].key # key
<1>1. \A i \in 1 .. size : i <= n => c.slots[i].key # key
  BY DEF FilledTo, Holds, Matches, CacheShape
<1>2. CASE n < size
  <2>1. Order(c) = Listed(c.slots, size, n, 0)
    BY <1>2, OrderFacts
  <2> QED BY <1>1, <1>2, <2>1 DEF Listed
<1>3. CASE n = size
  <2>1. Order(c) = Listed(c.slots, size, size, c.next % size)
    BY <1>3, OrderFacts
  <2> DEFINE from == c.next % size
  <2>2. from \in 0 .. size - 1
    BY Around
  <2> HIDE DEF from
  <2>3. Order(c) = Listed(c.slots, size, size, from)
    BY <2>1 DEF from
  <2> QED BY <1>1, <1>3, <2>2, <2>3 DEF Listed
<1> QED BY <1>2, <1>3

\* What storing e in c should leave: the entries of c, the oldest dropped if there
\* were as many as slots, and e.
Kept(c, size) == IF Len(Order(c)) = size THEN Tail(Order(c)) ELSE Order(c)
StoredLast(c, d, size, e) ==
  /\ \A k \in DOMAIN Order(c) : Order(c)[k].key # e.key
  /\ Order(d) = Append(Kept(c, size), e)
  /\ Order(d) # <<>> /\ Order(d)[Len(Order(d))] = e

\* Two sequences of slots, one with an entry more.
LEMMA Appended ==
  ASSUME NEW S, NEW T, NEW v \in Seq(S), NEW w \in Seq(T), NEW e,
         Len(w) = Len(v) + 1, w[Len(w)] = e,
         \A k \in 1 .. Len(v) : w[k] = v[k]
  PROVE  w = Append(v, e) /\ w # <<>>
<1> DEFINE U == S \union T \union {e}
<1>1. v \in Seq(U) /\ w \in Seq(U) /\ e \in U
  <2>1. S \subseteq U /\ T \subseteq U
    OBVIOUS
  <2> QED BY <2>1, SeqMonotonic
<1> HIDE DEF U
<1>2. Len(v) \in Nat
  BY <1>1, LenProperties
<1>3. /\ Append(v, e) \in Seq(U) /\ Len(Append(v, e)) = Len(v) + 1
      /\ \A k \in 1 .. Len(v) : Append(v, e)[k] = v[k]
      /\ Append(v, e)[Len(v) + 1] = e
  BY <1>1, AppendProperties
<1>4. \A k \in 1 .. Len(w) : w[k] = Append(v, e)[k]
  BY <1>2, <1>3
<1>5. w = Append(v, e)
  BY <1>1, <1>3, <1>4, SeqEqual
<1>6. w # <<>>
  BY <1>1, <1>2, EmptySeq
<1> QED BY <1>5, <1>6

\* The first vacant slot is filled.
LEMMA StoredInVacant ==
  ASSUME NEW c, NEW size \in Nat \ {0}, CacheShape(c, size),
         NEW n \in 0 .. size - 1, FilledTo(c, size, n), c.next \in 0 .. size,
         NEW e, e # None, ~ Holds(c, e.key),
         NEW next \in 0 .. size, n + 1 = size => next % size = 0
  PROVE  /\ FilledTo(Replaced(c, n + 1, e, next), size, n + 1)
         /\ StoredLast(c, Replaced(c, n + 1, e, next), size, e)
<1> DEFINE d == Replaced(c, n + 1, e, next)
<1>1. /\ c.slots = [i \in 1 .. size |-> c.slots[i]] /\ n \in 0 .. size /\ n + 1 \in 1 .. size
      /\ n + 1 \in 0 .. size /\ size \in Nat /\ n \in Nat
  BY DEF CacheShape
<1>2. d.slots = [c.slots EXCEPT ![n + 1] = e] /\ d.next = next /\ CacheShape(d, size)
  <2>1. d.slots = [c.slots EXCEPT ![n + 1] = e] /\ d.next = next
    BY DEF Replaced
  <2>2. next \in Nat
    OBVIOUS
  <2>3. CacheShape(d, size)
    BY <1>1, <2>2, Overwritten
  <2> QED BY <2>1, <2>3
<1>3. d.slots[n + 1] = e /\ \A i \in 1 .. size : i # n + 1 => d.slots[i] = c.slots[i]
  BY <1>1, <1>2
<1> HIDE DEF d
<1>4. FilledTo(d, size, n + 1)
  BY <1>1, <1>3 DEF FilledTo
<1>5. Order(c) = Listed(c.slots, size, n, 0)
  BY <1>1, OrderFacts
<1>6. Order(d) = Listed(d.slots, size, n + 1, 0)
  <2>1. CASE n + 1 < size
    BY <1>1, <1>2, <1>4, <2>1, OrderFacts
  <2>2. CASE n + 1 = size
    <3>1. d.next % size = 0
      BY <1>2, <2>2
    <3>2. Order(d) = Listed(d.slots, size, size, d.next % size)
      BY <1>1, <1>2, <1>4, <2>2, OrderFacts
    <3> QED BY <2>2, <3>1, <3>2
  <2> QED BY <1>1, <2>1, <2>2
<1>0. 0 \in 0 .. size - 1
  OBVIOUS
<1>7. PICK S : Lists(Order(c), c.slots, size, n, 0, S)
  <2>1. \E S : Lists(Listed(c.slots, size, n, 0), c.slots, size, n, 0, S)
    BY <1>0, <1>1, ListedFacts
  <2> QED BY <1>5, <2>1
<1>8. PICK T : Lists(Order(d), d.slots, size, n + 1, 0, T)
  <2>1. \E T : Lists(Listed(d.slots, size, n + 1, 0), d.slots, size, n + 1, 0, T)
    BY <1>0, <1>1, ListedFacts
  <2> QED BY <1>6, <2>1
<1>9. /\ \A k \in 1 .. n : Order(d)[k] = Order(c)[k]
      /\ Order(d)[n + 1] = e
  <2>1. \A k \in 1 .. n : k \in 1 .. n + 1 /\ k \in 1 .. size /\ k # n + 1 /\ 0 + k = k /\ k <= size
    BY <1>1
  <2>2. \A k \in 1 .. n : Order(c)[k] = c.slots[k]
    BY <1>7, <2>1 DEF Lists
  <2>3. n + 1 \in 1 .. n + 1 /\ 0 + (n + 1) = n + 1 /\ n + 1 <= size
    BY <1>1
  <2>4. \A k \in 1 .. n + 1 : Order(d)[k] = d.slots[k]
    BY <1>8, <2>1, <2>3 DEF Lists
  <2> QED BY <1>3, <2>1, <2>2, <2>3, <2>4
<1>10. Order(d) = Append(Order(c), e) /\ Order(d) # <<>>
  <2>1. Order(c) \in Seq(S) /\ Order(d) \in Seq(T) /\ Len(Order(c)) = n /\ Len(Order(d)) = n + 1
    BY <1>7, <1>8 DEF Lists
  <2> QED BY <1>9, <2>1, Appended
<1>11. Kept(c, size) = Order(c)
  BY <1>1, <1>7 DEF Kept, Lists
<1>12. \A k \in DOMAIN Order(c) : Order(c)[k].key # e.key
  BY <1>1, KeyIsNew
<1> QED BY <1>4, <1>8, <1>9, <1>10, <1>11, <1>12 DEF StoredLast, Lists, d

\* The oldest entry is overwritten, and the next one is the oldest.
LEMMA StoredOverOldest ==
  ASSUME NEW c, NEW size \in Nat \ {0}, CacheShape(c, size),
         FilledTo(c, size, size), c.next \in 0 .. size,
         NEW from \in 0 .. size - 1, from = c.next % size,
         NEW e, e # None, ~ Holds(c, e.key),
         NEW next \in 0 .. size, next % size = IF from + 1 = size THEN 0 ELSE from + 1
  PROVE  /\ FilledTo(Replaced(c, from + 1, e, next), size, size)
         /\ StoredLast(c, Replaced(c, from + 1, e, next), size, e)
<1> DEFINE d == Replaced(c, from + 1, e, next)
           step == IF from + 1 = size THEN 0 ELSE from + 1
<1>1. /\ c.slots = [i \in 1 .. size |-> c.slots[i]] /\ size \in 0 .. size /\ size \in Nat
      /\ from + 1 \in 1 .. size /\ step \in 0 .. size - 1 /\ ~ (size < size)
  BY DEF CacheShape
<1>2. d.slots = [c.slots EXCEPT ![from + 1] = e] /\ d.next = next /\ CacheShape(d, size)
  <2>1. d.slots = [c.slots EXCEPT ![from + 1] = e] /\ d.next = next
    BY DEF Replaced
  <2>2. next \in Nat
    OBVIOUS
  <2>3. CacheShape(d, size)
    BY <1>1, <2>2, Overwritten
  <2> QED BY <2>1, <2>3
<1>3. d.slots[from + 1] = e /\ \A i \in 1 .. size : i # from + 1 => d.slots[i] = c.slots[i]
  BY <1>1, <1>2
<1>4. d.next % size = step
  BY <1>2
<1> HIDE DEF d
<1>5. FilledTo(d, size, size)
  <2>1. \A i \in 1 .. size : c.slots[i] # None /\ i <= size
    BY DEF FilledTo
  <2>2. \A i \in 1 .. size : d.slots[i] # None
    BY <1>3, <2>1
  <2> QED BY <2>1, <2>2 DEF FilledTo
<1>6. Order(c) = Listed(c.slots, size, size, from)
  <2>1. Order(c) = Listed(c.slots, size, size, c.next % size)
    BY <1>1, OrderFacts
  <2> QED BY <2>1
<1>7. Order(d) = Listed(d.slots, size, size, step)
  <2>1. Order(d) = Listed(d.slots, size, size, d.next % size)
    BY <1>1, <1>2, <1>5, OrderFacts
  <2> QED BY <1>4, <2>1
<1>8. PICK S : Lists(Order(c), c.slots, size, size, from, S)
  <2>1. \E S : Lists(Listed(c.slots, size, size, from), c.slots, size, size, from, S)
    BY <1>1, ListedFacts
  <2> QED BY <1>6, <2>1
<1> HIDE DEF step
<1>9. PICK T : Lists(Order(d), d.slots, size, size, step, T)
  <2>1. \E T : Lists(Listed(d.slots, size, size, step), d.slots, size, size, step, T)
    BY <1>1, ListedFacts
  <2> QED BY <1>7, <2>1
<1> USE DEF step
<1>10. Order(c) # <<>>
  BY <1>1, <1>8, EmptySeq DEF Lists
<1>11. /\ Tail(Order(c)) \in Seq(S) /\ Len(Tail(Order(c))) = size - 1
       /\ \A k \in 1 .. size - 1 : Tail(Order(c))[k] = Order(c)[k + 1]
  BY <1>8, <1>10, HeadTailProperties DEF Lists
<1>12. ASSUME NEW k \in 1 .. size - 1
       PROVE  Order(d)[k] = Tail(Order(c))[k]
  <2> DEFINE i == IF from + 1 + k <= size THEN from + 1 + k ELSE from + 1 + k - size
  <2>1. i \in 1 .. size /\ i # from + 1 /\ k \in 1 .. size /\ k + 1 \in 1 .. size
    OBVIOUS
  <2>2. Tail(Order(c))[k] = c.slots[i]
    <3>1. Tail(Order(c))[k] = Order(c)[k + 1]
      BY <1>11
    <3>2. Order(c)[k + 1] =
            c.slots[IF from + (k + 1) <= size THEN from + (k + 1) ELSE from + (k + 1) - size]
      BY <1>8, <2>1 DEF Lists
    <3>3. i = IF from + (k + 1) <= size THEN from + (k + 1) ELSE from + (k + 1) - size
      OBVIOUS
    <3> QED BY <3>1, <3>2, <3>3
  <2>3. Order(d)[k] = d.slots[i]
    <3>1. i = IF step + k <= size THEN step + k ELSE step + k - size
      BY <1>1
    <3> QED BY <1>9, <2>1, <3>1 DEF Lists
  <2> HIDE DEF i
  <2> QED BY <1>3, <2>1, <2>2, <2>3
<1>13. Order(d)[size] = e
  <2>1. from + 1 = IF step + size <= size THEN step + size ELSE step + size - size
    BY <1>1
  <2>2. size \in 1 .. size
    BY <1>1
  <2> QED BY <1>3, <1>9, <2>1, <2>2 DEF Lists
<1>14. Order(d) = Append(Tail(Order(c)), e) /\ Order(d) # <<>>
  <2> DEFINE v == Tail(Order(c))
             w == Order(d)
  <2>1. v \in Seq(S) /\ w \in Seq(T) /\ Len(w) = Len(v) + 1 /\ w[Len(w)] = e
    BY <1>1, <1>9, <1>11, <1>13 DEF Lists
  <2>2. \A k \in 1 .. Len(v) : w[k] = v[k]
    BY <1>11, <1>12
  <2> HIDE DEF v, w
  <2>3. w = Append(v, e) /\ w # <<>>
    BY <2>1, <2>2, Appended
  <2> QED BY <2>3 DEF v, w
<1>15. Kept(c, size) = Tail(Order(c))
  BY <1>8 DEF Kept, Lists
<1>16. \A k \in DOMAIN Order(c) : Order(c)[k].key # e.key
  BY <1>1, KeyIsNew
<1> QED BY <1>5, <1>9, <1>13, <1>14, <1>15, <1>16 DEF StoredLast, Lists, d

\* A cursor before the end of a cache that is full.
LEMMA TurnedOver ==
  ASSUME NEW c, NEW size \in Nat \ {0}, CacheShape(c, size), FilledTo(c, size, size),
         c.next \in 0 .. size - 1, NEW e, e # None, ~ Holds(c, e.key)
  PROVE  /\ CacheShape(AtCursor(c, e), size) /\ FilledTo(AtCursor(c, e), size, size)
         /\ AtCursor(c, e).next \in 0 .. size - 1
         /\ StoredLast(c, AtCursor(c, e), size, e)
<1> DEFINE from == c.next
           next == IF from + 1 = size THEN 0 ELSE from + 1
<1>1. from \in 0 .. size - 1 /\ from \in 0 .. size /\ from + 1 \in 0 .. size
  OBVIOUS
<1>2. from = c.next % size /\ (from + 1) % size = next
  BY <1>1, Around
<1>3. next \in 0 .. size - 1 /\ next \in 0 .. size
  OBVIOUS
<1>4. next % size = next
  <2> HIDE DEF next
  <2>1. next # size
    BY <1>3
  <2> QED BY <1>3, <2>1, Around
<1>5. AtCursor(c, e) = Replaced(c, from + 1, e, next)
  BY <1>2, Length DEF AtCursor, Replaced
<1>6. Replaced(c, from + 1, e, next).next = next
  BY DEF Replaced
<1>7. c.next \in 0 .. size
  BY <1>1
<1>8. next % size = IF from + 1 = size THEN 0 ELSE from + 1
  BY <1>4
<1> HIDE DEF from, next
<1>9. /\ FilledTo(Replaced(c, from + 1, e, next), size, size)
      /\ StoredLast(c, Replaced(c, from + 1, e, next), size, e)
  BY <1>1, <1>2, <1>3, <1>7, <1>8, StoredOverOldest
<1>10. CacheShape(AtCursor(c, e), size)
  BY StoredAtCursor
<1> QED BY <1>3, <1>5, <1>6, <1>9, <1>10

LEMMA GeometryStored ==
  ASSUME NEW c, NEW size \in Nat \ {0}, CacheShape(c, size), Resting(c, size),
         NEW e, e # None, ~ Holds(c, e.key)
  PROVE  /\ Resting(InsertGeometry(c, e), size)
         /\ StoredLast(c, InsertGeometry(c, e), size, e)
<1>1. PICK n \in 0 .. size : FilledTo(c, size, n) /\ c.next < size /\ (n < size => c.next = 0)
  BY DEF Resting
<1>2. c.next \in 0 .. size - 1 /\ c.next \in 0 .. size /\ DOMAIN c.slots = 1 .. size
  BY <1>1 DEF CacheShape
<1>3. CASE n < size
  <2> DEFINE d == Replaced(c, n + 1, e, 0)
             k == CHOOSE i \in Vacant(c) : \A j \in Vacant(c) : i <= j
  <2>1. Vacant(c) = {i \in 1 .. size : i > n} /\ n + 1 \in 1 .. size
    BY <1>1, <1>2, <1>3 DEF Vacant, FilledTo
  <2>2. n + 1 \in Vacant(c) /\ \A j \in Vacant(c) : n + 1 <= j /\ j \in Int
    BY <2>1
  <2>3. \A i \in Vacant(c) : (\A j \in Vacant(c) : i <= j) => i = n + 1
    BY <2>2
  <2>4. k = n + 1
    BY <2>2, <2>3
  <2>5. InsertGeometry(c, e) = [c EXCEPT !.slots[k] = e]
    BY <2>2 DEF InsertGeometry
  <2>6. c = [slots |-> c.slots, next |-> 0]
    BY <1>1, <1>3 DEF CacheShape
  <2> HIDE DEF k
  <2>7. InsertGeometry(c, e) = d
    BY <2>4, <2>5, <2>6 DEF Replaced
  <2>8. n \in 0 .. size - 1 /\ 0 \in 0 .. size /\ 0 % size = 0
    BY <1>3, Around
  <2>9. FilledTo(d, size, n + 1) /\ StoredLast(c, d, size, e)
    BY <1>1, <1>2, <2>8, StoredInVacant
  <2>10. d.next = 0
    BY DEF Replaced
  <2> HIDE DEF d
  <2>11. n + 1 \in 0 .. size /\ 0 < size
    BY <2>8
  <2>12. Resting(d, size)
    BY <2>9, <2>10, <2>11 DEF Resting
  <2> QED BY <2>7, <2>9, <2>12
<1>4. CASE n = size
  <2>1. Vacant(c) = {}
    BY <1>1, <1>2, <1>4 DEF Vacant, FilledTo
  <2>2. InsertGeometry(c, e) = AtCursor(c, e)
    BY <2>1 DEF InsertGeometry
  <2>3. /\ FilledTo(AtCursor(c, e), size, size) /\ AtCursor(c, e).next \in 0 .. size - 1
        /\ StoredLast(c, AtCursor(c, e), size, e)
    BY <1>1, <1>2, <1>4, TurnedOver
  <2>4. size \in 0 .. size /\ ~ (size < size)
    OBVIOUS
  <2>5. Resting(AtCursor(c, e), size)
    BY <2>3, <2>4 DEF Resting
  <2> QED BY <2>2, <2>3, <2>5
<1> QED BY <1>3, <1>4

LEMMA WidthStored ==
  ASSUME NEW c, NEW size \in Nat \ {0}, CacheShape(c, size), Following(c, size, size - 1),
         NEW e, e # None, ~ Holds(c, e.key)
  PROVE  /\ Following(InsertWidth(c, e), size, size - 1)
         /\ StoredLast(c, InsertWidth(c, e), size, e)
<1>1. PICK n \in 0 .. size : FilledTo(c, size, n) /\ c.next <= size - 1 /\ (n < size => c.next = n)
  BY DEF Following
<1>2. c.next \in 0 .. size - 1 /\ c.next \in 0 .. size
  BY <1>1 DEF CacheShape
<1>3. InsertWidth(c, e) = AtCursor(c, e)
  BY DEF InsertWidth
<1>4. CASE n < size
  <2> DEFINE next == IF n + 1 = size THEN 0 ELSE n + 1
             d == Replaced(c, n + 1, e, next)
  <2>1. n \in 0 .. size - 1 /\ n + 1 \in 0 .. size /\ c.next = n /\ next \in 0 .. size - 1 /\ next \in 0 .. size
    BY <1>1, <1>4
  <2>2. (n + 1) % size = next /\ 0 % size = 0
    <3>1. (n + 1) % size = next
      BY <2>1, Around
    <3>2. 0 \in 0 .. size /\ 0 # size
      OBVIOUS
    <3>3. 0 % size = 0
      BY <3>2, Around
    <3> QED BY <3>1, <3>3
  <2>3. AtCursor(c, e) = d
    BY <2>1, <2>2, Length DEF AtCursor, Replaced
  <2>4. n + 1 = size => next % size = 0
    BY <2>2
  <2>5. d.next = next
    BY DEF Replaced
  <2>6. n + 1 < size => next = n + 1
    BY <2>1
  <2> HIDE DEF next
  <2>7. FilledTo(d, size, n + 1) /\ StoredLast(c, d, size, e)
    BY <1>1, <1>2, <2>1, <2>4, StoredInVacant
  <2> HIDE DEF d
  <2>8. next <= size - 1
    BY <2>1
  <2>9. Following(d, size, size - 1)
    BY <2>1, <2>5, <2>6, <2>7, <2>8 DEF Following
  <2> QED BY <1>3, <2>3, <2>7, <2>9
<1>5. CASE n = size
  <2>1. /\ FilledTo(AtCursor(c, e), size, size) /\ AtCursor(c, e).next \in 0 .. size - 1
        /\ StoredLast(c, AtCursor(c, e), size, e)
    BY <1>1, <1>2, <1>5, TurnedOver
  <2>2. size \in 0 .. size /\ ~ (size < size) /\ AtCursor(c, e).next <= size - 1
    BY <2>1
  <2>3. Following(AtCursor(c, e), size, size - 1)
    BY <2>1, <2>2 DEF Following
  <2> QED BY <1>3, <2>1, <2>3
<1> QED BY <1>4, <1>5

LEMMA PlanStored ==
  ASSUME NEW c, NEW size \in Nat \ {0}, CacheShape(c, size), Following(c, size, size),
         NEW e, e # None, ~ Holds(c, e.key)
  PROVE  /\ Following(Retain(c, e), size, size)
         /\ StoredLast(c, Retain(c, e), size, e)
<1>1. PICK n \in 0 .. size : FilledTo(c, size, n) /\ c.next <= size /\ (n < size => c.next = n)
  BY DEF Following
<1> DEFINE from == c.next % size
           d == Replaced(c, from + 1, e, from + 1)
<1>2. c.next \in 0 .. size
  BY <1>1 DEF CacheShape
<1>3. from = (IF c.next = size THEN 0 ELSE c.next) /\ from \in 0 .. size - 1
  BY <1>2, Around
<1>4. Retain(c, e) = d /\ d.next = from + 1
  BY Length DEF Retain, Replaced
<1> HIDE DEF from
<1>5. from + 1 \in 0 .. size
  BY <1>3
<1>6. (from + 1) % size = IF from + 1 = size THEN 0 ELSE from + 1
  BY <1>5, Around
<1>7. from + 1 <= size
  BY <1>5
<1>8. CASE n < size
  <2>1. from = n /\ n \in 0 .. size - 1
    BY <1>1, <1>3, <1>8
  <2>2. n + 1 = size => (from + 1) % size = 0
    BY <1>6, <2>1
  <2>3. /\ FilledTo(Replaced(c, n + 1, e, from + 1), size, n + 1)
        /\ StoredLast(c, Replaced(c, n + 1, e, from + 1), size, e)
    BY <1>1, <1>2, <1>5, <2>1, <2>2, StoredInVacant
  <2>4. FilledTo(d, size, from + 1) /\ StoredLast(c, d, size, e)
    BY <2>1, <2>3
  <2> HIDE DEF d
  <2>5. Following(d, size, size)
    BY <1>4, <1>5, <1>7, <2>4 DEF Following
  <2> QED BY <1>4, <2>4, <2>5
<1>9. CASE n = size
  <2>1. FilledTo(c, size, size)
    BY <1>1, <1>9
  <2>2. FilledTo(d, size, size) /\ StoredLast(c, d, size, e)
    <3>1. from = c.next % size
      BY DEF from
    <3> QED BY <1>2, <1>3, <1>5, <1>6, <2>1, <3>1, StoredOverOldest
  <2> HIDE DEF d
  <2>3. size \in 0 .. size /\ ~ (size < size)
    OBVIOUS
  <2>4. Following(d, size, size)
    BY <1>4, <1>7, <2>2, <2>3 DEF Following
  <2> QED BY <1>4, <2>2, <2>4
<1> QED BY <1>8, <1>9

\* An empty cache has no entries.
LEMMA EmptyOrder ==
  ASSUME NEW size \in Nat \ {0}
  PROVE  /\ Resting(Empty(size), size) /\ Following(Empty(size), size, size - 1)
         /\ Following(Empty(size), size, size) /\ Order(Empty(size)) = <<>>
<1> DEFINE c == Empty(size)
<1>1. CacheShape(c, size) /\ FilledTo(c, size, 0) /\ c.next = 0
  BY EmptyShape DEF FilledTo, Empty
<1> HIDE DEF c
<1>2. 0 \in 0 .. size /\ 0 < size /\ 0 <= size /\ 0 <= size - 1
  OBVIOUS
<1>3. Resting(c, size) /\ Following(c, size, size - 1) /\ Following(c, size, size)
  BY <1>1, <1>2 DEF Resting, Following
<1>4. Order(c) = Listed(c.slots, size, 0, 0)
  BY <1>1, <1>2, OrderFacts
<1>5. Order(c) = <<>>
  BY <1>4 DEF Listed
<1> QED BY <1>3, <1>5 DEF c

-----------------------------------------------------------------------------
(* The caches of the process and of its threads.                           *)

LEMMA EveryCache ==
  ASSUME NEW x \in Caches
  PROVE  \/ \E s \in SetIds : x = << "set", s >>
         \/ \E t \in Threads : x = << "width", t >>
         \/ \E t \in Threads, op \in Retaining : x = << "plan", t, op >>
         \/ \E t \in Threads, op \in Retaining : x = << "recursion", t, op >>
BY DEF Caches

LEMMA CacheNames ==
  /\ \A s \in SetIds : << "set", s >> \in Caches /\ SlotsOf[<< "set", s >>] = Ways
  /\ \A t \in Threads : << "width", t >> \in Caches /\ SlotsOf[<< "width", t >>] = WidthSlots
  /\ \A t \in Threads, op \in Retaining :
       /\ << "plan", t, op >> \in Caches /\ SlotsOf[<< "plan", t, op >>] = PlanSlots
       /\ << "recursion", t, op >> \in Caches /\ SlotsOf[<< "recursion", t, op >>] = PlanSlots
<1>1. \A s \in SetIds : << "set", s >> \in Caches
  BY DEF Caches
<1>2. \A t \in Threads : << "width", t >> \in Caches
  BY DEF Caches
<1>3. \A t \in Threads, op \in Retaining : << "plan", t, op >> \in Caches
  BY DEF Caches
<1>4. \A t \in Threads, op \in Retaining : << "recursion", t, op >> \in Caches
  BY DEF Caches
<1> QED BY <1>1, <1>2, <1>3, <1>4 DEF SlotsOf

LEMMA CacheContents ==
  /\ \A s : CacheAt(<< "set", s >>) = sets[s] /\ CacheAt(<< "set", s >>)' = sets'[s]
  /\ \A t : CacheAt(<< "width", t >>) = widths[t] /\ CacheAt(<< "width", t >>)' = widths'[t]
  /\ \A t, op :
       /\ CacheAt(<< "plan", t, op >>) = plans[<< t, op >>]
       /\ CacheAt(<< "plan", t, op >>)' = plans'[<< t, op >>]
       /\ CacheAt(<< "recursion", t, op >>) = recursions[<< t, op >>]
       /\ CacheAt(<< "recursion", t, op >>)' = recursions'[<< t, op >>]
BY DEF CacheAt

\* A step that stores an entry in one cache and leaves the others alone.
LEMMA OneStored ==
  ASSUME NEW id \in Caches, NEW e,
         StoredLast(CacheAt(id), CacheAt(id)', SlotsOf[id], e),
         \A x \in Caches : x # id => CacheAt(x)' = CacheAt(x)
  PROVE  Recency!Next
<1> DEFINE new == Append(Kept(CacheAt(id), SlotsOf[id]), e)
<1>1. /\ Recent = [x \in Caches |-> Order(CacheAt(x))]
      /\ Recent' = [x \in Caches |-> Order(CacheAt(x)')]
  BY DEF Recent
<1>2. /\ \A k \in DOMAIN Recent[id] : Recent[id][k].key # e.key
      /\ Recent'[id] = new
      /\ Recent'[id] # <<>> /\ Recent'[id][Len(Recent'[id])] = e
  BY <1>1 DEF StoredLast
<1>3. new = Append(IF Len(Recent[id]) = SlotsOf[id] THEN Tail(Recent[id]) ELSE Recent[id], e)
  BY <1>1 DEF Kept
<1> HIDE DEF new
<1>4. \A x \in Caches : x # id => Order(CacheAt(x)') = Order(CacheAt(x))
  OBVIOUS
<1>5. Recent' = [Recent EXCEPT ![id] = new]
  BY <1>1, <1>2, <1>4
<1>6. e.key \notin Recency!Keys(id)
  BY <1>2 DEF Recency!Keys, Recency!Held
<1>7. Recency!Store(id, e)
  BY <1>3, <1>5, <1>6 DEF Recency!Store
<1>8. Recency!Store(id, Recent'[id][Len(Recent'[id])])
  BY <1>2, <1>7
<1> QED BY <1>2, <1>8 DEF Recency!Next

LEMMA NoneStored ==
  ASSUME sets' = sets, widths' = widths, plans' = plans, recursions' = recursions
  PROVE  Recent' = Recent
BY DEF Recent, CacheAt

LEMMA CacheKept ==
  ASSUME NEW x \in Caches,
         \A s \in SetIds : x = << "set", s >> => sets'[s] = sets[s],
         \A t \in Threads : x = << "width", t >> => widths'[t] = widths[t],
         \A t \in Threads, op \in Retaining :
           x = << "plan", t, op >> => plans'[<< t, op >>] = plans[<< t, op >>],
         \A t \in Threads, op \in Retaining :
           x = << "recursion", t, op >> => recursions'[<< t, op >>] = recursions[<< t, op >>]
  PROVE  CacheAt(x)' = CacheAt(x)
<1>1. ASSUME NEW s \in SetIds, x = << "set", s >>
      PROVE  CacheAt(x)' = CacheAt(x)
  <2>1. sets'[s] = sets[s]
    BY <1>1
  <2>2. CacheAt(x) = sets[s] /\ CacheAt(x)' = sets'[s]
    BY <1>1 DEF CacheAt
  <2> QED BY <2>1, <2>2
<1>2. ASSUME NEW t \in Threads, x = << "width", t >>
      PROVE  CacheAt(x)' = CacheAt(x)
  <2>1. widths'[t] = widths[t]
    BY <1>2
  <2>2. CacheAt(x) = widths[t] /\ CacheAt(x)' = widths'[t]
    BY <1>2 DEF CacheAt
  <2> QED BY <2>1, <2>2
<1>3. ASSUME NEW t \in Threads, NEW op \in Retaining, x = << "plan", t, op >>
      PROVE  CacheAt(x)' = CacheAt(x)
  <2>1. plans'[<< t, op >>] = plans[<< t, op >>]
    BY <1>3
  <2>2. CacheAt(x) = plans[<< t, op >>] /\ CacheAt(x)' = plans'[<< t, op >>]
    BY <1>3 DEF CacheAt
  <2> QED BY <2>1, <2>2
<1>4. ASSUME NEW t \in Threads, NEW op \in Retaining, x = << "recursion", t, op >>
      PROVE  CacheAt(x)' = CacheAt(x)
  <2>1. recursions'[<< t, op >>] = recursions[<< t, op >>]
    BY <1>4
  <2>2. CacheAt(x) = recursions[<< t, op >>] /\ CacheAt(x)' = recursions'[<< t, op >>]
    BY <1>4 DEF CacheAt
  <2> QED BY <2>1, <2>2
<1> QED BY <1>1, <1>2, <1>3, <1>4, EveryCache

LEMMA SetStored ==
  ASSUME NEW s \in SetIds, NEW e, StoredLast(sets[s], sets'[s], Ways, e),
         \A x \in SetIds : x # s => sets'[x] = sets[x],
         widths' = widths, plans' = plans, recursions' = recursions
  PROVE  Recency!Next
<1> DEFINE id == << "set", s >>
<1>1. id \in Caches /\ SlotsOf[id] = Ways
  BY CacheNames
<1>2. CacheAt(id) = sets[s] /\ CacheAt(id)' = sets'[s]
  BY CacheContents
<1>3. ASSUME NEW x \in Caches, x # id
      PROVE  CacheAt(x)' = CacheAt(x)
  <2>1. \A y \in SetIds : x = << "set", y >> => sets'[y] = sets[y]
    BY <1>3
  <2>2. \A u \in Threads : x = << "width", u >> => widths'[u] = widths[u]
    OBVIOUS
  <2>3. \A u \in Threads, o \in Retaining : x = << "plan", u, o >> => plans'[<< u, o >>] = plans[<< u, o >>]
    OBVIOUS
  <2>4. \A u \in Threads, o \in Retaining : x = << "recursion", u, o >> => recursions'[<< u, o >>] = recursions[<< u, o >>]
    OBVIOUS
  <2> QED BY <2>1, <2>2, <2>3, <2>4, CacheKept
<1> HIDE DEF id
<1>4. StoredLast(CacheAt(id), CacheAt(id)', SlotsOf[id], e)
  BY <1>1, <1>2
<1> QED BY <1>1, <1>3, <1>4, OneStored

LEMMA WidthStoredStep ==
  ASSUME NEW t \in Threads, NEW e, StoredLast(widths[t], widths'[t], WidthSlots, e),
         \A x \in Threads : x # t => widths'[x] = widths[x],
         sets' = sets, plans' = plans, recursions' = recursions
  PROVE  Recency!Next
<1> DEFINE id == << "width", t >>
<1>1. id \in Caches /\ SlotsOf[id] = WidthSlots
  BY CacheNames
<1>2. CacheAt(id) = widths[t] /\ CacheAt(id)' = widths'[t]
  BY CacheContents
<1>3. ASSUME NEW x \in Caches, x # id
      PROVE  CacheAt(x)' = CacheAt(x)
  <2>1. \A y \in SetIds : x = << "set", y >> => sets'[y] = sets[y]
    OBVIOUS
  <2>2. \A u \in Threads : x = << "width", u >> => widths'[u] = widths[u]
    BY <1>3
  <2>3. \A u \in Threads, o \in Retaining : x = << "plan", u, o >> => plans'[<< u, o >>] = plans[<< u, o >>]
    OBVIOUS
  <2>4. \A u \in Threads, o \in Retaining : x = << "recursion", u, o >> => recursions'[<< u, o >>] = recursions[<< u, o >>]
    OBVIOUS
  <2> QED BY <2>1, <2>2, <2>3, <2>4, CacheKept
<1> HIDE DEF id
<1>4. StoredLast(CacheAt(id), CacheAt(id)', SlotsOf[id], e)
  BY <1>1, <1>2
<1> QED BY <1>1, <1>3, <1>4, OneStored

LEMMA PlanStoredStep ==
  ASSUME NEW t \in Threads, NEW op \in Retaining, NEW e,
         StoredLast(plans[<< t, op >>], plans'[<< t, op >>], PlanSlots, e),
         \A x \in Threads, o \in Retaining :
           << x, o >> # << t, op >> => plans'[<< x, o >>] = plans[<< x, o >>],
         sets' = sets, widths' = widths, recursions' = recursions
  PROVE  Recency!Next
<1> DEFINE id == << "plan", t, op >>
<1>1. id \in Caches /\ SlotsOf[id] = PlanSlots
  BY CacheNames
<1>2. CacheAt(id) = plans[<< t, op >>] /\ CacheAt(id)' = plans'[<< t, op >>]
  BY CacheContents
<1>3. ASSUME NEW x \in Caches, x # id
      PROVE  CacheAt(x)' = CacheAt(x)
  <2>1. \A y \in SetIds : x = << "set", y >> => sets'[y] = sets[y]
    OBVIOUS
  <2>2. \A u \in Threads : x = << "width", u >> => widths'[u] = widths[u]
    OBVIOUS
  <2>3. \A u \in Threads, o \in Retaining : x = << "plan", u, o >> => plans'[<< u, o >>] = plans[<< u, o >>]
    BY <1>3
  <2>4. \A u \in Threads, o \in Retaining : x = << "recursion", u, o >> => recursions'[<< u, o >>] = recursions[<< u, o >>]
    OBVIOUS
  <2> QED BY <2>1, <2>2, <2>3, <2>4, CacheKept
<1> HIDE DEF id
<1>4. StoredLast(CacheAt(id), CacheAt(id)', SlotsOf[id], e)
  BY <1>1, <1>2
<1> QED BY <1>1, <1>3, <1>4, OneStored

LEMMA RecursionStoredStep ==
  ASSUME NEW t \in Threads, NEW op \in Retaining, NEW e,
         StoredLast(recursions[<< t, op >>], recursions'[<< t, op >>], PlanSlots, e),
         \A x \in Threads, o \in Retaining :
           << x, o >> # << t, op >> => recursions'[<< x, o >>] = recursions[<< x, o >>],
         sets' = sets, widths' = widths, plans' = plans
  PROVE  Recency!Next
<1> DEFINE id == << "recursion", t, op >>
<1>1. id \in Caches /\ SlotsOf[id] = PlanSlots
  BY CacheNames
<1>2. CacheAt(id) = recursions[<< t, op >>] /\ CacheAt(id)' = recursions'[<< t, op >>]
  BY CacheContents
<1>3. ASSUME NEW x \in Caches, x # id
      PROVE  CacheAt(x)' = CacheAt(x)
  <2>1. \A y \in SetIds : x = << "set", y >> => sets'[y] = sets[y]
    OBVIOUS
  <2>2. \A u \in Threads : x = << "width", u >> => widths'[u] = widths[u]
    OBVIOUS
  <2>3. \A u \in Threads, o \in Retaining : x = << "plan", u, o >> => plans'[<< u, o >>] = plans[<< u, o >>]
    OBVIOUS
  <2>4. \A u \in Threads, o \in Retaining : x = << "recursion", u, o >> => recursions'[<< u, o >>] = recursions[<< u, o >>]
    BY <1>3
  <2> QED BY <2>1, <2>2, <2>3, <2>4, CacheKept
<1> HIDE DEF id
<1>4. StoredLast(CacheAt(id), CacheAt(id)', SlotsOf[id], e)
  BY <1>1, <1>2
<1> QED BY <1>1, <1>3, <1>4, OneStored

-----------------------------------------------------------------------------
(* What is retained is stored once.                                        *)

\* Coefficients that are transformed are those of a narrower ring.
LEMMA Narrower ==
  ASSUME NEW g \in Geometries
  PROVE  g.bits \in Nat /\ g.inner \in Nat /\ (g.inner > BaseBits => g.inner < g.bits)
<1>1. PICK bits \in RingWidths, op \in Operations : g = Best(bits, op)
  BY DEF Geometries
<1> QED BY <1>1, RingAssumption DEF Best

LEMMA NothingMissing == Narrowing(<<>>) /\ \A c : Missing(c, <<>>)
BY DEF Narrowing, Missing

LEMMA NarrowedOnce ==
  ASSUME NEW w \in Plans, NEW g \in Geometries, NEW c, Narrowing(w), Missing(c, w),
         w # <<>> => /\ g.bits = w[Len(w)].inner /\ w[Len(w)].inner > BaseBits
                     /\ ~ Holds(c, g.bits)
  PROVE  Narrowing(Append(w, g)) /\ Missing(c, Append(w, g))
<1> DEFINE u == Append(w, g)
<1>1. /\ Len(w) \in Nat /\ Len(u) = Len(w) + 1 /\ u[Len(w) + 1] = g
      /\ \A i \in 1 .. Len(w) : u[i] = w[i] /\ w[i] \in Geometries
  BY AppendProperties, LenProperties, ElementOfSeq DEF Plans
<1> HIDE DEF u
<1>2. ASSUME NEW i \in 1 .. Len(w)
      PROVE  g.bits < w[i].bits
  <2>1. w # <<>> /\ Len(w) \in 1 .. Len(w)
    BY <1>1, EmptySeq DEF Plans
  <2>2. w[Len(w)] \in Geometries /\ w[i] \in Geometries
    BY <1>1, <2>1
  <2>3. /\ w[Len(w)].bits \in Nat /\ w[i].bits \in Nat /\ g.bits \in Nat
        /\ g.bits < w[Len(w)].bits
    BY <2>1, <2>2, Narrower
  <2>4. i < Len(w) \/ i = Len(w)
    BY <1>1
  <2>5. i < Len(w) => w[Len(w)].bits < w[i].bits
    BY <2>1 DEF Narrowing
  <2> QED BY <2>3, <2>4, <2>5
<1>3. ASSUME NEW i \in 1 .. Len(u), NEW j \in 1 .. Len(u), i < j
      PROVE  u[j].bits < u[i].bits
  <2>1. i \in 1 .. Len(w)
    BY <1>1, <1>3
  <2>2. CASE j \in 1 .. Len(w)
    <3>1. w[j].bits < w[i].bits
      BY <1>3, <2>1, <2>2 DEF Narrowing
    <3> QED BY <1>1, <2>1, <2>2, <3>1
  <2>3. CASE j = Len(w) + 1
    BY <1>1, <1>2, <2>1, <2>3
  <2> QED BY <1>1, <2>2, <2>3
<1>4. ASSUME NEW i \in 2 .. Len(u)
      PROVE  ~ Holds(c, u[i].bits)
  <2>1. CASE i \in 2 .. Len(w)
    <3>1. i \in 1 .. Len(w)
      BY <1>1, <2>1
    <3> QED BY <1>1, <2>1, <3>1 DEF Missing
  <2>2. CASE i = Len(w) + 1
    <3>1. w # <<>>
      BY <1>1, <2>2, EmptySeq DEF Plans
    <3> QED BY <1>1, <2>2, <3>1
  <2> QED BY <1>1, <2>1, <2>2
<1>5. Narrowing(u) /\ Missing(c, u)
  BY <1>3, <1>4 DEF Narrowing, Missing
<1> QED BY <1>5 DEF u

\* The last plan of a path is retained: those of the others are still missing.
LEMMA NarrowedBack ==
  ASSUME NEW w \in Plans, Len(w) > 1, NEW c, NEW size \in Nat \ {0}, CacheShape(c, size),
         Narrowing(w), Missing(c, w), NEW e, e.key = w[Len(w)].bits
  PROVE  /\ ~ Holds(c, e.key)
         /\ Narrowing(Front(w)) /\ Missing(Retain(c, e), Front(w))
<1> DEFINE u == Front(w)
<1>1. Len(w) \in Nat /\ Len(w) \in 2 .. Len(w)
  BY LenProperties DEF Plans
<1>2. ~ Holds(c, e.key)
  BY <1>1 DEF Missing
<1>3. Len(u) = Len(w) - 1 /\ \A i \in 1 .. Len(w) - 1 : u[i] = w[i]
  <2>1. \A i \in 1 .. Len(w) - 1 : w[i] \in Geometries
    BY <1>1, ElementOfSeq DEF Plans
  <2>2. 1 \in Int /\ Len(w) - 1 \in Int /\ 1 <= Len(w) - 1
    BY <1>1
  <2>3. /\ Len(SubSeq(w, 1, Len(w) - 1)) = Len(w) - 1
        /\ \A i \in 1 .. Len(w) - 1 : SubSeq(w, 1, Len(w) - 1)[i] = w[i]
    BY <1>1, <2>1, <2>2, SubSeqProperties
  <2> QED BY <2>3 DEF Front
<1> HIDE DEF u
<1>4. Narrowing(u)
  BY <1>1, <1>3 DEF Narrowing
<1>5. ASSUME NEW i \in 2 .. Len(u)
      PROVE  ~ Holds(Retain(c, e), u[i].bits)
  <2>1. i \in 2 .. Len(w) /\ i \in 1 .. Len(w) /\ Len(w) \in 1 .. Len(w) /\ i < Len(w) /\ u[i] = w[i]
    BY <1>1, <1>3
  <2>2. w[i] \in Geometries /\ w[Len(w)] \in Geometries
    BY <2>1, ElementOfSeq DEF Plans
  <2>3. w[Len(w)].bits < w[i].bits
    BY <2>1 DEF Narrowing
  <2>4. u[i].bits # e.key
    BY <2>1, <2>2, <2>3, Narrower
  <2>5. ~ Holds(c, u[i].bits)
    BY <2>1 DEF Missing
  <2>6. \A f \in Filled(Retain(c, e)) : f \in Filled(c) \/ f = e
    BY EntryRetained
  <2> DEFINE d == Retain(c, e)
             key == u[i].bits
  <2> HIDE DEF d, key
  <2>7. Holds(d, key) => \E f \in Filled(d) : f.key = key
    BY DEF Holds, Matches, Filled
  <2>8. (\E f \in Filled(c) : f.key = key) => Holds(c, key)
    BY DEF Holds, Matches, Filled
  <2>9. ~ Holds(d, key)
    BY <2>4, <2>5, <2>6, <2>7, <2>8 DEF d, key
  <2> QED BY <2>9 DEF d, key
<1> QED BY <1>2, <1>4, <1>5 DEF u, Missing

LEMMA OwnOperation ==
  ASSUME LocalInv, NEW s \in Threads
  PROVE  /\ pc[s] \in Descending \union {"ascend"} => CoefficientOp(job[s].op) \in Retaining
         /\ pc[s] # "idle" /\ job[s].kind = "recursion" => job[s].op \in Retaining
<1>1. pc[s] \in Descending \union {"ascend"} => CoefficientOp(job[s].op) \in Retaining
  BY Coefficients
<1>2. ASSUME pc[s] # "idle", job[s].kind = "recursion"
      PROVE  job[s].op \in Retaining
  <2>1. Located(pc[s], job[s], ring[s], path[s], tail[s], current[s], levels[s])
    BY DEF LocalInv, LocalAt, Local
  <2>2. CASE pc[s] = "level"
    BY <2>1, <2>2 DEF Located, RecursionJobs
  <2>3. CASE pc[s] \in Descending \union {"ascend"}
    BY <1>2, <2>1, <2>3 DEF Located, InRing, AtRoot, RingJobs, RecursionJobs
  <2> QED BY <1>2, <2>1, <2>2, <2>3 DEF Located, Places, Descending
<1> QED BY <1>1, <1>2

\* What another thread will retain is its own affair.
LEMMA OthersMissing ==
  ASSUME LocalInv, MissingInv, NEW t \in Threads,
         Changed(pc, pc', t), Changed(job, job', t), Changed(ring, ring', t), Changed(path, path', t),
         \A s \in Threads, op \in Retaining :
           s # t => /\ plans'[<< s, op >>] = plans[<< s, op >>]
                    /\ recursions'[<< s, op >>] = recursions[<< s, op >>],
         PathMissing(t)', RecursionMissing(t)'
  PROVE  MissingInv'
<1>1. ASSUME NEW s \in Threads, s # t
      PROVE  PathMissing(s)' /\ RecursionMissing(s)'
  <2>1. pc'[s] = pc[s] /\ job'[s] = job[s] /\ ring'[s] = ring[s] /\ path'[s] = path[s]
    BY <1>1 DEF Changed
  <2>2. /\ pc[s] \in Descending \union {"ascend"} => CoefficientOp(job[s].op) \in Retaining
        /\ pc[s] # "idle" /\ job[s].kind = "recursion" => job[s].op \in Retaining
    BY OwnOperation
  <2>3. PathMissing(s) /\ RecursionMissing(s)
    BY DEF MissingInv
  <2>4. PathMissing(s)'
    <3>1. SUFFICES ASSUME pc[s] \in Descending \union {"ascend"}
                   PROVE  PathMissing(s)'
      BY <2>1 DEF PathMissing
    <3>2. plans'[<< s, CoefficientOp(job[s].op) >>] = plans[<< s, CoefficientOp(job[s].op) >>]
      BY <1>1, <2>2, <3>1
    <3> QED BY <2>1, <2>3, <3>1, <3>2 DEF PathMissing
  <2>5. RecursionMissing(s)'
    <3>1. SUFFICES ASSUME pc[s] # "idle", job[s].kind = "recursion"
                   PROVE  RecursionMissing(s)'
      BY <2>1 DEF RecursionMissing
    <3>2. recursions'[<< s, job[s].op >>] = recursions[<< s, job[s].op >>]
      BY <1>1, <2>2, <3>1
    <3> QED BY <2>1, <2>3, <3>1, <3>2 DEF RecursionMissing
  <2> QED BY <2>4, <2>5
<1> QED BY <1>1 DEF MissingInv

-----------------------------------------------------------------------------
(* Every step stores at most one entry, in one cache, as promised.         *)

Faithful == CursorsInv' /\ MissingInv' /\ [Recency!Next]_Recent

\* A step that leaves the caches alone.
LEMMA Quiet ==
  ASSUME LocalInv, MissingInv, CursorsInv, NEW t \in Threads,
         sets' = sets, widths' = widths, plans' = plans, recursions' = recursions,
         Changed(pc, pc', t), Changed(job, job', t), Changed(ring, ring', t), Changed(path, path', t),
         PathMissing(t)', RecursionMissing(t)'
  PROVE  Faithful
<1>1. CursorsInv'
  BY DEF CursorsInv
<1>2. MissingInv'
  BY OthersMissing
<1>3. Recent' = Recent
  BY NoneStored
<1> QED BY <1>1, <1>2, <1>3 DEF Faithful

\* What is known of a thread.
LEMMA OfThread ==
  ASSUME LocalInv, MissingInv, NEW t \in Threads
  PROVE  /\ LocalDomains /\ PathMissing(t) /\ RecursionMissing(t)
         /\ Typed(path[t], tail[t], current[t], levels[t], answer[t])
         /\ Located(pc[t], job[t], ring[t], path[t], tail[t], current[t], levels[t])
BY DEF LocalInv, LocalAt, Local, MissingInv

\* Nothing is pending below a ring that is planned at the outermost.
LEMMA NoPath ==
  ASSUME NEW t \in Threads, path'[t] = <<>>
  PROVE  PathMissing(t)'
BY NothingMissing DEF PathMissing

LEMMA StartRingFaithful ==
  ASSUME KInv, NEW t \in Threads, StartRing(t)
  PROVE  Faithful
<1>1. LocalInv /\ MissingInv /\ CursorsInv
  BY DEF KInv, IInv
<1>2. PICK request \in Rings[t] :
        /\ job' = [job EXCEPT ![t] = Job("ring", request.bits, request.op)]
        /\ ring' = [ring EXCEPT ![t] = request.bits]
        /\ pc[t] = "idle" /\ pc' = [pc EXCEPT ![t] = "geometry"] /\ path' = path
        /\ sets' = sets /\ widths' = widths /\ plans' = plans /\ recursions' = recursions
  BY DEF StartRing, shared
<1>3. LocalDomains /\ path[t] = <<>>
  BY <1>1, <1>2, OfThread DEF Located
<1> DEFINE new == Job("ring", request.bits, request.op)
<1>4. new.kind = "ring"
  BY DEF Job
<1> HIDE DEF new
<1>5. /\ Changed(job, job', t) /\ job'[t] = new /\ Changed(ring, ring', t)
      /\ Changed(pc, pc', t) /\ Changed(path, path', t)
  BY <1>2, <1>3, Updated, Same DEF LocalDomains, new
<1>6. PathMissing(t)'
  BY <1>2, <1>3, NoPath
<1>7. RecursionMissing(t)'
  BY <1>4, <1>5 DEF RecursionMissing
<1> QED BY <1>1, <1>2, <1>5, <1>6, <1>7, Quiet

\* The geometry of a ring is found or searched, and the thread goes on below it.
LEMMA DescendMissing ==
  ASSUME LocalInv, MissingInv, NEW t \in Threads, pc[t] \in {"geometry", "search"},
         Descend(t, Best(ring[t], RingOp(t))), job' = job, plans' = plans, recursions' = recursions
  PROVE  /\ Changed(pc, pc', t) /\ Changed(job, job', t) /\ Changed(ring, ring', t)
         /\ Changed(path, path', t) /\ PathMissing(t)' /\ RecursionMissing(t)'
<1> DEFINE g == Best(ring[t], RingOp(t))
           mine == plans[<< t, CoefficientOp(job[t].op) >>]
           w == path[t]
           q == IF g.inner > BaseBits THEN "retained" ELSE "ascend"
<1>1. /\ LocalDomains /\ PathMissing(t) /\ RecursionMissing(t)
      /\ Typed(w, tail[t], current[t], levels[t], answer[t])
      /\ Located(pc[t], job[t], ring[t], w, tail[t], current[t], levels[t])
  BY OfThread
<1>2. g \in Geometries /\ g.bits = ring[t]
  BY Planned, BestFacts DEF Descending
<1>3. /\ path' = [path EXCEPT ![t] = Append(w, g)]
      /\ ring' = [ring EXCEPT ![t] = g.inner]
      /\ pc' = [pc EXCEPT ![t] = q]
  BY DEF Descend
<1>4. w \in Plans /\ (w # <<>> => ring[t] = w[Len(w)].inner /\ w[Len(w)].inner > BaseBits)
  BY <1>1 DEF Typed, Located, Descending
<1>5. Narrowing(w) /\ Missing(mine, w) /\ (w # <<>> => ~ Holds(mine, ring[t]))
  BY <1>1 DEF PathMissing, Descending
<1> HIDE DEF g, w, mine
<1>6. w # <<>> => g.bits = w[Len(w)].inner /\ w[Len(w)].inner > BaseBits /\ ~ Holds(mine, g.bits)
  BY <1>2, <1>4, <1>5
<1>7. Narrowing(Append(w, g)) /\ Missing(mine, Append(w, g))
  BY <1>2, <1>4, <1>5, <1>6, NarrowedOnce
<1>8. q \in {"retained", "ascend"}
  OBVIOUS
<1> HIDE DEF q
<1>9. /\ Changed(path, path', t) /\ path'[t] = Append(w, g)
      /\ Changed(ring, ring', t) /\ Changed(pc, pc', t) /\ pc'[t] = q
  BY <1>1, <1>3, Updated DEF LocalDomains
<1>10. Changed(job, job', t) /\ job'[t] = job[t]
  BY <1>1, Same DEF LocalDomains
<1>11. PathMissing(t)'
  BY <1>7, <1>8, <1>9, <1>10 DEF PathMissing, mine
<1>12. RecursionMissing(t)'
  BY <1>1, <1>10 DEF RecursionMissing
<1> QED BY <1>9, <1>10, <1>11, <1>12

LEMMA LookUpGeometryFaithful ==
  ASSUME KInv, NEW t \in Threads, LookUpGeometry(t)
  PROVE  Faithful
<1>1. LocalInv /\ MissingInv /\ CursorsInv /\ SharedInv
  BY DEF KInv, IInv
<1>2. /\ pc[t] = "geometry" /\ job' = job
      /\ sets' = sets /\ widths' = widths /\ plans' = plans /\ recursions' = recursions
  BY DEF LookUpGeometry, shared
<1>3. CASE GeometryHeld(ring[t], RingOp(t))
  <2>1. Descend(t, HeldGeometry(ring[t], RingOp(t)))
    BY <1>3 DEF LookUpGeometry
  <2>2. HeldGeometry(ring[t], RingOp(t)) = Best(ring[t], RingOp(t))
    BY <1>1, <1>2, <1>3, Planned, GeometryHit DEF Descending
  <2>3. /\ Changed(pc, pc', t) /\ Changed(job, job', t) /\ Changed(ring, ring', t)
        /\ Changed(path, path', t) /\ PathMissing(t)' /\ RecursionMissing(t)'
    BY <1>1, <1>2, <2>1, <2>2, DescendMissing
  <2> QED BY <1>1, <1>2, <2>3, Quiet
<1>4. CASE ~ GeometryHeld(ring[t], RingOp(t))
  <2>1. pc' = [pc EXCEPT ![t] = "search"] /\ path' = path /\ ring' = ring
    BY <1>4 DEF LookUpGeometry
  <2>2. LocalDomains /\ PathMissing(t) /\ RecursionMissing(t)
    BY <1>1, OfThread
  <2>3. /\ Changed(pc, pc', t) /\ pc'[t] = "search" /\ Changed(job, job', t)
        /\ Changed(ring, ring', t) /\ Changed(path, path', t)
    BY <1>2, <2>1, <2>2, Updated, Same DEF LocalDomains
  <2>4. PathMissing(t)'
    BY <1>2, <2>1, <2>2, <2>3 DEF PathMissing, Descending
  <2>5. RecursionMissing(t)'
    BY <1>2, <2>1, <2>2, <2>3 DEF RecursionMissing
  <2> QED BY <1>1, <1>2, <2>3, <2>4, <2>5, Quiet
<1> QED BY <1>3, <1>4

LEMMA LookUpRetainedFaithful ==
  ASSUME KInv, NEW t \in Threads, LookUpRetained(t)
  PROVE  Faithful
<1>1. LocalInv /\ MissingInv /\ CursorsInv
  BY DEF KInv, IInv
<1>2. /\ pc[t] = "retained" /\ job' = job /\ path' = path /\ ring' = ring
      /\ sets' = sets /\ widths' = widths /\ plans' = plans /\ recursions' = recursions
  BY DEF LookUpRetained, shared
<1> DEFINE mine == plans[<< t, CoefficientOp(job[t].op) >>]
<1>3. \/ pc' = [pc EXCEPT ![t] = "ascend"]
      \/ pc' = [pc EXCEPT ![t] = "geometry"] /\ ~ Holds(mine, ring[t])
  BY DEF LookUpRetained
<1>4. LocalDomains /\ PathMissing(t) /\ RecursionMissing(t)
  BY <1>1, OfThread
<1>5. /\ Changed(job, job', t) /\ Changed(ring, ring', t) /\ Changed(path, path', t)
  BY <1>2, <1>4, Same DEF LocalDomains
<1>6. /\ Changed(pc, pc', t)
      /\ pc'[t] = "ascend" \/ (pc'[t] = "geometry" /\ ~ Holds(mine, ring[t]))
  BY <1>3, <1>4, Updated DEF LocalDomains
<1>7. PathMissing(t)'
  BY <1>2, <1>4, <1>6 DEF PathMissing, Descending
<1>8. RecursionMissing(t)'
  BY <1>2, <1>4, <1>6 DEF RecursionMissing
<1> QED BY <1>1, <1>2, <1>5, <1>6, <1>7, <1>8, Quiet

LEMMA AscendOutermostFaithful ==
  ASSUME KInv, NEW t \in Threads, AscendOutermost(t)
  PROVE  Faithful
<1>1. LocalInv /\ MissingInv /\ CursorsInv
  BY DEF KInv, IInv
<1>2. /\ pc[t] = "ascend" /\ path' = [path EXCEPT ![t] = <<>>] /\ ring' = [ring EXCEPT ![t] = 0]
      /\ \/ pc' = [pc EXCEPT ![t] = "idle"] /\ job' = [job EXCEPT ![t] = None]
         \/ pc' = [pc EXCEPT ![t] = "level"] /\ job' = job
      /\ sets' = sets /\ widths' = widths /\ plans' = plans /\ recursions' = recursions
  BY DEF AscendOutermost, shared
<1>3. LocalDomains /\ RecursionMissing(t)
  BY <1>1, OfThread
<1>4. /\ Changed(path, path', t) /\ path'[t] = <<>> /\ Changed(ring, ring', t)
      /\ Changed(pc, pc', t) /\ Changed(job, job', t)
      /\ pc'[t] = "idle" \/ job'[t] = job[t]
  <2>1. CASE pc' = [pc EXCEPT ![t] = "idle"] /\ job' = [job EXCEPT ![t] = None]
    BY <1>2, <1>3, <2>1, Updated DEF LocalDomains
  <2>2. CASE pc' = [pc EXCEPT ![t] = "level"] /\ job' = job
    BY <1>2, <1>3, <2>2, Updated, Same DEF LocalDomains
  <2> QED BY <1>2, <2>1, <2>2
<1>5. PathMissing(t)'
  BY <1>4, NoPath
<1>6. RecursionMissing(t)'
  BY <1>2, <1>3, <1>4 DEF RecursionMissing
<1> QED BY <1>1, <1>2, <1>4, <1>5, <1>6, Quiet

LEMMA StartRecursionFaithful ==
  ASSUME KInv, NEW t \in Threads, StartRecursion(t)
  PROVE  Faithful
<1>1. LocalInv /\ MissingInv /\ CursorsInv
  BY DEF KInv, IInv
<1>2. /\ pc[t] = "idle" /\ path' = path /\ ring' = ring
      /\ sets' = sets /\ widths' = widths /\ plans' = plans /\ recursions' = recursions
  BY DEF StartRecursion, shared
<1>3. LocalDomains /\ path[t] = <<>>
  BY <1>1, <1>2, OfThread DEF Located
<1>4. \/ pc' = pc /\ job' = job
      \/ \E request \in Recursions[t] :
           /\ ~ Holds(recursions[<< t, request.op >>], request.limbs)
           /\ job' = [job EXCEPT ![t] = Job("recursion", request.limbs, request.op)]
           /\ pc' = [pc EXCEPT ![t] = "level"]
  BY DEF StartRecursion
<1>5. Changed(path, path', t) /\ path'[t] = <<>> /\ Changed(ring, ring', t)
  BY <1>2, <1>3, Same DEF LocalDomains
<1>6. PathMissing(t)'
  BY <1>5, NoPath
<1>7. CASE pc' = pc /\ job' = job
  <2>1. Changed(pc, pc', t) /\ Changed(job, job', t)
    BY <1>3, <1>7, Same DEF LocalDomains
  <2>2. RecursionMissing(t)'
    BY <1>2, <1>7 DEF RecursionMissing
  <2> QED BY <1>1, <1>2, <1>5, <1>6, <2>1, <2>2, Quiet
<1>8. ASSUME NEW request \in Recursions[t],
             ~ Holds(recursions[<< t, request.op >>], request.limbs),
             job' = [job EXCEPT ![t] = Job("recursion", request.limbs, request.op)],
             pc' = [pc EXCEPT ![t] = "level"]
      PROVE  Faithful
  <2> DEFINE new == Job("recursion", request.limbs, request.op)
  <2>1. new.op = request.op /\ new.key = request.limbs
    BY DEF Job
  <2> HIDE DEF new
  <2>2. Changed(pc, pc', t) /\ Changed(job, job', t) /\ job'[t] = new
    BY <1>3, <1>8, Updated DEF LocalDomains, new
  <2>3. RecursionMissing(t)'
    BY <1>2, <1>8, <2>1, <2>2 DEF RecursionMissing
  <2> QED BY <1>1, <1>2, <1>5, <1>6, <2>2, <2>3, Quiet
<1> QED BY <1>4, <1>7, <1>8

LEMMA PlanLevelFaithful ==
  ASSUME KInv, NEW t \in Threads, PlanLevel(t)
  PROVE  Faithful
<1>1. LocalInv /\ MissingInv /\ CursorsInv
  BY DEF KInv, IInv
<1>2. /\ pc[t] = "level" /\ path' = path /\ job' = job
      /\ ring' = [ring EXCEPT ![t] = current'[t] * LimbBits] /\ pc' = [pc EXCEPT ![t] = "geometry"]
      /\ sets' = sets /\ widths' = widths /\ plans' = plans /\ recursions' = recursions
  BY DEF PlanLevel, shared
<1>3. LocalDomains /\ path[t] = <<>> /\ RecursionMissing(t)
  BY <1>1, <1>2, OfThread DEF Located
<1>4. /\ Changed(path, path', t) /\ path'[t] = <<>> /\ Changed(ring, ring', t)
      /\ Changed(job, job', t) /\ job'[t] = job[t] /\ Changed(pc, pc', t)
  BY <1>2, <1>3, Updated, Same DEF LocalDomains
<1>5. PathMissing(t)'
  BY <1>4, NoPath
<1>6. RecursionMissing(t)'
  BY <1>2, <1>3, <1>4 DEF RecursionMissing
<1> QED BY <1>1, <1>2, <1>4, <1>5, <1>6, Quiet

-----------------------------------------------------------------------------
(* The steps that store.                                                   *)

\* A vacant slot is not mistaken for an entry.
NoneIsNoEntry == \A k, v : Entry(k, v) # None

\* The set of a ring takes over its geometry, unless another thread was faster.
LEMMA SearchFaithful ==
  ASSUME NoneIsNoEntry, KInv, NEW t \in Threads, Search(t)
  PROVE  Faithful
<1> DEFINE bits == ring[t]
           op == RingOp(t)
           i == SetOf[bits]
           e == Entry(<< bits, op >>, Best(bits, op))
<1>1. LocalInv /\ MissingInv /\ CursorsInv /\ SharedInv
  BY DEF KInv, IInv
<1>2. /\ pc[t] = "search" /\ job' = job
      /\ widths' = widths /\ plans' = plans /\ recursions' = recursions
      /\ CacheGeometry(bits, op, Best(bits, op)) /\ Descend(t, Best(bits, op))
  BY DEF Search
<1>3. /\ Changed(pc, pc', t) /\ Changed(job, job', t) /\ Changed(ring, ring', t)
      /\ Changed(path, path', t) /\ PathMissing(t)' /\ RecursionMissing(t)'
  BY <1>1, <1>2, DescendMissing
<1>4. bits \in RingWidths
  BY <1>1, <1>2, Planned DEF Descending
<1>5. CASE bits \in PowersOfTwo
  <2>1. sets' = sets
    BY <1>2, <1>5 DEF CacheGeometry
  <2> QED BY <1>1, <1>2, <1>3, <2>1, Quiet
<1>6. CASE bits \notin PowersOfTwo
  <2>1. i \in SetIds /\ sets' = [sets EXCEPT ![i] = InsertGeometry(sets[i], e)]
    BY <1>2, <1>4, <1>6 DEF CacheGeometry, SetIds
  <2>2. /\ sets = [s \in SetIds |-> sets[s]] /\ CacheShape(sets[i], Ways) /\ Resting(sets[i], Ways)
        /\ Ways \in Nat \ {0}
    BY <1>1, <2>1, SlotAssumption DEF SharedInv, CursorsInv
  <2>3. CASE Holds(sets[i], e.key)
    <3>1. InsertGeometry(sets[i], e) = sets[i]
      BY <2>3 DEF InsertGeometry
    <3> HIDE DEF i, e
    <3>2. sets' = sets
      BY <2>1, <2>2, <3>1
    <3> QED BY <1>1, <1>2, <1>3, <3>2, Quiet
  <2>4. CASE ~ Holds(sets[i], e.key)
    <3>1. e # None
      BY DEF NoneIsNoEntry
    <3> HIDE DEF i, e
    <3>2. /\ Resting(InsertGeometry(sets[i], e), Ways)
          /\ StoredLast(sets[i], InsertGeometry(sets[i], e), Ways, e)
      BY <2>2, <2>4, <3>1, GeometryStored
    <3>3. sets'[i] = InsertGeometry(sets[i], e) /\ \A s \in SetIds : s # i => sets'[s] = sets[s]
      BY <2>1, <2>2
    <3>4. CursorsInv'
      BY <1>1, <1>2, <3>2, <3>3 DEF CursorsInv
    <3>5. MissingInv'
      BY <1>1, <1>2, <1>3, OthersMissing
    <3>6. StoredLast(sets[i], sets'[i], Ways, e)
      BY <3>2, <3>3
    <3>7. Recency!Next
      BY <1>2, <2>1, <3>3, <3>6, SetStored
    <3> QED BY <3>4, <3>5, <3>7 DEF Faithful
  <2> QED BY <2>3, <2>4
<1> QED BY <1>5, <1>6

\* A cache of one thread and one operation changes.
PerThread(f) == f = [x \in Threads \X Retaining |-> f[x]]

OnlyAt(f, g, t, op, d) ==
  /\ g[<< t, op >>] = d
  /\ \A s \in Threads, o \in Retaining : << s, o >> # << t, op >> => g[<< s, o >>] = f[<< s, o >>]
  /\ \A s \in Threads, o \in Retaining : s # t => g[<< s, o >>] = f[<< s, o >>]

LEMMA OneOfRetained ==
  ASSUME NEW f, PerThread(f), NEW t \in Threads, NEW op \in Retaining, NEW d
  PROVE  OnlyAt(f, With(f, << t, op >>, d), t, op, d)
<1> DEFINE g == With(f, << t, op >>, d)
<1>1. /\ g = [f EXCEPT ![<< t, op >>] = d] /\ << t, op >> \in Threads \X Retaining
      /\ f = [x \in Threads \X Retaining |-> f[x]]
  BY DEF With, PerThread
<1> HIDE DEF g
<1>2. g[<< t, op >>] = d
  BY <1>1
<1>3. ASSUME NEW s \in Threads, NEW o \in Retaining, << s, o >> # << t, op >>
      PROVE  g[<< s, o >>] = f[<< s, o >>]
  <2>1. << s, o >> \in Threads \X Retaining
    OBVIOUS
  <2> QED BY <1>1, <1>3, <2>1
<1>4. \A s \in Threads, o \in Retaining : s # t => << s, o >> # << t, op >>
  OBVIOUS
<1> QED BY <1>2, <1>3, <1>4 DEF OnlyAt, g

LEMMA AscendNestedFaithful ==
  ASSUME NoneIsNoEntry, KInv, NEW t \in Threads, AscendNested(t)
  PROVE  Faithful
<1> DEFINE op == CoefficientOp(job[t].op)
           w == path[t]
           mine == plans[<< t, op >>]
           e == Entry(w[Len(w)].bits, << w[Len(w)] >> \o tail[t])
           d == Retain(mine, e)
<1>1. LocalInv /\ MissingInv /\ CursorsInv /\ PlansInv
  BY DEF KInv, IInv, OwnInv
<1>2. /\ pc[t] = "ascend" /\ Len(w) > 1
      /\ sets' = sets /\ recursions' = recursions /\ widths' = widths
      /\ pc' = pc /\ job' = job /\ ring' = ring
      /\ path' = [path EXCEPT ![t] = Front(w)]
      /\ plans' = With(plans, << t, op >>, d)
  BY DEF AscendNested, Complete, With, shared
<1>3. LocalDomains /\ PathMissing(t) /\ RecursionMissing(t) /\ w \in Plans
  BY <1>1, OfThread DEF Typed
<1>4. op \in Retaining
  BY <1>1, <1>2, Coefficients
<1>5. Narrowing(w) /\ Missing(mine, w)
  BY <1>2, <1>3 DEF PathMissing
<1>6. e # None /\ e.key = w[Len(w)].bits
  BY DEF NoneIsNoEntry, Entry
<1>7. /\ CacheShape(mine, PlanSlots) /\ PlanSlots \in Nat \ {0}
      /\ Following(mine, PlanSlots, PlanSlots)
      /\ PerThread(plans)
  BY <1>1, <1>4, SlotAssumption DEF PlansInv, PlansHeld, CursorsInv, PerThread
<1> HIDE DEF e, op, w, mine
<1>8. ~ Holds(mine, e.key) /\ Narrowing(Front(w)) /\ Missing(d, Front(w))
  BY <1>2, <1>3, <1>5, <1>6, <1>7, NarrowedBack
<1>9. Following(d, PlanSlots, PlanSlots) /\ StoredLast(mine, d, PlanSlots, e)
  BY <1>6, <1>7, <1>8, PlanStored
<1> HIDE DEF d
<1>10. /\ plans'[<< t, op >>] = d
       /\ \A s \in Threads, o \in Retaining : << s, o >> # << t, op >> => plans'[<< s, o >>] = plans[<< s, o >>]
       /\ \A s \in Threads, o \in Retaining : s # t => plans'[<< s, o >>] = plans[<< s, o >>]
  <2>1. OnlyAt(plans, plans', t, op, d)
    BY <1>2, <1>4, <1>7, OneOfRetained
  <2> QED BY <2>1 DEF OnlyAt
<1>11. CursorsInv'
  <2>1. ASSUME NEW s \in Threads, NEW o \in Retaining
        PROVE  Following(plans'[<< s, o >>], PlanSlots, PlanSlots)
    <3>1. CASE << s, o >> = << t, op >>
      BY <1>9, <1>10, <3>1
    <3>2. CASE << s, o >> # << t, op >>
      <4>1. plans'[<< s, o >>] = plans[<< s, o >>]
        BY <1>10, <3>2
      <4> QED BY <1>1, <4>1 DEF CursorsInv
    <3> QED BY <3>1, <3>2
  <2> QED BY <1>1, <1>2, <2>1 DEF CursorsInv
<1>12. /\ Changed(path, path', t) /\ path'[t] = Front(w)
       /\ Changed(pc, pc', t) /\ Changed(job, job', t) /\ Changed(ring, ring', t)
  BY <1>2, <1>3, Updated, Same DEF LocalDomains
<1>13. PathMissing(t)'
  <2>1. plans'[<< t, CoefficientOp(job'[t].op) >>] = d
    BY <1>2, <1>10 DEF op
  <2>2. pc'[t] = "ascend"
    BY <1>2
  <2> QED BY <1>8, <1>12, <2>1, <2>2 DEF PathMissing
<1>14. RecursionMissing(t)'
  BY <1>2, <1>3 DEF RecursionMissing
<1>15. MissingInv'
  BY <1>1, <1>2, <1>10, <1>12, <1>13, <1>14, OthersMissing
<1>16. Recency!Next
  <2>1. StoredLast(plans[<< t, op >>], plans'[<< t, op >>], PlanSlots, e)
    BY <1>9, <1>10 DEF mine
  <2> QED BY <1>2, <1>4, <1>10, <2>1, PlanStoredStep
<1> QED BY <1>11, <1>15, <1>16 DEF Faithful

LEMMA FinishRecursionFaithful ==
  ASSUME NoneIsNoEntry, KInv, NEW t \in Threads, FinishRecursion(t)
  PROVE  Faithful
<1> DEFINE op == job[t].op
           mine == recursions[<< t, op >>]
           e == Entry(job[t].key, levels[t])
           d == Retain(mine, e)
<1>1. LocalInv /\ MissingInv /\ CursorsInv /\ RecursionsInv
  BY DEF KInv, IInv, OwnInv
<1>2. /\ pc[t] = "level" /\ sets' = sets /\ plans' = plans /\ widths' = widths
      /\ path' = path /\ ring' = ring
      /\ pc' = [pc EXCEPT ![t] = "idle"] /\ job' = [job EXCEPT ![t] = None]
      /\ recursions' = With(recursions, << t, op >>, d)
  BY DEF FinishRecursion, With, shared
<1>3. LocalDomains /\ RecursionMissing(t) /\ path[t] = <<>> /\ job[t] \in RecursionJobs
  BY <1>1, <1>2, OfThread DEF Located
<1>4. op \in Retaining /\ job[t].kind = "recursion"
  BY <1>3 DEF RecursionJobs
<1>5. e # None /\ e.key = job[t].key
  BY DEF NoneIsNoEntry, Entry
<1>6. ~ Holds(mine, e.key)
  BY <1>2, <1>3, <1>4, <1>5 DEF RecursionMissing
<1>7. /\ CacheShape(mine, PlanSlots) /\ PlanSlots \in Nat \ {0}
      /\ Following(mine, PlanSlots, PlanSlots)
      /\ PerThread(recursions)
  BY <1>1, <1>4, SlotAssumption DEF RecursionsInv, RecursionsHeld, CursorsInv, PerThread
<1> HIDE DEF e, op, mine
<1>8. Following(d, PlanSlots, PlanSlots) /\ StoredLast(mine, d, PlanSlots, e)
  BY <1>5, <1>6, <1>7, PlanStored
<1> HIDE DEF d
<1>9. /\ recursions'[<< t, op >>] = d
      /\ \A s \in Threads, o \in Retaining :
           << s, o >> # << t, op >> => recursions'[<< s, o >>] = recursions[<< s, o >>]
      /\ \A s \in Threads, o \in Retaining : s # t => recursions'[<< s, o >>] = recursions[<< s, o >>]
  <2>1. OnlyAt(recursions, recursions', t, op, d)
    BY <1>2, <1>4, <1>7, OneOfRetained
  <2> QED BY <2>1 DEF OnlyAt
<1>10. CursorsInv'
  <2>1. ASSUME NEW s \in Threads, NEW o \in Retaining
        PROVE  Following(recursions'[<< s, o >>], PlanSlots, PlanSlots)
    <3>1. CASE << s, o >> = << t, op >>
      BY <1>8, <1>9, <3>1
    <3>2. CASE << s, o >> # << t, op >>
      <4>1. recursions'[<< s, o >>] = recursions[<< s, o >>]
        BY <1>9, <3>2
      <4> QED BY <1>1, <4>1 DEF CursorsInv
    <3> QED BY <3>1, <3>2
  <2> QED BY <1>1, <1>2, <2>1 DEF CursorsInv
<1>11. /\ Changed(pc, pc', t) /\ pc'[t] = "idle" /\ Changed(job, job', t)
       /\ Changed(path, path', t) /\ path'[t] = <<>> /\ Changed(ring, ring', t)
  BY <1>2, <1>3, Updated, Same DEF LocalDomains
<1>12. PathMissing(t)' /\ RecursionMissing(t)'
  BY <1>11, NoPath DEF RecursionMissing
<1>13. MissingInv'
  BY <1>1, <1>2, <1>9, <1>11, <1>12, OthersMissing
<1>14. Recency!Next
  <2>1. StoredLast(recursions[<< t, op >>], recursions'[<< t, op >>], PlanSlots, e)
    BY <1>8, <1>9 DEF mine
  <2> QED BY <1>2, <1>4, <1>9, <2>1, RecursionStoredStep
<1> QED BY <1>10, <1>13, <1>14 DEF Faithful

LEMMA BestHalfWidthFaithful ==
  ASSUME NoneIsNoEntry, KInv, NEW t \in Threads, BestHalfWidth(t)
  PROVE  Faithful
<1>1. LocalInv /\ MissingInv /\ CursorsInv /\ WidthsInv
  BY DEF KInv, IInv, OwnInv
<1>2. /\ pc[t] = "idle" /\ sets' = sets /\ plans' = plans /\ recursions' = recursions
      /\ pc' = pc /\ job' = job /\ ring' = ring /\ path' = path
  BY DEF BestHalfWidth, shared
<1>3. LocalDomains /\ path[t] = <<>>
  BY <1>1, <1>2, OfThread DEF Located
<1>4. \/ widths' = widths
      \/ \E k, v : /\ ~ Holds(widths[t], k)
                   /\ widths' = [widths EXCEPT ![t] = InsertWidth(widths[t], Entry(k, v))]
  BY DEF BestHalfWidth
<1>5. /\ Changed(pc, pc', t) /\ Changed(job, job', t) /\ Changed(ring, ring', t)
      /\ Changed(path, path', t)
  BY <1>2, <1>3, Same DEF LocalDomains
<1>6. PathMissing(t)' /\ RecursionMissing(t)'
  BY <1>2, <1>3, NoPath DEF RecursionMissing
<1>7. CASE widths' = widths
  BY <1>1, <1>2, <1>5, <1>6, <1>7, Quiet
<1>8. ASSUME NEW k, NEW v, ~ Holds(widths[t], k),
             widths' = [widths EXCEPT ![t] = InsertWidth(widths[t], Entry(k, v))]
      PROVE  Faithful
  <2> DEFINE e == Entry(k, v)
             c == widths[t]
             d == InsertWidth(c, e)
  <2>1. e # None /\ e.key = k
    BY DEF NoneIsNoEntry, Entry
  <2>2. /\ CacheShape(c, WidthSlots) /\ WidthSlots \in Nat \ {0}
        /\ Following(c, WidthSlots, WidthSlots - 1) /\ widths = [s \in Threads |-> widths[s]]
    BY <1>1, SlotAssumption DEF WidthsInv, CursorsInv
  <2>3. ~ Holds(c, e.key)
    BY <1>8, <2>1
  <2> HIDE DEF e, c
  <2>4. Following(d, WidthSlots, WidthSlots - 1) /\ StoredLast(c, d, WidthSlots, e)
    BY <2>1, <2>2, <2>3, WidthStored
  <2>5. widths'[t] = d /\ \A s \in Threads : s # t => widths'[s] = widths[s]
    BY <1>8, <2>2 DEF e, c
  <2> HIDE DEF d
  <2>6. CursorsInv'
    BY <1>1, <1>2, <2>4, <2>5 DEF CursorsInv
  <2>7. MissingInv'
    BY <1>1, <1>2, <1>5, <1>6, OthersMissing
  <2>8. StoredLast(widths[t], widths'[t], WidthSlots, e)
    BY <2>4, <2>5 DEF c
  <2>9. Recency!Next
    BY <1>2, <2>5, <2>8, WidthStoredStep
  <2> QED BY <2>6, <2>7, <2>9 DEF Faithful
<1> QED BY <1>4, <1>7, <1>8

LEMMA InitiallyPromised ==
  ASSUME Init
  PROVE  CursorsInv /\ MissingInv /\ Recency!Init
<1>1. Ways \in Nat \ {0} /\ PlanSlots \in Nat \ {0} /\ WidthSlots \in Nat \ {0}
  BY SlotAssumption
<1>2. Resting(Empty(Ways), Ways) /\ Order(Empty(Ways)) = <<>>
  BY <1>1, EmptyOrder
<1>3. Following(Empty(PlanSlots), PlanSlots, PlanSlots) /\ Order(Empty(PlanSlots)) = <<>>
  BY <1>1, EmptyOrder
<1>4. Following(Empty(WidthSlots), WidthSlots, WidthSlots - 1) /\ Order(Empty(WidthSlots)) = <<>>
  BY <1>1, EmptyOrder
<1>5. /\ \A s \in SetIds : sets[s] = Empty(Ways)
      /\ \A t \in Threads : widths[t] = Empty(WidthSlots)
      /\ \A t \in Threads, op \in Retaining :
           plans[<< t, op >>] = Empty(PlanSlots) /\ recursions[<< t, op >>] = Empty(PlanSlots)
  <2>1. \A t \in Threads, op \in Retaining : << t, op >> \in Threads \X Retaining
    OBVIOUS
  <2> QED BY <2>1 DEF Init
<1>6. CursorsInv
  BY <1>2, <1>3, <1>4, <1>5 DEF CursorsInv
<1>7. MissingInv
  BY DEF Init, MissingInv, PathMissing, RecursionMissing, Descending
<1>8. ASSUME NEW x \in Caches
      PROVE  Order(CacheAt(x)) = <<>>
  <2>1. ASSUME NEW s \in SetIds, x = << "set", s >>
        PROVE  CacheAt(x) = Empty(Ways)
    BY <1>5, <2>1 DEF CacheAt
  <2>2. ASSUME NEW t \in Threads, x = << "width", t >>
        PROVE  CacheAt(x) = Empty(WidthSlots)
    BY <1>5, <2>2 DEF CacheAt
  <2>3. ASSUME NEW t \in Threads, NEW op \in Retaining, x = << "plan", t, op >>
        PROVE  CacheAt(x) = Empty(PlanSlots)
    BY <1>5, <2>3 DEF CacheAt
  <2>4. ASSUME NEW t \in Threads, NEW op \in Retaining, x = << "recursion", t, op >>
        PROVE  CacheAt(x) = Empty(PlanSlots)
    BY <1>5, <2>4 DEF CacheAt
  <2> QED BY <1>2, <1>3, <1>4, <2>1, <2>2, <2>3, <2>4, EveryCache
<1>9. Recency!Init
  BY <1>8 DEF Recent, Recency!Init
<1> QED BY <1>6, <1>7, <1>9

LEMMA StutteringFaithful ==
  ASSUME KInv, UNCHANGED vars
  PROVE  Faithful
<1>1. MissingInv /\ CursorsInv
  BY DEF KInv
<1>2. CursorsInv'
  BY <1>1 DEF CursorsInv, vars
<1>3. MissingInv'
  BY <1>1 DEF MissingInv, PathMissing, RecursionMissing, vars
<1>4. Recent' = Recent
  BY NoneStored DEF vars
<1> QED BY <1>2, <1>3, <1>4 DEF Faithful

\* Whatever calls race and however they nest, every cache holds the entries stored
\* last, one per key, and a store replaces the oldest (plan/cache.rs:382): no slot
\* is lost behind a cursor, and no plan is retained twice although its thread
\* retains others between the miss and the store.
THEOREM CachesKeepTheLatest == NoneIsNoEntry => (Spec => CachesKeepLatest)
<1> SUFFICES ASSUME NoneIsNoEntry PROVE Spec => CachesKeepLatest
  OBVIOUS
<1>1. Init => CursorsInv /\ MissingInv /\ Recency!Init
  BY InitiallyPromised
<1>2. IInv /\ CursorsInv /\ MissingInv /\ [Next]_vars
        => CursorsInv' /\ MissingInv' /\ [Recency!Next]_Recent
  <2> SUFFICES ASSUME KInv, [Next]_vars PROVE Faithful
    BY DEF KInv, Faithful
  <2>1. CASE UNCHANGED vars
    BY <2>1, StutteringFaithful
  <2>2. ASSUME NEW t \in Threads, StartRing(t) PROVE Faithful
    BY <2>2, StartRingFaithful
  <2>3. ASSUME NEW t \in Threads, StartRecursion(t) PROVE Faithful
    BY <2>3, StartRecursionFaithful
  <2>4. ASSUME NEW t \in Threads, BestHalfWidth(t) PROVE Faithful
    BY <2>4, BestHalfWidthFaithful
  <2>5. ASSUME NEW t \in Threads, LookUpGeometry(t) PROVE Faithful
    BY <2>5, LookUpGeometryFaithful
  <2>6. ASSUME NEW t \in Threads, Search(t) PROVE Faithful
    BY <2>6, SearchFaithful
  <2>7. ASSUME NEW t \in Threads, LookUpRetained(t) PROVE Faithful
    BY <2>7, LookUpRetainedFaithful
  <2>8. ASSUME NEW t \in Threads, AscendNested(t) PROVE Faithful
    BY <2>8, AscendNestedFaithful
  <2>9. ASSUME NEW t \in Threads, AscendOutermost(t) PROVE Faithful
    BY <2>9, AscendOutermostFaithful
  <2>10. ASSUME NEW t \in Threads, PlanLevel(t) PROVE Faithful
    BY <2>10, PlanLevelFaithful
  <2>11. ASSUME NEW t \in Threads, FinishRecursion(t) PROVE Faithful
    BY <2>11, FinishRecursionFaithful
  <2> QED BY <2>1, <2>2, <2>3, <2>4, <2>5, <2>6, <2>7, <2>8, <2>9, <2>10, <2>11
          DEF Next, Start, Continue
<1> QED BY <1>1, <1>2, CachesExact, PTL DEF Spec, CachesKeepLatest, Recency!Spec
=============================================================================

---------------------------- MODULE ScratchArena ----------------------------
(***************************************************************************)
(* int/logic/unsigned/memory/arena.rs and bucket.rs: scratch buffers whose *)
(* storage is recycled through a pool of each thread.                      *)
(*                                                                         *)
(* The pool sorts vectors into buckets by the logarithm of their capacity. *)
(* A bucket is an array of optional vectors of which the first `len` are   *)
(* there, accessed without checks.  A buffer may be dropped on another     *)
(* thread than the one it was acquired on, and after its thread's pool has *)
(* been torn down; both paths must free what they cannot keep.             *)
(*                                                                         *)
(* Vectors carry an identity, so that losing one or owning it twice shows, *)
(* and their contents are represented by their length.                     *)
(***************************************************************************)
EXTENDS Integers, FiniteSetsExt, TLC

CONSTANTS
  Threads,
  Handles,            \* the scratch buffers of the program, which may change thread
  Ids,                \* identities of vectors: the bound on memory
  Sizes,              \* the capacities the program asks for
  Lengths,            \* the lengths it writes
  BucketCount,        \* BUCKET_COUNT
  DropThreshold,      \* SMALL_BUFFER_DROP_THRESHOLD
  Lookahead,          \* POOL_LOOKAHEAD_BUCKETS
  MaxPerBucket,       \* MAX_PER_BUCKET
  LastFullBucket,     \* the last bucket that keeps MAX_PER_BUCKET vectors
  LastQuarterBucket,  \* the last that keeps a quarter of them; others keep an eighth
  None

\* The bounds of a bucket are powers of two: a recursive function, as in Limbs,
\* for the proofs to unfold.
Power(b, n) ==
  LET power[k \in Nat] == IF k = 0 THEN 1 ELSE b * power[k - 1]
  IN  power[n]

ASSUME SizesAssumption ==
  /\ Sizes \subseteq Nat \ {0} /\ Lengths \subseteq Nat \ {0}
  /\ IsFiniteSet(Sizes) /\ IsFiniteSet(Lengths)
ASSUME BucketAssumption ==
  /\ BucketCount \in Nat \ {0} /\ Lookahead \in Nat \ {0} /\ MaxPerBucket \in Nat
  /\ LastFullBucket \in Nat /\ LastQuarterBucket \in Nat
  /\ LastFullBucket <= LastQuarterBucket
ASSUME ThresholdAssumption ==
  \E k \in Lookahead .. BucketCount - 1 : DropThreshold = Power(2, k)

VARIABLES
  arena,    \* arena[t][k]: bucket k of thread t
  gone,     \* the threads whose thread-local storage was destroyed
  buf,      \* buf[h]: the vector of scratch buffer h, or None
  live      \* the vectors that are allocated

vars == <<arena, gone, buf, live>>

Buckets == 0 .. BucketCount - 1
MaxPooled == Power(2, BucketCount)
MaxCap == 2 * Max(Sizes \union Lengths \union {MaxPooled})
Vec == [id : Ids, cap : 1 .. MaxCap, len : 0 .. MaxCap]
Slots == [buffers : [1 .. MaxPerBucket -> Vec \union {None}], len : 0 .. MaxPerBucket]

\* None is neither a vector, with or without its identity, nor a place in a pool.
ASSUME NoneAssumption ==
  /\ None \notin Vec /\ None \notin [cap : 0 .. MaxCap, len : 0 .. MaxCap]
  /\ None \notin Buckets \X (1 .. MaxPerBucket)

\* bucket_for_pooled_capacity: floor(log2(cap)).
Bucket(cap) == CHOOSE k \in Buckets : Power(2, k) <= cap /\ cap < Power(2, k + 1)

\* max_buffers_for_bucket
Limit(k) ==
  IF k <= LastFullBucket THEN MaxPerBucket
  ELSE IF k <= LastQuarterBucket THEN MaxPerBucket \div 4
  ELSE MaxPerBucket \div 8

\* Vec::with_capacity, and Vec growth: exact, or at least doubling.
Allocated(id, n) == [id |-> id, cap |-> n, len |-> 0]
Exact(v, n) == [v EXCEPT !.cap = IF @ < n THEN n ELSE @]
Amortized(v, n) == [v EXCEPT !.cap = IF @ < n THEN Max({n, 2 * @}) ELSE @]

-----------------------------------------------------------------------------
(* A bucket.                                                               *)

EmptySlot == [buffers |-> [i \in 1 .. MaxPerBucket |-> None], len |-> 0]

Push_OverLast(slot, v) ==
  [buffers |-> [slot.buffers EXCEPT ![IF slot.len = 0 THEN 1 ELSE slot.len] = v],
   len |-> slot.len + 1]

Push(slot, v) ==
  [buffers |-> [slot.buffers EXCEPT ![slot.len + 1] = v], len |-> slot.len + 1]

\* pop, and the removal of take_best_fit: the last entry takes the place freed.
Removed(slot, i) ==
  [buffers |-> [slot.buffers EXCEPT ![i] = slot.buffers[slot.len], ![slot.len] = None],
   len |-> slot.len - 1]

Fitting(slot, n) == {i \in 1 .. slot.len : slot.buffers[i].cap >= n}

\* take_best_fit: the smallest, and the highest index among equals.
BestFit(slot, n) ==
  CHOOSE i \in Fitting(slot, n) :
    \A j \in Fitting(slot, n) \ {i} :
      \/ slot.buffers[i].cap < slot.buffers[j].cap
      \/ slot.buffers[i].cap = slot.buffers[j].cap /\ i > j

-----------------------------------------------------------------------------
(* Acquisition and release on thread t, as values: each gives a vector and *)
(* the pool that is left.                                                  *)

\* The requests that look in the pool.  The buckets a smaller one could see
\* hold only capacities that are never kept.
PooledRequest(n) == DropThreshold \div Power(2, Lookahead) <= n /\ n < MaxPooled

\* Where acquire_vec_slow looks: the best fit in the request's own bucket, the
\* last of the next nonempty ones within sight, or the last of its own, to grow.
Found(pool, n) ==
  LET start == Bucket(n)
      above == {k \in Buckets : start < k /\ k <= start + Lookahead /\ pool[k].len > 0}
  IN  IF Fitting(pool[start], n) # {} THEN <<start, BestFit(pool[start], n)>>
      ELSE IF above # {} THEN <<Min(above), pool[Min(above)].len>>
      ELSE IF pool[start].len > 0 THEN <<start, pool[start].len>>
      ELSE None

Regrown_Amortized(v, n) == Amortized(v, n)

\* In the last bucket doubling would leave the pool's range.
Regrown(v, n) ==
  IF Bucket(n) = BucketCount - 1 THEN Exact(v, n) ELSE Amortized(v, n)

Acquisitions_KeepsContents(t, n) ==
  LET found == IF PooledRequest(n) /\ t \notin gone THEN Found(arena[t], n) ELSE None IN
  IF found = None THEN {[vec |-> Allocated(id, n), pool |-> arena[t]] : id \in Ids \ live}
  ELSE LET k == found[1]
           taken == arena[t][k].buffers[found[2]]
       IN  {[vec |-> Regrown(taken, n),
             pool |-> [arena[t] EXCEPT ![k] = Removed(@, found[2])]]}

Acquisitions(t, n) ==
  LET found == IF PooledRequest(n) /\ t \notin gone THEN Found(arena[t], n) ELSE None IN
  IF found = None THEN {[vec |-> Allocated(id, n), pool |-> arena[t]] : id \in Ids \ live}
  ELSE LET k == found[1]
           taken == arena[t][k].buffers[found[2]]
       IN  {[vec |-> Regrown([taken EXCEPT !.len = 0], n),
             pool |-> [arena[t] EXCEPT ![k] = Removed(@, found[2])]]}

\* Whether release_vec keeps v.
Kept(t, pool, v) ==
  /\ DropThreshold <= v.cap /\ v.cap < MaxPooled
  /\ t \notin gone
  /\ pool[Bucket(v.cap)].len < Limit(Bucket(v.cap))

Pooled(t, pool, v) ==
  IF Kept(t, pool, v) THEN [pool EXCEPT ![Bucket(v.cap)] = Push(@, v)] ELSE pool

Freed(t, pool, v) == IF Kept(t, pool, v) THEN {} ELSE {v.id}

-----------------------------------------------------------------------------

Init ==
  /\ arena = [t \in Threads |-> [k \in Buckets |-> EmptySlot]]
  /\ gone = {}
  /\ buf = [h \in Handles |-> None]
  /\ live = {}

\* h takes a vector acquired for n limbs, with `len` limbs copied in; what it
\* held before is released after the acquisition.
Take(t, h, n, len) ==
  \E a \in Acquisitions(t, n) :
    /\ buf' = [buf EXCEPT ![h] = [a.vec EXCEPT !.len = len]]
    /\ IF buf[h] = None
       THEN /\ arena' = [arena EXCEPT ![t] = a.pool]
            /\ live' = live \union {a.vec.id}
       ELSE /\ arena' = [arena EXCEPT ![t] = Pooled(t, a.pool, buf[h])]
            /\ live' = (live \union {a.vec.id}) \ Freed(t, a.pool, buf[h])
    /\ UNCHANGED gone

\* h's own vector changes.
Keep(h, v) == buf' = [buf EXCEPT ![h] = v] /\ UNCHANGED <<arena, gone, live>>

Acquire(t, h, n) ==
  /\ buf[h] = None
  /\ \E a \in Acquisitions(t, n) :
       /\ buf' = [buf EXCEPT ![h] = a.vec]
       /\ arena' = [arena EXCEPT ![t] = a.pool]
       /\ live' = live \union {a.vec.id}
  /\ UNCHANGED gone

\* Through DerefMut: the owner resizes the vector, which grows as it needs.
Write(h, n) ==
  /\ buf[h] # None
  /\ Keep(h, [Amortized(buf[h], n) EXCEPT !.len = n])

Reset(t, h, n) ==
  /\ buf[h] # None
  /\ IF buf[h].cap < n THEN Take(t, h, n, 0) ELSE Keep(h, [buf[h] EXCEPT !.len = 0])

Clone(t, h, g) ==
  /\ buf[h] = None /\ buf[g] # None
  /\ Take(t, h, buf[g].cap, buf[g].len)

CloneFrom(t, h, g) ==
  /\ h # g /\ buf[h] # None /\ buf[g] # None
  /\ IF buf[h].cap < buf[g].len THEN Take(t, h, buf[g].cap, buf[g].len)
     ELSE Keep(h, [buf[h] EXCEPT !.len = buf[g].len])

\* g grows to the contents of h, takes them, and the two exchange vectors.
CloneInto(h, g) ==
  /\ h # g /\ buf[h] # None /\ buf[g] # None
  /\ buf' = [buf EXCEPT ![h] = [Amortized(buf[g], buf[h].len) EXCEPT !.len = buf[h].len],
                        ![g] = buf[h]]
  /\ UNCHANGED <<arena, gone, live>>

Drop(t, h) ==
  /\ buf[h] # None
  /\ buf' = [buf EXCEPT ![h] = None]
  /\ arena' = [arena EXCEPT ![t] = Pooled(t, @, buf[h])]
  /\ live' = live \ Freed(t, arena[t], buf[h])
  /\ UNCHANGED gone

PoolIds(pool) ==
  UNION {{v.id : v \in {pool[k].buffers[i] : i \in 1 .. MaxPerBucket} \ {None}} : k \in Buckets}

\* The destructor of the thread-local: whatever is there is freed.  Destructors
\* that run later may still use and drop scratch buffers.
TearDown(t) ==
  /\ t \notin gone
  /\ gone' = gone \union {t}
  /\ arena' = [arena EXCEPT ![t] = [k \in Buckets |-> EmptySlot]]
  /\ live' = live \ PoolIds(arena[t])
  /\ UNCHANGED buf

Next ==
  \/ \E t \in Threads, h \in Handles :
       \/ \E n \in Sizes : Acquire(t, h, n) \/ Reset(t, h, n)
       \/ \E g \in Handles : Clone(t, h, g) \/ CloneFrom(t, h, g)
       \/ Drop(t, h)
  \/ \E h \in Handles : \/ \E n \in Lengths : Write(h, n)
                        \/ \E g \in Handles : CloneInto(h, g)
  \/ \E t \in Threads : TearDown(t)

Spec == Init /\ [][Next]_vars

-----------------------------------------------------------------------------
(* Properties. *)

\* The unchecked accesses of a bucket rest on this: exactly the first `len`
\* entries are there, and no more than its retention limit.
OccupiedPrefix ==
  \A t \in Threads, k \in Buckets :
    LET slot == arena[t][k] IN
    /\ slot.len <= Limit(k)
    /\ \A i \in 1 .. MaxPerBucket : (slot.buffers[i] # None) <=> i <= slot.len

\* A vector is pooled where a request looks for it, so that every vector of a
\* higher bucket is large enough without a check.
BucketsBound ==
  \A t \in Threads, k \in Buckets : \A i \in 1 .. arena[t][k].len :
    LET cap == arena[t][k].buffers[i].cap IN
    Power(2, k) <= cap /\ cap < Power(2, k + 1) /\ DropThreshold <= cap

\* Where the vector id is owned.
HeldBy(id) == {h \in Handles : buf[h] # None /\ buf[h].id = id}
PooledAt(id) ==
  {p \in Threads \X Buckets \X (1 .. MaxPerBucket) :
     LET v == arena[p[1]][p[2]].buffers[p[3]] IN v # None /\ v.id = id}

\* Every allocated vector has one owner, a buffer or a pool entry, and nothing
\* is owned that is not allocated: no leak, no double free, no sharing.
OwnedOnce ==
  \A id \in Ids : Cardinality(HeldBy(id)) + Cardinality(PooledAt(id))
                    = IF id \in live THEN 1 ELSE 0

\* What the unchecked accesses and the unconditional reuse of the pool rest on.
ArenaShape == OccupiedPrefix /\ BucketsBound /\ OwnedOnce

\* Reuse stays within its bounds: a pooled vector handed out is at most so much
\* larger than the request, and can always be pooled again.
ReuseBounded ==
  [][\A t \in Threads, h \in Handles : \A n \in Sizes :
       Acquire(t, h, n) /\ buf'[h].id \in live =>
         /\ buf'[h].cap < Power(2, Bucket(n) + 1 + Lookahead)
         /\ buf'[h].cap < MaxPooled]_vars

\* Nothing is allocated while the thread's pool has, in the request's bucket or
\* within sight above it, a vector that fits; and the request's own bucket
\* yields the smallest that does.  No request is too small to have looked.
ReusesWhatFits ==
  [][\A t \in Threads, h \in Handles : \A n \in Sizes :
       n < MaxPooled /\ Acquire(t, h, n) =>
         \A ahead \in 0 .. Lookahead :
           LET slot == arena[t][Bucket(n) + ahead] IN
           Bucket(n) + ahead \in Buckets =>
             \A i \in Fitting(slot, n) :
               /\ buf'[h].id \in live
               /\ ahead = 0 => buf'[h].cap <= slot.buffers[i].cap]_vars

\* A vector handed out is neither too large to keep nor one too many.
ReuseDiscipline == ReuseBounded /\ ReusesWhatFits

\* The pool is invisible: with vectors stripped of their identity, scratch
\* buffers behave as if each were allocated and freed on its own.
Held ==
  [h \in Handles |-> IF buf[h] = None THEN None ELSE [cap |-> buf[h].cap, len |-> buf[h].len]]

Buffers == INSTANCE ScratchBuffers WITH held <- Held

ImplementsBuffers == Buffers!Spec

-----------------------------------------------------------------------------
(* Threads, handles and vectors are told apart by nothing but their use.    *)

Symmetry == Permutations(Threads) \union Permutations(Handles) \union Permutations(Ids)
=============================================================================

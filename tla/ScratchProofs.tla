---------------------------- MODULE ScratchProofs ----------------------------
(***************************************************************************)
(* Theorems about scratch memory: the arena that lends it (ScratchArena)    *)
(* and the blocked product whose workers share one scratch                  *)
(* (BlockedProduct).                                                        *)
(*                                                                         *)
(* Whatever the threads do, the first `len` entries of a bucket are the     *)
(* ones that are there, every allocated vector has one owner, what a pool   *)
(* hands out fits the request and can be pooled again, and scratch buffers  *)
(* behave as if there were no pool.  An operation moves vectors between a   *)
(* thread's pool, a scratch buffer and the hand of the thread that executes *)
(* it, which is empty between operations.  `Sound` speaks of all three, so  *)
(* that each move is one lemma and each operation is a few moves.           *)
(*                                                                         *)
(* Of the blocked product, for every width of the operands and of a block,  *)
(* every budget and every number of regions: a worker is Placed in the      *)
(* batch, so that regions follow blocks and no two workers share one, and   *)
(* the destination is a prefix of the product after every batch.            *)
(***************************************************************************)
EXTENDS ScratchArena, BlockedProduct, TLAPS, FiniteSetTheorems

\* The facts about powers and induction that LimbProofs holds.
Radix2 == INSTANCE LimbProofs WITH Base <- 2

-----------------------------------------------------------------------------
(* The inductive invariant.                                                *)

\* A slot of bucket k: its first `len` entries are there and no others, within
\* the bucket's retention limit, and their capacities are the bucket's.
SlotShape(k, slot) ==
  /\ slot \in Slots
  /\ slot.len <= Limit(k)
  /\ \A i \in 1 .. MaxPerBucket : (slot.buffers[i] # None) <=> i <= slot.len
  /\ \A i \in 1 .. slot.len :
       /\ Power(2, k) <= slot.buffers[i].cap /\ slot.buffers[i].cap < Power(2, k + 1)
       /\ DropThreshold <= slot.buffers[i].cap

PoolShape(pool) == pool \in [Buckets -> Slots] /\ \A k \in Buckets : SlotShape(k, pool[k])

\* No vector is in a pool twice.
PoolDistinct(pool) ==
  \A k, l \in Buckets : \A i \in 1 .. pool[k].len, j \in 1 .. pool[l].len :
    pool[k].buffers[i].id = pool[l].buffers[j].id => k = l /\ i = j

\* Pools A, scratch buffers B and the hand v own different vectors, which
\* together are the allocated ones L.
Owned(A, B, v, L) ==
  /\ \A t \in Threads : PoolDistinct(A[t])
  /\ \A t, u \in Threads : \A id \in PoolIds(A[t]) : id \in PoolIds(A[u]) => t = u
  /\ \A h, g \in Handles : B[h] # None /\ B[g] # None /\ B[h].id = B[g].id => h = g
  /\ \A h \in Handles, t \in Threads : B[h] # None => B[h].id \notin PoolIds(A[t])
  /\ v # None => /\ \A h \in Handles : B[h] # None => B[h].id # v.id
                 /\ \A t \in Threads : v.id \notin PoolIds(A[t])
  /\ \A id : id \in L <=> \/ \E t \in Threads : id \in PoolIds(A[t])
                          \/ \E h \in Handles : (B[h] # None /\ B[h].id = id)
                          \/ (v # None /\ v.id = id)


Sound(A, B, v, L) ==
  /\ A \in [Threads -> [Buckets -> Slots]] /\ \A t \in Threads : PoolShape(A[t])
  /\ B \in [Handles -> Vec \union {None}] /\ v \in Vec \union {None}
  /\ L \subseteq Ids
  /\ Owned(A, B, v, L)

\* A buffer's contents fit it and have a length the program wrote.
Filled(v) == v.len <= v.cap /\ v.len \in Lengths \union {0}

\* A pool that was torn down stays empty.
GoneEmpty == \A t \in gone : \A k \in Buckets : arena[t][k].len = 0

ArenaInv ==
  /\ Sound(arena, buf, None, live)
  /\ gone \subseteq Threads
  /\ \A h \in Handles : buf[h] # None => Filled(buf[h])
  /\ GoneEmpty

-----------------------------------------------------------------------------
(* Powers of two and the bucket of a capacity.                             *)

LEMMA Induction ==
  ASSUME NEW T, 0 \in T, \A n \in Nat : n \in T => n + 1 \in T
  PROVE  \A n \in Nat : n \in T
<1>1. 2 \in Nat /\ 2 >= 2
  OBVIOUS
<1> QED BY <1>1, Radix2!SetInduction

LEMMA PowerRule ==
  /\ Power(2, 0) = 1
  /\ \A n \in Nat : Power(2, n) \in Nat \ {0} /\ Power(2, n + 1) = 2 * Power(2, n)
<1>1. 2 \in Nat \ {0} /\ 2 >= 2
  OBVIOUS
<1>2. \A b, n : Radix2!Power(b, n) = Power(b, n)
  BY Zenon DEF Power, Radix2!Power
<1>3. /\ Radix2!Power(2, 0) = 1
      /\ \A n \in Nat : /\ Radix2!Power(2, n) \in Nat \ {0}
                        /\ Radix2!Power(2, n + 1) = 2 * Radix2!Power(2, n)
  BY <1>1, Radix2!PowerFacts
<1> QED BY <1>2, <1>3

LEMMA PowerGrows ==
  \A m, n \in Nat : m <= n => Power(2, m) <= Power(2, n)
<1> SUFFICES ASSUME NEW m \in Nat PROVE \A n \in Nat : m <= n => Power(2, m) <= Power(2, n)
  OBVIOUS
<1> DEFINE T == {n \in Nat : m <= n => Power(2, m) <= Power(2, n)}
<1>1. 0 \in T
  BY PowerRule
<1>2. ASSUME NEW n \in Nat, n \in T PROVE n + 1 \in T
  <2>1. Power(2, n) \in Nat /\ Power(2, m) \in Nat /\ Power(2, n + 1) = 2 * Power(2, n)
    BY PowerRule
  <2>2. CASE m = n + 1
    BY <2>2, <2>1
  <2>3. CASE m <= n
    BY <2>3, <2>1, <1>2
  <2>4. CASE m > n + 1
    BY <2>4
  <2> QED BY <2>2, <2>3, <2>4
<1>3. \A n \in Nat : n \in T
  <2> HIDE DEF T
  <2> QED BY <1>1, <1>2, Induction
<1> QED BY <1>3

LEMMA PowerSplits ==
  \A m, n \in Nat : Power(2, m + n) = Power(2, m) * Power(2, n)
<1> SUFFICES ASSUME NEW m \in Nat
             PROVE  \A n \in Nat : Power(2, m + n) = Power(2, m) * Power(2, n)
  OBVIOUS
<1> DEFINE T == {n \in Nat : Power(2, m + n) = Power(2, m) * Power(2, n)}
<1>1. 0 \in T
  BY PowerRule
<1>2. ASSUME NEW n \in Nat, n \in T PROVE n + 1 \in T
  <2> DEFINE x == Power(2, m)
             y == Power(2, n)
             z == Power(2, m + n)
  <2>1. x \in Nat /\ y \in Nat /\ z \in Nat /\ z = x * y
    BY <1>2, PowerRule
  <2>2. Power(2, n + 1) = 2 * y /\ Power(2, m + (n + 1)) = 2 * z
    <3>1. m + (n + 1) = (m + n) + 1 /\ m + n \in Nat
      OBVIOUS
    <3> QED BY <3>1, PowerRule
  <2>3. 2 * z = x * (2 * y)
    <3> HIDE DEF x, y, z
    <3> QED BY <2>1
  <2> QED BY <2>2, <2>3
<1>3. \A n \in Nat : n \in T
  <2> HIDE DEF T
  <2> QED BY <1>1, <1>2, Induction
<1> QED BY <1>3

\* Every capacity below 2 ^ BucketCount has a bucket.
LEMMA BucketExists ==
  \A n \in Nat : \A cap \in Nat \ {0} :
    cap < Power(2, n) => \E k \in 0 .. n - 1 : Power(2, k) <= cap /\ cap < Power(2, k + 1)
<1> DEFINE In(cap, k) == Power(2, k) <= cap /\ cap < Power(2, k + 1)
           T == {n \in Nat : \A cap \in Nat \ {0} :
                               cap < Power(2, n) => \E k \in 0 .. n - 1 : In(cap, k)}
<1>1. 0 \in T
  BY PowerRule
<1>2. ASSUME NEW n \in Nat, n \in T PROVE n + 1 \in T
  <2> SUFFICES ASSUME NEW cap \in Nat \ {0}, cap < Power(2, n + 1)
               PROVE  \E k \in 0 .. (n + 1) - 1 : In(cap, k)
    OBVIOUS
  <2>1. Power(2, n) \in Nat
    BY PowerRule
  <2>2. CASE cap < Power(2, n)
    <3>1. PICK k \in 0 .. n - 1 : In(cap, k)
      BY <2>2, <1>2
    <3>2. k \in 0 .. (n + 1) - 1
      OBVIOUS
    <3> QED BY <3>1, <3>2
  <2>3. CASE Power(2, n) <= cap
    <3>1. n \in 0 .. (n + 1) - 1 /\ In(cap, n)
      BY <2>3
    <3> QED BY <3>1
  <2> QED BY <2>1, <2>2, <2>3
<1>3. \A n \in Nat : n \in T
  <2> HIDE DEF T
  <2> QED BY <1>1, <1>2, Induction
<1> QED BY <1>3

LEMMA BucketIs ==
  ASSUME NEW cap \in Nat \ {0}, cap < MaxPooled
  PROVE  /\ Bucket(cap) \in Buckets
         /\ Power(2, Bucket(cap)) <= cap /\ cap < Power(2, Bucket(cap) + 1)
<1>1. \E k \in Buckets : Power(2, k) <= cap /\ cap < Power(2, k + 1)
  BY BucketExists, BucketAssumption DEF MaxPooled, Buckets
<1> QED BY <1>1, Zenon DEF Bucket

LEMMA LimitBound == \A k \in Buckets : Limit(k) \in Nat /\ Limit(k) <= MaxPerBucket
BY BucketAssumption DEF Limit, Buckets

-----------------------------------------------------------------------------
(* What capacities a vector can have.                                      *)

\* A finite set of naturals is bounded.
LEMMA FiniteBounded ==
  ASSUME NEW S, S \subseteq Nat, IsFiniteSet(S)
  PROVE  \E b \in Nat : \A x \in S : x <= b
<1>1. PICK n \in Nat : ExistsSurjection(1 .. n, S)
  BY FS_NatSurjection
<1>2. PICK f \in [1 .. n -> S] : \A x \in S : \E i \in 1 .. n : f[i] = x
  BY <1>1 DEF ExistsSurjection, Surjection
<1> DEFINE T == {k \in Nat : k <= n => \E b \in Nat : \A i \in 1 .. k : f[i] <= b}
<1>3. 0 \in T
  OBVIOUS
<1>4. ASSUME NEW k \in Nat, k \in T PROVE k + 1 \in T
  <2> SUFFICES ASSUME k + 1 <= n PROVE \E b \in Nat : \A i \in 1 .. k + 1 : f[i] <= b
    OBVIOUS
  <2>1. PICK b \in Nat : \A i \in 1 .. k : f[i] <= b
    BY <1>4
  <2>2. f[k + 1] \in Nat /\ \A i \in 1 .. k : f[i] \in Nat
    <3>1. k + 1 \in 1 .. n /\ \A i \in 1 .. k : i \in 1 .. n
      OBVIOUS
    <3> QED BY <3>1
  <2>3. b + f[k + 1] \in Nat /\ \A i \in 1 .. k + 1 : f[i] <= b + f[k + 1]
    <3> SUFFICES ASSUME NEW i \in 1 .. k + 1 PROVE f[i] <= b + f[k + 1]
      BY <2>2
    <3>1. CASE i = k + 1
      BY <3>1, <2>2
    <3>2. CASE i \in 1 .. k
      BY <3>2, <2>1, <2>2
    <3> QED BY <3>1, <3>2
  <2> QED BY <2>3
<1>5. \A k \in Nat : k \in T
  <2> HIDE DEF T
  <2> QED BY <1>3, <1>4, Induction
<1>6. PICK b \in Nat : \A i \in 1 .. n : f[i] <= b
  <2>1. n \in T
    BY <1>5
  <2> QED BY <2>1
<1> QED BY <1>2, <1>6

\* Of a bounded set of naturals that is not empty, one is the largest.
LEMMA LargestExists ==
  ASSUME NEW S, S \subseteq Nat, S # {}, NEW b \in Nat, \A x \in S : x <= b
  PROVE  \E x \in S : \A y \in S : x >= y
<1> DEFINE T == {n \in Nat : \A x \in S : x + n >= b => \E z \in S : \A y \in S : z >= y}
<1>1. 0 \in T
  OBVIOUS
<1>2. ASSUME NEW n \in Nat, n \in T PROVE n + 1 \in T
  <2> SUFFICES ASSUME NEW x \in S, x + (n + 1) >= b PROVE \E z \in S : \A y \in S : z >= y
    OBVIOUS
  <2>1. CASE \A y \in S : x >= y
    BY <2>1
  <2>2. CASE \E y \in S : ~ (x >= y)
    <3>1. PICK y \in S : ~ (x >= y)
      BY <2>2
    <3>2. y + n >= b
      BY <3>1
    <3> QED BY <3>2, <1>2
  <2> QED BY <2>1, <2>2
<1>3. \A n \in Nat : n \in T
  <2> HIDE DEF T
  <2> QED BY <1>1, <1>2, Induction
<1>4. b \in T
  BY <1>3
<1>5. PICK x \in S : TRUE
  OBVIOUS
<1>6. x + b >= b
  OBVIOUS
<1> QED BY <1>4, <1>6

LEMMA MaxIs ==
  ASSUME NEW S, S \subseteq Nat, S # {}, IsFiniteSet(S)
  PROVE  Max(S) \in S /\ \A y \in S : Max(S) >= y
<1>1. \E x \in S : \A y \in S : x >= y
  BY FiniteBounded, LargestExists
<1> QED BY <1>1, Zenon DEF Max

LEMMA MaxOfTwo == \A m, n \in Nat : Max({m, n}) = IF m >= n THEN m ELSE n
<1> SUFFICES ASSUME NEW m \in Nat, NEW n \in Nat PROVE Max({m, n}) = IF m >= n THEN m ELSE n
  OBVIOUS
<1>1. IsFiniteSet({m, n})
  <2>1. IsFiniteSet({m}) /\ {m, n} = {m} \cup {n}
    BY FS_Singleton
  <2> QED BY <2>1, FS_AddElement
<1>2. Max({m, n}) \in {m, n} /\ \A y \in {m, n} : Max({m, n}) >= y
  BY <1>1, MaxIs
<1> QED BY <1>2

LEMMA MaxPooledType == MaxPooled \in Nat /\ MaxPooled >= 2
<1>1. BucketCount - 1 \in Nat /\ (BucketCount - 1) + 1 = BucketCount
  BY BucketAssumption
<1>2. Power(2, BucketCount - 1) \in Nat \ {0} /\ Power(2, BucketCount) = 2 * Power(2, BucketCount - 1)
  BY <1>1, PowerRule
<1> QED BY <1>2 DEF MaxPooled

LEMMA MaxCapIs ==
  /\ MaxCap \in Nat
  /\ \A n \in Sizes \union Lengths \union {MaxPooled} : n \in Nat /\ 2 * n <= MaxCap
<1> DEFINE S == Sizes \union Lengths \union {MaxPooled}
<1>1. S \subseteq Nat /\ S # {}
  BY SizesAssumption, MaxPooledType
<1>2. IsFiniteSet(S)
  BY SizesAssumption, FS_Union, FS_AddElement, Zenon
<1>3. MaxCap = 2 * Max(S)
  BY DEF MaxCap
<1> HIDE DEF S
<1>4. Max(S) \in S /\ \A y \in S : Max(S) >= y
  BY <1>1, <1>2, MaxIs
<1> DEFINE m == Max(S)
<1>5. m \in Nat /\ MaxCap = 2 * m /\ \A n \in S : n \in Nat /\ m >= n
  BY <1>1, <1>3, <1>4
<1> HIDE DEF m
<1>6. MaxCap \in Nat /\ \A n \in S : n \in Nat /\ 2 * n <= MaxCap
  BY <1>5
<1> QED BY <1>6 DEF S

LEMMA SmallestExists ==
  ASSUME NEW S, S \subseteq Nat, S # {}
  PROVE  \E x \in S : \A y \in S : x <= y
<1> DEFINE T == {n \in Nat : \A x \in S : x <= n => \E z \in S : \A y \in S : z <= y}
<1>1. 0 \in T
  OBVIOUS
<1>2. ASSUME NEW n \in Nat, n \in T PROVE n + 1 \in T
  <2> SUFFICES ASSUME NEW x \in S, x <= n + 1 PROVE \E z \in S : \A y \in S : z <= y
    OBVIOUS
  <2>1. CASE \A y \in S : x <= y
    BY <2>1
  <2>2. CASE \E y \in S : ~ (x <= y)
    <3>1. PICK y \in S : ~ (x <= y)
      BY <2>2
    <3>2. y <= n
      BY <3>1
    <3> QED BY <3>2, <1>2
  <2> QED BY <2>1, <2>2
<1>3. \A n \in Nat : n \in T
  <2> HIDE DEF T
  <2> QED BY <1>1, <1>2, Induction
<1>4. PICK x \in S : TRUE
  OBVIOUS
<1>5. x \in T
  BY <1>3
<1> QED BY <1>5

LEMMA MinIs ==
  ASSUME NEW S, S \subseteq Nat, S # {}
  PROVE  Min(S) \in S /\ \A y \in S : Min(S) <= y
<1>1. \E x \in S : \A y \in S : x <= y
  BY SmallestExists
<1> QED BY <1>1, Zenon DEF Min

-----------------------------------------------------------------------------
(* One bucket.                                                             *)

LEMMA PushShape ==
  ASSUME NEW k \in Buckets, NEW slot, SlotShape(k, slot), slot.len < Limit(k),
         NEW v \in Vec, Power(2, k) <= v.cap, v.cap < Power(2, k + 1), DropThreshold <= v.cap
  PROVE  /\ SlotShape(k, Push(slot, v))
         /\ Push(slot, v).len = slot.len + 1 /\ Push(slot, v).buffers[slot.len + 1] = v
         /\ \A i \in 1 .. slot.len : Push(slot, v).buffers[i] = slot.buffers[i]
<1>1. slot.len \in 0 .. MaxPerBucket /\ slot.buffers \in [1 .. MaxPerBucket -> Vec \union {None}]
  BY DEF SlotShape, Slots
<1>2. Limit(k) \in Nat /\ Limit(k) <= MaxPerBucket /\ MaxPerBucket \in Nat
  BY LimitBound, BucketAssumption
<1>3. v # None
  BY NoneAssumption
<1> DEFINE n == slot.len
           b == [slot.buffers EXCEPT ![n + 1] = v]
<1>4. n \in Nat /\ n + 1 \in 1 .. MaxPerBucket /\ n + 1 <= Limit(k)
  BY <1>1, <1>2
<1>5. /\ b \in [1 .. MaxPerBucket -> Vec \union {None}] /\ b[n + 1] = v
      /\ \A i \in 1 .. MaxPerBucket : i # n + 1 => b[i] = slot.buffers[i]
  BY <1>1, <1>4
<1>6. Push(slot, v) = [buffers |-> b, len |-> n + 1]
  BY DEF Push
<1>7. \A i \in 1 .. MaxPerBucket : (slot.buffers[i] # None) <=> i <= n
  BY DEF SlotShape
<1>8. \A i \in 1 .. n : /\ Power(2, k) <= slot.buffers[i].cap /\ slot.buffers[i].cap < Power(2, k + 1)
                        /\ DropThreshold <= slot.buffers[i].cap
  BY DEF SlotShape
<1> HIDE DEF n, b
<1>9. \A i \in 1 .. MaxPerBucket : (b[i] # None) <=> i <= n + 1
  BY <1>3, <1>4, <1>5, <1>7
<1>10. \A i \in 1 .. n : b[i] = slot.buffers[i]
  <2>1. \A i \in 1 .. n : i \in 1 .. MaxPerBucket /\ i # n + 1
    BY <1>2, <1>4
  <2> QED BY <2>1, <1>5
<1>11. \A i \in 1 .. n + 1 : /\ Power(2, k) <= b[i].cap /\ b[i].cap < Power(2, k + 1)
                             /\ DropThreshold <= b[i].cap
  BY <1>4, <1>5, <1>8, <1>10
<1>12. Push(slot, v) \in Slots
  BY <1>4, <1>5, <1>6 DEF Slots
<1>13. Push(slot, v).buffers = b /\ Push(slot, v).len = n + 1
  BY <1>6
<1>14. SlotShape(k, Push(slot, v))
  BY <1>4, <1>9, <1>11, <1>12, <1>13 DEF SlotShape
<1> QED BY <1>5, <1>10, <1>13, <1>14 DEF n

LEMMA RemovedShape ==
  ASSUME NEW k \in Buckets, NEW slot, SlotShape(k, slot), NEW i \in 1 .. slot.len
  PROVE  /\ SlotShape(k, Removed(slot, i)) /\ Removed(slot, i).len = slot.len - 1
         /\ \A j \in 1 .. slot.len - 1 :
              Removed(slot, i).buffers[j] = slot.buffers[IF j = i THEN slot.len ELSE j]
<1>1. slot.len \in 0 .. MaxPerBucket /\ slot.buffers \in [1 .. MaxPerBucket -> Vec \union {None}]
  BY DEF SlotShape, Slots
<1>2. Limit(k) \in Nat /\ Limit(k) <= MaxPerBucket /\ MaxPerBucket \in Nat
  BY LimitBound, BucketAssumption
<1> DEFINE n == slot.len
           b == [slot.buffers EXCEPT ![i] = slot.buffers[n], ![n] = None]
<1>4. n \in 1 .. MaxPerBucket /\ i \in 1 .. MaxPerBucket /\ n \in Nat /\ n - 1 \in 0 .. MaxPerBucket
  BY <1>1, <1>2
<1>5. /\ b \in [1 .. MaxPerBucket -> Vec \union {None}] /\ b[n] = None
      /\ i # n => b[i] = slot.buffers[n]
      /\ \A j \in 1 .. MaxPerBucket : j # n /\ j # i => b[j] = slot.buffers[j]
  BY <1>1, <1>4
<1>6. Removed(slot, i) = [buffers |-> b, len |-> n - 1]
  BY DEF Removed
<1>7. \A j \in 1 .. MaxPerBucket : (slot.buffers[j] # None) <=> j <= n
  BY DEF SlotShape
<1>8. \A j \in 1 .. n : /\ Power(2, k) <= slot.buffers[j].cap /\ slot.buffers[j].cap < Power(2, k + 1)
                        /\ DropThreshold <= slot.buffers[j].cap
  BY DEF SlotShape
<1>3. n <= Limit(k)
  BY DEF SlotShape
<1>15. i \in 1 .. n
  OBVIOUS
<1> HIDE DEF n, b
<1>9. \A j \in 1 .. MaxPerBucket : (b[j] # None) <=> j <= n - 1
  <2> SUFFICES ASSUME NEW j \in 1 .. MaxPerBucket PROVE (b[j] # None) <=> j <= n - 1
    OBVIOUS
  <2>1. CASE j = n
    BY <2>1, <1>5, <1>4
  <2>2. CASE j = i /\ j # n
    BY <2>2, <1>5, <1>4, <1>7, <1>15
  <2>3. CASE j # i /\ j # n
    BY <2>3, <1>5, <1>4, <1>7
  <2> QED BY <2>1, <2>2, <2>3
<1>10. \A j \in 1 .. n - 1 : b[j] = slot.buffers[IF j = i THEN n ELSE j]
  <2>1. \A j \in 1 .. n - 1 : j \in 1 .. MaxPerBucket /\ j # n
    BY <1>2, <1>4
  <2> QED BY <2>1, <1>5
<1>11. \A j \in 1 .. n - 1 : /\ Power(2, k) <= b[j].cap /\ b[j].cap < Power(2, k + 1)
                             /\ DropThreshold <= b[j].cap
  BY <1>4, <1>8, <1>10
<1>12. Removed(slot, i) \in Slots
  BY <1>4, <1>5, <1>6 DEF Slots
<1>13. Removed(slot, i).buffers = b /\ Removed(slot, i).len = n - 1
  BY <1>6
<1>14. SlotShape(k, Removed(slot, i))
  BY <1>2, <1>3, <1>4, <1>9, <1>11, <1>12, <1>13 DEF SlotShape
<1> QED BY <1>10, <1>13, <1>14 DEF n

\* The best fit exists and is the smallest vector that fits.
LEMMA BestFitIs ==
  ASSUME NEW k \in Buckets, NEW slot, SlotShape(k, slot), NEW n \in Nat, Fitting(slot, n) # {}
  PROVE  /\ BestFit(slot, n) \in Fitting(slot, n)
         /\ \A j \in Fitting(slot, n) : slot.buffers[BestFit(slot, n)].cap <= slot.buffers[j].cap
<1> DEFINE F == Fitting(slot, n)
           cap(i) == slot.buffers[i].cap
           C == {cap(i) : i \in F}
<1>1. slot.len \in 0 .. MaxPerBucket /\ MaxPerBucket \in Nat
  BY BucketAssumption DEF SlotShape, Slots
<1>2. \A i \in 1 .. slot.len : slot.buffers[i] \in Vec
  BY <1>1 DEF SlotShape, Slots
<1>3. \A i \in 1 .. slot.len : cap(i) \in Nat
  BY <1>2, MaxCapIs DEF Vec
<1>4. F \subseteq 1 .. slot.len
  BY DEF Fitting
<1> HIDE DEF F, cap
<1>5. C \subseteq Nat /\ C # {}
  BY <1>3, <1>4 DEF F
<1>6. PICK c \in C : \A d \in C : c <= d
  <2> HIDE DEF C
  <2> QED BY <1>5, SmallestExists
<1> DEFINE D == {i \in F : cap(i) = c}
<1>7. D \subseteq Nat /\ D # {} /\ \A i \in D : i <= slot.len
  BY <1>1, <1>4
<1>8. PICK i \in D : \A j \in D : i >= j
  <2>1. slot.len \in Nat
    BY <1>1
  <2> HIDE DEF D
  <2> QED BY <1>7, <2>1, LargestExists
<1> DEFINE Best(b) == \A j \in F \ {b} : cap(b) < cap(j) \/ (cap(b) = cap(j) /\ b > j)
<1>9. i \in F /\ cap(i) = c
  BY <1>8
<1>10. Best(i)
  <2> SUFFICES ASSUME NEW j \in F, j # i PROVE cap(i) < cap(j) \/ (cap(i) = cap(j) /\ i > j)
    OBVIOUS
  <2>1. c <= cap(j) /\ c \in Nat /\ cap(j) \in Nat /\ i \in Nat /\ j \in Nat
    BY <1>1, <1>3, <1>4, <1>5, <1>6, <1>9
  <2>2. CASE cap(j) = c
    BY <2>1, <2>2, <1>8, <1>9
  <2> QED BY <2>1, <2>2, <1>9
<1> DEFINE b == BestFit(slot, n)
<1>11. b \in F /\ Best(b)
  <2>1. b = CHOOSE x \in F : Best(x)
    BY Zenon DEF BestFit, F, cap
  <2> HIDE DEF b, Best
  <2> QED BY <2>1, <1>9, <1>10, Zenon
<1>12. \A j \in F : cap(b) <= cap(j)
  <2> HIDE DEF b
  <2>1. \A j \in F : cap(j) \in Nat
    BY <1>3, <1>4
  <2> QED BY <2>1, <1>11
<1> QED BY <1>11, <1>12 DEF F, cap

-----------------------------------------------------------------------------
(* One thread's pool.                                                      *)

Lists(pool, id) == \E k \in Buckets : \E i \in 1 .. pool[k].len : pool[k].buffers[i].id = id

LEMMA PoolIdsAre ==
  ASSUME NEW pool, PoolShape(pool)
  PROVE  \A id : id \in PoolIds(pool) <=> Lists(pool, id)
<1>1. \A k \in Buckets : {pool[k].buffers[i] : i \in 1 .. MaxPerBucket} \ {None}
                         = {pool[k].buffers[i] : i \in 1 .. pool[k].len}
  <2> SUFFICES ASSUME NEW k \in Buckets
               PROVE  {pool[k].buffers[i] : i \in 1 .. MaxPerBucket} \ {None}
                      = {pool[k].buffers[i] : i \in 1 .. pool[k].len}
    OBVIOUS
  <2>1. pool[k].len \in 0 .. MaxPerBucket /\ MaxPerBucket \in Nat
    BY BucketAssumption DEF PoolShape, SlotShape, Slots
  <2>2. \A i \in 1 .. MaxPerBucket : (pool[k].buffers[i] # None) <=> i <= pool[k].len
    BY DEF PoolShape, SlotShape
  <2>3. \A i \in 1 .. pool[k].len : i \in 1 .. MaxPerBucket /\ i <= pool[k].len
    BY <2>1
  <2>4. \A i \in 1 .. MaxPerBucket : i <= pool[k].len => i \in 1 .. pool[k].len
    BY <2>1
  <2> DEFINE all == {pool[k].buffers[i] : i \in 1 .. MaxPerBucket} \ {None}
             kept == {pool[k].buffers[i] : i \in 1 .. pool[k].len}
  <2>5. ASSUME NEW v \in all PROVE v \in kept
    <3>1. PICK i \in 1 .. MaxPerBucket : v = pool[k].buffers[i] /\ v # None
      BY <2>5
    <3> QED BY <2>2, <2>4, <3>1
  <2>6. ASSUME NEW v \in kept PROVE v \in all
    <3>1. PICK i \in 1 .. pool[k].len : v = pool[k].buffers[i]
      BY <2>6
    <3> QED BY <2>2, <2>3, <3>1
  <2>7. all = kept
    <3> HIDE DEF all, kept
    <3> QED BY <2>5, <2>6
  <2> QED BY <2>7, Zenon
<1>2. PoolIds(pool) = UNION {{v.id : v \in {pool[k].buffers[i] : i \in 1 .. pool[k].len}} : k \in Buckets}
  BY <1>1 DEF PoolIds
<1> QED BY <1>2 DEF Lists

\* A vector that enters bucket k.
LEMMA PoolPushed ==
  ASSUME NEW pool, PoolShape(pool), PoolDistinct(pool),
         NEW k \in Buckets, pool[k].len < Limit(k), NEW v \in Vec, v.id \notin PoolIds(pool),
         Power(2, k) <= v.cap, v.cap < Power(2, k + 1), DropThreshold <= v.cap,
         NEW q, q = [pool EXCEPT ![k] = Push(@, v)]
  PROVE  /\ PoolShape(q) /\ PoolDistinct(q)
         /\ \A id : id \in PoolIds(q) <=> id \in PoolIds(pool) \/ id = v.id
<1> DEFINE slot == pool[k]
           n == pool[k].len
<1>1. SlotShape(k, slot) /\ n \in Nat
  BY DEF PoolShape, SlotShape, Slots
<1>2. /\ SlotShape(k, q[k]) /\ q[k].len = n + 1 /\ q[k].buffers[n + 1] = v
      /\ \A i \in 1 .. n : q[k].buffers[i] = pool[k].buffers[i]
  <2>1. q[k] = Push(slot, v)
    BY DEF PoolShape
  <2> QED BY <1>1, <2>1, PushShape
<1>3. \A l \in Buckets : l # k => q[l] = pool[l]
  BY DEF PoolShape
<1>4. q \in [Buckets -> Slots]
  <2>1. Push(slot, v) \in Slots
    BY <1>1, PushShape DEF SlotShape
  <2> QED BY <2>1 DEF PoolShape
<1>5. PoolShape(q)
  BY <1>2, <1>3, <1>4 DEF PoolShape
<1>6. \A l \in Buckets : \A i \in 1 .. q[l].len :
        \/ i \in 1 .. pool[l].len /\ q[l].buffers[i] = pool[l].buffers[i]
        \/ l = k /\ i = n + 1 /\ q[l].buffers[i] = v
  BY <1>1, <1>2, <1>3
<1>7. \A l \in Buckets : \A i \in 1 .. pool[l].len :
        i \in 1 .. q[l].len /\ q[l].buffers[i] = pool[l].buffers[i]
  BY <1>1, <1>2, <1>3
<1>8. n + 1 \in 1 .. q[k].len /\ q[k].buffers[n + 1] = v
  BY <1>1, <1>2
<1> HIDE DEF slot, n
<1>9. \A id : id \in PoolIds(pool) <=>
                \E l \in Buckets : \E i \in 1 .. pool[l].len : pool[l].buffers[i].id = id
  BY PoolIdsAre DEF Lists
<1>10. \A id : id \in PoolIds(q) <=>
                 \E l \in Buckets : \E i \in 1 .. q[l].len : q[l].buffers[i].id = id
  <2>1. \A id : id \in PoolIds(q) <=> Lists(q, id)
    BY <1>5, PoolIdsAre
  <2> QED BY <2>1 DEF Lists
<1>11. \A id : id \in PoolIds(q) <=> id \in PoolIds(pool) \/ id = v.id
  <2>1. ASSUME NEW id, id \in PoolIds(q) PROVE id \in PoolIds(pool) \/ id = v.id
    <3>1. PICK l \in Buckets : \E i \in 1 .. q[l].len : q[l].buffers[i].id = id
      BY <1>10, <2>1
    <3>2. PICK i \in 1 .. q[l].len : q[l].buffers[i].id = id
      BY <3>1
    <3> QED BY <3>2, <1>6, <1>9
  <2>2. ASSUME NEW id, id \in PoolIds(pool) PROVE id \in PoolIds(q)
    <3>1. PICK l \in Buckets : \E i \in 1 .. pool[l].len : pool[l].buffers[i].id = id
      BY <1>9, <2>2
    <3>2. PICK i \in 1 .. pool[l].len : pool[l].buffers[i].id = id
      BY <3>1
    <3>3. \E j \in 1 .. q[l].len : q[l].buffers[j].id = id
      BY <3>2, <1>7
    <3> QED BY <3>3, <1>10
  <2>3. v.id \in PoolIds(q)
    <3>1. \E j \in 1 .. q[k].len : q[k].buffers[j].id = v.id
      BY <1>8
    <3> QED BY <3>1, <1>10
  <2> QED BY <2>1, <2>2, <2>3
<1>12. \A l \in Buckets : \A i \in 1 .. pool[l].len : pool[l].buffers[i].id # v.id
  BY <1>9
<1>13. PoolDistinct(q)
  <2> SUFFICES ASSUME NEW l \in Buckets, NEW m \in Buckets,
                      NEW i \in 1 .. q[l].len, NEW j \in 1 .. q[m].len,
                      q[l].buffers[i].id = q[m].buffers[j].id
               PROVE  l = m /\ i = j
    BY DEF PoolDistinct
  <2> QED BY <1>6, <1>12 DEF PoolDistinct
<1> QED BY <1>5, <1>11, <1>13

\* The vector at place i of bucket k leaves.
LEMMA PoolTaken ==
  ASSUME NEW pool, PoolShape(pool), PoolDistinct(pool),
         NEW k \in Buckets, NEW i \in 1 .. pool[k].len,
         NEW q, q = [pool EXCEPT ![k] = Removed(@, i)]
  PROVE  /\ PoolShape(q) /\ PoolDistinct(q)
         /\ \A id : id \in PoolIds(q) <=> id \in PoolIds(pool) /\ id # pool[k].buffers[i].id
<1> DEFINE slot == pool[k]
           n == pool[k].len
           From(l, j) == IF l = k /\ j = i THEN n ELSE j
           To(l, j) == IF l = k /\ j = n THEN i ELSE j
<1>1. SlotShape(k, slot) /\ n \in Nat /\ i \in 1 .. n
  BY DEF PoolShape, SlotShape, Slots
<1>2. /\ SlotShape(k, q[k]) /\ q[k].len = n - 1
      /\ \A j \in 1 .. n - 1 : q[k].buffers[j] = pool[k].buffers[IF j = i THEN n ELSE j]
  <2>1. q[k] = Removed(slot, i)
    BY DEF PoolShape
  <2> QED BY <1>1, <2>1, RemovedShape
<1>3. \A l \in Buckets : l # k => q[l] = pool[l]
  BY DEF PoolShape
<1>4. q \in [Buckets -> Slots]
  <2>1. Removed(slot, i) \in Slots
    BY <1>1, RemovedShape DEF SlotShape
  <2> QED BY <2>1 DEF PoolShape
<1>5. PoolShape(q)
  BY <1>2, <1>3, <1>4 DEF PoolShape
<1>14. \A l \in Buckets : pool[l].len \in Nat
  BY DEF PoolShape, SlotShape, Slots
<1>6. \A l \in Buckets : \A j \in 1 .. q[l].len :
        /\ From(l, j) \in 1 .. pool[l].len /\ q[l].buffers[j] = pool[l].buffers[From(l, j)]
        /\ ~ (l = k /\ From(l, j) = i)
  BY <1>1, <1>2, <1>3, <1>14
<1>7. \A l \in Buckets : \A j \in 1 .. pool[l].len :
        ~ (l = k /\ j = i) =>
           To(l, j) \in 1 .. q[l].len /\ q[l].buffers[To(l, j)] = pool[l].buffers[j]
  BY <1>1, <1>2, <1>3, <1>14
<1>8. \A l \in Buckets : \A j, m \in 1 .. q[l].len : From(l, j) = From(l, m) => j = m
  BY <1>1, <1>2, <1>14
<1> HIDE DEF slot, n, From, To
<1>9. \A id : id \in PoolIds(pool) <=>
                \E l \in Buckets : \E j \in 1 .. pool[l].len : pool[l].buffers[j].id = id
  BY PoolIdsAre DEF Lists
<1>10. \A id : id \in PoolIds(q) <=>
                 \E l \in Buckets : \E j \in 1 .. q[l].len : q[l].buffers[j].id = id
  <2>1. \A id : id \in PoolIds(q) <=> Lists(q, id)
    BY <1>5, PoolIdsAre
  <2> QED BY <2>1 DEF Lists
<1>11. \A l \in Buckets : \A j \in 1 .. pool[l].len :
         pool[l].buffers[j].id = pool[k].buffers[i].id <=> l = k /\ j = i
  BY DEF PoolDistinct
<1>12. \A id : id \in PoolIds(q) <=> id \in PoolIds(pool) /\ id # pool[k].buffers[i].id
  <2>1. ASSUME NEW id, id \in PoolIds(q)
        PROVE  id \in PoolIds(pool) /\ id # pool[k].buffers[i].id
    <3>1. PICK l \in Buckets : \E j \in 1 .. q[l].len : q[l].buffers[j].id = id
      BY <1>10, <2>1
    <3>2. PICK j \in 1 .. q[l].len : q[l].buffers[j].id = id
      BY <3>1
    <3> DEFINE f == From(l, j)
    <3>3. f \in 1 .. pool[l].len /\ pool[l].buffers[f].id = id /\ ~ (l = k /\ f = i)
      BY <3>2, <1>6
    <3> HIDE DEF f
    <3> QED BY <3>3, <1>9, <1>11
  <2>2. ASSUME NEW id, id \in PoolIds(pool), id # pool[k].buffers[i].id PROVE id \in PoolIds(q)
    <3>1. PICK l \in Buckets : \E j \in 1 .. pool[l].len : pool[l].buffers[j].id = id
      BY <1>9, <2>2
    <3>2. PICK j \in 1 .. pool[l].len : pool[l].buffers[j].id = id
      BY <3>1
    <3>3. ~ (l = k /\ j = i)
      BY <3>2, <2>2
    <3> DEFINE f == To(l, j)
    <3>4. f \in 1 .. q[l].len /\ q[l].buffers[f].id = id
      BY <3>2, <3>3, <1>7
    <3> HIDE DEF f
    <3> QED BY <3>4, <1>10
  <2> QED BY <2>1, <2>2
<1>13. PoolDistinct(q)
  <2> SUFFICES ASSUME NEW l \in Buckets, NEW m \in Buckets,
                      NEW j \in 1 .. q[l].len, NEW g \in 1 .. q[m].len,
                      q[l].buffers[j].id = q[m].buffers[g].id
               PROVE  l = m /\ j = g
    BY DEF PoolDistinct
  <2> DEFINE a == From(l, j)
             b == From(m, g)
  <2>2. /\ a \in 1 .. pool[l].len /\ b \in 1 .. pool[m].len
        /\ pool[l].buffers[a].id = pool[m].buffers[b].id
    BY <1>6
  <2>1. l = m /\ a = b
    <3> HIDE DEF a, b
    <3> QED BY <2>2 DEF PoolDistinct
  <2> QED BY <2>1, <1>8
<1> QED BY <1>5, <1>12, <1>13

\* Where an acquisition of n limbs finds a vector, if it does.
LEMMA FoundIs ==
  ASSUME NEW pool, PoolShape(pool), NEW n \in Nat \ {0}, n < MaxPooled, Found(pool, n) # None
  PROVE  \E k \in Buckets : \E i \in 1 .. pool[k].len :
           /\ Found(pool, n) = << k, i >>
           /\ Bucket(n) <= k /\ k <= Bucket(n) + Lookahead
           /\ k = Bucket(n) \/ n <= pool[k].buffers[i].cap
           /\ \A j \in Fitting(pool[Bucket(n)], n) :
                /\ k = Bucket(n) /\ n <= pool[k].buffers[i].cap
                /\ pool[k].buffers[i].cap <= pool[k].buffers[j].cap
<1> DEFINE start == Bucket(n)
           F == Fitting(pool[start], n)
           above == {k \in Buckets : start < k /\ k <= start + Lookahead /\ pool[k].len > 0}
<1>1. start \in Buckets /\ Power(2, start) <= n /\ n < Power(2, start + 1)
  BY BucketIs
<1>2. start \in Nat /\ Lookahead \in Nat
  BY <1>1, BucketAssumption DEF Buckets
<1>3. SlotShape(start, pool[start]) /\ pool[start].len \in Nat
  BY <1>1 DEF PoolShape, SlotShape, Slots
<1>4. \A k \in Buckets : k \in Nat /\ pool[k].len \in Nat
  BY BucketAssumption DEF Buckets, PoolShape, SlotShape, Slots
<1>5. Found(pool, n) = IF F # {} THEN << start, BestFit(pool[start], n) >>
                       ELSE IF above # {} THEN << Min(above), pool[Min(above)].len >>
                       ELSE IF pool[start].len > 0 THEN << start, pool[start].len >>
                       ELSE None
  BY DEF Found
<1> HIDE DEF start, above
<1>6. CASE F # {}
  <2> DEFINE i == BestFit(pool[start], n)
  <2>1. i \in F /\ \A j \in F : pool[start].buffers[i].cap <= pool[start].buffers[j].cap
    BY <1>6, <1>1, <1>3, BestFitIs
  <2>2. i \in 1 .. pool[start].len /\ n <= pool[start].buffers[i].cap
    <3>1. i \in 1 .. pool[start].len /\ pool[start].buffers[i].cap >= n
      BY <2>1 DEF Fitting
    <3>2. pool[start].buffers[i] \in Vec
      <4>1. pool[start].len \in 0 .. MaxPerBucket /\ MaxPerBucket \in Nat
        BY <1>3, BucketAssumption DEF SlotShape, Slots
      <4>2. i \in 1 .. MaxPerBucket /\ i <= pool[start].len
        BY <3>1, <4>1
      <4> QED BY <1>3, <4>2 DEF SlotShape, Slots
    <3>3. pool[start].buffers[i].cap \in Nat
      BY <3>2, MaxCapIs DEF Vec
    <3> QED BY <3>1, <3>3
  <2> HIDE DEF i
  <2>3. Found(pool, n) = << start, i >>
    BY <1>5, <1>6 DEF i
  <2>4. start <= start /\ start <= start + Lookahead
    BY <1>2
  <2> QED BY <1>1, <2>1, <2>2, <2>3, <2>4 DEF start
<1>7. CASE F = {} /\ above # {}
  <2> DEFINE k == Min(above)
  <2>1. k \in above
    <3>1. above \subseteq Nat
      BY <1>4 DEF above
    <3> QED BY <3>1, <1>7, MinIs
  <2> HIDE DEF k
  <2>2. k \in Buckets /\ start < k /\ k <= start + Lookahead /\ pool[k].len > 0 /\ k \in Nat
    BY <2>1, <1>4 DEF above
  <2>3. pool[k].len \in 1 .. pool[k].len
    BY <2>2, <1>4
  <2>4. n <= pool[k].buffers[pool[k].len].cap
    <3>1. Power(2, k) <= pool[k].buffers[pool[k].len].cap
      BY <2>2, <2>3 DEF PoolShape, SlotShape
    <3>2. pool[k].buffers[pool[k].len].cap \in Nat
      <4>1. pool[k].len \in 1 .. MaxPerBucket
        BY <2>2, <2>3 DEF PoolShape, SlotShape, Slots
      <4>2. pool[k].buffers[pool[k].len] \in Vec \union {None}
        BY <2>2, <4>1 DEF PoolShape, SlotShape, Slots
      <4>3. pool[k].buffers[pool[k].len] # None
        BY <2>2, <2>3, <4>1 DEF PoolShape, SlotShape
      <4> QED BY <4>2, <4>3, MaxCapIs DEF Vec
    <3>3. Power(2, start + 1) <= Power(2, k)
      BY <1>2, <2>2, PowerGrows
    <3>4. Power(2, start + 1) \in Nat /\ Power(2, k) \in Nat
      BY <1>2, <2>2, PowerRule
    <3> QED BY <1>1, <3>1, <3>2, <3>3, <3>4
  <2>5. Found(pool, n) = << k, pool[k].len >>
    BY <1>5, <1>7 DEF k
  <2>6. start <= k
    BY <2>2, <1>2
  <2> QED BY <1>7, <2>2, <2>3, <2>4, <2>5, <2>6 DEF start
<1>8. CASE F = {} /\ above = {}
  <2>1. Found(pool, n) = << start, pool[start].len >> /\ pool[start].len > 0
    BY <1>5, <1>8
  <2>2. pool[start].len \in 1 .. pool[start].len
    BY <2>1, <1>3
  <2>3. start <= start /\ start <= start + Lookahead
    BY <1>2
  <2> QED BY <1>1, <1>8, <2>1, <2>2, <2>3 DEF start
<1> QED BY <1>6, <1>7, <1>8

\* Where a vector fits, in sight of the request, one is found.
LEMMA FoundWhenFits ==
  ASSUME NEW pool, PoolShape(pool), NEW n \in Nat \ {0}, n < MaxPooled,
         NEW ahead \in 0 .. Lookahead, Bucket(n) + ahead \in Buckets,
         Fitting(pool[Bucket(n) + ahead], n) # {}
  PROVE  Found(pool, n) # None
<1> DEFINE start == Bucket(n)
           F == Fitting(pool[start], n)
           above == {k \in Buckets : start < k /\ k <= start + Lookahead /\ pool[k].len > 0}
<1>1. start \in Buckets
  BY BucketIs
<1>2. start \in Nat /\ Lookahead \in Nat /\ MaxPerBucket \in Nat
  BY <1>1, BucketAssumption DEF Buckets
<1>3. \A k \in Buckets : SlotShape(k, pool[k]) /\ pool[k].len \in 0 .. MaxPerBucket
  BY DEF PoolShape, SlotShape, Slots
<1>4. \A k \in Buckets : \A i \in 1 .. pool[k].len : << k, i >> # None
  <2>1. \A k \in Buckets : \A i \in 1 .. pool[k].len : i \in 1 .. MaxPerBucket
    BY <1>2, <1>3
  <2> QED BY <2>1, NoneAssumption
<1>5. Found(pool, n) = IF F # {} THEN << start, BestFit(pool[start], n) >>
                       ELSE IF above # {} THEN << Min(above), pool[Min(above)].len >>
                       ELSE IF pool[start].len > 0 THEN << start, pool[start].len >>
                       ELSE None
  BY DEF Found
<1> HIDE DEF start, above
<1>6. CASE F # {}
  <2> DEFINE i == BestFit(pool[start], n)
  <2>1. i \in 1 .. pool[start].len
    BY <1>1, <1>3, <1>6, BestFitIs DEF Fitting
  <2> HIDE DEF i
  <2> QED BY <1>1, <1>4, <1>5, <1>6, <2>1 DEF i
<1>7. CASE F = {}
  <2> DEFINE m == start + ahead
  <2>1. m \in Buckets /\ m # start /\ Fitting(pool[m], n) # {}
    BY <1>2, <1>7 DEF start
  <2>2. start < m /\ m <= start + Lookahead
    BY <1>2, <2>1
  <2>3. pool[m].len > 0
    <3>1. pool[m].len \in Nat
      BY <1>3, <2>1
    <3>2. \E i : i \in 1 .. pool[m].len
      BY <2>1 DEF Fitting
    <3> QED BY <3>1, <3>2
  <2> HIDE DEF m
  <2>4. above \subseteq Nat /\ above # {}
    BY <2>1, <2>2, <2>3, BucketAssumption DEF above, Buckets
  <2> DEFINE k == Min(above)
  <2>5. k \in above
    BY <2>4, MinIs
  <2> HIDE DEF k
  <2>6. k \in Buckets /\ pool[k].len > 0 /\ pool[k].len \in Nat
    BY <1>3, <2>5 DEF above
  <2>7. pool[k].len \in 1 .. pool[k].len
    BY <2>6
  <2>8. Found(pool, n) = << k, pool[k].len >>
    BY <1>5, <1>7, <2>4 DEF k
  <2> QED BY <1>4, <2>6, <2>7, <2>8
<1> QED BY <1>6, <1>7

-----------------------------------------------------------------------------
(* The moves of a vector between a pool, a buffer and the hand.            *)

\* The hand and a buffer exchange what they hold.
LEMMA Swapped ==
  ASSUME NEW A, NEW B, NEW v, NEW L, Sound(A, B, v, L), NEW h \in Handles
  PROVE  Sound(A, [B EXCEPT ![h] = v], B[h], L)
<1> DEFINE C == [B EXCEPT ![h] = v]
           w == B[h]
<1>1. B \in [Handles -> Vec \union {None}] /\ v \in Vec \union {None}
  BY DEF Sound
<1>2. /\ C \in [Handles -> Vec \union {None}] /\ w \in Vec \union {None}
      /\ C[h] = v /\ B[h] = w /\ \A g \in Handles : g # h => C[g] = B[g]
  BY <1>1
<1>3. Owned(A, B, v, L)
  BY DEF Sound
<1> HIDE DEF C, w
<1>4. Owned(A, C, w, L)
  <2>1. \A g, f \in Handles : C[g] # None /\ C[f] # None /\ C[g].id = C[f].id => g = f
    BY <1>2, <1>3 DEF Owned
  <2>2. \A g \in Handles, t \in Threads : C[g] # None => C[g].id \notin PoolIds(A[t])
    BY <1>2, <1>3 DEF Owned
  <2>3. w # None => /\ \A g \in Handles : C[g] # None => C[g].id # w.id
                    /\ \A t \in Threads : w.id \notin PoolIds(A[t])
    BY <1>2, <1>3 DEF Owned
  <2>4. \A id : (\E g \in Handles : (C[g] # None /\ C[g].id = id)) \/ (w # None /\ w.id = id)
                <=> (\E g \in Handles : (B[g] # None /\ B[g].id = id)) \/ (v # None /\ v.id = id)
    BY <1>2
  <2> QED BY <1>3, <2>1, <2>2, <2>3, <2>4 DEF Owned
<1>5. Sound(A, C, w, L)
  BY <1>2, <1>4 DEF Sound
<1> QED BY <1>5 DEF C, w

\* The vector in the hand changes, and stays the same allocation.
LEMMA Renewed ==
  ASSUME NEW A, NEW B, NEW v, NEW L, Sound(A, B, v, L), v # None,
         NEW w \in Vec, w.id = v.id
  PROVE  Sound(A, B, w, L)
<1>1. w # None
  BY NoneAssumption
<1> QED BY <1>1 DEF Sound, Owned

\* A buffer's vector changes, and stays the same allocation.
LEMMA Rewritten ==
  ASSUME NEW A, NEW B, NEW L, Sound(A, B, None, L), NEW h \in Handles, B[h] # None,
         NEW w \in Vec, w.id = B[h].id
  PROVE  Sound(A, [B EXCEPT ![h] = w], None, L)
<1> DEFINE C == [B EXCEPT ![h] = None]
           D == [C EXCEPT ![h] = w]
<1>1. B \in [Handles -> Vec \union {None}]
  BY DEF Sound
<1>2. Sound(A, C, B[h], L)
  BY Swapped
<1>3. C[h] = None /\ D = [B EXCEPT ![h] = w]
  BY <1>1
<1> HIDE DEF C
<1>4. Sound(A, C, w, L)
  BY <1>2, Renewed
<1>5. Sound(A, D, C[h], L)
  BY <1>4, Swapped
<1> QED BY <1>3, <1>5

\* The pool of t changes to q and the hand from v to w, such that t's pool and
\* the hand own what they owned before but for the vectors `out`.
LEMMA Exchanged ==
  ASSUME NEW A, NEW B, NEW v, NEW L, Sound(A, B, v, L), NEW t \in Threads,
         NEW q, PoolShape(q), PoolDistinct(q), NEW w \in Vec \union {None},
         NEW M, M \subseteq Ids,
         w # None => w.id \notin PoolIds(q),
         \A id : (id \in PoolIds(q) \/ (w # None /\ w.id = id))
                   => (id \in PoolIds(A[t]) \/ (v # None /\ v.id = id)) \/ id \notin L,
         \A id : id \in M <=> \/ /\ id \in L
                                 /\ ~ (id \in PoolIds(A[t]) \/ (v # None /\ v.id = id))
                              \/ id \in PoolIds(q) \/ (w # None /\ w.id = id)
  PROVE  Sound([A EXCEPT ![t] = q], B, w, M)
<1> DEFINE E == [A EXCEPT ![t] = q]
<1>1. /\ A \in [Threads -> [Buckets -> Slots]] /\ \A u \in Threads : PoolShape(A[u])
      /\ B \in [Handles -> Vec \union {None}]
      /\ Owned(A, B, v, L)
  BY DEF Sound
<1>2. q \in [Buckets -> Slots]
  BY DEF PoolShape
<1>3. /\ E \in [Threads -> [Buckets -> Slots]]
      /\ E[t] = q /\ \A u \in Threads : u # t => E[u] = A[u]
  BY <1>1, <1>2
<1> HIDE DEF E
<1>4. \A u \in Threads : PoolShape(E[u]) /\ PoolDistinct(E[u])
  BY <1>1, <1>3 DEF Owned
<1>5. \A u, x \in Threads : \A id \in PoolIds(E[u]) : id \in PoolIds(E[x]) => u = x
  BY <1>1, <1>3, SMTT(30) DEF Owned
<1>6. \A h \in Handles, u \in Threads : B[h] # None => B[h].id \notin PoolIds(E[u])
  BY <1>1, <1>3 DEF Owned
<1>7. w # None => /\ \A h \in Handles : B[h] # None => B[h].id # w.id
                  /\ \A u \in Threads : w.id \notin PoolIds(E[u])
  <2> SUFFICES ASSUME w # None
               PROVE  /\ \A h \in Handles : B[h] # None => B[h].id # w.id
                      /\ \A u \in Threads : w.id \notin PoolIds(E[u])
    OBVIOUS
  <2>1. w.id \in PoolIds(A[t]) \/ (v # None /\ v.id = w.id) \/ w.id \notin L
    OBVIOUS
  <2> QED BY <2>1, <1>1, <1>3, SMTT(30) DEF Owned
<1>8. \A id : id \in M <=> \/ \E u \in Threads : id \in PoolIds(E[u])
                           \/ \E h \in Handles : (B[h] # None /\ B[h].id = id)
                           \/ (w # None /\ w.id = id)
  <2> SUFFICES ASSUME NEW id
               PROVE  id \in M <=> \/ \E u \in Threads : id \in PoolIds(E[u])
                                   \/ \E h \in Handles : (B[h] # None /\ B[h].id = id)
                                   \/ (w # None /\ w.id = id)
    OBVIOUS
  <2>1. (\E u \in Threads : id \in PoolIds(E[u]))
        <=> id \in PoolIds(q) \/ \E u \in Threads : u # t /\ id \in PoolIds(A[u])
    BY <1>3
  <2>2. id \in L /\ ~ (id \in PoolIds(A[t]) \/ (v # None /\ v.id = id))
        <=> \/ \E u \in Threads : u # t /\ id \in PoolIds(A[u])
            \/ \E h \in Handles : (B[h] # None /\ B[h].id = id)
    BY <1>1 DEF Owned
  <2> QED BY <2>1, <2>2
<1>9. \A h, g \in Handles : B[h] # None /\ B[g] # None /\ B[h].id = B[g].id => h = g
  BY <1>1 DEF Owned
<1>10. Owned(E, B, w, M)
  BY <1>4, <1>5, <1>6, <1>7, <1>8, <1>9 DEF Owned
<1>11. Sound(E, B, w, M)
  BY <1>1, <1>3, <1>4, <1>10 DEF Sound
<1> QED BY <1>11 DEF E

-----------------------------------------------------------------------------
(* Acquisition and release.                                                *)

LEMMA AmortizedIs ==
  ASSUME NEW v \in Vec, NEW n \in Nat, n <= v.cap \/ 2 * n <= MaxCap
  PROVE  /\ Amortized(v, n) \in Vec
         /\ Amortized(v, n).id = v.id /\ Amortized(v, n).len = v.len
         /\ n <= Amortized(v, n).cap /\ v.cap <= Amortized(v, n).cap
         /\ Amortized(v, n).cap = IF v.cap < n THEN (IF n >= 2 * v.cap THEN n ELSE 2 * v.cap)
                                  ELSE v.cap
<1>1. v.cap \in 1 .. MaxCap /\ v.id \in Ids /\ v.len \in 0 .. MaxCap /\ MaxCap \in Nat
  BY MaxCapIs DEF Vec
<1>2. v = [id |-> v.id, cap |-> v.cap, len |-> v.len]
  BY DEF Vec
<1>3. Max({n, 2 * v.cap}) = IF n >= 2 * v.cap THEN n ELSE 2 * v.cap
  BY <1>1, MaxOfTwo
<1> DEFINE c == IF v.cap < n THEN (IF n >= 2 * v.cap THEN n ELSE 2 * v.cap) ELSE v.cap
<1>4. c \in 1 .. MaxCap /\ n <= c /\ v.cap <= c
  BY <1>1
<1>5. Amortized(v, n) = [v EXCEPT !.cap = c]
  BY <1>3 DEF Amortized
<1> HIDE DEF c
<1>6. Amortized(v, n) = [id |-> v.id, cap |-> c, len |-> v.len]
  BY <1>2, <1>5
<1>7. Amortized(v, n) \in Vec
  BY <1>1, <1>4, <1>6 DEF Vec
<1> QED BY <1>4, <1>6, <1>7 DEF c

LEMMA RegrownIs ==
  ASSUME NEW v \in Vec, NEW n \in Nat \ {0}, n < MaxPooled
  PROVE  /\ Regrown(v, n) \in Vec
         /\ Regrown(v, n).id = v.id /\ Regrown(v, n).len = v.len
         /\ n <= Regrown(v, n).cap /\ v.cap <= Regrown(v, n).cap
         /\ n <= v.cap => Regrown(v, n).cap = v.cap
         /\ v.cap < n => \/ Regrown(v, n).cap = n
                         \/ Bucket(n) # BucketCount - 1 /\ Regrown(v, n).cap = 2 * v.cap
<1>1. v.cap \in 1 .. MaxCap /\ v.id \in Ids /\ v.len \in 0 .. MaxCap /\ MaxCap \in Nat
  BY MaxCapIs DEF Vec
<1>2. 2 * n <= MaxCap
  BY MaxCapIs
<1>3. CASE Bucket(n) # BucketCount - 1
  <2>1. Regrown(v, n) = Amortized(v, n)
    BY <1>3 DEF Regrown
  <2>2. n \in Nat
    OBVIOUS
  <2> DEFINE w == Regrown(v, n)
  <2>3. /\ w \in Vec /\ w.id = v.id /\ w.len = v.len /\ n <= w.cap /\ v.cap <= w.cap
        /\ w.cap = IF v.cap < n THEN (IF n >= 2 * v.cap THEN n ELSE 2 * v.cap) ELSE v.cap
    BY <1>2, <2>1, <2>2, AmortizedIs
  <2> HIDE DEF w
  <2>4. n <= v.cap => w.cap = v.cap
    BY <1>1, <2>2, <2>3
  <2>5. v.cap < n => w.cap = n \/ w.cap = 2 * v.cap
    BY <2>3
  <2> QED BY <1>3, <2>3, <2>4, <2>5 DEF w
<1>4. CASE Bucket(n) = BucketCount - 1
  <2>1. v = [id |-> v.id, cap |-> v.cap, len |-> v.len]
    BY DEF Vec
  <2> DEFINE c == IF v.cap < n THEN n ELSE v.cap
  <2>2. Regrown(v, n) = [v EXCEPT !.cap = c]
    BY <1>4 DEF Regrown, Exact
  <2>3. c \in 1 .. MaxCap
    BY <1>1, <1>2
  <2> HIDE DEF c
  <2>4. Regrown(v, n) = [id |-> v.id, cap |-> c, len |-> v.len]
    BY <2>1, <2>2
  <2>5. Regrown(v, n) \in Vec
    BY <1>1, <2>3, <2>4 DEF Vec
  <2> QED BY <1>1, <2>4, <2>5 DEF c
<1> QED BY <1>3, <1>4

\* The two ways to acquire n limbs on t: a new allocation, or a pooled vector
\* that leaves its place.
AllocatesNew(a, t, n) ==
  /\ \E id \in Ids \ live : a = [vec |-> Allocated(id, n), pool |-> arena[t]]
  /\ PooledRequest(n) /\ t \notin gone => Found(arena[t], n) = None

Leaves(a, t, n, k, i) ==
  /\ Bucket(n) <= k /\ k <= Bucket(n) + Lookahead
  /\ arena[t][k].buffers[i] \in Vec
  /\ k = Bucket(n) \/ n <= arena[t][k].buffers[i].cap
  /\ \A j \in Fitting(arena[t][Bucket(n)], n) :
       /\ k = Bucket(n) /\ n <= arena[t][k].buffers[i].cap
       /\ arena[t][k].buffers[i].cap <= arena[t][k].buffers[j].cap
  /\ a = [vec |-> Regrown([arena[t][k].buffers[i] EXCEPT !.len = 0], n),
          pool |-> [arena[t] EXCEPT ![k] = Removed(@, i)]]

TakesPooled(a, t, n) ==
  /\ PooledRequest(n) /\ n < MaxPooled /\ t \notin gone
  /\ \E k \in Buckets : \E i \in 1 .. arena[t][k].len : Leaves(a, t, n, k, i)

LEMMA AcquisitionIs ==
  ASSUME NEW B, Sound(arena, B, None, live), NEW t \in Threads,
         NEW n \in Nat \ {0}, NEW a \in Acquisitions(t, n)
  PROVE  AllocatesNew(a, t, n) \/ TakesPooled(a, t, n)
<1> DEFINE found == IF PooledRequest(n) /\ t \notin gone THEN Found(arena[t], n) ELSE None
<1>1. a \in IF found = None THEN {[vec |-> Allocated(id, n), pool |-> arena[t]] : id \in Ids \ live}
            ELSE {[vec |-> Regrown([arena[t][found[1]].buffers[found[2]] EXCEPT !.len = 0], n),
                   pool |-> [arena[t] EXCEPT ![found[1]] = Removed(@, found[2])]]}
  BY DEF Acquisitions
<1>2. PoolShape(arena[t])
  BY DEF Sound
<1>3. CASE found = None
  <2>1. \E id \in Ids \ live : a = [vec |-> Allocated(id, n), pool |-> arena[t]]
    BY <1>1, <1>3
  <2> QED BY <2>1, <1>3 DEF AllocatesNew
<1>4. CASE found # None
  <2>1. PooledRequest(n) /\ t \notin gone /\ found = Found(arena[t], n)
    BY <1>4
  <2>2. n < MaxPooled
    BY <2>1 DEF PooledRequest
  <2>3. PICK k \in Buckets : \E i \in 1 .. arena[t][k].len :
           /\ Found(arena[t], n) = << k, i >>
           /\ Bucket(n) <= k /\ k <= Bucket(n) + Lookahead
           /\ k = Bucket(n) \/ n <= arena[t][k].buffers[i].cap
           /\ \A j \in Fitting(arena[t][Bucket(n)], n) :
                /\ k = Bucket(n) /\ n <= arena[t][k].buffers[i].cap
                /\ arena[t][k].buffers[i].cap <= arena[t][k].buffers[j].cap
    BY <1>2, <1>4, <2>1, <2>2, FoundIs
  <2>4. PICK i \in 1 .. arena[t][k].len :
           /\ Found(arena[t], n) = << k, i >>
           /\ Bucket(n) <= k /\ k <= Bucket(n) + Lookahead
           /\ k = Bucket(n) \/ n <= arena[t][k].buffers[i].cap
           /\ \A j \in Fitting(arena[t][Bucket(n)], n) :
                /\ k = Bucket(n) /\ n <= arena[t][k].buffers[i].cap
                /\ arena[t][k].buffers[i].cap <= arena[t][k].buffers[j].cap
    BY <2>3
  <2>5. found[1] = k /\ found[2] = i
    BY <2>1, <2>4
  <2>6. a = [vec |-> Regrown([arena[t][k].buffers[i] EXCEPT !.len = 0], n),
             pool |-> [arena[t] EXCEPT ![k] = Removed(@, i)]]
    <3> HIDE DEF found
    <3> QED BY <1>1, <1>4, <2>5
  <2>7. arena[t][k].buffers[i] \in Vec
    <3>1. arena[t][k] \in Slots /\ SlotShape(k, arena[t][k])
      BY <1>2 DEF PoolShape
    <3>2. arena[t][k].len \in 0 .. MaxPerBucket /\ MaxPerBucket \in Nat
      BY <3>1, BucketAssumption DEF Slots
    <3>3. i \in 1 .. MaxPerBucket /\ i <= arena[t][k].len
      BY <3>2
    <3> QED BY <3>1, <3>3 DEF SlotShape, Slots
  <2>8. Leaves(a, t, n, k, i)
    BY <2>4, <2>6, <2>7 DEF Leaves
  <2> QED BY <2>1, <2>2, <2>8 DEF TakesPooled
<1> QED BY <1>3, <1>4

LEMMA Acquired ==
  ASSUME NEW B, Sound(arena, B, None, live), NEW t \in Threads,
         NEW n \in Nat \ {0}, n <= MaxCap, NEW a \in Acquisitions(t, n)
  PROVE  /\ a.vec \in Vec /\ a.vec.len = 0 /\ n <= a.vec.cap
         /\ t \in gone => a.pool = arena[t]
         /\ Sound([arena EXCEPT ![t] = a.pool], B, a.vec, live \union {a.vec.id})
<1>1. PoolShape(arena[t]) /\ PoolDistinct(arena[t]) /\ live \subseteq Ids /\ MaxCap \in Nat
  BY MaxCapIs DEF Sound, Owned
<1>2. \A id \in PoolIds(arena[t]) : id \in live
  BY DEF Sound, Owned
<1>3. CASE AllocatesNew(a, t, n)
  <2>1. PICK id \in Ids \ live : a = [vec |-> Allocated(id, n), pool |-> arena[t]]
    BY <1>3 DEF AllocatesNew
  <2>2. a.vec = [id |-> id, cap |-> n, len |-> 0] /\ a.pool = arena[t]
    BY <2>1 DEF Allocated
  <2>3. a.vec \in Vec /\ a.vec.id = id /\ a.vec.len = 0 /\ a.vec.cap = n
    BY <1>1, <2>2 DEF Vec
  <2> DEFINE w == a.vec
             M == live \union {w.id}
  <2>4. M \subseteq Ids /\ w.id \notin PoolIds(arena[t]) /\ w.id \notin live /\ w # None
    BY <1>1, <1>2, <2>3, NoneAssumption
  <2>5. \A x : (x \in PoolIds(arena[t]) \/ (w # None /\ w.id = x))
                   => (x \in PoolIds(arena[t]) \/ (None # None /\ None.id = x)) \/ x \notin live
    BY <2>4
  <2>6. \A x : x \in M <=> \/ /\ x \in live
                              /\ ~ (x \in PoolIds(arena[t]) \/ (None # None /\ None.id = x))
                           \/ x \in PoolIds(arena[t]) \/ (w # None /\ w.id = x)
    BY <1>2, <2>4
  <2>7. w \in Vec \union {None}
    BY <2>3
  <2> HIDE DEF w, M
  <2>8. Sound([arena EXCEPT ![t] = arena[t]], B, w, M)
    BY <1>1, <2>4, <2>5, <2>6, <2>7, Exchanged
  <2> QED BY <2>2, <2>3, <2>8 DEF w, M
<1>4. CASE TakesPooled(a, t, n)
  <2>1. PICK k \in Buckets : \E i \in 1 .. arena[t][k].len : Leaves(a, t, n, k, i)
    BY <1>4 DEF TakesPooled
  <2>2. PICK i \in 1 .. arena[t][k].len :
          /\ arena[t][k].buffers[i] \in Vec
          /\ a = [vec |-> Regrown([arena[t][k].buffers[i] EXCEPT !.len = 0], n),
                  pool |-> [arena[t] EXCEPT ![k] = Removed(@, i)]]
    BY <2>1 DEF Leaves
  <2> DEFINE taken == arena[t][k].buffers[i]
             v == [taken EXCEPT !.len = 0]
             q == [arena[t] EXCEPT ![k] = Removed(@, i)]
             w == a.vec
             M == live \union {w.id}
  <2>3. v \in Vec /\ v.id = taken.id /\ v.len = 0
    BY <1>1, <2>2 DEF Vec
  <2>4. w = Regrown(v, n) /\ a.pool = q
    BY <2>2
  <2> HIDE DEF v
  <2>5. w \in Vec /\ w.id = taken.id /\ w.len = 0 /\ n <= w.cap
    BY <1>4, <2>3, <2>4, RegrownIs DEF TakesPooled
  <2>6. /\ PoolShape(q) /\ PoolDistinct(q)
        /\ \A id : id \in PoolIds(q) <=> id \in PoolIds(arena[t]) /\ id # taken.id
    BY <1>1, PoolTaken
  <2>7. taken.id \in PoolIds(arena[t])
    BY <1>1, PoolIdsAre DEF Lists
  <2>8. M = live /\ M \subseteq Ids /\ w # None
    BY <1>1, <1>2, <2>5, <2>7, NoneAssumption
  <2>9. \A x : (x \in PoolIds(q) \/ (w # None /\ w.id = x))
                   => (x \in PoolIds(arena[t]) \/ (None # None /\ None.id = x)) \/ x \notin live
    BY <2>5, <2>6, <2>7
  <2>10. \A x : x \in M <=> \/ /\ x \in live
                               /\ ~ (x \in PoolIds(arena[t]) \/ (None # None /\ None.id = x))
                            \/ x \in PoolIds(q) \/ (w # None /\ w.id = x)
    BY <1>2, <2>5, <2>6, <2>7, <2>8
  <2>11. w \in Vec \union {None} /\ w.id \notin PoolIds(q)
    BY <2>5, <2>6
  <2> HIDE DEF w, M, q, taken
  <2>12. Sound([arena EXCEPT ![t] = q], B, w, M)
    BY <2>6, <2>8, <2>9, <2>10, <2>11, Exchanged
  <2> QED BY <1>4, <2>4, <2>5, <2>12 DEF w, M, TakesPooled
<1> QED BY <1>3, <1>4, AcquisitionIs

\* What the hand holds goes to t's pool or is freed.
LEMMA Released ==
  ASSUME NEW A, NEW B, NEW v, NEW L, Sound(A, B, v, L), v # None, NEW t \in Threads
  PROVE  Sound([A EXCEPT ![t] = Pooled(t, A[t], v)], B, None, L \ Freed(t, A[t], v))
<1>1. /\ v \in Vec /\ PoolShape(A[t]) /\ PoolDistinct(A[t]) /\ L \subseteq Ids
      /\ v.id \notin PoolIds(A[t]) /\ v.id \in L
      /\ \A id \in PoolIds(A[t]) : id \in L
  BY DEF Sound, Owned
<1>2. v.cap \in Nat \ {0}
  BY <1>1, MaxCapIs DEF Vec
<1> DEFINE q == Pooled(t, A[t], v)
           M == L \ Freed(t, A[t], v)
           k == Bucket(v.cap)
<1>3. CASE Kept(t, A[t], v)
  <2>1. DropThreshold <= v.cap /\ v.cap < MaxPooled /\ A[t][k].len < Limit(k)
    BY <1>3 DEF Kept
  <2>2. k \in Buckets /\ Power(2, k) <= v.cap /\ v.cap < Power(2, k + 1)
    BY <1>2, <2>1, BucketIs
  <2>3. q = [A[t] EXCEPT ![k] = Push(@, v)] /\ M = L
    BY <1>3 DEF Pooled, Freed
  <2> HIDE DEF q, M, k
  <2>4. /\ PoolShape(q) /\ PoolDistinct(q)
        /\ \A id : id \in PoolIds(q) <=> id \in PoolIds(A[t]) \/ id = v.id
    BY <1>1, <2>1, <2>2, <2>3, PoolPushed
  <2>5. \A x : (x \in PoolIds(q) \/ (None # None /\ None.id = x))
                   => (x \in PoolIds(A[t]) \/ (v # None /\ v.id = x)) \/ x \notin L
    BY <2>4
  <2>6. \A x : x \in M <=> \/ /\ x \in L
                              /\ ~ (x \in PoolIds(A[t]) \/ (v # None /\ v.id = x))
                           \/ x \in PoolIds(q) \/ (None # None /\ None.id = x)
    BY <1>1, <2>3, <2>4
  <2>7. M \subseteq Ids /\ None \in Vec \union {None} /\ (None # None => None.id \notin PoolIds(q))
    BY <1>1, <2>3
  <2>8. Sound([A EXCEPT ![t] = q], B, None, M)
    BY <2>4, <2>5, <2>6, <2>7, Exchanged
  <2> QED BY <2>8 DEF q, M
<1>4. CASE ~ Kept(t, A[t], v)
  <2>1. q = A[t] /\ M = L \ {v.id}
    BY <1>4 DEF Pooled, Freed
  <2> HIDE DEF q, M, k
  <2>2. \A x : (x \in PoolIds(q) \/ (None # None /\ None.id = x))
                   => (x \in PoolIds(A[t]) \/ (v # None /\ v.id = x)) \/ x \notin L
    BY <2>1
  <2>3. \A x : x \in M <=> \/ /\ x \in L
                              /\ ~ (x \in PoolIds(A[t]) \/ (v # None /\ v.id = x))
                           \/ x \in PoolIds(q) \/ (None # None /\ None.id = x)
    BY <1>1, <2>1
  <2>4. M \subseteq Ids /\ None \in Vec \union {None} /\ (None # None => None.id \notin PoolIds(q))
        /\ PoolShape(q) /\ PoolDistinct(q)
    BY <1>1, <2>1
  <2>5. Sound([A EXCEPT ![t] = q], B, None, M)
    BY <2>2, <2>3, <2>4, Exchanged
  <2> QED BY <2>5 DEF q, M
<1> QED BY <1>3, <1>4

\* An empty pool has the shape, and owns nothing.
LEMMA EmptyPool ==
  LET empty == [k \in Buckets |-> EmptySlot] IN
  PoolShape(empty) /\ PoolDistinct(empty) /\ PoolIds(empty) = {}
<1> DEFINE empty == [k \in Buckets |-> EmptySlot]
<1>1. /\ EmptySlot \in Slots /\ EmptySlot.len = 0
      /\ \A i \in 1 .. MaxPerBucket : EmptySlot.buffers[i] = None
  BY BucketAssumption DEF EmptySlot, Slots
<1>2. empty \in [Buckets -> Slots] /\ \A k \in Buckets : empty[k] = EmptySlot
  BY <1>1
<1> HIDE DEF empty
<1>3. \A k \in Buckets : SlotShape(k, empty[k])
  BY <1>1, <1>2, LimitBound DEF SlotShape
<1>4. PoolShape(empty)
  BY <1>2, <1>3 DEF PoolShape
<1>5. \A k \in Buckets : empty[k].len = 0
  BY <1>1, <1>2
<1>6. PoolDistinct(empty)
  BY <1>5 DEF PoolDistinct
<1>7. \A id : id \notin PoolIds(empty)
  BY <1>4, <1>5, PoolIdsAre DEF Lists
<1> QED BY <1>4, <1>6, <1>7 DEF empty

\* The pool of t is freed.
LEMMA Emptied ==
  ASSUME NEW A, NEW B, NEW L, Sound(A, B, None, L), NEW t \in Threads
  PROVE  Sound([A EXCEPT ![t] = [k \in Buckets |-> EmptySlot]], B, None, L \ PoolIds(A[t]))
<1> DEFINE q == [k \in Buckets |-> EmptySlot]
           M == L \ PoolIds(A[t])
<1>1. PoolShape(q) /\ PoolDistinct(q) /\ PoolIds(q) = {}
  BY EmptyPool
<1>2. L \subseteq Ids /\ M \subseteq Ids
  BY DEF Sound
<1> HIDE DEF q
<1>3. \A x : (x \in PoolIds(q) \/ (None # None /\ None.id = x))
                 => (x \in PoolIds(A[t]) \/ (None # None /\ None.id = x)) \/ x \notin L
  BY <1>1
<1>4. \A x : x \in M <=> \/ /\ x \in L
                            /\ ~ (x \in PoolIds(A[t]) \/ (None # None /\ None.id = x))
                         \/ x \in PoolIds(q) \/ (None # None /\ None.id = x)
  BY <1>1
<1>5. None \in Vec \union {None} /\ (None # None => None.id \notin PoolIds(q))
  OBVIOUS
<1> HIDE DEF M
<1>6. Sound([A EXCEPT ![t] = q], B, None, M)
  BY <1>1, <1>2, <1>3, <1>4, <1>5, Exchanged
<1> QED BY <1>6 DEF q, M

-----------------------------------------------------------------------------
(* The invariant is inductive.                                             *)

LEMMA SizesAre ==
  /\ MaxCap \in Nat
  /\ \A n \in Sizes : n \in Nat \ {0} /\ n <= MaxCap /\ 2 * n <= MaxCap
  /\ \A n \in Lengths \union {0} : n \in Nat /\ n <= MaxCap /\ 2 * n <= MaxCap
  /\ \A n \in Lengths : n # 0
BY MaxCapIs, SizesAssumption

LEMMA VecIs ==
  ASSUME NEW v \in Vec
  PROVE  /\ v.id \in Ids /\ v.cap \in Nat \ {0} /\ v.cap <= MaxCap /\ v.len \in Nat
         /\ v = [id |-> v.id, cap |-> v.cap, len |-> v.len]
         /\ \A m \in 0 .. MaxCap : /\ [v EXCEPT !.len = m] \in Vec
                                   /\ [v EXCEPT !.len = m].id = v.id
                                   /\ [v EXCEPT !.len = m].cap = v.cap
                                   /\ [v EXCEPT !.len = m].len = m
         /\ v # None
<1>1. MaxCap \in Nat
  BY SizesAre
<1> QED BY <1>1, NoneAssumption DEF Vec

\* A buffer's vector changes in place.
LEMMA KeepInv ==
  ASSUME ArenaInv, NEW h \in Handles, buf[h] # None,
         NEW w \in Vec, w.id = buf[h].id, Filled(w), Keep(h, w)
  PROVE  ArenaInv'
<1>1. /\ buf' = [buf EXCEPT ![h] = w] /\ arena' = arena /\ gone' = gone /\ live' = live
  BY DEF Keep
<1>2. Sound(arena, [buf EXCEPT ![h] = w], None, live)
  BY Rewritten DEF ArenaInv
<1>3. \A g \in Handles : buf'[g] # None => Filled(buf'[g])
  BY <1>1 DEF ArenaInv, Sound
<1> QED BY <1>1, <1>2, <1>3 DEF ArenaInv, GoneEmpty

\* What a buffer is after it took an acquired vector.
LEMMA TakeInv ==
  ASSUME ArenaInv, NEW t \in Threads, NEW h \in Handles,
         NEW n \in Nat \ {0}, n <= MaxCap, NEW len \in Lengths \union {0}, len <= n,
         Take(t, h, n, len)
  PROVE  /\ ArenaInv'
         /\ \E w \in Vec : n <= w.cap /\ w.len = len /\ buf' = [buf EXCEPT ![h] = w]
<1>1. Sound(arena, buf, None, live) /\ buf \in [Handles -> Vec \union {None}]
  BY DEF ArenaInv, Sound
<1>2. PICK a \in Acquisitions(t, n) :
        /\ buf' = [buf EXCEPT ![h] = [a.vec EXCEPT !.len = len]]
        /\ IF buf[h] = None
           THEN /\ arena' = [arena EXCEPT ![t] = a.pool]
                /\ live' = live \union {a.vec.id}
           ELSE /\ arena' = [arena EXCEPT ![t] = Pooled(t, a.pool, buf[h])]
                /\ live' = (live \union {a.vec.id}) \ Freed(t, a.pool, buf[h])
  BY DEF Take
<1>3. gone' = gone
  BY DEF Take
<1> DEFINE w == [a.vec EXCEPT !.len = len]
           A == [arena EXCEPT ![t] = a.pool]
           L == live \union {a.vec.id}
           B == [buf EXCEPT ![h] = w]
<1>4. /\ a.vec \in Vec /\ n <= a.vec.cap /\ (t \in gone => a.pool = arena[t])
      /\ Sound(A, buf, a.vec, L)
  BY <1>1, Acquired
<1>5. w \in Vec /\ w.id = a.vec.id /\ n <= w.cap /\ w.len = len
  BY <1>4, VecIs, SizesAre
<1>6. a.vec # None
  BY <1>4, VecIs
<1> HIDE DEF w, A, L
<1>7. Sound(A, buf, w, L)
  BY <1>4, <1>5, <1>6, Renewed
<1>8. Sound(A, B, buf[h], L)
  BY <1>7, Swapped
<1>9. buf' = B
  BY <1>2 DEF w
<1>10. Filled(w)
  <2>1. w.len \in Nat /\ w.cap \in Nat
    BY <1>5, VecIs
  <2> QED BY <1>5, <2>1 DEF Filled
<1>11. \A g \in Handles : buf'[g] # None => Filled(buf'[g])
  BY <1>1, <1>9, <1>10 DEF ArenaInv
<1>12. A[t] = a.pool /\ arena \in [Threads -> [Buckets -> Slots]]
       /\ \A u \in Threads : u # t => A[u] = arena[u]
  BY <1>1 DEF Sound, A
<1>13. CASE buf[h] = None
  <2>1. arena' = A /\ live' = L
    BY <1>2, <1>13 DEF A, L
  <2>2. Sound(arena', buf', None, live')
    BY <1>8, <1>9, <1>13, <2>1
  <2>3. GoneEmpty'
    BY <1>3, <1>4, <1>12, <2>1 DEF ArenaInv, GoneEmpty
  <2> QED BY <1>3, <1>5, <1>9, <1>11, <2>2, <2>3 DEF ArenaInv
<1>14. CASE buf[h] # None
  <2> DEFINE C == [A EXCEPT ![t] = Pooled(t, A[t], buf[h])]
             M == L \ Freed(t, A[t], buf[h])
  <2>1. arena' = C /\ live' = M
    <3>1. arena' = [arena EXCEPT ![t] = Pooled(t, a.pool, buf[h])]
      BY <1>2, <1>14
    <3>2. C = [arena EXCEPT ![t] = Pooled(t, a.pool, buf[h])]
      BY <1>12 DEF A
    <3> QED BY <1>2, <1>12, <1>14, <3>1, <3>2 DEF L
  <2>2. Sound(C, B, None, M)
    BY <1>8, <1>14, Released
  <2>3. t \in gone => Pooled(t, A[t], buf[h]) = A[t]
    BY DEF Pooled, Kept
  <2>4. GoneEmpty'
    <3>1. \A u \in gone : u \in Threads
      BY DEF ArenaInv
    <3>2. \A u \in gone : C[u] = arena[u]
      BY <1>4, <1>12, <2>3, <3>1
    <3> QED BY <1>3, <2>1, <3>2 DEF ArenaInv, GoneEmpty
  <2> HIDE DEF B, C, M
  <2>5. Sound(arena', buf', None, live')
    BY <1>9, <2>1, <2>2
  <2> QED BY <1>3, <1>5, <1>9, <1>11, <2>4, <2>5 DEF ArenaInv, B
<1> QED BY <1>13, <1>14

LEMMA AcquireTakes ==
  ASSUME ArenaInv, NEW t \in Threads, NEW h \in Handles, NEW n \in Sizes, Acquire(t, h, n)
  PROVE  Take(t, h, n, 0)
<1>1. PICK a \in Acquisitions(t, n) :
        /\ buf' = [buf EXCEPT ![h] = a.vec]
        /\ arena' = [arena EXCEPT ![t] = a.pool]
        /\ live' = live \union {a.vec.id}
  BY DEF Acquire
<1>2. a.vec \in Vec /\ a.vec.len = 0
  BY Acquired, SizesAre DEF ArenaInv
<1>3. [a.vec EXCEPT !.len = 0] = a.vec
  BY <1>2, VecIs
<1> QED BY <1>1, <1>3 DEF Acquire, Take

\* What the invariant says of the vector of a buffer.
LEMMA BufferIs ==
  ASSUME ArenaInv, NEW h \in Handles, buf[h] # None
  PROVE  /\ buf[h] \in Vec /\ buf[h].len <= buf[h].cap
         /\ buf[h].len \in Lengths \union {0} /\ buf[h].len \in 0 .. MaxCap
<1>1. buf[h] \in Vec /\ Filled(buf[h])
  BY DEF ArenaInv, Sound
<1> QED BY <1>1, SizesAre DEF Filled

\* The vector a write leaves.
LEMMA WriteIs ==
  ASSUME ArenaInv, NEW h \in Handles, buf[h] # None, NEW n \in Lengths \union {0}
  PROVE  LET w == [Amortized(buf[h], n) EXCEPT !.len = n]
         IN  w \in Vec /\ w.id = buf[h].id /\ w.len = n /\ Filled(w) /\ buf[h].cap <= w.cap
<1> DEFINE v == Amortized(buf[h], n)
           w == [v EXCEPT !.len = n]
<1>1. n \in Nat /\ 2 * n <= MaxCap /\ n \in 0 .. MaxCap
  BY SizesAre
<1>2. /\ v \in Vec /\ v.id = buf[h].id /\ n <= v.cap /\ buf[h].cap <= v.cap
  BY <1>1, BufferIs, AmortizedIs
<1> HIDE DEF v
<1>3. w \in Vec /\ w.id = v.id /\ w.cap = v.cap /\ w.len = n
  BY <1>1, <1>2, VecIs
<1> QED BY <1>2, <1>3 DEF Filled, v

LEMMA StepInv ==
  ASSUME ArenaInv, [Next]_vars
  PROVE  ArenaInv'
<1>1. ASSUME NEW t \in Threads, NEW h \in Handles, NEW n \in Sizes, Acquire(t, h, n)
      PROVE  ArenaInv'
  BY <1>1, AcquireTakes, TakeInv, SizesAre
<1>2. ASSUME NEW t \in Threads, NEW h \in Handles, NEW n \in Sizes, Reset(t, h, n)
      PROVE  ArenaInv'
  <2>1. CASE buf[h].cap < n
    BY <1>2, <2>1, TakeInv, SizesAre DEF Reset
  <2>2. CASE ~ (buf[h].cap < n)
    <3> DEFINE w == [buf[h] EXCEPT !.len = 0]
    <3>1. buf[h] # None /\ Keep(h, w)
      BY <1>2, <2>2 DEF Reset
    <3>2. w \in Vec /\ w.id = buf[h].id /\ w.len = 0 /\ w.cap \in Nat
      BY <3>1, BufferIs, VecIs, SizesAre
    <3> HIDE DEF w
    <3>3. Filled(w)
      BY <3>2 DEF Filled
    <3> QED BY <3>1, <3>2, <3>3, KeepInv
  <2> QED BY <2>1, <2>2
<1>3. ASSUME NEW t \in Threads, NEW h \in Handles, NEW g \in Handles, Clone(t, h, g)
      PROVE  ArenaInv'
  <2>1. buf[g] \in Vec /\ buf[g].len \in Lengths \union {0} /\ buf[g].len <= buf[g].cap
    BY <1>3, BufferIs DEF Clone
  <2>2. buf[g].cap \in Nat \ {0} /\ buf[g].cap <= MaxCap
    BY <2>1, VecIs
  <2> QED BY <1>3, <2>1, <2>2, TakeInv DEF Clone
<1>4. ASSUME NEW t \in Threads, NEW h \in Handles, NEW g \in Handles, CloneFrom(t, h, g)
      PROVE  ArenaInv'
  <2>1. buf[g] \in Vec /\ buf[g].len \in Lengths \union {0} /\ buf[g].len <= buf[g].cap
        /\ buf[g].len \in 0 .. MaxCap
    BY <1>4, BufferIs DEF CloneFrom
  <2>2. buf[g].cap \in Nat \ {0} /\ buf[g].cap <= MaxCap
    BY <2>1, VecIs
  <2>3. CASE buf[h].cap < buf[g].len
    BY <1>4, <2>1, <2>2, <2>3, TakeInv DEF CloneFrom
  <2>4. CASE ~ (buf[h].cap < buf[g].len)
    <3> DEFINE w == [buf[h] EXCEPT !.len = buf[g].len]
    <3>1. buf[h] # None /\ Keep(h, w)
      BY <1>4, <2>4 DEF CloneFrom
    <3>2. /\ w \in Vec /\ w.id = buf[h].id /\ w.len = buf[g].len /\ w.cap = buf[h].cap
          /\ buf[h].cap \in Nat
      BY <2>1, <3>1, BufferIs, VecIs
    <3> HIDE DEF w
    <3>3. Filled(w)
      BY <2>1, <2>4, <3>2 DEF Filled
    <3> QED BY <3>1, <3>2, <3>3, KeepInv
  <2> QED BY <2>3, <2>4
<1>5. ASSUME NEW t \in Threads, NEW h \in Handles, Drop(t, h)
      PROVE  ArenaInv'
  <2> DEFINE C == [buf EXCEPT ![h] = None]
  <2>1. /\ buf[h] # None /\ buf' = C /\ gone' = gone
        /\ arena' = [arena EXCEPT ![t] = Pooled(t, arena[t], buf[h])]
        /\ live' = live \ Freed(t, arena[t], buf[h])
    BY <1>5 DEF Drop
  <2>2. Sound(arena, C, buf[h], live)
    BY Swapped DEF ArenaInv
  <2>3. \A g \in Handles : C[g] # None => Filled(C[g])
    BY DEF ArenaInv, Sound
  <2> HIDE DEF C
  <2>4. Sound(arena', buf', None, live')
    BY <2>1, <2>2, Released
  <2>5. t \in gone => Pooled(t, arena[t], buf[h]) = arena[t]
    BY DEF Pooled, Kept
  <2>6. GoneEmpty'
    <3>1. arena \in [Threads -> [Buckets -> Slots]] /\ \A u \in gone : u \in Threads
      BY DEF ArenaInv, Sound
    <3>2. \A u \in gone : arena'[u] = arena[u]
      BY <2>1, <2>5, <3>1
    <3> QED BY <2>1, <3>2 DEF ArenaInv, GoneEmpty
  <2> QED BY <2>1, <2>3, <2>4, <2>6 DEF ArenaInv
<1>6. ASSUME NEW h \in Handles, NEW n \in Lengths, Write(h, n)
      PROVE  ArenaInv'
  BY <1>6, WriteIs, KeepInv DEF Write
<1>7. ASSUME NEW h \in Handles, NEW g \in Handles, CloneInto(h, g)
      PROVE  ArenaInv'
  <2> DEFINE w == [Amortized(buf[g], buf[h].len) EXCEPT !.len = buf[h].len]
             C == [buf EXCEPT ![h] = None]
             D == [C EXCEPT ![g] = buf[h]]
             E == [D EXCEPT ![h] = w]
  <2>1. /\ h # g /\ buf[h] # None /\ buf[g] # None
        /\ buf' = [buf EXCEPT ![h] = w, ![g] = buf[h]]
        /\ arena' = arena /\ gone' = gone /\ live' = live
    BY <1>7 DEF CloneInto
  <2>2. buf \in [Handles -> Vec \union {None}] /\ Filled(buf[h])
    BY <2>1 DEF ArenaInv, Sound
  <2>3. w \in Vec /\ w.id = buf[g].id /\ Filled(w)
    BY <2>1, BufferIs, WriteIs
  <2> HIDE DEF w
  <2>4. buf' = E /\ C[g] = buf[g] /\ D[h] = None
    <3> DEFINE F == [f \in Handles |-> IF f = h THEN w ELSE IF f = g THEN buf[h] ELSE buf[f]]
    <3>1. buf' = F
      BY <2>1, <2>2
    <3>2. C = [f \in Handles |-> IF f = h THEN None ELSE buf[f]]
      BY <2>2
    <3>3. D = [f \in Handles |-> IF f = g THEN buf[h] ELSE IF f = h THEN None ELSE buf[f]]
      <4> HIDE DEF C
      <4> QED BY <3>2
    <3>4. E = F
      <4> HIDE DEF D
      <4> QED BY <2>1, <3>3
    <3>5. C[g] = buf[g] /\ D[h] = None
      <4> HIDE DEF C, D
      <4> QED BY <2>1, <3>2, <3>3
    <3> QED BY <3>1, <3>4, <3>5
  <2>5. Sound(arena, C, buf[h], live)
    BY Swapped DEF ArenaInv
  <2>6. Sound(arena, D, buf[g], live)
    <3> HIDE DEF C
    <3>1. Sound(arena, D, C[g], live)
      BY <2>5, Swapped
    <3> QED BY <2>4, <3>1
  <2>7. Sound(arena, D, w, live)
    <3> HIDE DEF D
    <3> QED BY <2>1, <2>3, <2>6, Renewed
  <2>8. Sound(arena, E, None, live)
    <3> HIDE DEF D
    <3>1. Sound(arena, E, D[h], live)
      BY <2>7, Swapped
    <3> QED BY <2>4, <3>1
  <2>9. \A f \in Handles : buf'[f] # None => Filled(buf'[f])
    BY <2>1, <2>2, <2>3 DEF ArenaInv
  <2> HIDE DEF E
  <2> QED BY <2>1, <2>4, <2>8, <2>9 DEF ArenaInv, GoneEmpty
<1>8. ASSUME NEW t \in Threads, TearDown(t)
      PROVE  ArenaInv'
  <2>1. /\ gone' = gone \union {t} /\ buf' = buf
        /\ arena' = [arena EXCEPT ![t] = [k \in Buckets |-> EmptySlot]]
        /\ live' = live \ PoolIds(arena[t])
    BY <1>8 DEF TearDown
  <2>2. Sound(arena', buf', None, live')
    BY <2>1, Emptied DEF ArenaInv
  <2>3. GoneEmpty'
    <3>1. arena \in [Threads -> [Buckets -> Slots]] /\ \A u \in gone : u \in Threads
      BY DEF ArenaInv, Sound
    <3>2. \A k \in Buckets : arena'[t][k].len = 0
      BY <2>1, <3>1 DEF EmptySlot
    <3>3. \A u \in gone : u # t => arena'[u] = arena[u]
      BY <2>1, <3>1
    <3> QED BY <2>1, <3>2, <3>3 DEF ArenaInv, GoneEmpty
  <2> QED BY <2>1, <2>2, <2>3 DEF ArenaInv
<1>9. CASE UNCHANGED vars
  BY <1>9 DEF vars, ArenaInv, GoneEmpty
<1> QED BY <1>1, <1>2, <1>3, <1>4, <1>5, <1>6, <1>7, <1>8, <1>9 DEF Next

LEMMA InitInv == Init => ArenaInv
<1> SUFFICES ASSUME Init PROVE ArenaInv
  OBVIOUS
<1> DEFINE empty == [k \in Buckets |-> EmptySlot]
<1>1. PoolShape(empty) /\ PoolDistinct(empty) /\ PoolIds(empty) = {}
  BY EmptyPool
<1>2. \A k \in Buckets : empty[k].len = 0
  BY DEF EmptySlot
<1>3. arena = [t \in Threads |-> empty]
  BY DEF Init
<1> HIDE DEF empty
<1>4. \A t \in Threads : arena[t] = empty
  BY <1>3
<1>5. arena \in [Threads -> [Buckets -> Slots]]
  BY <1>1, <1>3 DEF PoolShape
<1>6. Owned(arena, buf, None, live)
  BY <1>1, <1>4 DEF Init, Owned
<1>7. Sound(arena, buf, None, live)
  BY <1>1, <1>4, <1>5, <1>6 DEF Init, Sound
<1> QED BY <1>7 DEF Init, ArenaInv, GoneEmpty

\* The pools, the buffers and the allocator stay consistent with each other.
LEMMA ArenaInvariant == Spec => []ArenaInv
BY InitInv, StepInv, PTL DEF Spec

-----------------------------------------------------------------------------
(* Ownership and the shape of the pools.                                   *)

\* A set with at most one element has cardinality zero or one.
LEMMA AtMostOne ==
  ASSUME NEW S, \A x, y \in S : x = y
  PROVE  Cardinality(S) = IF S = {} THEN 0 ELSE 1
<1>1. CASE S = {}
  BY <1>1, FS_EmptySet
<1>2. CASE S # {}
  <2>1. PICK x \in S : TRUE
    BY <1>2
  <2>2. S = {x}
    BY <2>1
  <2> QED BY <1>2, <2>2, FS_Singleton
<1> QED BY <1>1, <1>2

\* The slots have the shape, the vectors one owner each.
LEMMA ShapeHolds == ArenaInv => ArenaShape
<1> SUFFICES ASSUME ArenaInv PROVE ArenaShape
  OBVIOUS
<1>1. \A t \in Threads : PoolShape(arena[t])
  BY DEF ArenaInv, Sound
<1>2. Owned(arena, buf, None, live)
  BY DEF ArenaInv, Sound
<1>3. OccupiedPrefix
  BY <1>1 DEF OccupiedPrefix, PoolShape, SlotShape
<1>4. BucketsBound
  BY <1>1 DEF BucketsBound, PoolShape, SlotShape
<1>5. ASSUME NEW id \in Ids
      PROVE  Cardinality(HeldBy(id)) + Cardinality(PooledAt(id)) = IF id \in live THEN 1 ELSE 0
  <2>1. \A t \in Threads, k \in Buckets : \A i \in 1 .. MaxPerBucket :
          arena[t][k].buffers[i] # None => i \in 1 .. arena[t][k].len
    <3>1. \A t \in Threads, k \in Buckets : arena[t][k].len \in 0 .. MaxPerBucket /\ MaxPerBucket \in Nat
      BY <1>1, BucketAssumption DEF PoolShape, SlotShape, Slots
    <3>2. \A t \in Threads, k \in Buckets : \A i \in 1 .. MaxPerBucket :
            arena[t][k].buffers[i] # None => i <= arena[t][k].len
      BY <1>1 DEF PoolShape, SlotShape
    <3> QED BY <3>1, <3>2
  <2>2. \A t \in Threads, k \in Buckets : \A i \in 1 .. arena[t][k].len :
          i \in 1 .. MaxPerBucket /\ arena[t][k].buffers[i] # None
    <3>1. \A t \in Threads, k \in Buckets : arena[t][k].len \in 0 .. MaxPerBucket /\ MaxPerBucket \in Nat
      BY <1>1, BucketAssumption DEF PoolShape, SlotShape, Slots
    <3>2. \A t \in Threads, k \in Buckets : \A i \in 1 .. arena[t][k].len : i \in 1 .. MaxPerBucket /\ i <= arena[t][k].len
      BY <3>1
    <3>3. \A t \in Threads, k \in Buckets : \A i \in 1 .. MaxPerBucket :
            i <= arena[t][k].len => arena[t][k].buffers[i] # None
      BY <1>1 DEF PoolShape, SlotShape
    <3> QED BY <3>2, <3>3
  <2>3. \A t \in Threads : id \in PoolIds(arena[t]) <=> Lists(arena[t], id)
    BY <1>1, PoolIdsAre
  <2>4. \A g, h \in HeldBy(id) : g = h
    BY <1>2 DEF HeldBy, Owned
  <2>5. HeldBy(id) # {} <=> \E h \in Handles : (buf[h] # None /\ buf[h].id = id)
    BY DEF HeldBy
  <2> DEFINE In(t, k, i) == arena[t][k].buffers[i] # None /\ arena[t][k].buffers[i].id = id
  <2>6. \A p : p \in PooledAt(id) <=>
          /\ p \in Threads \X Buckets \X (1 .. MaxPerBucket)
          /\ In(p[1], p[2], p[3])
    BY DEF PooledAt
  <2>7. \A p \in PooledAt(id) : /\ p[1] \in Threads /\ p[2] \in Buckets
                                /\ p[3] \in 1 .. arena[p[1]][p[2]].len
                                /\ arena[p[1]][p[2]].buffers[p[3]].id = id
                                /\ p = << p[1], p[2], p[3] >>
    BY <2>1, <2>6
  <2>8. \A p, q \in PooledAt(id) : p = q
    <3> SUFFICES ASSUME NEW p \in PooledAt(id), NEW q \in PooledAt(id) PROVE p = q
      OBVIOUS
    <3>1. id \in PoolIds(arena[p[1]]) /\ id \in PoolIds(arena[q[1]])
      BY <2>3, <2>7 DEF Lists
    <3>2. p[1] = q[1]
      BY <1>2, <2>7, <3>1 DEF Owned
    <3>3. p[2] = q[2] /\ p[3] = q[3]
      BY <1>2, <2>7, <3>2 DEF Owned, PoolDistinct
    <3>4. p = <<p[1], p[2], p[3]>> /\ q = <<q[1], q[2], q[3]>>
      BY <2>7
    <3> QED BY <3>2, <3>3, <3>4, Zenon
  <2>9. PooledAt(id) # {} <=> \E t \in Threads : id \in PoolIds(arena[t])
    <3>1. ASSUME NEW p \in PooledAt(id) PROVE \E t \in Threads : id \in PoolIds(arena[t])
      BY <2>3, <2>7 DEF Lists
    <3>2. ASSUME NEW t \in Threads, id \in PoolIds(arena[t]) PROVE PooledAt(id) # {}
      <4>1. PICK k \in Buckets : \E i \in 1 .. arena[t][k].len : arena[t][k].buffers[i].id = id
        BY <2>3, <3>2 DEF Lists
      <4>2. PICK i \in 1 .. arena[t][k].len : arena[t][k].buffers[i].id = id
        BY <4>1
      <4> DEFINE p == << t, k, i >>
      <4>3. /\ p \in Threads \X Buckets \X (1 .. MaxPerBucket)
            /\ In(p[1], p[2], p[3])
        BY <2>2, <4>2
      <4> HIDE DEF In, p
      <4>4. p \in PooledAt(id)
        BY <2>6, <4>3
      <4> QED BY <4>4
    <3> QED BY <3>1, <3>2
  <2>10. Cardinality(HeldBy(id)) = IF HeldBy(id) = {} THEN 0 ELSE 1
    BY <2>4, AtMostOne
  <2>11. Cardinality(PooledAt(id)) = IF PooledAt(id) = {} THEN 0 ELSE 1
    BY <2>8, AtMostOne
  <2>12. ~ (HeldBy(id) # {} /\ PooledAt(id) # {})
    BY <1>2, <2>5, <2>9 DEF Owned
  <2>13. id \in live <=> HeldBy(id) # {} \/ PooledAt(id) # {}
    BY <1>2, <2>5, <2>9 DEF Owned
  <2> QED BY <2>10, <2>11, <2>12, <2>13
<1> QED BY <1>3, <1>4, <1>5 DEF ArenaShape, OwnedOnce

\* What the unchecked accesses of the pools rest on holds whatever the threads
\* do: buckets are filled from the front, within their limit, with vectors of
\* their range, and every allocated vector has exactly one owner.
THEOREM VectorsOwnedOnce == Spec => []ArenaShape
BY ArenaInvariant, ShapeHolds, PTL

-----------------------------------------------------------------------------
(* Reuse.                                                                  *)

\* Vector e of bucket k of t's pool answers a request for n with capacity cap.
Answers(t, n, k, e, cap) ==
  /\ Bucket(n) <= k /\ k <= Bucket(n) + Lookahead
  /\ Power(2, k) <= e.cap /\ e.cap < Power(2, k + 1)
  /\ k = Bucket(n) \/ n <= e.cap
  /\ \A j \in Fitting(arena[t][Bucket(n)], n) :
       n <= e.cap /\ e.cap <= arena[t][Bucket(n)].buffers[j].cap
  /\ cap = Regrown([e EXCEPT !.len = 0], n).cap

\* A vector acquired was allocated before exactly when the pool had it.
LEMMA ReusedIs ==
  ASSUME ArenaInv, NEW t \in Threads, NEW h \in Handles, NEW n \in Sizes, Acquire(t, h, n)
  PROVE  \/ /\ buf'[h].id \notin live
            /\ PooledRequest(n) /\ t \notin gone => Found(arena[t], n) = None
         \/ /\ n < MaxPooled /\ buf'[h].id \in live
            /\ \E k \in Buckets : \E e \in Vec : Answers(t, n, k, e, buf'[h].cap)
<1>1. PICK a \in Acquisitions(t, n) : buf' = [buf EXCEPT ![h] = a.vec]
  BY DEF Acquire
<1>2. Sound(arena, buf, None, live) /\ buf \in [Handles -> Vec \union {None}] /\ n \in Nat \ {0}
  BY SizesAre DEF ArenaInv, Sound
<1>3. buf'[h] = a.vec
  BY <1>1, <1>2
<1>4. PoolShape(arena[t]) /\ \A id \in PoolIds(arena[t]) : id \in live
  BY <1>2 DEF Sound, Owned
<1>5. CASE AllocatesNew(a, t, n)
  <2>1. a.vec.id \notin live
    BY <1>5 DEF Allocated, AllocatesNew
  <2> QED BY <1>3, <1>5, <2>1 DEF AllocatesNew
<1>6. CASE TakesPooled(a, t, n)
  <2>1. PICK k \in Buckets : \E i \in 1 .. arena[t][k].len : Leaves(a, t, n, k, i)
    BY <1>6 DEF TakesPooled
  <2>2. PICK i \in 1 .. arena[t][k].len : Leaves(a, t, n, k, i)
    BY <2>1
  <2> DEFINE e == arena[t][k].buffers[i]
             v == [e EXCEPT !.len = 0]
  <2>3. e \in Vec /\ v \in Vec /\ v.id = e.id /\ v.cap = e.cap
    BY <2>2, VecIs, SizesAre DEF Leaves
  <2>4. a.vec = Regrown(v, n)
    BY <2>2 DEF Leaves
  <2>5. Power(2, k) <= e.cap /\ e.cap < Power(2, k + 1)
    BY <1>4 DEF PoolShape, SlotShape
  <2>6. e.id \in PoolIds(arena[t])
    BY <1>4, PoolIdsAre DEF Lists
  <2>7. \A j \in Fitting(arena[t][Bucket(n)], n) :
          n <= e.cap /\ e.cap <= arena[t][Bucket(n)].buffers[j].cap
    BY <2>2 DEF Leaves
  <2>8. Bucket(n) <= k /\ k <= Bucket(n) + Lookahead /\ (k = Bucket(n) \/ n <= e.cap)
    BY <2>2 DEF Leaves
  <2> HIDE DEF e, v
  <2>9. a.vec.id = e.id
    BY <1>2, <1>6, <2>3, <2>4, RegrownIs DEF TakesPooled
  <2>10. buf'[h].id \in live /\ buf'[h].cap = Regrown(v, n).cap
    BY <1>3, <1>4, <2>4, <2>6, <2>9
  <2>11. buf'[h].cap = Regrown([e EXCEPT !.len = 0], n).cap
    BY <2>10 DEF v
  <2>12. Answers(t, n, k, e, buf'[h].cap)
    BY <2>5, <2>7, <2>8, <2>11 DEF Answers
  <2>13. n < MaxPooled /\ buf'[h].id \in live
    BY <1>6, <2>10 DEF TakesPooled
  <2> QED BY <2>3, <2>12, <2>13
<1> QED BY <1>2, <1>5, <1>6, AcquisitionIs

LEMMA ReuseStaysBounded ==
  ASSUME ArenaInv, NEW t \in Threads, NEW h \in Handles, NEW n \in Sizes, Acquire(t, h, n),
         buf'[h].id \in live
  PROVE  buf'[h].cap < Power(2, Bucket(n) + 1 + Lookahead) /\ buf'[h].cap < MaxPooled
<1>1. n \in Nat \ {0}
  BY SizesAre
<1>2. PICK k \in Buckets : \E e \in Vec : Answers(t, n, k, e, buf'[h].cap)
  BY ReusedIs
<1>3. PICK e \in Vec : /\ Bucket(n) <= k /\ k <= Bucket(n) + Lookahead
                       /\ Power(2, k) <= e.cap /\ e.cap < Power(2, k + 1)
                       /\ k = Bucket(n) \/ n <= e.cap
                       /\ buf'[h].cap = Regrown([e EXCEPT !.len = 0], n).cap
  BY <1>2 DEF Answers
<1>4. n < MaxPooled
  BY ReusedIs
<1> DEFINE start == Bucket(n)
           v == [e EXCEPT !.len = 0]
           c == Regrown(v, n).cap
<1>5. start \in Buckets /\ n < Power(2, start + 1)
  BY <1>1, <1>4, BucketIs
<1>6. v \in Vec /\ v.cap = e.cap /\ e.cap \in Nat \ {0}
  BY VecIs, SizesAre
<1>7. start \in Nat /\ k \in Nat /\ start <= BucketCount - 1 /\ k <= BucketCount - 1
      /\ BucketCount \in Nat /\ Lookahead \in Nat /\ 1 <= Lookahead
  BY <1>5, BucketAssumption DEF Buckets
<1>8. c \in Nat
  BY <1>1, <1>4, <1>6, RegrownIs, VecIs
<1> DEFINE top == start + 1 + Lookahead
<1>9. top \in Nat /\ Power(2, top) \in Nat /\ MaxPooled \in Nat
  BY <1>7, PowerRule, MaxPooledType
<1> HIDE DEF start, v, c
<1>10. CASE n <= e.cap
  <2>1. c = e.cap
    BY <1>1, <1>4, <1>6, <1>10, RegrownIs DEF c
  <2>2. k + 1 \in Nat /\ k + 1 <= top /\ k + 1 <= BucketCount
    BY <1>3, <1>7 DEF start
  <2>3. Power(2, k + 1) \in Nat /\ Power(2, k + 1) <= Power(2, top) /\ Power(2, k + 1) <= MaxPooled
    <3> HIDE DEF top
    <3> QED BY <1>7, <1>9, <2>2, PowerRule, PowerGrows DEF MaxPooled
  <2>4. c < Power(2, top) /\ c < MaxPooled
    BY <1>3, <1>8, <1>9, <2>1, <2>3
  <2> QED BY <1>3, <2>4 DEF c, v, start
<1>11. CASE e.cap < n
  <2>1. k = start
    BY <1>3, <1>1, <1>6, <1>11 DEF start
  <2>2. c = n \/ (start # BucketCount - 1 /\ c = 2 * e.cap)
    BY <1>1, <1>4, <1>6, <1>11, RegrownIs DEF c, start
  <2>3. start + 1 \in Nat /\ Power(2, start + 1) \in Nat
    BY <1>7, PowerRule
  <2>4. CASE c = n
    <3>1. start + 1 <= top /\ start + 1 <= BucketCount
      BY <1>7
    <3>2. Power(2, start + 1) <= Power(2, top) /\ Power(2, start + 1) <= MaxPooled
      <4> HIDE DEF top
      <4> QED BY <1>7, <1>9, <2>3, <3>1, PowerGrows DEF MaxPooled
    <3>3. c < Power(2, top) /\ c < MaxPooled
      BY <1>1, <1>5, <1>9, <2>3, <2>4, <3>2
    <3> QED BY <1>3, <3>3 DEF c, v, start
  <2>5. CASE start # BucketCount - 1 /\ c = 2 * e.cap
    <3> DEFINE next == (start + 1) + 1
    <3>1. next \in Nat /\ next <= top /\ next <= BucketCount
      BY <1>7, <2>5
    <3>2. Power(2, next) = 2 * Power(2, start + 1)
      BY <2>3, PowerRule
    <3> HIDE DEF next, top
    <3>3. Power(2, next) <= Power(2, top) /\ Power(2, next) <= MaxPooled
      BY <1>7, <1>9, <3>1, PowerGrows DEF MaxPooled
    <3>4. e.cap < Power(2, start + 1)
      BY <1>3, <2>1
    <3>5. c < Power(2, next)
      BY <1>6, <2>3, <2>5, <3>2, <3>4
    <3>6. c < Power(2, top) /\ c < MaxPooled
      BY <1>8, <1>9, <2>3, <3>2, <3>3, <3>5
    <3> QED BY <1>3, <3>6 DEF c, v, start, top
  <2> QED BY <2>2, <2>4, <2>5
<1> QED BY <1>1, <1>6, <1>10, <1>11

\* A request too small to look in the pool sees only buckets that are empty.
LEMMA SmallSeesNothing ==
  ASSUME NEW pool, PoolShape(pool), NEW n \in Nat \ {0}, n < MaxPooled, ~ PooledRequest(n),
         NEW ahead \in 0 .. Lookahead, Bucket(n) + ahead \in Buckets
  PROVE  pool[Bucket(n) + ahead].len = 0
<1>1. PICK d \in Lookahead .. BucketCount - 1 : DropThreshold = Power(2, d)
  BY ThresholdAssumption
<1>2. Lookahead \in Nat /\ d \in Nat /\ d - Lookahead \in Nat /\ (d - Lookahead) + Lookahead = d
  BY <1>1, BucketAssumption
<1> DEFINE x == Power(2, d - Lookahead)
           y == Power(2, Lookahead)
<1>3. x \in Nat /\ y \in Nat \ {0} /\ DropThreshold = x * y
  BY <1>1, <1>2, PowerRule, PowerSplits
<1>4. DropThreshold \div y = x
  <2> HIDE DEF x, y
  <2>1. (x * y) \div y = x
    BY <1>3
  <2> QED BY <1>3, <2>1
<1>5. n < x
  BY <1>3, <1>4 DEF PooledRequest
<1>6. Bucket(n) \in Nat /\ Power(2, Bucket(n)) <= n /\ Power(2, Bucket(n)) \in Nat
  BY BucketIs, PowerRule, BucketAssumption DEF Buckets
<1>7. Bucket(n) < d - Lookahead
  <2>1. SUFFICES ASSUME d - Lookahead <= Bucket(n) PROVE FALSE
    BY <1>2, <1>6
  <2>2. x <= Power(2, Bucket(n))
    BY <1>2, <1>6, <2>1, PowerGrows
  <2> HIDE DEF x
  <2> QED BY <1>3, <1>5, <1>6, <2>2
<1> DEFINE k == Bucket(n) + ahead
<1>8. k + 1 \in Nat /\ k + 1 <= d
  BY <1>2, <1>6, <1>7
<1>9. Power(2, k + 1) <= DropThreshold /\ Power(2, k + 1) \in Nat /\ DropThreshold \in Nat
  <2> HIDE DEF k
  <2> QED BY <1>1, <1>2, <1>8, PowerGrows, PowerRule
<1> HIDE DEF k
<1>10. SUFFICES ASSUME k \in Buckets, pool[k].len # 0 PROVE FALSE
  BY DEF k
<1>11. SlotShape(k, pool[k]) /\ pool[k].len \in 0 .. MaxPerBucket /\ MaxPerBucket \in Nat
  BY <1>10, BucketAssumption DEF PoolShape, SlotShape, Slots
<1>12. 1 \in 1 .. pool[k].len /\ 1 \in 1 .. MaxPerBucket
  BY <1>10, <1>11
<1>13. pool[k].buffers[1] \in Vec
  <2>1. pool[k].buffers[1] # None
    BY <1>11, <1>12 DEF SlotShape
  <2> QED BY <1>11, <1>12, <2>1 DEF SlotShape, Slots
<1>14. pool[k].buffers[1].cap \in Nat
  BY <1>13, VecIs
<1>15. DropThreshold <= pool[k].buffers[1].cap /\ pool[k].buffers[1].cap < Power(2, k + 1)
  BY <1>11, <1>12 DEF SlotShape
<1> QED BY <1>9, <1>14, <1>15

LEMMA FitsAreReused ==
  ASSUME ArenaInv, NEW t \in Threads, NEW h \in Handles, NEW n \in Sizes,
         n < MaxPooled, Acquire(t, h, n),
         NEW ahead \in 0 .. Lookahead, Bucket(n) + ahead \in Buckets,
         NEW i \in Fitting(arena[t][Bucket(n) + ahead], n)
  PROVE  /\ buf'[h].id \in live
         /\ ahead = 0 => buf'[h].cap <= arena[t][Bucket(n) + ahead].buffers[i].cap
<1>1. n \in Nat \ {0} /\ PoolShape(arena[t])
  BY SizesAre DEF ArenaInv, Sound
<1>2. arena[t][Bucket(n) + ahead].len # 0
  BY DEF Fitting
<1>3. PooledRequest(n)
  BY <1>1, <1>2, SmallSeesNothing
<1>4. t \notin gone
  BY <1>2 DEF ArenaInv, GoneEmpty
<1>5. Found(arena[t], n) # None
  BY <1>1, FoundWhenFits
<1>6. buf'[h].id \in live
  BY <1>3, <1>4, <1>5, ReusedIs
<1>7. ASSUME ahead = 0 PROVE buf'[h].cap <= arena[t][Bucket(n) + ahead].buffers[i].cap
  <2>1. Bucket(n) + ahead = Bucket(n)
    BY <1>1, <1>7, BucketIs, BucketAssumption DEF Buckets
  <2>2. PICK e \in Vec :
          /\ \A j \in Fitting(arena[t][Bucket(n)], n) :
               n <= e.cap /\ e.cap <= arena[t][Bucket(n)].buffers[j].cap
          /\ buf'[h].cap = Regrown([e EXCEPT !.len = 0], n).cap
    BY <1>6, ReusedIs DEF Answers
  <2> DEFINE v == [e EXCEPT !.len = 0]
  <2>3. v \in Vec /\ v.cap = e.cap
    BY VecIs, SizesAre
  <2> HIDE DEF v
  <2>4. n <= v.cap /\ v.cap <= arena[t][Bucket(n)].buffers[i].cap
    BY <2>1, <2>2, <2>3
  <2>5. buf'[h].cap = v.cap
    BY <1>1, <2>2, <2>3, <2>4, RegrownIs DEF v
  <2> QED BY <2>1, <2>4, <2>5
<1> QED BY <1>6, <1>7

\* A vector that is handed out again is neither too large to be pooled once
\* more nor larger than the request by more than the search allows; and nothing
\* is allocated while the search has a vector that fits.
THEOREM ReuseIsDisciplined == Spec => ReuseDiscipline
<1> DEFINE Bounded == \A t \in Threads, h \in Handles : \A n \in Sizes :
                        Acquire(t, h, n) /\ buf'[h].id \in live =>
                          /\ buf'[h].cap < Power(2, Bucket(n) + 1 + Lookahead)
                          /\ buf'[h].cap < MaxPooled
           Reuses == \A t \in Threads, h \in Handles : \A n \in Sizes :
                       n < MaxPooled /\ Acquire(t, h, n) =>
                         \A ahead \in 0 .. Lookahead :
                           LET slot == arena[t][Bucket(n) + ahead] IN
                           Bucket(n) + ahead \in Buckets =>
                             \A i \in Fitting(slot, n) :
                               /\ buf'[h].id \in live
                               /\ ahead = 0 => buf'[h].cap <= slot.buffers[i].cap
<1>1. ArenaInv => Bounded
  BY ReuseStaysBounded
<1>2. ArenaInv => Reuses
  BY FitsAreReused
<1>3. ArenaInv /\ [Next]_vars => [Bounded]_vars /\ [Reuses]_vars
  <2> HIDE DEF Bounded, Reuses
  <2> QED BY <1>1, <1>2
<1>4. []ArenaInv /\ [][Next]_vars => [][Bounded]_vars /\ [][Reuses]_vars
  <2> HIDE DEF Bounded, Reuses
  <2> QED BY <1>3, PTL
<1> QED BY <1>4, ArenaInvariant, PTL DEF Spec, ReuseDiscipline, ReuseBounded, ReusesWhatFits

-----------------------------------------------------------------------------
(* The pool is invisible: ScratchBuffers is implemented.                   *)

Contents(v) == [cap |-> v.cap, len |-> v.len]

LEMMA ContentsIs ==
  ASSUME NEW v \in Vec
  PROVE  Contents(v) # None /\ Contents(v).cap = v.cap /\ Contents(v).len = v.len
<1>1. v.cap \in 0 .. MaxCap /\ v.len \in 0 .. MaxCap
  BY SizesAre DEF Vec
<1>2. Contents(v) \in [cap : 0 .. MaxCap, len : 0 .. MaxCap]
  BY <1>1 DEF Contents
<1> QED BY <1>2, NoneAssumption DEF Contents

LEMMA HeldIs ==
  ASSUME ArenaInv, NEW h \in Handles
  PROVE  /\ Held[h] = None <=> buf[h] = None
         /\ buf[h] # None => Held[h] = Contents(buf[h])
         /\ buf[h] # None => Held[h].cap = buf[h].cap /\ Held[h].len = buf[h].len
<1>1. Held[h] = IF buf[h] = None THEN None ELSE Contents(buf[h])
  BY DEF Held, Contents
<1>2. buf[h] # None => buf[h] \in Vec
  BY BufferIs
<1> QED BY <1>1, <1>2, ContentsIs

\* One buffer's vector is replaced by w.
LEMMA HeldBecomes ==
  ASSUME ArenaInv, NEW h \in Handles, NEW w \in Vec, buf' = [buf EXCEPT ![h] = w]
  PROVE  Held' = [Held EXCEPT ![h] = [cap |-> w.cap, len |-> w.len]]
<1>1. w # None
  BY VecIs
<1>2. buf \in [Handles -> Vec \union {None}]
  BY DEF ArenaInv, Sound
<1> QED BY <1>1, <1>2 DEF Held

LEMMA CapFits ==
  ASSUME NEW w \in Vec
  PROVE  w.cap \in 0 .. MaxCap
BY VecIs, SizesAre

LEMMA StepSimulates ==
  ASSUME ArenaInv, [Next]_vars
  PROVE  [Buffers!Next]_Held
<1>1. ASSUME NEW t \in Threads, NEW h \in Handles, NEW n \in Sizes, Acquire(t, h, n)
      PROVE  Buffers!Acquire(h)
  <2>1. PICK w \in Vec : n <= w.cap /\ w.len = 0 /\ buf' = [buf EXCEPT ![h] = w]
    BY <1>1, AcquireTakes, TakeInv, SizesAre
  <2>2. Held[h] = None
    BY <1>1, HeldIs DEF Acquire
  <2>3. w.cap \in 0 .. MaxCap /\ w.cap >= n
    BY <2>1, CapFits, VecIs, SizesAre
  <2>4. Held' = [Held EXCEPT ![h] = [cap |-> w.cap, len |-> 0]]
    BY <2>1, HeldBecomes
  <2> QED BY <2>2, <2>3, <2>4 DEF Buffers!Acquire
<1>2. ASSUME NEW t \in Threads, NEW h \in Handles, NEW n \in Sizes, Reset(t, h, n)
      PROVE  Buffers!Reset(h)
  <2>1. buf[h] # None /\ buf[h] \in Vec /\ buf[h].cap \in Nat /\ n \in Nat
    BY <1>2, BufferIs, VecIs, SizesAre DEF Reset
  <2>2. PICK w \in Vec : n <= w.cap /\ buf[h].cap <= w.cap /\ w.len = 0 /\ buf' = [buf EXCEPT ![h] = w]
    <3>1. CASE buf[h].cap < n
      <4>1. PICK w \in Vec : n <= w.cap /\ w.len = 0 /\ buf' = [buf EXCEPT ![h] = w]
        BY <1>2, <3>1, TakeInv, SizesAre DEF Reset
      <4>2. buf[h].cap <= w.cap
        BY <2>1, <3>1, <4>1, VecIs
      <4> QED BY <4>1, <4>2
    <3>2. CASE ~ (buf[h].cap < n)
      <4> DEFINE w == [buf[h] EXCEPT !.len = 0]
      <4>1. buf' = [buf EXCEPT ![h] = w]
        BY <1>2, <3>2 DEF Reset, Keep
      <4>2. w \in Vec /\ w.cap = buf[h].cap /\ w.len = 0
        BY <2>1, VecIs, SizesAre
      <4> HIDE DEF w
      <4>3. n <= w.cap /\ buf[h].cap <= w.cap
        BY <2>1, <3>2, <4>2
      <4> QED BY <4>1, <4>2, <4>3
    <3> QED BY <3>1, <3>2
  <2>3. w.cap \in 0 .. MaxCap /\ w.cap >= n /\ w.cap >= Held[h].cap /\ Held[h] # None
    BY <2>1, <2>2, CapFits, VecIs, HeldIs
  <2>4. Held' = [Held EXCEPT ![h] = [cap |-> w.cap, len |-> 0]]
    BY <2>2, HeldBecomes
  <2> QED BY <2>3, <2>4 DEF Buffers!Reset
<1>3. ASSUME NEW t \in Threads, NEW h \in Handles, NEW g \in Handles, Clone(t, h, g)
      PROVE  Buffers!Clone(h, g)
  <2>1. /\ buf[h] = None /\ buf[g] # None
        /\ buf[g] \in Vec /\ buf[g].len \in Lengths \union {0} /\ buf[g].len <= buf[g].cap
    BY <1>3, BufferIs DEF Clone
  <2>2. buf[g].cap \in Nat \ {0} /\ buf[g].cap <= MaxCap
    BY <2>1, VecIs
  <2>3. PICK w \in Vec : buf[g].cap <= w.cap /\ w.len = buf[g].len /\ buf' = [buf EXCEPT ![h] = w]
    BY <1>3, <2>1, <2>2, TakeInv DEF Clone
  <2>4. /\ Held[h] = None /\ Held[g] # None
        /\ w.cap \in 0 .. MaxCap /\ w.cap >= Held[g].cap /\ w.len = Held[g].len
    BY <2>1, <2>2, <2>3, CapFits, VecIs, HeldIs
  <2>5. Held' = [Held EXCEPT ![h] = [cap |-> w.cap, len |-> w.len]]
    BY <2>3, HeldBecomes
  <2> QED BY <2>4, <2>5 DEF Buffers!Clone
<1>4. ASSUME NEW t \in Threads, NEW h \in Handles, NEW g \in Handles, CloneFrom(t, h, g)
      PROVE  Buffers!CloneFrom(h, g)
  <2>1. /\ h # g /\ buf[h] # None /\ buf[g] # None
        /\ buf[h] \in Vec /\ buf[h].cap \in Nat
        /\ buf[g] \in Vec /\ buf[g].len \in Lengths \union {0} /\ buf[g].len <= buf[g].cap
        /\ buf[g].len \in 0 .. MaxCap
    BY <1>4, BufferIs, VecIs DEF CloneFrom
  <2>2. buf[g].cap \in Nat \ {0} /\ buf[g].cap <= MaxCap /\ buf[g].len \in Nat
    BY <2>1, VecIs
  <2>3. PICK w \in Vec : /\ buf[g].len <= w.cap /\ buf[h].cap <= w.cap
                         /\ w.len = buf[g].len /\ buf' = [buf EXCEPT ![h] = w]
    <3>1. CASE buf[h].cap < buf[g].len
      <4>1. PICK w \in Vec : buf[g].cap <= w.cap /\ w.len = buf[g].len /\ buf' = [buf EXCEPT ![h] = w]
        BY <1>4, <2>1, <2>2, <3>1, TakeInv DEF CloneFrom
      <4>2. buf[g].len <= w.cap /\ buf[h].cap <= w.cap
        BY <2>1, <2>2, <3>1, <4>1, VecIs
      <4> QED BY <4>1, <4>2
    <3>2. CASE ~ (buf[h].cap < buf[g].len)
      <4> DEFINE w == [buf[h] EXCEPT !.len = buf[g].len]
      <4>1. buf' = [buf EXCEPT ![h] = w]
        BY <1>4, <3>2 DEF CloneFrom, Keep
      <4>2. w \in Vec /\ w.cap = buf[h].cap /\ w.len = buf[g].len
        BY <2>1, VecIs
      <4> HIDE DEF w
      <4>3. buf[g].len <= w.cap /\ buf[h].cap <= w.cap
        BY <2>1, <2>2, <3>2, <4>2
      <4> QED BY <4>1, <4>2, <4>3
    <3> QED BY <3>1, <3>2
  <2>4. /\ Held[h] # None /\ Held[g] # None
        /\ w.cap \in 0 .. MaxCap /\ w.cap >= Held[h].cap /\ w.cap >= Held[g].len
        /\ w.len = Held[g].len
    BY <2>1, <2>2, <2>3, CapFits, VecIs, HeldIs
  <2>5. Held' = [Held EXCEPT ![h] = [cap |-> w.cap, len |-> w.len]]
    BY <2>3, HeldBecomes
  <2> QED BY <2>1, <2>4, <2>5 DEF Buffers!CloneFrom
<1>5. ASSUME NEW t \in Threads, NEW h \in Handles, Drop(t, h)
      PROVE  Buffers!Drop(h)
  <2>1. buf[h] # None /\ buf' = [buf EXCEPT ![h] = None]
    BY <1>5 DEF Drop
  <2>2. buf \in [Handles -> Vec \union {None}]
    BY DEF ArenaInv, Sound
  <2>3. Held' = [Held EXCEPT ![h] = None]
    BY <2>1, <2>2 DEF Held
  <2>4. Held[h] # None
    BY <2>1, HeldIs
  <2> QED BY <2>3, <2>4 DEF Buffers!Drop
<1>6. ASSUME NEW h \in Handles, NEW n \in Lengths, Write(h, n)
      PROVE  Buffers!Write(h)
  <2> DEFINE w == [Amortized(buf[h], n) EXCEPT !.len = n]
  <2>1. buf[h] # None /\ buf' = [buf EXCEPT ![h] = w]
    BY <1>6 DEF Write, Keep
  <2>2. w \in Vec /\ w.len = n /\ Filled(w) /\ buf[h].cap <= w.cap
    BY <2>1, WriteIs
  <2> HIDE DEF w
  <2>3. buf[h] \in Vec /\ buf[h].cap \in Nat /\ w.cap \in Nat /\ n \in Nat
    BY <2>1, <2>2, BufferIs, VecIs, SizesAre
  <2>4. w.cap \in 0 .. MaxCap /\ w.cap >= n /\ w.cap >= Held[h].cap /\ Held[h] # None
    BY <2>1, <2>2, <2>3, CapFits, HeldIs DEF Filled
  <2>5. Held' = [Held EXCEPT ![h] = [cap |-> w.cap, len |-> n]]
    BY <2>1, <2>2, HeldBecomes
  <2> QED BY <2>4, <2>5 DEF Buffers!Write
<1>7. ASSUME NEW h \in Handles, NEW g \in Handles, CloneInto(h, g)
      PROVE  Buffers!CloneInto(h, g)
  <2> DEFINE w == [Amortized(buf[g], buf[h].len) EXCEPT !.len = buf[h].len]
  <2>1. /\ h # g /\ buf[h] # None /\ buf[g] # None
        /\ buf' = [buf EXCEPT ![h] = w, ![g] = buf[h]]
    BY <1>7 DEF CloneInto
  <2>2. buf \in [Handles -> Vec \union {None}] /\ buf[h].len \in Lengths \union {0}
        /\ buf[h] \in Vec /\ buf[g] \in Vec
    BY <2>1, BufferIs DEF ArenaInv, Sound
  <2>3. w \in Vec /\ w.len = buf[h].len /\ Filled(w) /\ buf[g].cap <= w.cap
    BY <2>1, <2>2, WriteIs
  <2> HIDE DEF w
  <2>4. w # None /\ w.cap \in Nat /\ w.cap \in 0 .. MaxCap /\ buf[g].cap \in Nat /\ buf[h].len \in Nat
    BY <2>2, <2>3, VecIs, CapFits
  <2>5. /\ Held[h] # None /\ Held[g] # None
        /\ w.cap >= Held[g].cap /\ w.cap >= Held[h].len /\ w.len = Held[h].len
    BY <2>1, <2>3, <2>4, HeldIs DEF Filled
  <2>6. Held' = [Held EXCEPT ![h] = [cap |-> w.cap, len |-> w.len], ![g] = Held[h]]
    <3>1. \A f \in Handles : buf'[f] = IF f = g THEN buf[h] ELSE IF f = h THEN w ELSE buf[f]
      BY <2>1, <2>2
    <3>2. Held' = [f \in Handles |-> IF buf'[f] = None THEN None ELSE Contents(buf'[f])]
      BY DEF Held, Contents
    <3>3. \A f \in Handles : Held[f] = IF buf[f] = None THEN None ELSE Contents(buf[f])
      BY DEF Held, Contents
    <3>4. \A f \in Handles : (IF buf'[f] = None THEN None ELSE Contents(buf'[f]))
                             = IF f = g THEN Held[h] ELSE IF f = h THEN Contents(w) ELSE Held[f]
      <4> SUFFICES ASSUME NEW f \in Handles
                   PROVE  (IF buf'[f] = None THEN None ELSE Contents(buf'[f]))
                          = IF f = g THEN Held[h] ELSE IF f = h THEN Contents(w) ELSE Held[f]
        OBVIOUS
      <4>1. CASE f = g
        BY <2>1, <3>1, <3>3, <4>1
      <4>2. CASE f # g /\ f = h
        <5>1. buf'[f] = w
          BY <3>1, <4>2
        <5> QED BY <2>4, <4>2, <5>1
      <4>3. CASE f # g /\ f # h
        <5>1. buf'[f] = buf[f]
          BY <3>1, <4>3
        <5> QED BY <3>3, <4>3, <5>1
      <4> QED BY <4>1, <4>2, <4>3
    <3>5. Held' = [f \in Handles |-> IF f = g THEN Held[h] ELSE IF f = h THEN Contents(w) ELSE Held[f]]
      BY <3>2, <3>4, Zenon
    <3>6. Held = [f \in Handles |-> Held[f]]
      BY DEF Held
    <3>7. [Held EXCEPT ![h] = Contents(w), ![g] = Held[h]]
          = [f \in Handles |-> IF f = g THEN Held[h] ELSE IF f = h THEN Contents(w) ELSE Held[f]]
      BY <2>1, <3>6
    <3> QED BY <3>5, <3>7 DEF Contents
  <2>7. Held' = [Held EXCEPT ![h] = [cap |-> w.cap, len |-> Held[h].len], ![g] = Held[h]]
    BY <2>5, <2>6
  <2> QED BY <2>1, <2>4, <2>5, <2>7 DEF Buffers!CloneInto
<1>8. ASSUME buf' = buf PROVE Held' = Held
  BY <1>8 DEF Held
<1>9. ASSUME NEW t \in Threads, TearDown(t) PROVE Held' = Held
  BY <1>8, <1>9 DEF TearDown
<1>10. CASE UNCHANGED vars
  BY <1>8, <1>10 DEF vars
<1> QED BY <1>1, <1>2, <1>3, <1>4, <1>5, <1>6, <1>7, <1>9, <1>10 DEF Next, Buffers!Next

\* With vectors stripped of their identity, scratch buffers that draw on the
\* pools behave as if each were allocated and freed on its own.
THEOREM PoolIsInvisible == Spec => ImplementsBuffers
<1>1. Init => Buffers!Init
  BY DEF Init, Held, Buffers!Init
<1>2. ArenaInv /\ [Next]_vars => [Buffers!Next]_Held
  BY StepSimulates
<1> QED BY <1>1, <1>2, ArenaInvariant, PTL DEF Spec, ImplementsBuffers, Buffers!Spec

-----------------------------------------------------------------------------
(* The blocked product.                                                    *)

Scheduled == jobs \union running

\* The first block is multiplied with the scratch of region 1, before the
\* companions' regions; every other job is a part of the batch, as many regions
\* as blocks into it.
Placed(j) ==
  IF j.direct
  THEN j.first = 1 /\ j.count = 1 /\ j.region = 1 /\ batch.region = 2 /\ added = 0
  ELSE /\ j.first - batch.first = j.region - batch.region
       /\ batch.first <= j.first
       /\ j.first + j.count <= batch.first + batch.count

\* The batch has blocks of the operand and regions of the scratch.
BatchFits ==
  /\ batch.first + batch.count <= BlockCount + 1
  /\ batch.region + batch.count <= Workers + 1

Apart(j, k) == j.region + j.count <= k.region \/ k.region + k.count <= j.region

\* The workers' part: jobs lie in the batch and apart, a thread has one block,
\* and outside of a batch there are none.
WorkersInv ==
  /\ TypeOK
  /\ \A j \in Scheduled : Placed(j)
  /\ \A j \in running : j.count = 1
  /\ jobs \intersect running = {}
  /\ \A j, k \in Scheduled : j # k => Apart(j, k)
  /\ BatchFits
  /\ pc # "multiply" => Scheduled = {}
  /\ ChildBudgetFits

\* The region of a block of the batch.
Place(b) == batch.region + (b - batch.first)

Covers(j, b) == ~ j.direct /\ j.first <= b /\ b < j.first + j.count

\* A block of the batch is some thread's, or its product is in its region.
Covered ==
  \A b \in batch.first .. batch.first + batch.count - 1 :
    region[Place(b)] = b \/ \E j \in Scheduled : Covers(j, b)

\* What is added when: the blocks before the batch while it is multiplied, but
\* for the first one, and then those of the batch one by one.
AddedInOrder ==
  /\ batch.first >= 2 /\ (batch.region = 2 => batch.first = 2)
  /\ pc = "multiply" =>
       \/ added = batch.first - 1
       \/ added = 0 /\ batch.first = 2 /\ \E j \in Scheduled : j.direct
  /\ pc # "multiply" =>
       batch.first - 1 <= added /\ added < batch.first + batch.count
  /\ pc = "done" => added = BlockCount

IInv == WorkersInv /\ Covered /\ AddedInOrder /\ PrefixIsProduct

-----------------------------------------------------------------------------
(* Geometry.                                                               *)

LEMMA ShapeFacts ==
  ASSUME shape \in Shapes
  PROVE  /\ shape.larger \in Nat /\ shape.smaller \in Nat /\ shape.block \in Nat
         /\ shape.parallelism \in Nat /\ shape.regions \in Nat
         /\ shape.smaller >= 1 /\ shape.block >= 1 /\ shape.larger >= shape.block
         /\ shape.parallelism >= 1 /\ shape.regions >= 1
BY ShapesAssumption

\* The quotient that counts the blocks: all but the last are full.
LEMMA BlockCountFacts ==
  ASSUME shape \in Shapes
  PROVE  /\ BlockCount \in Nat /\ BlockCount >= 1
         /\ (BlockCount - 1) * shape.block < shape.larger
         /\ shape.larger <= BlockCount * shape.block
<1> DEFINE a == shape.larger + shape.block - 1
           d == shape.block
<1>1. a \in Nat /\ d \in Nat /\ d >= 1 /\ a >= d /\ shape.larger = a - d + 1
  BY ShapeFacts
<1>2. BlockCount = a \div d
  BY DEF BlockCount
<1> HIDE DEF a, d
<1>3. a \div d \in Int /\ a % d \in 0 .. d - 1 /\ a = d * (a \div d) + (a % d)
  BY <1>1, SMTT(30)
<1> DEFINE q == a \div d
<1>4. q \in Int /\ d * q <= a /\ a < d * q + d
  BY <1>1, <1>3
<1> HIDE DEF q
<1>5. q >= 1
  <2>1. SUFFICES ASSUME q <= 0 PROVE FALSE
    BY <1>4
  <2>2. d * q <= 0
    BY <2>1, <1>1, <1>4
  <2> QED
    BY <2>2, <1>1, <1>4
<1>6. (q - 1) * d = d * q - d /\ q * d = d * q
  BY <1>1, <1>4
<1>7. (q - 1) * d < a - d + 1 /\ a - d + 1 <= q * d
  BY <1>1, <1>4, <1>6
<1> QED
  BY <1>1, <1>2, <1>4, <1>5, <1>7 DEF q, d

LEMMA OffsetNext ==
  ASSUME shape \in Shapes, NEW b \in Int
  PROVE  Offset(b) \in Int /\ Offset(b + 1) = Offset(b) + shape.block
BY ShapeFacts DEF Offset

\* Blocks lie one after another.
LEMMA OffsetApart ==
  ASSUME shape \in Shapes, NEW b \in Nat, NEW c \in Nat, 1 <= c, c < b
  PROVE  /\ Offset(c) \in Nat /\ Offset(b) \in Nat
         /\ Offset(c) + shape.block <= Offset(b)
<1>1. shape.block \in Nat
  BY ShapeFacts
<1>2. 0 <= (c - 1) * shape.block
  BY <1>1
<1>3. Offset(b) - Offset(c) - shape.block = (b - c - 1) * shape.block
  BY <1>1 DEF Offset
<1>4. 0 <= (b - c - 1) * shape.block
  BY <1>1
<1> QED
  BY <1>1, <1>2, <1>3, <1>4 DEF Offset

LEMMA BlockFacts ==
  ASSUME shape \in Shapes, NEW b \in 1 .. BlockCount
  PROVE  /\ Offset(b) \in Nat /\ BlockSize(b) \in 1 .. shape.block
         /\ b < BlockCount => BlockSize(b) = shape.block
         /\ Offset(b) + BlockSize(b) <= shape.larger
<1>1. /\ BlockCount \in Nat /\ b \in Nat /\ b >= 1 /\ b <= BlockCount
      /\ shape.block \in Nat /\ shape.block >= 1 /\ shape.larger \in Nat
  BY BlockCountFacts, ShapeFacts
<1>2. Offset(b) \in Nat
  BY <1>1, 0 <= (b - 1) * shape.block DEF Offset
<1>3. /\ Offset(BlockCount) < shape.larger
      /\ shape.larger <= Offset(BlockCount) + shape.block
  <2>1. BlockCount * shape.block = Offset(BlockCount) + shape.block
    BY <1>1 DEF Offset
  <2> QED
    BY <2>1, BlockCountFacts DEF Offset
<1>4. CASE b = BlockCount
  BY <1>1, <1>2, <1>3, <1>4 DEF BlockSize
<1>5. CASE b < BlockCount
  <2>1. Offset(BlockCount) \in Nat /\ Offset(b) + shape.block <= Offset(BlockCount)
    BY <1>1, <1>5, OffsetApart
  <2> QED
    BY <1>1, <1>2, <1>3, <1>5, <2>1 DEF BlockSize
<1> QED
  BY <1>1, <1>4, <1>5

\* There is a worker, and none without a region or a block of its own.
LEMMA WorkerFacts ==
  ASSUME shape \in Shapes
  PROVE  /\ Workers \in 1 .. shape.regions /\ Workers <= BlockCount
         /\ FirstBudget \in Nat /\ FirstBudget <= ChildParallelism
         /\ 1 <= ChildParallelism
<1>1. \A n \in Nat : n >= 1 =>
        WorkerCount(n) \in 1 .. n /\ WorkerCount(n) <= BlockCount
  BY ShapeFacts, BlockCountFacts DEF WorkerCount
<1>2. Workers \in 1 .. shape.regions /\ Workers <= BlockCount
  BY <1>1, ShapeFacts DEF Workers
<1> QED
  BY <1>2, ShapeFacts DEF FirstBudget, ChildParallelism

\* The geometry is the call's.
LEMMA SameGeometry ==
  ASSUME shape' = shape
  PROVE  /\ BlockCount' = BlockCount /\ Workers' = Workers /\ Jobs' = Jobs
         /\ ChildParallelism' = ChildParallelism
<1>1. BlockCount' = BlockCount
  BY DEF BlockCount
<1>2. Workers' = Workers /\ WantedWorkers' = WantedWorkers
  BY <1>1 DEF Workers, WantedWorkers, WorkerCount
<1> QED
  BY <1>1, <1>2 DEF Jobs, ChildParallelism

\* The job of the first block, and that of a part of a batch.
FirstJob == Job(1, 1, 1, TRUE)
Part(first, count, at) == Job(first, count, at, FALSE)

LEMMA FirstJobFacts ==
  ASSUME shape \in Shapes
  PROVE  /\ FirstJob \in Jobs /\ FirstJob.budget <= ChildParallelism
         /\ FirstJob.first = 1 /\ FirstJob.count = 1 /\ FirstJob.region = 1
         /\ FirstJob.direct
<1>1. FirstBudget \in Nat /\ FirstBudget <= ChildParallelism
  BY WorkerFacts
<1>2. FirstJob = [first |-> 1, count |-> 1, region |-> 1, direct |-> TRUE, budget |-> FirstBudget]
  BY DEF FirstJob, Job
<1>3. 1 \in 1 .. BlockCount /\ 1 \in 1 .. Workers
  BY BlockCountFacts, WorkerFacts, ShapeFacts
<1> QED
  BY <1>1, <1>2, <1>3 DEF Jobs

LEMMA PartFacts ==
  ASSUME shape \in Shapes, NEW first \in 1 .. BlockCount, NEW count \in 1 .. BlockCount,
         NEW at \in 1 .. Workers
  PROVE  /\ Part(first, count, at) \in Jobs
         /\ Part(first, count, at).budget <= ChildParallelism
         /\ Part(first, count, at).first = first /\ Part(first, count, at).count = count
         /\ Part(first, count, at).region = at /\ ~ Part(first, count, at).direct
<1>1. Part(first, count, at) =
        [first |-> first, count |-> count, region |-> at, direct |-> FALSE, budget |-> 1]
  BY DEF Part, Job
<1> QED
  BY <1>1, WorkerFacts DEF Jobs

-----------------------------------------------------------------------------
(* The workers.                                                            *)

LEMMA WorkersInit == ProductInit => WorkersInv
<1> SUFFICES ASSUME ProductInit PROVE WorkersInv
  OBVIOUS
<1>1. /\ shape \in Shapes /\ BlockCount \in Nat /\ BlockCount >= 1
      /\ Workers \in Nat /\ Workers >= 1 /\ Workers <= BlockCount
  BY BlockCountFacts, WorkerFacts, ShapeFacts DEF ProductInit
<1>2. Companions \in 0 .. Workers - 1 /\ Companions <= BlockCount - 1
  BY <1>1 DEF Companions, Smaller
<1>3. PICK f \in Jobs :
        /\ f = FirstJob /\ f.budget <= ChildParallelism
        /\ f.first = 1 /\ f.count = 1 /\ f.region = 1 /\ f.direct
  BY <1>1, FirstJobFacts
<1>4. PICK c : Companions # 0 =>
        /\ c = Part(2, Companions, 2)
        /\ c \in Jobs /\ c.budget <= ChildParallelism
        /\ c.first = 2 /\ c.count = Companions /\ c.region = 2 /\ ~ c.direct
  <2>1. Companions # 0 => /\ 2 \in 1 .. BlockCount /\ 2 \in 1 .. Workers
                          /\ Companions \in 1 .. BlockCount
    BY <1>1, <1>2
  <2> QED
    BY <1>1, <2>1, PartFacts
<1>5. /\ Scheduled = {f} \union (IF Companions = 0 THEN {} ELSE {c})
      /\ running = {} /\ jobs = Scheduled
  BY <1>3, <1>4 DEF ProductInit, Scheduled, FirstJob, Part
<1>6. /\ batch.first = 2 /\ batch.count = Companions /\ batch.region = 2 /\ added = 0
      /\ pc = "multiply"
  BY DEF ProductInit
<1>7. TypeOK
  <2>1. dst \in [1 .. shape.larger + shape.smaller -> SUBSET (Nat \X Nat)]
    BY DEF ProductInit, Junk
  <2>2. region \in [1 .. Workers -> 0 .. BlockCount]
    BY <1>1 DEF ProductInit
  <2>3. batch \in [first : 1 .. BlockCount + 1, count : 0 .. Workers, region : 1 .. 2]
    BY <1>1, <1>2 DEF ProductInit
  <2> QED
    BY <1>1, <1>3, <1>4, <1>5, <1>6, <2>1, <2>2, <2>3 DEF TypeOK
<1>8. \A j \in Scheduled : Placed(j)
  BY <1>1, <1>2, <1>3, <1>4, <1>5, <1>6 DEF Placed
<1>9. \A j, k \in Scheduled : j # k => Apart(j, k)
  BY <1>1, <1>2, <1>3, <1>4, <1>5 DEF Apart
<1>10. BatchFits
  BY <1>1, <1>2, <1>6 DEF BatchFits
<1>11. ChildBudgetFits
  BY <1>3, <1>4, <1>5 DEF ChildBudgetFits, Scheduled
<1> QED
  BY <1>5, <1>6, <1>7, <1>8, <1>9, <1>10, <1>11 DEF WorkersInv

\* What a job of the batch is.
LEMMA ThreadFacts ==
  ASSUME WorkersInv, NEW j \in Scheduled
  PROVE  /\ j \in Jobs /\ Placed(j) /\ j.budget <= ChildParallelism
         /\ j.first \in Nat /\ j.first >= 1 /\ j.count \in Nat /\ j.count >= 1
         /\ j.region \in 1 .. Workers /\ j.direct \in BOOLEAN
         /\ j.region + j.count <= Workers + 1
<1>1. j \in Jobs /\ Placed(j) /\ j.budget <= ChildParallelism
  BY DEF WorkersInv, TypeOK, Scheduled, ChildBudgetFits
<1>2. shape \in Shapes /\ BlockCount \in Nat /\ Workers \in Nat
  BY BlockCountFacts, WorkerFacts, ShapeFacts DEF WorkersInv, TypeOK
<1>3. /\ j.first \in Nat /\ j.first >= 1 /\ j.count \in Nat /\ j.count >= 1
      /\ j.region \in 1 .. Workers /\ j.direct \in BOOLEAN
  BY <1>1, <1>2 DEF Jobs
<1>4. /\ batch.first \in Nat /\ batch.count \in Nat /\ batch.region \in Nat
      /\ batch.region + batch.count <= Workers + 1
  BY <1>2 DEF WorkersInv, TypeOK, BatchFits
<1>5. j.region + j.count <= Workers + 1
  BY <1>1, <1>2, <1>3, <1>4 DEF Placed
<1> QED
  BY <1>1, <1>3, <1>5

LEMMA ForkWorkers ==
  ASSUME WorkersInv, NEW j \in jobs, Fork(j)
  PROVE  WorkersInv'
<1> DEFINE right == j.count \div 2
           left == j.count - right
<1>1. /\ shape \in Shapes /\ BlockCount \in Nat /\ Workers \in Nat
      /\ batch \in [first : 1 .. BlockCount + 1, count : 0 .. Workers, region : 1 .. 2]
      /\ BatchFits
  BY BlockCountFacts, WorkerFacts, ShapeFacts DEF WorkersInv, TypeOK
<1>2. /\ j \in Scheduled /\ j \notin running /\ j.count > 1 /\ ~ j.direct
      /\ j.first - batch.first = j.region - batch.region
      /\ batch.first <= j.first
      /\ j.first + j.count <= batch.first + batch.count
  BY ThreadFacts DEF Fork, Scheduled, WorkersInv, Placed
<1>3. /\ j.first \in Nat /\ j.first >= 1 /\ j.count \in Nat
      /\ j.region \in 1 .. Workers /\ j.region + j.count <= Workers + 1
      /\ j.first + j.count <= BlockCount + 1
  BY <1>1, <1>2, ThreadFacts DEF BatchFits
<1>4. left \in Nat /\ right \in Nat /\ left >= 1 /\ right >= 1 /\ left + right = j.count
  BY <1>2, <1>3
<1> HIDE DEF left, right
<1>5. PICK l \in Jobs :
        /\ l = Part(j.first, left, j.region) /\ l.budget <= ChildParallelism
        /\ l.first = j.first /\ l.count = left /\ l.region = j.region /\ ~ l.direct
  <2>1. /\ j.first \in 1 .. BlockCount /\ left \in 1 .. BlockCount
        /\ j.region \in 1 .. Workers
    BY <1>1, <1>3, <1>4
  <2> QED
    BY <1>1, <2>1, PartFacts
<1>6. PICK r \in Jobs :
        /\ r = Part(j.first + left, right, j.region + left)
        /\ r.budget <= ChildParallelism
        /\ r.first = j.first + left /\ r.count = right /\ r.region = j.region + left
        /\ ~ r.direct
  <2>1. /\ j.first + left \in 1 .. BlockCount /\ right \in 1 .. BlockCount
        /\ j.region + left \in 1 .. Workers
    BY <1>1, <1>3, <1>4
  <2> QED
    BY <1>1, <2>1, PartFacts
<1>7. /\ UNCHANGED <<shape, dst, region, running, batch, added, pc>>
      /\ jobs' = (jobs \ {j}) \union {l, r}
  BY <1>5, <1>6 DEF Fork, left, right, Part
<1>8. BlockCount' = BlockCount /\ Workers' = Workers /\ Jobs' = Jobs
      /\ ChildParallelism' = ChildParallelism
  BY <1>7, SameGeometry
<1>9. Scheduled' = (Scheduled \ {j}) \union {l, r}
  BY <1>2, <1>7 DEF Scheduled
<1>10. TypeOK'
  BY <1>5, <1>6, <1>7, <1>8 DEF TypeOK, WorkersInv
<1>11. \A k \in Scheduled' : Placed(k)'
  <2>1. \A k \in Scheduled : Placed(k)'
    BY <1>7 DEF WorkersInv, Placed
  <2>2. Placed(l)' /\ Placed(r)'
    BY <1>1, <1>2, <1>3, <1>4, <1>5, <1>6, <1>7 DEF Placed
  <2> QED
    BY <1>9, <2>1, <2>2
<1>12. \A k \in Scheduled \ {j} : Apart(k, l) /\ Apart(k, r) /\ Apart(l, k) /\ Apart(r, k)
  <2> SUFFICES ASSUME NEW k \in Scheduled \ {j}
               PROVE  Apart(k, l) /\ Apart(k, r) /\ Apart(l, k) /\ Apart(r, k)
    OBVIOUS
  <2>1. Apart(j, k) /\ k.region \in Nat /\ k.count \in Nat /\ j.region \in Nat
    BY <1>1, <1>2, ThreadFacts DEF WorkersInv
  <2> QED
    BY <1>3, <1>4, <1>5, <1>6, <2>1 DEF Apart
<1>13. \A k, m \in Scheduled' : k # m => Apart(k, m)
  <2>1. Apart(l, r) /\ Apart(r, l)
    BY <1>1, <1>3, <1>4, <1>5, <1>6 DEF Apart
  <2> QED
    BY <1>9, <1>12, <2>1 DEF WorkersInv
<1>14. (jobs \intersect running)' = {}
  <2>1. ~ Apart(l, l) /\ ~ Apart(r, r)
    BY <1>1, <1>3, <1>4, <1>5, <1>6 DEF Apart
  <2> QED
    BY <1>2, <1>7, <1>12, <2>1 DEF WorkersInv, Scheduled
<1>15. ChildBudgetFits'
  BY <1>5, <1>6, <1>8, <1>9 DEF WorkersInv, ChildBudgetFits, Scheduled
<1>16. pc' = "multiply"
  BY <1>2, <1>7 DEF WorkersInv
<1> QED
  BY <1>7, <1>8, <1>10, <1>11, <1>13, <1>14, <1>15, <1>16
     DEF WorkersInv, BatchFits, Apart

\* The types the steps below need.
LEMMA WorkersTypes ==
  ASSUME WorkersInv
  PROVE  /\ shape \in Shapes /\ BlockCount \in Nat /\ BlockCount >= 1
         /\ Workers \in Nat /\ Workers >= 1 /\ Workers <= shape.regions
         /\ shape.regions \in Nat /\ added \in 0 .. BlockCount
         /\ batch.first \in Nat /\ batch.first >= 1 /\ batch.first <= BlockCount + 1
         /\ batch.count \in Nat /\ batch.count <= Workers
         /\ batch.region \in 1 .. 2
         /\ batch.first + batch.count <= BlockCount + 1
         /\ batch.region + batch.count <= Workers + 1
<1>1. /\ shape \in Shapes /\ BlockCount \in Nat /\ BlockCount >= 1
      /\ Workers \in Nat /\ Workers >= 1 /\ Workers <= shape.regions
      /\ shape.regions \in Nat
  BY BlockCountFacts, WorkerFacts, ShapeFacts DEF WorkersInv, TypeOK
<1> QED
  BY <1>1 DEF WorkersInv, TypeOK, BatchFits

\* A step that starts or ends a block only: the jobs stay what they are.
LEMMA FewerThreads ==
  ASSUME WorkersInv, TypeOK', Scheduled' \subseteq Scheduled,
         \A j \in running' : j.count = 1, (jobs \intersect running)' = {},
         UNCHANGED <<shape, batch>>, pc' = pc,
         \A j \in Scheduled' : j.direct => added' = 0
  PROVE  WorkersInv'
<1>1. BlockCount' = BlockCount /\ Workers' = Workers /\ ChildParallelism' = ChildParallelism
  BY SameGeometry
<1>2. \A j \in Scheduled' : Placed(j)'
  BY DEF WorkersInv, Placed
<1>3. \A j, k \in Scheduled' : j # k => Apart(j, k)
  BY DEF WorkersInv
<1>4. ChildBudgetFits'
  BY <1>1 DEF WorkersInv, ChildBudgetFits, Scheduled
<1> QED
  BY <1>1, <1>2, <1>3, <1>4 DEF WorkersInv, BatchFits, Apart

LEMMA BeginWorkers ==
  ASSUME WorkersInv, NEW j \in jobs, Begin(j)
  PROVE  WorkersInv'
<1>1. /\ UNCHANGED <<shape, dst, batch, added, pc>>
      /\ jobs' = jobs \ {j} /\ running' = running \union {j} /\ j.count = 1
      /\ region' = IF j.direct THEN region ELSE [region EXCEPT ![j.region] = 0]
  BY DEF Begin
<1>2. BlockCount' = BlockCount /\ Workers' = Workers /\ Jobs' = Jobs
  BY <1>1, SameGeometry
<1>3. TypeOK'
  <2>1. region' \in [1 .. Workers -> 0 .. BlockCount]
    <3>1. 0 \in 0 .. BlockCount /\ region \in [1 .. Workers -> 0 .. BlockCount]
      BY WorkersTypes DEF WorkersInv, TypeOK
    <3> QED
      BY <1>1, <3>1
  <2> QED
    BY <1>1, <1>2, <2>1 DEF WorkersInv, TypeOK
<1>4. /\ Scheduled' \subseteq Scheduled /\ \A k \in running' : k.count = 1
      /\ (jobs \intersect running)' = {}
  BY <1>1 DEF Scheduled, WorkersInv
<1>5. \A k \in Scheduled' : k.direct => added' = 0
  BY <1>1, <1>4 DEF WorkersInv, Placed
<1> QED
  BY <1>1, <1>3, <1>4, <1>5, FewerThreads

\* There is one first block.
LEMMA OneDirect ==
  ASSUME WorkersInv, NEW j \in Scheduled, NEW k \in Scheduled, j.direct, k.direct
  PROVE  j = k
<1>1. j.region = 1 /\ j.count = 1 /\ k.region = 1 /\ k.count = 1
  BY DEF WorkersInv, Placed
<1>2. ~ Apart(j, k)
  BY <1>1 DEF Apart
<1> QED
  BY <1>2 DEF WorkersInv

LEMMA FinishFirstWorkers ==
  ASSUME WorkersInv, NEW j \in running, FinishFirst(j)
  PROVE  WorkersInv'
<1>1. /\ UNCHANGED <<shape, region, jobs, batch, pc>>
      /\ running' = running \ {j} /\ added' = 1 /\ j.direct
  BY DEF FinishFirst
<1>2. BlockCount' = BlockCount /\ Workers' = Workers /\ Jobs' = Jobs
  BY <1>1, SameGeometry
<1>3. dst' \in [1 .. shape.larger + shape.smaller -> SUBSET (Nat \X Nat)]
  <2>1. dst \in [1 .. shape.larger + shape.smaller -> SUBSET (Nat \X Nat)]
    BY DEF WorkersInv, TypeOK
  <2>2. \A i \in 1 .. shape.larger + shape.smaller : {<<1, i>>} \in SUBSET (Nat \X Nat)
    BY WorkersTypes, ShapeFacts
  <2> QED
    BY <2>1, <2>2 DEF FinishFirst
<1>4. TypeOK'
  BY <1>1, <1>2, <1>3, WorkersTypes DEF WorkersInv, TypeOK
<1>5. j \notin Scheduled' /\ Scheduled' \subseteq Scheduled /\ (jobs \intersect running)' = {}
  BY <1>1 DEF WorkersInv, Scheduled
<1>6. \A k \in Scheduled' : ~ k.direct
  BY <1>1, <1>5, OneDirect DEF Scheduled
<1>7. \A k \in running' : k.count = 1
  BY <1>1 DEF WorkersInv
<1> QED
  BY <1>1, <1>4, <1>5, <1>6, <1>7, FewerThreads

LEMMA FinishWorkers ==
  ASSUME WorkersInv, NEW j \in running, Finish(j)
  PROVE  WorkersInv'
<1>1. /\ UNCHANGED <<shape, dst, jobs, batch, added, pc>>
      /\ running' = running \ {j} /\ region' = [region EXCEPT ![j.region] = j.first]
  BY DEF Finish
<1>2. BlockCount' = BlockCount /\ Workers' = Workers /\ Jobs' = Jobs
  BY <1>1, SameGeometry
<1>3. TypeOK'
  <2>1. j.first \in 0 .. BlockCount /\ region \in [1 .. Workers -> 0 .. BlockCount]
    BY WorkersTypes, SMTT(30) DEF WorkersInv, TypeOK, Jobs
  <2>2. region' \in [1 .. Workers -> 0 .. BlockCount]
    BY <1>1, <2>1
  <2> QED
    BY <1>1, <1>2, <2>2 DEF WorkersInv, TypeOK
<1>4. Scheduled' \subseteq Scheduled /\ (jobs \intersect running)' = {}
  BY <1>1 DEF WorkersInv, Scheduled
<1>5. \A k \in Scheduled' : k.direct => added' = 0
  BY <1>1, <1>4 DEF WorkersInv, Placed
<1>6. \A k \in running' : k.count = 1
  BY <1>1 DEF WorkersInv
<1> QED
  BY <1>1, <1>3, <1>4, <1>5, <1>6, FewerThreads

\* Steps between batches move no thread.
LEMMA QuietWorkers ==
  ASSUME WorkersInv, TypeOK', Scheduled = {}, UNCHANGED <<shape, jobs, running, batch>>
  PROVE  WorkersInv'
<1>1. Scheduled' = {}
  BY DEF Scheduled
<1>2. BlockCount' = BlockCount /\ Workers' = Workers
  BY SameGeometry
<1> QED
  BY <1>1, <1>2 DEF WorkersInv, BatchFits, ChildBudgetFits, Scheduled

LEMMA JoinWorkers == WorkersInv /\ Join => WorkersInv'
<1> SUFFICES ASSUME WorkersInv, Join PROVE WorkersInv'
  OBVIOUS
<1>1. /\ UNCHANGED <<shape, dst, region, jobs, running, batch, added>>
      /\ pc' = "accumulate" /\ Scheduled = {}
  BY DEF Join, Scheduled
<1>2. TypeOK'
  BY <1>1, SameGeometry DEF WorkersInv, TypeOK
<1> QED
  BY <1>1, <1>2, QuietWorkers

LEMMA ReturnWorkers == WorkersInv /\ Return => WorkersInv'
<1> SUFFICES ASSUME WorkersInv, Return PROVE WorkersInv'
  OBVIOUS
<1>1. /\ UNCHANGED <<shape, dst, region, jobs, running, batch, added>>
      /\ pc' = "done" /\ Scheduled = {}
  BY DEF Return, WorkersInv
<1>2. TypeOK'
  BY <1>1, SameGeometry DEF WorkersInv, TypeOK
<1> QED
  BY <1>1, <1>2, QuietWorkers

\* The block added next, and where its product is.
LEMMA NextBlock ==
  ASSUME WorkersInv, AddedInOrder, pc = "accumulate", added + 1 < batch.first + batch.count
  PROVE  /\ added + 1 \in 1 .. BlockCount
         /\ added + 1 \in batch.first .. batch.first + batch.count - 1
         /\ Place(added + 1) \in 1 .. Workers
         /\ Place(added + 1) = batch.region + (added + 1 - batch.first)
BY WorkersTypes DEF AddedInOrder, Place

LEMMA AccumulateWorkers ==
  ASSUME WorkersInv, AddedInOrder, AccumulateBlock
  PROVE  WorkersInv'
<1>1. /\ UNCHANGED <<shape, region, jobs, running, batch, pc>> /\ pc = "accumulate"
      /\ added' = added + 1 /\ Scheduled = {}
  BY DEF AccumulateBlock, WorkersInv
<1>2. dst' = Extended(added + 1, Place(added + 1))
  <2>1. dst' = Extended(added + 1, batch.region + (added + 1 - batch.first))
    BY DEF AccumulateBlock
  <2>2. Place(added + 1) = batch.region + (added + 1 - batch.first)
    BY NextBlock DEF AccumulateBlock
  <2> QED
    BY <2>1, <2>2
<1>3. added + 1 \in 1 .. BlockCount /\ Place(added + 1) \in 1 .. Workers
  BY NextBlock DEF AccumulateBlock
<1>4. dst' \in [1 .. shape.larger + shape.smaller -> SUBSET (Nat \X Nat)]
  <2>1. dst \in [1 .. shape.larger + shape.smaller -> SUBSET (Nat \X Nat)]
    BY DEF WorkersInv, TypeOK
  <2>2. region[Place(added + 1)] \in Nat /\ Offset(added + 1) \in Nat
    BY <1>3, WorkersTypes, BlockFacts DEF WorkersInv, TypeOK
  <2>3. \A i \in 1 .. shape.larger + shape.smaller :
          Offset(added + 1) < i =>
            {<<region[Place(added + 1)], i - Offset(added + 1)>>} \in SUBSET (Nat \X Nat)
    BY <2>2, WorkersTypes, ShapeFacts
  <2>4. Offset(added + 1) + shape.smaller >= Offset(added + 1)
    BY <2>2, WorkersTypes, ShapeFacts
  <2>5. \A i \in 1 .. shape.larger + shape.smaller : dst'[i] \in SUBSET (Nat \X Nat)
    <3> SUFFICES ASSUME NEW i \in 1 .. shape.larger + shape.smaller
                 PROVE  dst'[i] \in SUBSET (Nat \X Nat)
      OBVIOUS
    <3> DEFINE at == Offset(added + 1)
               limb == {<<region[Place(added + 1)], i - at>>}
    <3>1. dst'[i] = IF at < i /\ i <= at + shape.smaller THEN dst[i] \union limb
                    ELSE IF at + shape.smaller < i
                            /\ i <= at + shape.smaller + BlockSize(added + 1) THEN limb
                    ELSE dst[i]
      BY <1>2, <2>1 DEF Extended
    <3>2. i \in Nat /\ shape.smaller \in Nat /\ at \in Nat
      BY <2>2, WorkersTypes, ShapeFacts
    <3>3. dst[i] \in SUBSET (Nat \X Nat) /\ (at < i => limb \in SUBSET (Nat \X Nat))
      BY <2>1, <2>3
    <3> HIDE DEF at, limb
    <3>4. at + shape.smaller < i => at < i
      BY <3>2
    <3> QED
      BY <3>1, <3>3, <3>4
  <2> QED
    BY <1>2, <2>1, <2>5 DEF Extended
<1>5. TypeOK'
  <2>1. BlockCount' = BlockCount /\ Workers' = Workers /\ Jobs' = Jobs
    BY <1>1, SameGeometry
  <2>2. added' \in 0 .. BlockCount
    BY <1>1, <1>3
  <2> QED
    BY <1>1, <1>4, <2>1, <2>2 DEF WorkersInv, TypeOK
<1> QED
  BY <1>1, <1>5, QuietWorkers

LEMMA NextBatchWorkers ==
  ASSUME WorkersInv, NextBatch
  PROVE  WorkersInv'
<1> DEFINE count == Smaller(BlockCount - added, Workers)
<1>1. /\ UNCHANGED <<shape, dst, region, running, added>> /\ pc' = "multiply"
      /\ added < BlockCount /\ Scheduled = {} /\ running = {}
      /\ batch' = [first |-> added + 1, count |-> count, region |-> 1]
      /\ jobs' = {Part(added + 1, count, 1)}
  BY DEF NextBatch, WorkersInv, Part, Scheduled
<1>2. BlockCount' = BlockCount /\ Workers' = Workers /\ Jobs' = Jobs
      /\ ChildParallelism' = ChildParallelism
  BY <1>1, SameGeometry
<1>3. /\ count \in 1 .. BlockCount /\ count \in 0 .. Workers
      /\ added + 1 \in 1 .. BlockCount /\ 1 \in 1 .. Workers
      /\ added + 1 + count <= BlockCount + 1
  BY <1>1, WorkersTypes DEF Smaller
<1> HIDE DEF count
<1>4. PICK j \in Jobs :
        /\ j = Part(added + 1, count, 1) /\ j.budget <= ChildParallelism
        /\ j.first = added + 1 /\ j.count = count /\ j.region = 1 /\ ~ j.direct
  BY <1>3, WorkersTypes, PartFacts
<1>5. jobs' = {j} /\ Scheduled' = {j} /\ running' = {}
  BY <1>1, <1>4 DEF Scheduled
<1>6. batch'.first = added + 1 /\ batch'.count = count /\ batch'.region = 1
  BY <1>1
<1>7. batch' \in [first : 1 .. BlockCount + 1, count : 0 .. Workers, region : 1 .. 2]
  BY <1>1, <1>3, WorkersTypes
<1>8. TypeOK'
  BY <1>1, <1>2, <1>5, <1>7 DEF WorkersInv, TypeOK
<1>9. BatchFits'
  BY <1>2, <1>3, <1>6, WorkersTypes DEF BatchFits
<1>10. \A k \in Scheduled' : Placed(k)'
  BY <1>3, <1>4, <1>5, <1>6, WorkersTypes DEF Placed
<1>11. ChildBudgetFits'
  BY <1>2, <1>4, <1>5 DEF ChildBudgetFits, Scheduled
<1> QED
  BY <1>1, <1>5, <1>8, <1>9, <1>10, <1>11 DEF WorkersInv

-----------------------------------------------------------------------------
(* What is added when, and where the products of a batch are.              *)

LEMMA OrderInit == ProductInit => AddedInOrder
<1> SUFFICES ASSUME ProductInit PROVE AddedInOrder
  OBVIOUS
<1>1. FirstJob \in Scheduled
  BY DEF ProductInit, Scheduled, FirstJob
<1>2. FirstJob.direct
  BY FirstJobFacts DEF ProductInit
<1> QED
  BY <1>1, <1>2 DEF ProductInit, AddedInOrder

LEMMA OrderStep ==
  ASSUME WorkersInv, AddedInOrder, ProductNext
  PROVE  AddedInOrder'
<1> USE WorkersTypes
<1>1. ASSUME NEW j \in jobs, Fork(j) PROVE AddedInOrder'
  <2>1. UNCHANGED <<batch, added, pc, shape>> /\ ~ j.direct /\ jobs \ {j} \subseteq jobs'
        /\ running' = running /\ pc = "multiply"
    <3>1. j \in Scheduled /\ j.count > 1
      BY <1>1 DEF Fork, Scheduled
    <3>2. ~ j.direct
      BY <3>1 DEF WorkersInv, Placed
    <3>3. pc = "multiply"
      BY <3>1 DEF WorkersInv
    <3> QED
      BY <1>1, <3>2, <3>3 DEF Fork
  <2>2. \A k \in Scheduled : k.direct => k \in Scheduled'
    BY <2>1 DEF Scheduled
  <2> QED
    BY <2>1, <2>2 DEF AddedInOrder
<1>2. ASSUME NEW j \in jobs, Begin(j) PROVE AddedInOrder'
  <2>1. UNCHANGED <<batch, added, pc, shape>> /\ Scheduled' = Scheduled /\ pc = "multiply"
    BY <1>2 DEF Begin, Scheduled, WorkersInv
  <2> QED
    BY <2>1 DEF AddedInOrder
<1>3. ASSUME NEW j \in running, FinishFirst(j) PROVE AddedInOrder'
  <2>1. UNCHANGED <<batch, pc, shape>> /\ added' = 1 /\ j \in Scheduled /\ j.direct
        /\ pc = "multiply"
    BY <1>3 DEF FinishFirst, Scheduled, WorkersInv
  <2>2. batch.first = 2
    BY <2>1 DEF WorkersInv, Placed, AddedInOrder
  <2> QED
    BY <2>1, <2>2 DEF AddedInOrder
<1>4. ASSUME NEW j \in running, Finish(j) PROVE AddedInOrder'
  <2>1. UNCHANGED <<batch, added, pc, shape>> /\ ~ j.direct /\ pc = "multiply"
    BY <1>4 DEF Finish, Scheduled, WorkersInv
  <2>2. \A k \in Scheduled : k.direct => k \in Scheduled'
    BY <1>4, <2>1 DEF Finish, Scheduled
  <2> QED
    BY <2>1, <2>2 DEF AddedInOrder
<1>5. CASE Join
  <2>1. UNCHANGED <<batch, added, shape>> /\ Scheduled = {} /\ pc = "multiply"
        /\ pc' = "accumulate"
    BY <1>5 DEF Join, Scheduled
  <2> QED
    BY <2>1 DEF AddedInOrder
<1>6. CASE AccumulateBlock
  BY <1>6 DEF AccumulateBlock, AddedInOrder
<1>7. CASE NextBatch
  <2>1. /\ batch'.first = added + 1 /\ batch'.region = 1 /\ added' = added
        /\ pc' = "multiply"
    BY <1>7 DEF NextBatch
  <2>2. added >= 1
    BY <1>7 DEF NextBatch, AddedInOrder
  <2> QED
    BY <2>1, <2>2 DEF AddedInOrder
<1>8. CASE Return
  <2>1. BlockCount' = BlockCount
    BY <1>8, SameGeometry DEF Return
  <2> QED
    BY <1>8, <2>1 DEF Return, AddedInOrder
<1> QED
  BY <1>1, <1>2, <1>3, <1>4, <1>5, <1>6, <1>7, <1>8 DEF ProductNext

LEMMA CoveredInit == ProductInit => Covered
<1> SUFFICES ASSUME ProductInit PROVE Covered
  OBVIOUS
<1>1. /\ shape \in Shapes /\ BlockCount \in Nat /\ BlockCount >= 1
      /\ Workers \in Nat /\ Workers >= 1 /\ Workers <= BlockCount
  BY BlockCountFacts, WorkerFacts, ShapeFacts DEF ProductInit
<1>2. Companions \in 0 .. Workers - 1 /\ Companions <= BlockCount - 1
  BY <1>1 DEF Companions, Smaller
<1>3. batch.first = 2 /\ batch.count = Companions
  BY DEF ProductInit
<1> SUFFICES ASSUME NEW b \in 2 .. 2 + Companions - 1 PROVE \E j \in Scheduled : Covers(j, b)
  BY <1>3 DEF Covered
<1>4. /\ Companions # 0 /\ 2 \in 1 .. BlockCount /\ 2 \in 1 .. Workers
      /\ Companions \in 1 .. BlockCount
  BY <1>1, <1>2
<1>5. Part(2, Companions, 2) \in Scheduled
  BY <1>4 DEF ProductInit, Scheduled, Part
<1>6. Covers(Part(2, Companions, 2), b)
  BY <1>1, <1>4, PartFacts DEF Covers
<1> QED
  BY <1>5, <1>6

LEMMA CoveredStep ==
  ASSUME WorkersInv, AddedInOrder, Covered, ProductNext
  PROVE  Covered'
<1> USE WorkersTypes
<1>1. ASSUME NEW j \in jobs, Fork(j) PROVE Covered'
  <2> DEFINE right == j.count \div 2
             left == j.count - right
  <2>1. /\ j \in Scheduled /\ j.first \in Nat /\ j.first >= 1 /\ j.count \in Nat /\ j.count > 1
        /\ j.region \in 1 .. Workers /\ j.region + j.count <= Workers + 1 /\ Placed(j)
    BY <1>1, ThreadFacts DEF Fork, Scheduled
  <2>2. j.first + j.count <= BlockCount + 1
    BY <2>1 DEF Placed
  <2>3. left \in Nat /\ right \in Nat /\ left >= 1 /\ right >= 1 /\ left + right = j.count
    BY <2>1
  <2>4. /\ UNCHANGED <<region, batch, running>>
        /\ jobs' = (jobs \ {j}) \union
             {Part(j.first, left, j.region), Part(j.first + left, right, j.region + left)}
    BY <1>1 DEF Fork, Part
  <2> HIDE DEF left, right
  <2>5. PICK l : /\ l = Part(j.first, left, j.region)
                 /\ l.first = j.first /\ l.count = left /\ ~ l.direct
    <3>1. /\ j.first \in 1 .. BlockCount /\ left \in 1 .. BlockCount
          /\ j.region \in 1 .. Workers
      BY <2>1, <2>2, <2>3
    <3> QED
      BY <3>1, PartFacts
  <2>6. PICK r : /\ r = Part(j.first + left, right, j.region + left)
                 /\ r.first = j.first + left /\ r.count = right /\ ~ r.direct
    <3>1. /\ j.first + left \in 1 .. BlockCount /\ right \in 1 .. BlockCount
          /\ j.region + left \in 1 .. Workers
      BY <2>1, <2>2, <2>3
    <3> QED
      BY <3>1, PartFacts
  <2>7. l \in Scheduled' /\ r \in Scheduled' /\ Scheduled \ {j} \subseteq Scheduled'
    BY <2>4, <2>5, <2>6 DEF Scheduled
  <2>8. \A b \in Int : Covers(j, b) => Covers(l, b) \/ Covers(r, b)
    BY <2>1, <2>3, <2>5, <2>6 DEF Covers
  <2>9. \A b \in Int : (\E k \in Scheduled : Covers(k, b)) => \E k \in Scheduled' : Covers(k, b)
    BY <2>7, <2>8
  <2> QED
    BY <2>4, <2>9 DEF Covered, Place
<1>2. ASSUME NEW j \in jobs, Begin(j) PROVE Covered'
  <2>1. UNCHANGED batch /\ Scheduled' = Scheduled /\ j \in Scheduled /\ j.count = 1
        /\ region' = IF j.direct THEN region ELSE [region EXCEPT ![j.region] = 0]
    BY <1>2 DEF Begin, Scheduled
  <2>2. CASE j.direct
    BY <2>1, <2>2 DEF Covered, Place
  <2>3. CASE ~ j.direct
    <3>1. j.first \in Nat /\ j.region \in Nat /\ j.first - batch.first = j.region - batch.region
      BY <2>1, <2>3, ThreadFacts DEF Placed
    <3> SUFFICES ASSUME NEW b \in batch.first .. batch.first + batch.count - 1
                 PROVE  region'[Place(b)] = b \/ \E k \in Scheduled : Covers(k, b)
      BY <2>1 DEF Covered, Place
    <3>2. CASE b = j.first
      BY <2>1, <2>3, <3>1, <3>2 DEF Covers
    <3>3. CASE b # j.first
      <4>1. Place(b) # j.region
        BY <3>1, <3>3 DEF Place
      <4>2. region'[Place(b)] = region[Place(b)]
        <5>1. Place(b) \in 1 .. Workers
          BY DEF Place
        <5> QED
          BY <2>1, <2>3, <4>1, <5>1 DEF WorkersInv, TypeOK
      <4> QED
        BY <4>2 DEF Covered
    <3> QED
      BY <3>2, <3>3
  <2> QED
    BY <2>2, <2>3
<1>3. ASSUME NEW j \in running, FinishFirst(j) PROVE Covered'
  <2>1. UNCHANGED <<region, batch>> /\ j.direct /\ Scheduled \ {j} \subseteq Scheduled'
    BY <1>3 DEF FinishFirst, Scheduled
  <2> QED
    BY <2>1 DEF Covered, Covers, Place
<1>4. ASSUME NEW j \in running, Finish(j) PROVE Covered'
  <2>1. UNCHANGED batch /\ j \in Scheduled /\ ~ j.direct /\ Scheduled \ {j} \subseteq Scheduled'
        /\ region' = [region EXCEPT ![j.region] = j.first] /\ j.count = 1
    BY <1>4 DEF Finish, Scheduled, WorkersInv
  <2>2. /\ j.first \in Nat /\ j.region \in 1 .. Workers
        /\ j.first - batch.first = j.region - batch.region
    BY <2>1, ThreadFacts DEF Placed
  <2> SUFFICES ASSUME NEW b \in batch.first .. batch.first + batch.count - 1
               PROVE  region'[Place(b)] = b \/ \E k \in Scheduled' : Covers(k, b)
    BY <2>1 DEF Covered, Place
  <2>3. Place(b) \in 1 .. Workers /\ region \in [1 .. Workers -> 0 .. BlockCount]
    <3>1. Place(b) \in 1 .. Workers
      BY DEF Place
    <3> QED
      BY <3>1 DEF WorkersInv, TypeOK
  <2>4. CASE b = j.first
    <3>1. Place(b) = j.region
      BY <2>2, <2>4 DEF Place
    <3> QED
      BY <2>1, <2>3, <2>4, <3>1
  <2>5. CASE b # j.first
    <3>1. Place(b) # j.region
      BY <2>2, <2>5 DEF Place
    <3>2. region'[Place(b)] = region[Place(b)]
      BY <2>1, <2>3, <3>1
    <3>3. ~ Covers(j, b)
      BY <2>1, <2>2, <2>5 DEF Covers
    <3> QED
      BY <2>1, <3>2, <3>3 DEF Covered
  <2> QED
    BY <2>4, <2>5
<1>5. CASE Join \/ AccumulateBlock \/ Return
  <2>1. UNCHANGED <<region, batch, jobs, running>>
    BY <1>5 DEF Join, AccumulateBlock, Return
  <2> QED
    BY <2>1 DEF Covered, Place, Scheduled
<1>6. CASE NextBatch
  <2> DEFINE count == Smaller(BlockCount - added, Workers)
  <2>1. /\ batch'.first = added + 1 /\ batch'.count = count
        /\ Part(added + 1, count, 1) \in Scheduled'
    BY <1>6 DEF NextBatch, Scheduled, Part
  <2>2. /\ count \in 1 .. BlockCount /\ added + 1 \in 1 .. BlockCount /\ 1 \in 1 .. Workers
    BY <1>6 DEF NextBatch, Smaller
  <2> HIDE DEF count
  <2>3. \A b \in added + 1 .. added + 1 + count - 1 : Covers(Part(added + 1, count, 1), b)
    BY <2>2, PartFacts DEF Covers
  <2> QED
    BY <2>1, <2>3 DEF Covered
<1> QED
  BY <1>1, <1>2, <1>3, <1>4, <1>5, <1>6 DEF ProductNext

-----------------------------------------------------------------------------
(* The destination.                                                        *)

\* The product of n blocks is that of n - 1 and the limbs of the n-th.
LEMMA ColumnsNext ==
  ASSUME shape \in Shapes, NEW n \in 1 .. BlockCount, NEW i \in Nat
  PROVE  Columns(n, i) =
           IF Offset(n) < i /\ i <= Offset(n) + BlockSize(n) + shape.smaller
           THEN Columns(n - 1, i) \union {<<n, i - Offset(n)>>}
           ELSE Columns(n - 1, i)
<1>1. 1 .. n = (1 .. n - 1) \union {n}
  BY BlockCountFacts
<1> DEFINE Reach(c) == Offset(c) < i /\ i <= Offset(c) + BlockSize(c) + shape.smaller
<1>2. \A m : Columns(m, i) = {<<c, i - Offset(c)>> : c \in {c \in 1 .. m : Reach(c)}}
  BY DEF Columns
<1> HIDE DEF Reach
<1>3. CASE Reach(n)
  <2>1. {c \in 1 .. n : Reach(c)} = {c \in 1 .. n - 1 : Reach(c)} \union {n}
    BY <1>1, <1>3
  <2>2. Columns(n, i) = Columns(n - 1, i) \union {<<n, i - Offset(n)>>}
    BY <1>2, <2>1
  <2> QED
    BY <1>3, <2>2 DEF Reach
<1>4. CASE ~ Reach(n)
  <2>1. {c \in 1 .. n : Reach(c)} = {c \in 1 .. n - 1 : Reach(c)}
    BY <1>1, <1>4
  <2>2. Columns(n, i) = Columns(n - 1, i)
    BY <1>2, <2>1
  <2> QED
    BY <1>4, <2>2 DEF Reach
<1> QED
  BY <1>3, <1>4

\* The frontier after n blocks is where the n+1-st is added, and the next is
\* as much further as the block is wide.
LEMMA FrontierFacts ==
  ASSUME shape \in Shapes, NEW n \in 1 .. BlockCount
  PROVE  /\ Frontier(n) = Offset(n) + BlockSize(n) + shape.smaller
         /\ n < BlockCount => Frontier(n) = Offset(n + 1) + shape.smaller
         /\ Frontier(1) = shape.block + shape.smaller /\ Offset(1) = 0
         /\ BlockSize(1) = shape.block /\ Frontier(0) = 0
<1>1. n # 0 /\ n \in Nat /\ BlockCount \in Nat /\ BlockCount >= 1 /\ 1 \in 1 .. BlockCount
  BY BlockCountFacts
<1>2. Frontier(n) = Offset(n) + BlockSize(n) + shape.smaller
  BY <1>1 DEF Frontier
<1>3. n < BlockCount => Frontier(n) = Offset(n + 1) + shape.smaller
  BY <1>1, <1>2, BlockFacts, OffsetNext
<1>4. Offset(1) = 0
  BY ShapeFacts DEF Offset
<1>5. BlockSize(1) = shape.block
  <2>1. CASE BlockCount = 1
    <3>1. shape.larger <= 1 * shape.block
      BY <2>1, BlockCountFacts
    <3>2. shape.larger = shape.block
      BY <3>1, ShapeFacts
    <3> QED
      BY <1>4, <2>1, <3>2, ShapeFacts DEF BlockSize
  <2>2. CASE BlockCount # 1
    BY <1>1, <2>2, BlockFacts
  <2> QED
    BY <2>1, <2>2
<1>6. Frontier(1) = shape.block + shape.smaller
  BY <1>4, <1>5, ShapeFacts DEF Frontier
<1>7. Frontier(0) = 0
  BY DEF Frontier
<1> QED
  BY <1>2, <1>3, <1>4, <1>5, <1>6, <1>7

\* No product reaches beyond the frontier.
LEMMA ColumnsBeyond ==
  ASSUME shape \in Shapes, NEW n \in 1 .. BlockCount, NEW i \in Nat, Frontier(n) < i
  PROVE  Columns(n, i) = {}
<1>1. \A c \in 1 .. n : Offset(c) + BlockSize(c) + shape.smaller <= Frontier(n)
  <2> SUFFICES ASSUME NEW c \in 1 .. n
               PROVE  Offset(c) + BlockSize(c) + shape.smaller <= Frontier(n)
    OBVIOUS
  <2>1. n \in Nat /\ BlockCount \in Nat /\ c \in 1 .. BlockCount /\ shape.smaller \in Nat
        /\ shape.block \in Nat
    BY BlockCountFacts, ShapeFacts
  <2>2. /\ Offset(c) \in Nat /\ BlockSize(c) \in 1 .. shape.block
        /\ Offset(n) \in Nat /\ BlockSize(n) \in 1 .. shape.block
    BY <2>1, BlockFacts
  <2>3. Frontier(n) = Offset(n) + BlockSize(n) + shape.smaller
    BY FrontierFacts
  <2>4. CASE c = n
    BY <2>1, <2>2, <2>3, <2>4
  <2>5. CASE c < n
    <3>1. Offset(c) + shape.block <= Offset(n)
      BY <2>1, <2>5, OffsetApart
    <3> QED
      BY <2>1, <2>2, <2>3, <3>1
  <2> QED
    BY <2>1, <2>4, <2>5
<1>2. Frontier(n) \in Int
  <2>1. Offset(n) \in Nat /\ BlockSize(n) \in 1 .. shape.block
    BY BlockFacts
  <2> QED
    BY <2>1, FrontierFacts, ShapeFacts
<1>3. \A c \in 1 .. n : ~ (i <= Offset(c) + BlockSize(c) + shape.smaller)
  <2>1. \A c \in 1 .. n : Offset(c) + BlockSize(c) + shape.smaller \in Int
    BY BlockFacts, BlockCountFacts, ShapeFacts
  <2> QED
    BY <1>1, <1>2, <2>1
<1> QED
  BY <1>3 DEF Columns

LEMMA SameColumns ==
  ASSUME shape' = shape
  PROVE  /\ \A n, i : Columns(n, i)' = Columns(n, i)
         /\ \A n : Frontier(n)' = Frontier(n)
BY SameGeometry DEF Columns, Frontier, Offset, BlockSize

LEMMA PrefixInit == ProductInit => PrefixIsProduct
<1> SUFFICES ASSUME ProductInit, NEW i \in DOMAIN dst
             PROVE  dst[i] = IF i <= Frontier(added) THEN Columns(added, i) ELSE Junk
  BY DEF PrefixIsProduct
<1>1. i \in 1 .. shape.larger + shape.smaller /\ dst[i] = Junk /\ added = 0
  BY DEF ProductInit
<1>2. ~ (i <= Frontier(added))
  BY <1>1, ShapeFacts DEF ProductInit, Frontier
<1> QED
  BY <1>1, <1>2

LEMMA PrefixFirst ==
  ASSUME WorkersInv, PrefixIsProduct, NEW j \in running, FinishFirst(j)
  PROVE  PrefixIsProduct'
<1>1. /\ shape' = shape /\ added' = 1 /\ added = 0 /\ DOMAIN dst' = DOMAIN dst
      /\ \A i \in DOMAIN dst :
           dst'[i] = IF i <= shape.block + shape.smaller THEN {<<1, i>>} ELSE dst[i]
  <2>1. added = 0
    BY DEF FinishFirst, Scheduled, WorkersInv, Placed
  <2> QED
    BY <2>1 DEF FinishFirst
<1>2. DOMAIN dst = 1 .. shape.larger + shape.smaller
  BY DEF WorkersInv, TypeOK
<1>3. /\ shape \in Shapes /\ 1 \in 1 .. BlockCount /\ shape.larger + shape.smaller \in Nat
      /\ shape.block + shape.smaller \in Nat /\ shape.smaller \in Nat /\ shape.block \in Nat
  BY WorkersTypes, ShapeFacts
<1>4. /\ Frontier(1) = shape.block + shape.smaller /\ Frontier(0) = 0
      /\ Offset(1) = 0 /\ BlockSize(1) = shape.block
  BY <1>3, FrontierFacts
<1> SUFFICES ASSUME NEW i \in DOMAIN dst
             PROVE  dst'[i] = IF i <= Frontier(1) THEN Columns(1, i) ELSE Junk
  BY <1>1, SameColumns DEF PrefixIsProduct, Junk
<1>5. i \in Nat /\ i >= 1
  BY <1>2, <1>3
<1>6. CASE i <= Frontier(1)
  <2>1. Columns(0, i) = {}
    BY DEF Columns
  <2>2. Offset(1) < i /\ i <= Offset(1) + BlockSize(1) + shape.smaller /\ i - Offset(1) = i
    BY <1>3, <1>4, <1>5, <1>6
  <2>3. Columns(1, i) = Columns(1 - 1, i) \union {<<1, i - Offset(1)>>}
    BY <1>3, <1>5, <2>2, ColumnsNext
  <2>4. Columns(1, i) = {<<1, i>>}
    BY <2>1, <2>2, <2>3
  <2> QED
    BY <1>1, <1>4, <1>6, <2>4
<1>7. CASE ~ (i <= Frontier(1))
  <2>1. dst[i] = Junk
    BY <1>1, <1>4, <1>5 DEF PrefixIsProduct
  <2> QED
    BY <1>1, <1>4, <1>7, <2>1
<1> QED
  BY <1>6, <1>7

LEMMA PrefixAccumulate ==
  ASSUME WorkersInv, AddedInOrder, Covered, PrefixIsProduct, AccumulateBlock
  PROVE  PrefixIsProduct'
<1> DEFINE b == added + 1
           at == Offset(b)
<1>1. /\ shape' = shape /\ added' = b /\ DOMAIN dst' = DOMAIN dst
      /\ pc = "accumulate" /\ Scheduled = {} /\ b < batch.first + batch.count
  BY DEF AccumulateBlock, Extended, WorkersInv
<1>2. /\ b \in 1 .. BlockCount /\ b \in batch.first .. batch.first + batch.count - 1
      /\ Place(b) = batch.region + (added + 1 - batch.first)
  BY NextBlock DEF AccumulateBlock
<1>3. region[Place(b)] = b
  BY <1>1, <1>2 DEF Covered
<1>4. /\ added \in 1 .. BlockCount /\ added < BlockCount /\ b - 1 = added
      /\ shape \in Shapes /\ BlockCount \in Nat /\ b \in Nat
  BY <1>1, <1>2, WorkersTypes DEF AddedInOrder
<1>5. /\ at \in Nat /\ BlockSize(b) \in Nat /\ BlockSize(b) >= 1
      /\ shape.smaller \in Nat /\ shape.smaller >= 1 /\ shape.larger \in Nat
  BY <1>2, <1>4, BlockFacts, ShapeFacts
<1>6. /\ Frontier(added) = at + shape.smaller
      /\ Frontier(b) = at + BlockSize(b) + shape.smaller
  BY <1>2, <1>4, FrontierFacts
<1>7. \A i \in DOMAIN dst :
        dst'[i] = IF at < i /\ i <= at + shape.smaller THEN dst[i] \union {<<b, i - at>>}
                  ELSE IF at + shape.smaller < i /\ i <= at + shape.smaller + BlockSize(b)
                  THEN {<<b, i - at>>}
                  ELSE dst[i]
  <2>1. dst' = Extended(b, batch.region + (added + 1 - batch.first))
    BY DEF AccumulateBlock
  <2>2. dst' = Extended(b, Place(b))
    BY <1>2, <2>1
  <2> QED
    BY <1>3, <2>2 DEF Extended
<1> HIDE DEF b
<1> SUFFICES ASSUME NEW i \in DOMAIN dst
             PROVE  dst'[i] = IF i <= Frontier(b) THEN Columns(b, i) ELSE Junk
  BY <1>1, SameColumns DEF PrefixIsProduct, Junk
<1>8. i \in Nat
  BY <1>5 DEF WorkersInv, TypeOK
<1>9. dst[i] = IF i <= Frontier(added) THEN Columns(added, i) ELSE Junk
  BY DEF PrefixIsProduct
<1>10. Columns(b, i) =
         IF at < i /\ i <= at + BlockSize(b) + shape.smaller
         THEN Columns(added, i) \union {<<b, i - at>>} ELSE Columns(added, i)
  BY <1>2, <1>4, <1>8, ColumnsNext
<1>11. Frontier(added) < i => Columns(added, i) = {}
  BY <1>4, <1>8, ColumnsBeyond
<1> HIDE DEF at
<1>12. CASE i <= at
  <2>1. /\ ~ (at < i) /\ ~ (at + shape.smaller < i)
        /\ i <= at + shape.smaller /\ i <= at + BlockSize(b) + shape.smaller
    BY <1>5, <1>8, <1>12
  <2>2. dst'[i] = dst[i] /\ Columns(b, i) = Columns(added, i)
    BY <1>7, <1>10, <2>1
  <2> QED
    BY <1>6, <1>9, <2>1, <2>2
<1>13. CASE at < i /\ i <= at + shape.smaller
  <2>1. i <= at + BlockSize(b) + shape.smaller
    BY <1>5, <1>8, <1>13
  <2>2. dst'[i] = Columns(added, i) \union {<<b, i - at>>}
    BY <1>6, <1>7, <1>9, <1>13
  <2> QED
    BY <1>6, <1>10, <1>13, <2>1, <2>2
<1>14. CASE at + shape.smaller < i /\ i <= at + BlockSize(b) + shape.smaller
  <2>1. at < i /\ ~ (i <= at + shape.smaller) /\ i <= at + shape.smaller + BlockSize(b)
    BY <1>5, <1>8, <1>14
  <2>2. dst'[i] = {<<b, i - at>>}
    BY <1>7, <1>14, <2>1
  <2>3. Columns(b, i) = {<<b, i - at>>}
    BY <1>6, <1>10, <1>11, <1>14, <2>1
  <2> QED
    BY <1>6, <1>14, <2>2, <2>3
<1>15. CASE at + BlockSize(b) + shape.smaller < i
  <2>1. /\ ~ (i <= at + shape.smaller) /\ ~ (i <= at + shape.smaller + BlockSize(b))
        /\ ~ (i <= at + BlockSize(b) + shape.smaller)
    BY <1>5, <1>8, <1>15
  <2>2. dst'[i] = dst[i]
    BY <1>7, <2>1
  <2> QED
    BY <1>6, <1>9, <2>1, <2>2
<1> QED
  BY <1>5, <1>8, <1>12, <1>13, <1>14, <1>15

-----------------------------------------------------------------------------
(* The theorems.                                                           *)

LEMMA InvariantInit == ProductInit => IInv
BY WorkersInit, OrderInit, CoveredInit, PrefixInit DEF IInv

LEMMA WorkersStep ==
  ASSUME WorkersInv, AddedInOrder, ProductNext
  PROVE  WorkersInv'
<1>1. ASSUME NEW j \in jobs, Fork(j) \/ Begin(j) PROVE WorkersInv'
  BY <1>1, ForkWorkers, BeginWorkers
<1>2. ASSUME NEW j \in running, FinishFirst(j) \/ Finish(j) PROVE WorkersInv'
  BY <1>2, FinishFirstWorkers, FinishWorkers
<1>3. CASE Join \/ AccumulateBlock \/ NextBatch \/ Return
  BY <1>3, JoinWorkers, AccumulateWorkers, NextBatchWorkers, ReturnWorkers
<1> QED
  BY <1>1, <1>2, <1>3 DEF ProductNext

LEMMA PrefixStep ==
  ASSUME IInv, ProductNext
  PROVE  PrefixIsProduct'
<1>1. ASSUME UNCHANGED <<shape, dst, added>> PROVE PrefixIsProduct'
  BY <1>1, SameColumns DEF IInv, PrefixIsProduct, Junk
<1>2. ASSUME NEW j \in jobs, Fork(j) \/ Begin(j) PROVE UNCHANGED <<shape, dst, added>>
  BY <1>2 DEF Fork, Begin
<1>3. ASSUME NEW j \in running, Finish(j) PROVE UNCHANGED <<shape, dst, added>>
  BY <1>3 DEF Finish
<1>4. ASSUME NEW j \in running, FinishFirst(j) PROVE PrefixIsProduct'
  BY <1>4, PrefixFirst DEF IInv
<1>5. CASE AccumulateBlock
  BY <1>5, PrefixAccumulate DEF IInv
<1>6. CASE Join \/ NextBatch \/ Return
  BY <1>1, <1>6 DEF Join, NextBatch, Return
<1> QED
  BY <1>1, <1>2, <1>3, <1>4, <1>5, <1>6 DEF ProductNext

LEMMA InvariantStep == IInv /\ [ProductNext]_productVars => IInv'
<1> SUFFICES ASSUME IInv, [ProductNext]_productVars PROVE IInv'
  OBVIOUS
<1>1. CASE ProductNext
  BY <1>1, WorkersStep, OrderStep, CoveredStep, PrefixStep DEF IInv
<1>2. CASE UNCHANGED productVars
  <2>1. /\ UNCHANGED <<shape, dst, region, jobs, running, batch, added, pc>>
        /\ Scheduled' = Scheduled /\ BlockCount' = BlockCount /\ Workers' = Workers
        /\ Jobs' = Jobs /\ ChildParallelism' = ChildParallelism
    BY <1>2, SameGeometry DEF productVars, Scheduled
  <2>2. TypeOK' /\ ChildBudgetFits'
    BY <2>1 DEF IInv, WorkersInv, TypeOK, ChildBudgetFits
  <2>3. BatchFits' /\ \A j : Placed(j)' = Placed(j)
    BY <2>1 DEF IInv, WorkersInv, BatchFits, Placed
  <2>4. WorkersInv'
    BY <2>1, <2>2, <2>3 DEF IInv, WorkersInv, Apart
  <2>5. Covered' /\ AddedInOrder'
    BY <2>1 DEF IInv, Covered, Place, AddedInOrder
  <2>6. PrefixIsProduct'
    BY <2>1, SameColumns DEF IInv, PrefixIsProduct, Junk
  <2> QED
    BY <2>4, <2>5, <2>6 DEF IInv
<1> QED
  BY <1>1, <1>2

LEMMA ProductInvariant == ProductSpec => []IInv
BY InvariantInit, InvariantStep, PTL DEF ProductSpec

\* For every shape of the operands, the jobs and the batch name blocks the
\* operand has and regions the scratch has.
THEOREM ProductTypeCorrect == ProductSpec => []TypeOK
<1>1. IInv => TypeOK
  BY DEF IInv, WorkersInv
<1> QED
  BY ProductInvariant, <1>1, PTL

\* For every shape of the operands and every order of the workers, no two of
\* them share scratch, and none reaches beyond it.
THEOREM WorkersShareNothing == ProductSpec => []RegionsExclusive
<1>1. IInv => RegionsExclusive
  <2> SUFFICES ASSUME IInv PROVE RegionsExclusive
    OBVIOUS
  <2>1. WorkersInv
    BY DEF IInv
  <2>2. \A j \in Scheduled : j.region + j.count - 1 <= shape.regions
    BY <2>1, ThreadFacts, WorkersTypes
  <2>3. \A j, k \in Scheduled : j # k => Apart(j, k)
    BY <2>1 DEF WorkersInv
  <2> QED
    BY <2>2, <2>3 DEF RegionsExclusive, Scheduled, Apart
<1> QED
  BY ProductInvariant, <1>1, PTL

\* A block is multiplied under no wider a budget than its region was sized for,
\* however many workers are wanted and however few the scratch has room for.
THEOREM ChildrenStayInBudget == ProductSpec => []ChildBudgetFits
<1>1. IInv => ChildBudgetFits
  BY DEF IInv, WorkersInv
<1> QED
  BY ProductInvariant, <1>1, PTL

\* For every shape of the operands, the destination is at every moment the product
\* of a prefix of the blocks: overlaps are read where they were written, products
\* where their own block left them.
THEOREM DestinationIsPrefixProduct == ProductSpec => []PrefixIsProduct
<1>1. IInv => PrefixIsProduct
  BY DEF IInv
<1> QED
  BY ProductInvariant, <1>1, PTL

\* A call that is done has added every block's limbs, each in its column.
THEOREM DoneIsWholeProduct ==
  ProductSpec => [](pc = "done" => \A i \in DOMAIN dst : dst[i] = Columns(BlockCount, i))
<1> DEFINE Whole == pc = "done" => \A i \in DOMAIN dst : dst[i] = Columns(BlockCount, i)
<1>1. IInv => Whole
  <2> SUFFICES ASSUME IInv, pc = "done", NEW i \in DOMAIN dst
               PROVE  dst[i] = Columns(BlockCount, i)
    OBVIOUS
  <2>1. added = BlockCount /\ WorkersInv
    BY DEF IInv, AddedInOrder
  <2>2. /\ shape \in Shapes /\ BlockCount \in Nat /\ BlockCount >= 1
        /\ DOMAIN dst = 1 .. shape.larger + shape.smaller
    BY <2>1, WorkersTypes DEF WorkersInv, TypeOK
  <2>3. Frontier(BlockCount) = shape.larger + shape.smaller
    <3>1. Frontier(BlockCount) = Offset(BlockCount) + BlockSize(BlockCount) + shape.smaller
      BY <2>2, FrontierFacts
    <3>2. BlockSize(BlockCount) = shape.larger - Offset(BlockCount)
      BY <2>2 DEF BlockSize
    <3>3. Offset(BlockCount) \in Nat
      BY <2>2, BlockFacts
    <3> QED
      BY <2>2, <3>1, <3>2, <3>3, ShapeFacts
  <2>4. i <= Frontier(BlockCount)
    BY <2>2, <2>3, ShapeFacts
  <2> QED
    BY <2>1, <2>4 DEF IInv, PrefixIsProduct
<1> QED
  BY ProductInvariant, <1>1, PTL

\* The workers of a batch neither share a region nor outgrow the budget it was
\* sized by, for every shape, worker count and interleaving.
THEOREM WorkersStayApart == ProductSpec => []WorkersApart
BY WorkersShareNothing, ChildrenStayInBudget, PTL DEF WorkersApart
=============================================================================

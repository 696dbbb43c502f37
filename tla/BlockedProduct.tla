---------------------------- MODULE BlockedProduct ----------------------------
(***************************************************************************)
(* The product of a long and a short operand, block by block, by several   *)
(* workers (Lopsided::mul, math/mul/lopsided.rs).  The first block is       *)
(* multiplied straight into the destination; every other one into the      *)
(* scratch region of a worker.  A batch has a block per worker: it is split *)
(* in halves by fork and join, and when all of it has been joined its       *)
(* products are added to the destination in block order, each onto the     *)
(* smaller_len limbs it shares with what is there and then beyond.         *)
(*                                                                         *)
(* A limb of a product is the pair of its block and its place in it, so     *)
(* that a column of the destination is the set of the limbs added into it; *)
(* the carries between columns are those of LimbKernels.                    *)
(***************************************************************************)
EXTENDS Integers, FiniteSets

CONSTANT
  Shapes    \* operand and block widths, worker budget, regions of scratch

ASSUME ShapesAssumption ==
  \A s \in Shapes :
    /\ s \in [larger : Nat, smaller : Nat, block : Nat, parallelism : Nat, regions : Nat]
    /\ s.smaller >= 1 /\ s.block >= 1 /\ s.larger >= s.block
    /\ s.parallelism >= 1 /\ s.regions >= 1

VARIABLES
  shape,
  dst,       \* per limb: the product limbs added into it
  region,    \* per worker: the block whose product its region holds, or 0
  jobs,      \* halves of the batch that no thread has started
  running,   \* blocks being multiplied
  batch,     \* the blocks multiplied or added: [first, count, region]
  added,     \* blocks whose products are in the destination
  pc

productVars == <<shape, dst, region, jobs, running, batch, added, pc>>

-----------------------------------------------------------------------------

\* What a destination limb holds until it is written: no block's limb.
Junk == {<<0, 0>>}

(* Geometry.                                                               *)

\* Both are asked of blocks 1 .. BlockCount.
BlockCount == (shape.larger + shape.block - 1) \div shape.block
Offset(b) == (b - 1) * shape.block
BlockSize(b) == IF b < BlockCount THEN shape.block ELSE shape.larger - Offset(b)

\* One, two or four workers.
WorkerCount(affordable) ==
  LET all(n) == shape.parallelism >= n /\ BlockCount >= n /\ affordable >= n
  IN  IF all(4) THEN 4 ELSE IF all(2) THEN 2 ELSE 1

\* As many as the budget wants, and as many as the scratch has room for.
WantedWorkers == WorkerCount(BlockCount)
Workers == WorkerCount(shape.regions)

\* child_parallelism: the budget by which a region was sized.
ChildParallelism == IF WantedWorkers = 1 THEN shape.parallelism ELSE 1

\* The executor of the first block: the caller's when it is the only worker and
\* was meant to be.
FirstBudget_Inherited == IF Workers = 1 THEN shape.parallelism ELSE 1
FirstBudget == IF Workers = 1 /\ WantedWorkers = 1 THEN shape.parallelism ELSE 1

Job(first, count, at, direct) ==
  [first |-> first, count |-> count, region |-> at, direct |-> direct,
   budget |-> IF direct THEN FirstBudget ELSE 1]

Smaller(a, b) == IF a <= b THEN a ELSE b

-----------------------------------------------------------------------------

\* The first batch: block 1 into the destination, with the scratch of region 1,
\* and a companion for every other worker.
Companions == Smaller(BlockCount, Workers) - 1

ProductInit ==
  /\ shape \in Shapes
  /\ dst = [i \in 1 .. shape.larger + shape.smaller |-> Junk]
  /\ region = [r \in 1 .. Workers |-> 0]
  /\ jobs = {Job(1, 1, 1, TRUE)} \union
            (IF Companions = 0 THEN {} ELSE {Job(2, Companions, 2, FALSE)})
  /\ running = {}
  /\ batch = [first |-> 2, count |-> Companions, region |-> 2]
  /\ added = 0
  /\ pc = "multiply"

\* multiply_batch of several blocks: the same split of blocks and of regions.
Fork(j) ==
  /\ j \in jobs /\ j.count > 1
  /\ LET right == j.count \div 2
         left == j.count - right
     IN  jobs' = (jobs \ {j}) \union
           {Job(j.first, left, j.region, FALSE),
            Job(j.first + left, right, j.region + left, FALSE)}
  /\ UNCHANGED <<shape, dst, region, running, batch, added, pc>>

\* A block is multiplied: its region holds no product until it is done.
Begin(j) ==
  /\ j \in jobs /\ j.count = 1
  /\ jobs' = jobs \ {j}
  /\ running' = running \union {j}
  /\ region' = IF j.direct THEN region ELSE [region EXCEPT ![j.region] = 0]
  /\ UNCHANGED <<shape, dst, batch, added, pc>>

FinishFirst(j) ==
  /\ j \in running /\ j.direct
  /\ running' = running \ {j}
  /\ dst' = [i \in DOMAIN dst |->
               IF i <= shape.block + shape.smaller THEN {<<1, i>>} ELSE dst[i]]
  /\ added' = 1
  /\ UNCHANGED <<shape, region, jobs, batch, pc>>

Finish(j) ==
  /\ j \in running /\ ~ j.direct
  /\ running' = running \ {j}
  /\ region' = [region EXCEPT ![j.region] = j.first]
  /\ UNCHANGED <<shape, dst, jobs, batch, added, pc>>

\* join returns when both of its closures have.
Join ==
  /\ pc = "multiply" /\ jobs = {} /\ running = {}
  /\ pc' = "accumulate"
  /\ UNCHANGED <<shape, dst, region, jobs, running, batch, added>>

\* The limbs of the product of block b in region r, added at the block's offset:
\* the low ones to what is there, the high ones beyond it.
Extended(b, r) ==
  LET at == Offset(b)
      overlap == at + shape.smaller
      limb(i) == <<region[r], i - at>>
  IN [i \in DOMAIN dst |->
        IF at < i /\ i <= overlap
        THEN dst[i] \union {limb(i)}
        ELSE IF overlap < i /\ i <= overlap + BlockSize(b) THEN {limb(i)}
        ELSE dst[i]]

\* accumulate_batch, one block of it.
AccumulateBlock ==
  /\ pc = "accumulate" /\ added + 1 < batch.first + batch.count
  /\ dst' = Extended(added + 1, batch.region + (added + 1 - batch.first))
  /\ added' = added + 1
  /\ UNCHANGED <<shape, region, jobs, running, batch, pc>>

\* The next span of as many blocks as there are workers.
NextBatch ==
  /\ pc = "accumulate" /\ added + 1 = batch.first + batch.count
  /\ added < BlockCount
  /\ LET count == Smaller(BlockCount - added, Workers) IN
     /\ batch' = [first |-> added + 1, count |-> count, region |-> 1]
     /\ jobs' = {Job(added + 1, count, 1, FALSE)}
  /\ pc' = "multiply"
  /\ UNCHANGED <<shape, dst, region, running, added>>

Return_DropsTail ==
  /\ pc = "accumulate" /\ added + 1 = batch.first + batch.count
  /\ added >= shape.larger \div shape.block
  /\ pc' = "done"
  /\ UNCHANGED <<shape, dst, region, jobs, running, batch, added>>

Return ==
  /\ pc = "accumulate" /\ added + 1 = batch.first + batch.count
  /\ added = BlockCount
  /\ pc' = "done"
  /\ UNCHANGED <<shape, dst, region, jobs, running, batch, added>>

ProductNext ==
  \/ \E j \in jobs : Fork(j) \/ Begin(j)
  \/ \E j \in running : FinishFirst(j) \/ Finish(j)
  \/ Join \/ AccumulateBlock \/ NextBatch \/ Return

ProductSpec == ProductInit /\ [][ProductNext]_productVars

-----------------------------------------------------------------------------
(* Properties. *)

Jobs == [first : 1 .. BlockCount, count : 1 .. BlockCount, region : 1 .. Workers,
         direct : BOOLEAN, budget : Nat]

\* Every variable has its type: jobs and batches name blocks and regions that exist.
TypeOK ==
  /\ shape \in Shapes
  /\ dst \in [1 .. shape.larger + shape.smaller -> SUBSET (Nat \X Nat)]
  /\ region \in [1 .. Workers -> 0 .. BlockCount]
  /\ jobs \subseteq Jobs /\ running \subseteq Jobs
  /\ batch \in [first : 1 .. BlockCount + 1, count : 0 .. Workers, region : 1 .. 2]
  /\ added \in 0 .. BlockCount
  /\ pc \in {"multiply", "accumulate", "done"}

\* No two threads ever multiply in one region, and none in a region the scratch
\* does not have: the workers' mutable spans are disjoint (split_at_mut of
\* mul and multiply_batch).
RegionsExclusive ==
  /\ \A j \in jobs \union running : j.region + j.count - 1 <= shape.regions
  /\ \A j, k \in jobs \union running :
       j # k => \/ j.region + j.count <= k.region
                \/ k.region + k.count <= j.region

\* A block is never multiplied under a wider budget than its region was sized
\* for, also when the scratch has room for fewer workers than were wanted.
ChildBudgetFits == \A j \in jobs \union running : j.budget <= ChildParallelism

\* The limbs of the product of the first n blocks.
Frontier(n) == IF n = 0 THEN 0 ELSE Offset(n) + BlockSize(n) + shape.smaller
Columns(n, i) ==
  {<<b, i - Offset(b)>> : b \in {c \in 1 .. n :
     Offset(c) < i /\ i <= Offset(c) + BlockSize(c) + shape.smaller}}

\* What the workers of one batch may not do to each other.
WorkersApart == RegionsExclusive /\ ChildBudgetFits

\* At every moment the destination is the product of a prefix of the blocks, each
\* limb of each block product in its column, and nothing is written beyond it:
\* overlaps are read only where an earlier block wrote, products are read only
\* from the region of their own block and only when it is joined.
PrefixIsProduct ==
  \A i \in DOMAIN dst :
    dst[i] = IF i <= Frontier(added) THEN Columns(added, i) ELSE Junk
=============================================================================

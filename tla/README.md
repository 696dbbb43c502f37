# A verification project for MpAnafis

MpAnafis is an arbitrary-precision integer library in Rust, with a tuner that measures a
machine and writes the profile its builds read. This directory holds TLA+ models of the
parts of it whose correctness depends on order, ownership, room, concurrency or failure, the
TLC configurations that check them, and proofs, checked by TLAPS, of what must hold for every
size. Paths below are relative to the crate's `src/` directory unless they start with `docs/`,
`ntt/`, `tools/` or `build_support/`; `unsigned/` stands for `int/logic/unsigned/` and `math/`
for `unsigned/math/`.

## The system

| Part | State it keeps | Operations | Talks to |
|---|---|---|---|
| Ambient precision (`int/logic/precision.rs`, `int/api/precision.rs`) | one atomic word per process, one cell per thread, guards on the stacks | `set_global`, `with_precision` / `with_bounded` / `with_unlimited`, `active`, the guard's `Drop` | read by the public value types at construction |
| Unsigned storage (`unsigned/storage.rs`, `unsigned/memory/inplace.rs`) | inline array or heap vector, length, capacity; the borrow of a write guard | construction, cloning, reserve, resize, push, `set_len`, normalise, prepare / fill / commit / drop a guard | written by every arithmetic module through guards and raw spans |
| Addition, subtraction, wrapping (`math/add`, `math/wrapping.rs`) | none of their own | assigning, fused, stepping and underflow-reporting forms; reduce, negate, subtract modulo 2^bits | storage for room, limb kernels for columns |
| Limb kernels (`math/arch`) | indices, carries, flags of the processor | rows, double rows, shifts, fused passes, Montgomery rows, one assembly version per processor | called by all arithmetic; chosen by kernel selection |
| Kernel selection (`math/arch/*_selection.rs`, `x86_*.rs`, `backend_providers.rs`) | a once cell per kernel and one per tier | first-call detection, test requests | every kernel call |
| Scratch arena (`unsigned/memory/arena.rs`, `bucket.rs`) | a bucketed pool of vectors per thread | acquire, reset, clone, drop; thread teardown | multiplication, division and conversion take workspaces from it |
| Parallel policy (`parallel/api.rs`, `topology.rs`, copied in `ntt/src/support.rs`) | Rayon's global pool, one once cell per library | `with_resolved`, the narrowing of the default pool, `join` | every parallel multiplication; the application shares the pool |
| Multiplication (`math/mul`) | destination, scratch, workers' regions | schoolbook, Karatsuba, Toom-3-by-2 to Toom-8, truncated, blocked and transform products | the parallel policy, the limb kernels, the arena |
| Transform planning (`math/mul/ssa/plan`, `ssa/crt`, `ssa/product`) | process-wide and per-thread caches, a memo per search | lookup, search, insertion, eviction | transform products |
| Division and modular arithmetic (`math/div`, `math/modular`, `math/pow.rs`) | none | quotient digits, Montgomery and Barrett reduction, sliding windows | products, kernels |
| Tuner (`tools/tune`, read by `build.rs`) | score cache, reports, the installed profile; the workspace's sources | sessions: search, validate, publish | Cargo, the file system, other sessions |
| Signed magnitudes and public value types (`int/logic/signed`, `int/api`) | sign, magnitude, precision policy | the operator traits, checked / wrapping / overflowing forms | all of the above |
| Recursive division, roots, gcd, primes, theory; conversion, comparison, bit operations | none | pure functions | arena, storage |

How they meet: a public operation reads the ambient policy when it builds a value,
prepares storage for the result, takes workspace from the arena of its thread, asks
the parallel policy for a budget, runs kernels over limb spans (in several threads for
large products), publishes a length, and normalises. Nothing is sent as a message; the
interactions are shared words, borrowed buffers, thread-local pools, process-wide caches and
forked closures. The tuner's sessions meet in files.

What is hard to test here:

* *Panics and scopes*: a policy scope is left by returning, by unwinding and by the end of
  its thread; the cell's unset word and its unlimited word are one number apart from widths.
* *Room decided before the data is known*: additions decide whether to grow before the carry
  out of the top column exists; recursive products size one scratch buffer in a separate
  function; both write through unchecked pointers.
* *Uninitialised memory and leftovers*: write guards, destinations and scratch start with what
  an earlier call left, or with nothing.
* *Pooled ownership*: buckets overwrite slots without dropping them and move the last
  vector into a gap; buffers change thread and outlive thread-local storage.
* *A race for one global pool* between two libraries and the application, where a budget
  that differs from the pool's width sizes workspaces for the wrong number of workers.
* *Fork and join over slices*: blocks and regions must be split at the same index, and sums
  run in block order although products finish in any order.
* *Carries across blocks*: an assembly kernel keeps its carry in a flag that the instruction
  counting the rounds may spoil, in another way on each processor.
* *Estimates repaired later*: quotient digits, high products, Barrett quotients and inverses are
  computed short and corrected in ranges a random test meets once in a limb's worth of trials.
* *Caches that change under their own miss*: a plan's construction inserts into and evicts from
  the cache it will be stored in; a search's memo must name all a price depends on.
* *One choice made once*: some twenty-five kernels, each with a portable version and up to a dozen others, chosen at compile time by
  predicates in three macros and at run time from one detection, by whichever thread is first.
* *Long runs on a live checkout*: a tuner session takes hours, while its sources can change,
  its workers fail, other sessions write the same files, or the power goes.

What makes each part correct is stated in its module, and listed with the runs below; the
hazards with their lines are in `PROJECT.json`.

## Modules

| Module | Models | State and actions |
|---|---|---|
| `ScopedPolicies` | the promise of `docs/int/spec.md` 3.4 | a stack of policies per thread over one default |
| `AmbientPrecision` | `precision.rs` | words, cells and guard stacks; one action per operation, with panics, catch frames and thread death |
| `Limbs` | columns of sums and differences, normal form | operators only; `Value` is the number a limb sequence denotes |
| `UintStorage` | `storage.rs`, `inplace.rs` | `repr`, the live guard `pending`, owed normalisations `raw`; one action per storage operation |
| `UintAddition` | `math/add`, `math/wrapping.rs` | the storage actions and one action per addition, subtraction or wrapping operation; `call` records the last one |
| `LimbKernels` | the portable carry loops, a column at a time | `dst`, `i`, `carry`, and one action per loop body |
| `LoopShapes` | how an assembly kernel cuts a span into blocks and a tail | operators: phases, rounds, the schedule of a call |
| `CarryChains` | add, subtract and propagate in assembly, 76 files | the kernel as a record (where the chain lives, what counting spoils, its phases); a step is a block |
| `ProductRows`, `DoubleRows` | rows and pairs of rows of products | the same, with high words, flags and the limb that waits |
| `ShiftKernels` | shifts in place, into, and overlapping | memory around the span, the blocks still to do |
| `FusedKernels` | two additions or subtractions in one pass | two live chains; spans may be the same |
| `SharedEvaluation` | `math/mul/shared`: scaled additions, exact division, signed evaluation; `mulders` splits | operators over limb buffers |
| `SchoolbookProducts` | `basecase.rs` and its kernels | a dirty destination and the passes still to run |
| `KaratsubaProducts` | `math/mul/karatsuba` | a stack of frames over one destination and one scratch buffer |
| `TierPrograms`, `EvaluationTiers` | Toom-3-by-2, 3, 4-by-3, 4, 6-by-half to 8 | a tier as a list of statements, and the machine that runs one with its assertions |
| `HighProducts`, `LowProducts` | `math/mul/high`, `math/mul/low` | stacks of frames, dirty work buffers of the promised size |
| `BlockedProduct` | `Lopsided::mul` | jobs not yet started, running blocks, regions, destination columns |
| `Division` | `math/div/basecase` and its entries | the numerator window and one digit per step, by every kernel |
| `MontgomeryProducts`, `RadixInverse` | Montgomery reduction and its inverse | a row, and a precision step |
| `ModularOperations`, `SlidingWindows` | modular operations, Barrett, powers | the engine entered, corrections; the plan and the window |
| `KernelSelection` | the selection macros and the run-time dispatch | once cells, threads inside their initialisers |
| `RecentEntries` | what a plan cache promises | the entries stored last |
| `PlanCaches` | geometry, plan and width caches | cells and slots, one frame per nested plan of a thread |
| `RingPlanner` | the search for a geometry and its price | a memo that evicts, and the candidates still to price |
| `ScratchBuffers` | what a scratch buffer promises its holder | capacity and length of each buffer, no pool at all |
| `ScratchArena` | `arena.rs`, `bucket.rs` | per-thread buckets of slots, buffers with an identity, and the thread's teardown |
| `WorkerPools` | `parallel/api.rs`, `topology.rs` and the copy in the ntt crate | pool, once cells, per-thread place inside `with_resolved`; the application's own use of Rayon |
| `TuneSession` | `tools/tune` sessions and files | sessions by stage, sources, durable directory and pending renames, temporary files; edits, crashes, loss of power |

Composition. `UintStorage` extends `Limbs` and `UintAddition` extends `UintStorage`: the runs
of the later module also take the steps of the earlier one. `LimbKernels` shows that the
loops produce the columns `UintAddition` uses as one step and sums to exact numbers, and `CarryChains` that the
assembly produces those of the loops. `AmbientPrecision`, `ScratchArena` and `PlanCaches`
instantiate their promises with a refinement mapping and are shown to implement them.
Deterministic components that are reached by one call share a composite: `MCLimbSpans`
(portable and assembly kernels), `MCProducts` (products of every kind, with the blocked
one's workers), `MCNumbers` (division, Montgomery, inverse, modular, windows) and
`MCPlanning` (caches and searches) choose a family in the initial state and then take its
steps; variables of the others stay idle. `MCUint` gives `UintAddition` its two instances, storage
operations alone and all of them, and the end of `KernelSelection` gives it its targets,
processors and pairs of calls; the other runs need only a `.cfg`.

### What the abstraction keeps and drops

* Limbs have a small base. No decision in the modelled code depends on the width of
  a limb except through its greatest value, zero, its halves and carries; where an algorithm needs
  bits the base is a power of two wide enough for its guards (sixteen bits for the tiers).
* A slot nobody wrote is `Junk`, or a dirty limb where code may not read it.
* An allocation may return more capacity than was asked for.
* The portable loops appear as one step in `UintAddition`; `LimbKernels` models the steps.
* Registers, addresses and instruction scheduling of assembly are left out: what is kept is
  the order of loads and stores of a block, where the carry lives, what the loop counter does to
  it, and which lengths enter which loop.
* Recursion is a stack of frames. A recursive call into another algorithm (a whole product inside a
  truncated one, the coefficient products of a tier) is an exact product, and the scratch it
  needs is counted as the code counts it.
* Vectors of the arena carry an identity, so that losing or sharing one shows; their contents
  are their length. In `BlockedProduct` a product limb is the pair of its block and its place.
* In `Division`, `ModularOperations` and `RadixInverse` windows and remainders are numbers;
  reciprocal arithmetic wraps at the limb as in the code.
* In `WorkerPools` Rayon is external: a global pool that is created at most once, on demand or
  by `build_global`, and `join` runs in the pool of the calling worker or in the global one.
* In `TuneSession` the file system is external: a rename is seen at once, renames become durable
  in the order they were made (metadata is journalled; the code synchronises contents and never
  directories), and contents survive a loss of power when they were synchronised. An edit makes
  new contents: one that is undone between two checks would not be noticed by the hash, and the
  property does not claim it. A profile is the default one or another; a search screens and
  confirms one candidate; a validation with the defaults has `Comparisons` rounds. Process ids
  are not assumed distinct, so temporary names may collide.

## Runs

| Run | Bounds | Properties | What it shows |
|---|---|---|---|
| `ambient` | two threads, words 0..3 (unset, two widths, unlimited), two nested scopes, one catch frame | `ScopesHold`, `ScopeIsolation`, `ImplementsScopedPolicies`, `UnwindingEnds` | every interleaving of scopes, panics, catches, global changes and respawned threads resolves the policy of the innermost open scope |
| `storage` | two registers, binary limbs, one inline limb, capacities to three | `Representation`, `StorageSteps` | no sequence of storage operations exposes an unwritten limb, overruns a buffer, or changes a value it must keep |
| `arithmetic` | one register, two-bit limbs, operands to two limbs, capacities to three, widths 0 to 6 bits | `Representation`, `SumsExact`, `AssignmentKeepsBuffer`, `WrappingSound` | every form yields the exact number and flag in the storage it decided on, between any storage operations |
| `arena` | two threads, two buffers, three vectors, three buckets | `ArenaShape`, `ReuseDiscipline`, `ImplementsBuffers` | pooling never loses, shares or leaks a vector and cannot be observed by a holder |
| `pools` | two threads, two libraries, widths and cores to two, every environment | `PoolsSound`, `CreatedFromOutside`, `ResolutionsEnd` | every budget is the width of the pool that runs the joins, whoever created it |
| `limb_spans` | base four (four-bit limbs for shifts), spans of every pattern to five limbs and selected ones to seventeen, product rows to fourteen | `KernelsYieldColumns`, `ChainsSound`, `RowsSound`, `DoubleRowsSound`, `FusedSound`, `ShiftsSound` | loops and every processor's blocks compute the columns, rows, fused passes and shifts, in place or not |
| `products` | see below | `WorkersApart`, `BlockedReturns`, `SchoolbookSound`, `KaratsubaSound`, `TiersSound`, `TruncatedSound` | products of every kind are exact from dirty buffers, within the promised scratch; no order of workers mixes regions |
| `numbers` | see below | `DivisionSound`, `MontgomerySound`, `InverseSound`, `WindowsSound`, `ResiduesSound` | each against ordinary arithmetic, with the estimates that need correction |
| `planning` | two threads, five rings, two slots per set, two plan slots and one width slot; searches of 38 ring widths with a memo of six | `PlansExact`, `PlannerSound`, `CachesKeepLatest` | cached plans are what their search computes, caches hold the latest entries, and a memo changes no choice |
| `kernel_selection` | every kernel, 17 targets besides x86-64, every feature set, two threads, eight pairs of calls | `SelectionSound`, `CallsReturn` | one module is compiled in and it runs only where its instructions exist; all kernels follow one tier |
| `tuner` | two sessions in every mode, one mishap (edit, failed worker or failed file operation), crashes and a loss of power, two pending renames | `FilesSound`, `InstallsVetted` | files are complete and scores belong to their sources wherever a restart finds them; only a vetted profile is installed |
| `pool_created_by_forks` | as `pools` | `CreatedByForks`, violated | see *Finding* |

### Why the bounds are enough

* `ambient`: threads meet only in the global word, so a second thread is every other thread;
  a scope inside a scope inside a catch frame has a bottom, a middle and a top.
* `storage`, `arithmetic`: one inline limb makes lengths 0, 1, 2 and 3 stand for empty, inline,
  first heap length and a carry beyond it, with slack capacity and without. A base of four has
  limbs that are neither zero nor MAX; two operand limbs carry through a column that
  propagates. Widths to six bits end inside, at and beyond the operand.
* `arena`: three buckets are one the lookahead reaches, one it starts from and one that is never
  filled; bucket limits are eight, two and one, so a full bucket is met with three vectors.
* `pools`: two threads are the one inside a once cell and the one waiting; two libraries are
  two once cells over one pool; width two already differs from one in the choice to narrow.
* `limb_spans`: a carry chain forgets everything but the carry at the end of a block, so that
  what matters is a span on each side of every block size (1, 4, 8, 16), every path into the
  tail, and carries that start below a boundary, cross it, and are absorbed above it. Short spans
  take every pattern of columns that absorb, pass on and start a carry. Fused passes go to eleven
  limbs, so that a run crosses the ends of two blocks of four and of the vector lanes.
* `products`: four workers with seven blocks run a first batch of four and a second of three,
  whose fork is uneven. Schoolbook widths are both sides of every fixed path and operand order;
  Karatsuba goes down three levels, with odd halves and the rounding below powers of two; each
  tier gets full and short top parts, products and squares, and operands that are full,
  sparse or heavy in alternate parts, which drive evaluations to their extremes of either
  sign. Toom-3 is entered on a crossover alone, from Toom-4's shortest endpoint for one, so it
  also gets empty high parts, of one operand or of both, a second operand of a single part, and
  the longer operand second. High products of up to five limbs take every cut, wide ones two levels of blocks; low products
  take every width up to the one where a whole product is preferred.
* `numbers`: divisors of one to six three-bit limbs whose high limbs are at the edges of the
  estimate, quotients with repeated extreme digits, so that every kernel, shortened window and
  correction is met; Montgomery with every odd modulus of three limbs and extreme ones of six;
  every inverse to five limbs and selected ones of seven; every exponent of eleven bits.
* `planning`: widths reach three levels of nested rings; two slots are filled, and evicted
  from, while a plan is being built. Memo slots are fewer than the rings of one search.
* `kernel_selection`: a thread meets another only in a cell, and a call touches two cells: its
  kernel's and its tier's.
* `tuner`: a second session is every concurrent or later one, because sessions share only the
  three files and temporary names. One mishap at any point is enough to reach each check; the
  model's crashes and loss of power are not counted against it. Two comparisons are a first,
  whose failure ends validation, and a last, which is run only if all the others passed.

Deadlock checking is off where a run is one call that ends, in `planning` when all plans are made,
and in `tuner`, whose sessions end.

### Fairness

* `UnwindingEnds` assumes weak fairness of a thread that is unwinding: dropping
  guards is straight-line code run by the unwinder. A running thread owes nothing.
* `BlockedReturns` assumes the call itself goes on: loops, forked closures and the
  joining thread are code that runs until it returns; no step waits for another thread
  except a join.
* `ResolutionsEnd` assumes that a thread inside `with_resolved` takes its next step when it
  can; a thread waiting for a once cell can only when the other has left it. The
  application's calls, and calls into the libraries, are never assumed to happen.
* `CallsReturn` assumes the same of a thread in a kernel call; a change of the test request is
  never assumed.
* The action properties need no fairness.

### Finding

`docs/int/spec.md:455` says that the crate initialises Rayon's global pool "on the first
operation that forks". In `parallel/api.rs` the pool is created while an operation resolves its
budget, before it is known whether it will fork. `pool_created_by_forks` shows a call that
returns without a fork and leaves a global pool behind, after which an application that
configures the pool is refused.

## Proofs

A component's theorems are in a module of their own; `PolicyProofs` holds those of all
that is decided before an operation computes: precision, parallelism and backends, and
`ScratchProofs` those of scratch memory: the arena, and the workers that share one buffer. They
assume only the named assumptions on constants, which the runs evaluate, and speak of the
component's own specification (`Spec` in most; `SpecArithmetic` for `UintAddition`, the one the
`arithmetic` run checks).

| Module | Theorems | Argument |
|---|---|---|
| `PolicyProofs`, of `AmbientPrecision` | `TypeCorrect`, `ScopesNeverFallThrough`, `ScopesAreIsolated`, `ScopesRefine`, `ScopesStaySound`, `EncodingRoundTrip` | The invariant says that a thread's cell and its saved words form one chain: unset at the bottom exactly, set words above it. `NoFallThrough` alone is not inductive, because leaving a scope restores a word it says nothing about. Pushing and popping the chain maps to pushing and popping policies, which gives the refinement. |
| `LimbProofs` | lemmas on limb sequences | The recurrences of the code follow from the lookahead definitions of carry and borrow. The number of a sequence: what it is of a prefix, of a sequence with another top limb, of columns; that a carry recurrence preserves it; that normal sequences with the same number are equal. Quotients, remainders and powers; the lowest columns of a sequence are its number modulo a power of the base. Induction is over a set of naturals, from the well-foundedness of `<`. |
| `LimbSpansProofs` | `KernelsTypeCorrect`, `KernelsCorrect`, `CarryChainsCorrect`, `ProductRowsCorrect` | Of the portable loops: columns written so far are those of the sum, the flag is the carry into the next, the unwritten slots still hold the left operand when the loops run in place; each early exit leaves the remaining columns what they must be. Of the assembly chains, on every processor: a column leaves the same limb and carry whether the chain is a flag, an inverted flag or a register (`ChainAddColumn`, `ChainSubColumn`); the blocks of a schedule add up to the limbs that are left, entered with a test or without (`ScheduleCovers`); a propagation whose carry is absorbed has nothing more to change (`Absorbed`). The invariant says that the destination holds the columns done and nothing else, that the chain, or the word it is put aside in, is the carry into the next, and that the blocks to come cover the rest. Of the product rows, on every processor: what a column splits into a limb and words comes to at most B² - 1, so that the words together fit one limb (`CarriedOfSum`, `CarriedOfDifference`), the word that absorbs a carry has room for it, and a borrow that joins the term and one the limb needs never meet. `RowIsExact` alone is not inductive: it says nothing of the sum of the words, of the flag that is open inside a block, or of the columns a kernel of one kind leaves zero. Operands are constants, `ChainInputs` and `RowInputs`, of which only `InputsAssumption` and `CallsAssumption` are used. |
| `PairedKernelsProofs` | `DoubleRowsCorrect`, `FusedKernelsCorrect` | Of the double rows: a product, a carry and a limb come to at most B² - 1, so neither carry ever needs more than its word (`ThreeFit`), and the overflow of the flush fits because what is left of the product above its N limbs is below B² (`FlushFits`). The invariant names the limb in hand wherever it waits, leaves the limbs an addition has not reached what they were, and says nothing of a fresh limb until it is written. Of the fused passes: `FusedIsExact` speaks of a call that has returned; the invariant says that each target holds, in the limbs done, the sum or difference of what its operands held when the call began, with the bit in its flag (a borrow or its complement), and above them what it held then. The chain that goes second in a block reads the same old limbs because the layouts of the kernels never let it read what the first wrote in another column (`LaidOut`, `FusedFacts`). A limb of a shifted span straddles two limbs, and the span shifted limb by limb is the quotient of the whole (`AcrossExact`, `ShiftedQuotient`). Four lanes corrected at once ripple like four limbs: a correction runs through a lane only if the lane is all ones or all zeroes, and such a lane neither starts a carry nor stops one (`LanesCarry`). `LimbProofs` gained from it that a recursion over a bounded set has a solution (`RunExists`), which stands for a ripple of unbounded length. Operands are constants, `DoubleInputs` and `FusedInputs`. |
| `UintProofs` | of storage: type, `Initialized`, `WithinCapacity`, `Normal`, `GuardHasRoom`, `BufferRetained`, `RepresentationHolds`, `StorageMovesSilently`; of arithmetic: `AdditionKeepsRepresentation`, `AssignmentKeepsBuffer`, `AdditionIsExact`, `WrappingIsSound` | One invariant of a register: limbs are limbs, no longer than the capacity, inline capacity is the inline width, a live guard recorded the length and fits, canonical unless owed. The growth test is the heart of an addition: if it declines to grow, the top column neither generates a carry nor propagates one, so the total has no further limb. `decrement` trims at most one limb because a borrow that reaches the top leaves MAX below. Exactness then is that columns have the number of the sum (`LimbProofs`), and that a wrapped result, having no bit beyond its width, is the remainder; its truncation never owes a normalisation. |
| `ScratchProofs`, of `ScratchArena` | `ArenaInvariant`, `VectorsOwnedOnce`, `ReuseIsDisciplined`, `PoolIsInvisible` | The invariant speaks of three owners: the pools, the scratch buffers, and the hand of the thread that executes an operation, empty between operations. The first `len` entries of a bucket are the ones that are there, with capacities of that bucket; every allocated vector has one owner. An operation is a few moves between owners (the last entry into a gap, an allocation, a release, an exchange, the teardown of a pool), one lemma each. `OwnedOnce` alone is not inductive: an entry beyond `len` would be handed out, or overwritten, without being owned. The refinement forgets which pool a vector came from. The bound on what a request is handed needs the lookahead to be at least one, as in the code: a vector of the first bucket may regrow to twice its capacity. |
| `PolicyProofs`, of `WorkerPools` | type, `BudgetIsPoolWidth`, `NarrowedByPolicy`, `CreatedFromOutside`, `PoolsStaySound` | Strengthened by: what a once cell holds is the width of the pool that exists; a thread past the narrowing, when there was something to narrow, finds a pool. |
| `PolicyProofs`, of `KernelSelection` | `EveryBuildResolves`, `SelectionInvariant`, `SelectionStaysSound` | For any target, features, processor, request, threads and calls. Compile time is a case analysis by policy: of the items under predicates that a build takes, no two declare a module, exactly one selects, and what is selected is declared and has its instructions enabled (`Resolves`, `Fits`), one lemma for each of the selection macros' policies. A build takes them from one place only: x86-64's, POWER's, the one backend that is named after its architecture, or the fallback (`ActiveResolves`). It needs two facts on builds that the predicates take for granted: AVX-512 comes with AVX2, and powerpc64 is 64 bits wide (`BuildsAssumption`); without the second, `mul_2` would be defined twice. Run time: a once cell is running because of one thread, which is inside its initialiser, so a cell is settled once; a detected tier is within the processor; a kernel's cell holds the choice of the tier's. `SelectionSound` alone says nothing of the module a thread is about to run. |
| `ScratchProofs`, of `BlockedProduct` | type, `WorkersShareNothing`, `ChildrenStayInBudget`, `WorkersStayApart`, `DestinationIsPrefixProduct`, `DoneIsWholeProduct` | Three parts. Jobs: each lies in the batch as many regions as blocks into it, and they are apart, which a fork keeps because it splits both at one index. Regions: a block of the batch is some job's or its product is in its own region, so a join leaves them all there. Order: what is added is what precedes the batch, but for the first block. `PrefixIsProduct` alone says nothing of the regions the next addition reads. The frontier after a block is exactly where the next one's overlap ends, from the quotient that counts the blocks. |
| `PlanCachesProofs` | `CachesExact`, `PlansAreExact`, `CachesKeepTheLatest` | `PlansExact` says nothing of what a later answer is made from. The invariant: an entry of any cache is exact for its key; the geometries a thread has chosen are a chain from the outermost ring down to the one it plans, or has come back from, and what it came back with is the plan of the coefficients of the last; a recursion's levels are its first halvings. Overwriting any slot by an exact entry keeps the first part, whoever did it and whatever was evicted, and a step of another thread changes nothing of the second. `LevelAssumption` says that the widths given are closed under what the planner does with them: halvings of a recursion, and the rings they are multiplied in. For the refinement of `RecentEntries` the invariant gains two parts. Cursors: slots are filled from the first on; until they are, a cursor rests at the first slot (the shared sets look for a vacant one) or is the number filled (the others), so the oldest entry is where the cursor points once they are. Misses: between a lookup and the store that follows it a thread retains other plans, all narrower, so that the key is still missing. That is why `RingAssumption` says that a nested geometry is narrower than its ring, as pricing demands. The theorem is stated under `NoneIsNoEntry`: the model's mark of a vacant slot is not an entry. |
| `TuneSessionProofs` | `SessionsInvariant`, `FilesAlwaysSound`, `InstallationsVetted` | For any number of sessions, stamps, mishaps and pending renames. `SessionInv` has four parts. Of a session, by its stage: binaries are of sources between the captured and the present ones, so that those it has when the context still holds are of the captured ones (`HeldFacts`); all its evidence is of the captured ones; before the verdict a failed worker is remembered as a failed context, in validation a session that has passed so far has the comparisons of the rounds behind it, and after it those of every round. Of files: what is there is complete, synchronised and says what its name promises, on the disk and in every pending rename. Of their order: no profile's rename is before its report's, and whoever publishes has renamed its report. Of temporary files: a path and a tag name one file, no two sessions write one, and the writer's is as it left it. `FilesSound` alone is not inductive: it says nothing of the files about to be renamed, nor of the order the renames were made in, which is what a loss of power cuts (`AfterOrdered`). An edit moves only the present sources, so `Steady` is kept because it bounds binaries by them. |

### Only model-checked

* Liveness (`UnwindingEnds`, `BlockedReturns`, `ResolutionsEnd`, `CallsReturn`), which the prover
  does not reach, like ENABLED.
* `products` and `numbers`: multi-limb recursions over data of several shapes, against products
  and quotients of whole numbers. `LimbProofs` has the laws of `Value` they would start from.
* `RingPlanner`: its search is a recursion over widths, and declares RECURSIVE operators.
* Of the assembly families: shifts. What a shift does to memory is an induction
  over its blocks, but what its limbs mean together is about their bits.

### What the runs do not reach

* `RingPlanner`: the fallback of a half-width search to two points needs widths where every
  factorisation is refused; none within the bounds is.
* `MontgomeryProducts`: the blocks of the ADX kernels are entered at most once before the tail,
  because moduli have up to six limbs.
* `EvaluationTiers`: branches of the toom8 interpolation for limbs of 64 bits are not entered with limbs
  of sixteen; evaluating a pair of points by the paired kernel or by two passes is one step
  with the same result, which `FusedKernels` checks.
* `KernelSelection` decides which tier a kernel is from; what the kernel computes is the
  subject of `limb_spans`, `products` and `numbers`, each for all tiers.
* `HighProducts` and `LowProducts` enter whole products as exact: those are checked on their own.

## Not modelled

* Public value types and signed magnitudes: each operation is a case analysis over modelled
  magnitude operations under a modelled policy, sequential and without state of its own.
* Transforms: the butterflies, twisted products and recombination of the Schoenhage-Strassen
  product start at lengths a model checker cannot follow; only their planning is modelled. So is
  the choice of an algorithm for a pair of widths (`math/mul/dispatch`), beyond the shapes each
  tier admits.
* Recursive division (Burnikel-Ziegler, Newton, Barrett blocks), roots, gcd, primes, theory:
  deterministic recursion over data.
* Conversion, comparison, bit operations: strings and single-pass scans; their shifts are
  `ShiftKernels`.
* The tuner's statistics, grids, worker kernels and platform probes, the NTT crate's
  transforms, build-time schema and source parsing, benches and fuzz targets.
* Ambient precision inside forked closures: a closure run by a pool worker resolves the worker's
  own policy. Only constructors of the public value types read it (`int/api/types`), and no forked
  code in `int/logic` builds such a value.

## Plan

Done: all modules above. Next, in order:

1. A proof of `ShiftsSound`, by the schedules of `LimbSpansProofs`.
2. Signed and public values over `UintAddition` and `AmbientPrecision`: combination of precisions
   and rollback of a bounded failure as the promises.
3. Recursive division and half-gcd as programs over `SharedEvaluation`, against reference
   definitions over bounded operands.

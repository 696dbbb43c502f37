----------------------------- MODULE WorkerPools -----------------------------
(***************************************************************************)
(* How an arithmetic operation finds the width it may spread over          *)
(* (parallel/api.rs, parallel/topology.rs).  Inside a Rayon worker it is    *)
(* the width of that worker's pool.  Everywhere else it is the width of     *)
(* the global pool, which each library of the process looks up once, behind *)
(* a OnceLock, after trying to create that pool no wider than the physical  *)
(* cores.  The arithmetic crate and the ntt crate carry a copy each of this *)
(* code and share the process's global pool, and so does the application.  *)
(*                                                                         *)
(* Rayon itself is modelled by what this code observes of it: a global pool *)
(* that is created at most once and never changes width.  Detection of the  *)
(* physical cores is the value it returns.                                 *)
(***************************************************************************)
EXTENDS Naturals

CONSTANTS
  Callers,      \* threads that call into a library
  Libraries,    \* copies of the executor module in the process
  MaxWidth,     \* bound on every pool width and core count
  None

ASSUME MaxWidthAssumption == MaxWidth \in Nat \ {0}
ASSUME NoneAssumption == None \notin Callers \union Libraries

VARIABLES
  host,      \* RAYON_NUM_THREADS, available_parallelism(), the cores detected
  pool,      \* width of the global pool, 0 before it is created
  creator,   \* who created it: "none", "application" or "library"
  width,     \* GLOBAL_PARALLELISM of each library, 0 while it is not set
  setter,    \* the thread inside get_or_init of each library, or None
  inside,    \* width of the pool whose worker a thread is, 0 outside of all
  call,      \* the library whose operation a thread runs, or None
  pc,        \* where in with_resolved it is
  budget,    \* FixedParallelismExecutor::parallelism of its operation
  forked     \* whether any operation has forked in the global pool

poolVars == <<pool, creator>>
allPoolVars == <<host, pool, creator, width, setter, inside, call, pc, budget, forked>>

Widths == 1 .. MaxWidth

\* RAYON_NUM_THREADS: absent, or present with a width, 0 for a value that is none.
Absent == [present |-> FALSE, width |-> 0]
Environments == {Absent} \union [present : {TRUE}, width : 0 .. MaxWidth]

\* 0 available: the query failed.  0 physical: the topology is unknown.
Hosts == [env : Environments, available : 0 .. MaxWidth, physical : 0 .. MaxWidth]

Larger(a, b) == IF a >= b THEN a ELSE b

\* The width rayon gives a global pool nobody configured.
DefaultWidth ==
  IF host.env.width # 0 THEN host.env.width ELSE Larger(host.available, 1)

\* current_num_threads() and join() outside of a worker create the global pool
\* when there is none.
Demanded(by) ==
  /\ pool' = IF pool = 0 THEN DefaultWidth ELSE pool
  /\ creator' = IF pool = 0 THEN by ELSE creator

\* ThreadPoolBuilder::build_global: refused when the pool exists.
Built(w, by) ==
  /\ pool' = IF pool = 0 THEN w ELSE pool
  /\ creator' = IF pool = 0 THEN by ELSE creator

PoolsInit ==
  /\ host \in Hosts
  /\ pool = 0 /\ creator = "none"
  /\ width = [l \in Libraries |-> 0]
  /\ setter = [l \in Libraries |-> None]
  /\ inside = [t \in Callers |-> 0]
  /\ call = [t \in Callers |-> None]
  /\ pc = [t \in Callers |-> "idle"]
  /\ budget = [t \in Callers |-> 0]
  /\ forked = FALSE

-----------------------------------------------------------------------------
(* with_resolved.                                                          *)

Resolved(t, w) ==
  /\ pc' = [pc EXCEPT ![t] = "resolved"]
  /\ budget' = [budget EXCEPT ![t] = w]

\* An arithmetic operation reaches with_resolved.
Call(t, l) ==
  /\ pc[t] = "idle"
  /\ call' = [call EXCEPT ![t] = l]
  /\ pc' = [pc EXCEPT ![t] = "resolving"]
  /\ UNCHANGED <<host, pool, creator, width, setter, inside, budget, forked>>

ResolveInWorker_WaitsForCache(t) ==
  /\ pc[t] = "resolving" /\ inside[t] # 0 /\ width[call[t]] # 0
  /\ Resolved(t, inside[t])
  /\ UNCHANGED <<host, pool, creator, width, setter, inside, call, forked>>

\* In a worker of whichever pool, the width of that pool.
ResolveInWorker(t) ==
  /\ pc[t] = "resolving" /\ inside[t] # 0
  /\ Resolved(t, inside[t])
  /\ UNCHANGED <<host, pool, creator, width, setter, inside, call, forked>>

\* get_or_init of a cell that is set; a thread that came while another was
\* setting it has waited for that.
ResolveFromCache(t) ==
  /\ pc[t] = "resolving" /\ inside[t] = 0 /\ width[call[t]] # 0
  /\ Resolved(t, width[call[t]])
  /\ UNCHANGED <<host, pool, creator, width, setter, inside, call, forked>>

EnterInit_FromWorkers(t) ==
  /\ pc[t] = "resolving"
  /\ width[call[t]] = 0 /\ setter[call[t]] = None
  /\ setter' = [setter EXCEPT ![call[t]] = t]
  /\ pc' = [pc EXCEPT ![t] = "narrowing"]
  /\ UNCHANGED <<host, pool, creator, width, inside, call, budget, forked>>

\* get_or_init of a cell that is not set: one thread runs the closure.
EnterInit(t) ==
  /\ pc[t] = "resolving" /\ inside[t] = 0
  /\ width[call[t]] = 0 /\ setter[call[t]] = None
  /\ setter' = [setter EXCEPT ![call[t]] = t]
  /\ pc' = [pc EXCEPT ![t] = "narrowing"]
  /\ UNCHANGED <<host, pool, creator, width, inside, call, budget, forked>>

\* narrow_default_pool: the early returns.
Narrows ==
  /\ ~ host.env.present
  /\ host.available # 0 /\ host.physical # 0
  /\ host.physical < host.available

NarrowDefaultPool(t) ==
  /\ pc[t] = "narrowing"
  /\ IF Narrows THEN Built(host.physical, "library") ELSE UNCHANGED poolVars
  /\ pc' = [pc EXCEPT ![t] = "measuring"]
  /\ UNCHANGED <<host, width, setter, inside, call, budget, forked>>

Measure_Detected(t) ==
  /\ pc[t] = "measuring"
  /\ Demanded("library")
  /\ LET w == IF Narrows THEN host.physical ELSE pool' IN
     /\ width' = [width EXCEPT ![call[t]] = w]
     /\ Resolved(t, w)
  /\ setter' = [setter EXCEPT ![call[t]] = None]
  /\ UNCHANGED <<host, inside, call, forked>>

\* executor.parallelism(): the width the pool has, whoever created it.
Measure(t) ==
  /\ pc[t] = "measuring"
  /\ Demanded("library")
  /\ width' = [width EXCEPT ![call[t]] = pool']
  /\ Resolved(t, pool')
  /\ setter' = [setter EXCEPT ![call[t]] = None]
  /\ UNCHANGED <<host, inside, call, forked>>

\* join: in sequence under a budget of one, else in the pool of the caller.
Fork(t) ==
  /\ pc[t] = "resolved" /\ budget[t] # 1
  /\ IF inside[t] = 0
     THEN Demanded("library") /\ forked' = TRUE
     ELSE UNCHANGED <<pool, creator, forked>>
  /\ UNCHANGED <<host, width, setter, inside, call, pc, budget>>

Return(t) ==
  /\ pc[t] = "resolved"
  /\ pc' = [pc EXCEPT ![t] = "idle"]
  /\ call' = [call EXCEPT ![t] = None]
  /\ budget' = [budget EXCEPT ![t] = 0]
  /\ UNCHANGED <<host, pool, creator, width, setter, inside, forked>>

-----------------------------------------------------------------------------
(* The application around it.                                              *)

\* Work of the application moves into a pool of its own, or out of it.
Install(t, w) ==
  /\ pc[t] = "idle" /\ inside[t] # w
  /\ inside' = [inside EXCEPT ![t] = w]
  /\ UNCHANGED <<host, pool, creator, width, setter, call, pc, budget, forked>>

\* The application configures the global pool, in vain when there is one, or
\* just uses it.
BuildGlobal(w) ==
  /\ Built(w, "application")
  /\ UNCHANGED <<host, width, setter, inside, call, pc, budget, forked>>

UseGlobal ==
  /\ Demanded("application")
  /\ UNCHANGED <<host, width, setter, inside, call, pc, budget, forked>>

-----------------------------------------------------------------------------

Resolve(t) ==
  \/ ResolveInWorker(t) \/ ResolveFromCache(t)
  \/ EnterInit(t) \/ NarrowDefaultPool(t) \/ Measure(t)

PoolsNext ==
  \/ UseGlobal
  \/ \E w \in Widths : BuildGlobal(w)
  \/ \E t \in Callers :
       \/ Resolve(t) \/ Fork(t) \/ Return(t)
       \/ \E l \in Libraries : Call(t, l)
       \/ \E w \in 0 .. MaxWidth : Install(t, w)

PoolsSpec == PoolsInit /\ [][PoolsNext]_allPoolVars

\* Callers inside with_resolved are running code, or blocked on a OnceLock.
FairPools == PoolsSpec /\ \A t \in Callers : WF_allPoolVars(Resolve(t))

-----------------------------------------------------------------------------
(* Properties. *)

\* Every variable has its type, and a OnceLock has one thread at a time in its
\* closure, and none once it is set.
PoolsTypeOK ==
  /\ host \in Hosts
  /\ pool \in 0 .. MaxWidth
  /\ creator \in {"none", "application", "library"}
  /\ width \in [Libraries -> 0 .. MaxWidth]
  /\ setter \in [Libraries -> Callers \union {None}]
  /\ inside \in [Callers -> 0 .. MaxWidth]
  /\ call \in [Callers -> Libraries \union {None}]
  /\ pc \in [Callers -> {"idle", "resolving", "narrowing", "measuring", "resolved"}]
  /\ budget \in [Callers -> 0 .. MaxWidth]
  /\ forked \in BOOLEAN
  /\ \A t \in Callers, l \in Libraries :
       (setter[l] = t) <=> (pc[t] \in {"narrowing", "measuring"} /\ call[t] = l)
  /\ \A l \in Libraries : setter[l] # None => width[l] = 0

\* The width of the pool in which the joins of a thread run.
PoolWidth(t) == IF inside[t] = 0 THEN pool ELSE inside[t]

\* The budget by which an operation sizes its scratch and its joins is the
\* width of the pool that runs them: a cached global width is never used inside
\* an application's pool, and never differs from the pool that was created,
\* whoever won the race to create it (with_resolved).
BudgetIsPoolWidth ==
  \A t \in Callers : pc[t] = "resolved" => budget[t] # 0 /\ budget[t] = PoolWidth(t)

\* The widths spec.md 14 allows: the smaller of the available parallelism and
\* the physical cores, unless the environment asked for another.
Permitted(w) ==
  IF host.env.present THEN w = DefaultWidth
  ELSE /\ w <= Larger(host.available, 1)
       /\ host.available # 0 /\ host.physical # 0 => w <= host.physical
       /\ w # Larger(host.available, 1) => w = host.physical

\* A global pool that a library created has a width the policy allows, whichever
\* thread of whichever library got there first (narrow_default_pool, tests
\* "automatic" and "explicit_environment").
NarrowedByPolicy == creator = "library" => Permitted(pool)

\* Pools and the budgets drawn from them, under one exclusion per library.
PoolsSound == PoolsTypeOK /\ BudgetIsPoolWidth /\ NarrowedByPolicy

\* Operations inside an application's pool leave the global pool to whoever
\* wants to configure it: only a thread outside of every pool creates one
\* (with_resolved, test "custom_pool_first").
CreatedFromOutside ==
  [][creator' = "library" /\ creator # "library" =>
       \E t \in Callers : pc[t] # "idle" /\ inside[t] = 0 /\ pc'[t] # pc[t]]_allPoolVars

\* Callers that arrive while another is inside the OnceLock wait for it, and
\* every operation gets its budget.
ResolutionsEnd ==
  \A t \in Callers : (pc[t] = "resolving") ~> (pc[t] = "resolved")

\* spec.md 14: the global pool is initialized "on the first operation that
\* forks": when no operation is under way, a pool the library created was
\* created for a fork.
CreatedByForks ==
  creator = "library" /\ (\A t \in Callers : pc[t] = "idle") => forked
=============================================================================

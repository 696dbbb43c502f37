-------------------------- MODULE AmbientPrecision --------------------------
(***************************************************************************)
(* int/logic/precision.rs: the ambient precision of a program.             *)
(*                                                                         *)
(* A policy is encoded in one native word: 0 is "unset", usize::MAX is     *)
(* "unlimited", anything between is a bounded width.  One word is shared   *)
(* by all threads (an atomic, swapped and loaded with relaxed ordering),   *)
(* one more lives in a thread-local cell.  with_bounded/with_unlimited     *)
(* replace the cell and keep the replaced word in a guard on the stack;    *)
(* dropping the guard, on return or on unwinding, puts it back.            *)
(*                                                                         *)
(* A thread's call stack is reduced to what the module touches: the live   *)
(* guards and the catch_unwind frames between them.                        *)
(***************************************************************************)
EXTENDS Naturals, SequencesExt

CONSTANTS
  Threads,      \* the threads of the program
  UsizeMax,     \* usize::MAX, the greatest native word
  MaxDepth,     \* bound on the nesting of scopes in one thread
  MaxCatches    \* bound on the nesting of catch_unwind frames in one thread

ASSUME UsizeMaxAssumption == UsizeMax \in Nat /\ UsizeMax >= 2
ASSUME BoundsAssumption == MaxDepth \in Nat /\ MaxCatches \in Nat

VARIABLES
  global,       \* GLOBAL_PRECISION
  cell,         \* cell[t]: THREAD_PRECISION of thread t
  guards,       \* guards[t]: the `previous` words of t's live guards, innermost last
  catches,      \* catches[t]: for each catch_unwind frame of t, the guards below it
  mode          \* mode[t]: "running", "unwinding", or "dead" after an uncaught panic

vars == <<global, cell, guards, catches, mode>>

-----------------------------------------------------------------------------
(* The encoding. *)

Words == 0 .. UsizeMax

UnsetSentinel == 0

UnlimitedSentinel == UsizeMax

\* BoundedPrecision::new accepts exactly these bit widths.
BoundedWidths == Words \ {0, UsizeMax}

Unset == [kind |-> "Unset", bits |-> 0]
Unlimited == [kind |-> "Unlimited", bits |-> 0]
Bounded(bits) == [kind |-> "Bounded", bits |-> bits]

ScopePolicies == {Unlimited} \union {Bounded(bits) : bits \in BoundedWidths}
Policies == {Unset} \union ScopePolicies

encode_precision(policy) ==
  IF policy.kind = "Unset" THEN UnsetSentinel
  ELSE IF policy.kind = "Unlimited" THEN UnlimitedSentinel
  ELSE policy.bits

decode_precision(word) ==
  IF word = UnsetSentinel THEN Unset
  ELSE IF word = UnlimitedSentinel THEN Unlimited
  ELSE Bounded(word)

\* Slip: the global policy consulted first.
ActiveWord_GlobalFirst(t) == IF global # UnsetSentinel THEN global ELSE cell[t]

\* The word a construction of thread t decodes.
ActiveWord(t) == IF cell[t] # UnsetSentinel THEN cell[t] ELSE global

active(t) == decode_precision(ActiveWord(t))

-----------------------------------------------------------------------------
Init ==
  /\ global = UnsetSentinel
  /\ cell = [t \in Threads |-> UnsetSentinel]
  /\ guards = [t \in Threads |-> <<>>]
  /\ catches = [t \in Threads |-> <<>>]
  /\ mode = [t \in Threads |-> "running"]

\* The innermost frame of t is a catch_unwind, not a scope.
AtCatch(t) == catches[t] # <<>> /\ Last(catches[t]) = Len(guards[t])

SetGlobal(t) ==
  /\ mode[t] = "running"
  /\ \E policy \in Policies : global' = encode_precision(policy)
  /\ UNCHANGED <<cell, guards, catches, mode>>

\* with_precision: Cell::replace hands the old word to the guard.
WithPrecision(t, policy) ==
  /\ Len(guards[t]) < MaxDepth
  /\ guards' = [guards EXCEPT ![t] = Append(@, cell[t])]
  /\ cell' = [cell EXCEPT ![t] = encode_precision(policy)]
  /\ UNCHANGED <<global, catches, mode>>

\* Slip: the cell is replaced before the width is validated, with no guard yet.
WithBounded_TouchesCellFirst(t, bits) ==
  /\ mode[t] = "running"
  /\ \/ bits \in BoundedWidths /\ WithPrecision(t, Bounded(bits))
     \/ /\ bits \notin BoundedWidths
        /\ cell' = [cell EXCEPT ![t] = bits]
        /\ mode' = [mode EXCEPT ![t] = "unwinding"]
        /\ UNCHANGED <<global, guards, catches>>

\* An invalid width panics before the cell is touched.
WithBounded(t, bits) ==
  /\ mode[t] = "running"
  /\ \/ /\ bits \in BoundedWidths
        /\ WithPrecision(t, Bounded(bits))
     \/ /\ bits \notin BoundedWidths
        /\ mode' = [mode EXCEPT ![t] = "unwinding"]
        /\ UNCHANGED <<global, cell, guards, catches>>

WithUnlimited(t) == mode[t] = "running" /\ WithPrecision(t, Unlimited)

\* Slip: leaving a scope clears the cell instead of restoring the saved word.
DropGuard_ClearsCell(t) ==
  /\ guards[t] # <<>>
  /\ ~ AtCatch(t)
  /\ cell' = [cell EXCEPT ![t] = UnsetSentinel]
  /\ guards' = [guards EXCEPT ![t] = Front(@)]
  /\ UNCHANGED <<global, catches, mode>>

\* PrecisionGuard::drop, the same on both ways out of the closure.
DropGuard(t) ==
  /\ guards[t] # <<>>
  /\ ~ AtCatch(t)
  /\ cell' = [cell EXCEPT ![t] = Last(guards[t])]
  /\ guards' = [guards EXCEPT ![t] = Front(@)]
  /\ UNCHANGED <<global, catches, mode>>

ReturnFromScope(t) == mode[t] = "running" /\ DropGuard(t)

\* Slip: the cell is restored after the closure's return instead of by a guard,
\* so an unwinding skips it.
UnwindScope_SkipsRestore(t) ==
  /\ mode[t] = "unwinding"
  /\ guards[t] # <<>>
  /\ ~ AtCatch(t)
  /\ guards' = [guards EXCEPT ![t] = Front(@)]
  /\ UNCHANGED <<global, cell, catches, mode>>

UnwindScope(t) == mode[t] = "unwinding" /\ DropGuard(t)

\* The closure may panic anywhere.
Panic(t) ==
  /\ mode[t] = "running"
  /\ mode' = [mode EXCEPT ![t] = "unwinding"]
  /\ UNCHANGED <<global, cell, guards, catches>>

\* The caller enters catch_unwind, at any nesting.
EnterCatch(t) ==
  /\ mode[t] = "running"
  /\ Len(catches[t]) < MaxCatches
  /\ catches' = [catches EXCEPT ![t] = Append(@, Len(guards[t]))]
  /\ UNCHANGED <<global, cell, guards, mode>>

\* A catch_unwind frame is left by return, or it stops an unwinding.
LeaveCatch(t) ==
  /\ mode[t] \in {"running", "unwinding"}
  /\ AtCatch(t)
  /\ catches' = [catches EXCEPT ![t] = Front(@)]
  /\ mode' = [mode EXCEPT ![t] = "running"]
  /\ UNCHANGED <<global, cell, guards>>

\* Nothing left to unwind: the thread ends, and its cell with it.
Die(t) ==
  /\ mode[t] = "unwinding"
  /\ guards[t] = <<>>
  /\ catches[t] = <<>>
  /\ mode' = [mode EXCEPT ![t] = "dead"]
  /\ UNCHANGED <<global, cell, guards, catches>>

\* A new thread starts from the initial value of the thread-local.
Spawn(t) ==
  /\ mode[t] = "dead"
  /\ mode' = [mode EXCEPT ![t] = "running"]
  /\ cell' = [cell EXCEPT ![t] = UnsetSentinel]
  /\ UNCHANGED <<global, guards, catches>>

Unwind(t) == mode[t] = "unwinding" /\ (UnwindScope(t) \/ LeaveCatch(t) \/ Die(t))

Step(t) ==
  \/ SetGlobal(t)
  \/ \E bits \in Words : WithBounded(t, bits)
  \/ WithUnlimited(t)
  \/ ReturnFromScope(t)
  \/ UnwindScope(t)
  \/ Panic(t)
  \/ EnterCatch(t)
  \/ LeaveCatch(t)
  \/ Die(t)
  \/ Spawn(t)

Next == \E t \in Threads : Step(t)

Spec == Init /\ [][Next]_vars

\* A panicking thread keeps unwinding; a running one owes nothing.
FairSpec == Spec /\ \A t \in Threads : WF_vars(Unwind(t))

-----------------------------------------------------------------------------
(* Properties. *)

\* Every variable has its type.
TypeOK ==
  /\ global \in Words
  /\ cell \in [Threads -> Words]
  /\ guards \in [Threads -> Seq(Words)]
  /\ catches \in [Threads -> Seq(Nat)]
  /\ mode \in [Threads -> {"running", "unwinding", "dead"}]

\* Inside a scope the cell never holds the word that would make active() fall
\* through to the global policy, however scopes and panics are interleaved;
\* outside of every scope it always does (active, with_precision, drop).
NoFallThrough ==
  \A t \in Threads : (guards[t] # <<>>) <=> (cell[t] # UnsetSentinel)

\* The words the guards hold are those of the enclosing scopes: only the
\* outermost guard saved "unset", so restoring any inner one cannot expose the
\* global policy to an enclosing scope that is still open.
SavedWords ==
  \A t \in Threads : \A i \in 1 .. Len(guards[t]) :
    (guards[t][i] = UnsetSentinel) <=> (i = 1)

\* A scope is isolated: no step of another thread, set_global included, changes
\* what a thread inside a scope resolves; its own set_global does not either.
ScopeIsolation ==
  [][\A t \in Threads :
       (guards[t] # <<>> /\ guards'[t] = guards[t]) => active(t)' = active(t)]_vars

\* The policies of a stack of open scopes: what scope i imposed is what the
\* guard of scope i+1 saved, or the word in the cell for the innermost one.
OpenPolicies(saved, word) ==
  [i \in 1 .. Len(saved) |->
     decode_precision(IF i = Len(saved) THEN word ELSE saved[i + 1])]

OpenScopes(t) == OpenPolicies(guards[t], cell[t])

Promised == INSTANCE ScopedPolicies WITH
  default <- decode_precision(global),
  scopes <- [t \in Threads |-> OpenScopes(t)]

\* Cell, guards and sentinels implement the stack of policies of spec.md 3.4:
\* leaving a scope by any exit reveals exactly the policy it covered.
ImplementsScopedPolicies == Promised!Spec

\* What active() answers is what the stack of policies promises.
ActiveIsResolved == \A t \in Threads : active(t) = Promised!Resolved(t)

\* A panic always reaches a catch_unwind or the end of the thread, and a thread
\* that ended has no scope left open on its cell.
UnwindingEnds ==
  \A t \in Threads :
    (mode[t] = "unwinding") ~> (mode[t] = "running" \/ (mode[t] = "dead" /\ cell[t] = UnsetSentinel))

\* Cells, guards and policies agree, however scopes and panics are interleaved.
ScopesHold == TypeOK /\ NoFallThrough /\ SavedWords /\ ActiveIsResolved
=============================================================================

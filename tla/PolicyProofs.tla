---------------------------- MODULE PolicyProofs ----------------------------
(***************************************************************************)
(* Theorems about what an operation finds decided when it starts: its       *)
(* precision (AmbientPrecision), the width it may spread over (WorkerPools) *)
(* and the backend of each kernel (KernelSelection), for any set of         *)
(* threads, native word, nesting, host, target and processor.               *)
(*                                                                         *)
(* NoFallThrough is not inductive: dropping a guard must put a word back   *)
(* that is "unset" exactly when no other guard remains.  SavedWords says   *)
(* so of every saved word, and the two together are inductive.             *)
(*                                                                         *)
(* BudgetIsPoolWidth is not inductive either: a budget may come from a      *)
(* OnceLock, so what a OnceLock holds must be the width of the pool that    *)
(* exists, and whoever is setting one is outside of every pool.             *)
(*                                                                         *)
(* SelectionSound says nothing of a module a thread is about to run, nor    *)
(* of who is inside an initializer: a cell is running because of one thread, *)
(* so that what is settled is settled once.                                 *)
(***************************************************************************)
EXTENDS AmbientPrecision, WorkerPools, KernelSelection, SequenceTheorems, FiniteSetTheorems, TLAPS

\* The encoding is a bijection between words and policies, so a word replaced
\* in a cell and put back is the policy it stood for (encode/decode_precision;
\* the unwrap_unchecked of decode_precision is only reached for valid widths).
THEOREM EncodingRoundTrip ==
  /\ \A policy \in Policies :
       encode_precision(policy) \in Words /\ decode_precision(encode_precision(policy)) = policy
  /\ \A word \in Words :
       decode_precision(word) \in Policies /\ encode_precision(decode_precision(word)) = word
  /\ \A word \in Words : decode_precision(word).kind = "Bounded" => word \in BoundedWidths
  <1> USE UsizeMaxAssumption DEF Words, BoundedWidths, UnsetSentinel, UnlimitedSentinel,
          Unset, Unlimited, Bounded, Policies, ScopePolicies, encode_precision, decode_precision
  <1>1. \A policy \in Policies :
       encode_precision(policy) \in Words /\ decode_precision(encode_precision(policy)) = policy
    OBVIOUS
  <1>2. \A word \in Words :
       decode_precision(word) \in Policies /\ encode_precision(decode_precision(word)) = word
    OBVIOUS
  <1>3. \A word \in Words : decode_precision(word).kind = "Bounded" => word \in BoundedWidths
    OBVIOUS
  <1>4. QED  BY <1>1, <1>2, <1>3

\* A policy a scope can impose never encodes to "unset" (encode_precision).
LEMMA ScopeWordIsSet ==
  \A policy \in ScopePolicies : encode_precision(policy) \in Words \ {UnsetSentinel}
  BY UsizeMaxAssumption DEF ScopePolicies, Unlimited, Bounded, BoundedWidths, Words,
     encode_precision, UnsetSentinel, UnlimitedSentinel

\* Dropping the innermost frame of a nonempty stack leaves the others alone.
LEMMA FrontKeepsRest ==
  ASSUME NEW S, NEW s \in Seq(S), s # <<>>
  PROVE  /\ Len(s) \in Nat \ {0}
         /\ Front(s) \in Seq(S)
         /\ Len(Front(s)) = Len(s) - 1
         /\ \A i \in 1 .. Len(s) - 1 : Front(s)[i] = s[i]
         /\ Last(s) \in S
  <1>1. Len(s) \in Nat \ {0} /\ s \in [1 .. Len(s) -> S]
    BY EmptySeq, LenProperties
  <1>2. \A i \in 1 .. Len(s) - 1 : s[i] \in S
    BY <1>1
  <1>3. /\ Front(s) \in Seq(S)
        /\ Len(Front(s)) = Len(s) - 1
        /\ \A i \in 1 .. Len(s) - 1 : Front(s)[i] = s[i]
    BY <1>1, <1>2, SubSeqProperties DEF Front
  <1> QED  BY <1>1, <1>3 DEF Last

-----------------------------------------------------------------------------

\* Every variable keeps its type (precision.rs).
THEOREM TypeCorrect == Spec => []TypeOK
  <1>1. Init => TypeOK
    BY UsizeMaxAssumption DEF Init, TypeOK, Words, UnsetSentinel
  <1>2. TypeOK /\ [Next]_vars => TypeOK'
    <2> SUFFICES ASSUME TypeOK, [Next]_vars  PROVE TypeOK'
      OBVIOUS
    <2>1. ASSUME NEW t \in Threads, SetGlobal(t)  PROVE TypeOK'
      BY <2>1, EncodingRoundTrip DEF SetGlobal, TypeOK
    <2>2. ASSUME NEW t \in Threads, NEW policy \in ScopePolicies, WithPrecision(t, policy)
          PROVE TypeOK'
      <3>1. encode_precision(policy) \in Words  BY ScopeWordIsSet
      <3> QED  BY <3>1, <2>2 DEF WithPrecision, TypeOK
    <2>3. ASSUME NEW t \in Threads, NEW bits \in Words, WithBounded(t, bits)  PROVE TypeOK'
      <3>1. CASE bits \in BoundedWidths
        BY <2>2, <2>3, <3>1 DEF WithBounded, ScopePolicies
      <3>2. CASE bits \notin BoundedWidths
        BY <2>3, <3>2 DEF WithBounded, TypeOK
      <3> QED  BY <3>1, <3>2
    <2>4. ASSUME NEW t \in Threads, WithUnlimited(t)  PROVE TypeOK'
      BY <2>2, <2>4 DEF WithUnlimited, ScopePolicies
    <2>5. ASSUME NEW t \in Threads, DropGuard(t)  PROVE TypeOK'
      <3>1. Last(guards[t]) \in Words /\ Front(guards[t]) \in Seq(Words)
        BY <2>5, FrontKeepsRest DEF DropGuard, TypeOK
      <3> QED  BY <2>5, <3>1 DEF DropGuard, TypeOK
    <2>6. ASSUME NEW t \in Threads, Panic(t) \/ Die(t)  PROVE TypeOK'
      BY <2>6 DEF Panic, Die, TypeOK
    <2>7. ASSUME NEW t \in Threads, EnterCatch(t)  PROVE TypeOK'
      BY <2>7 DEF EnterCatch, TypeOK
    <2>8. ASSUME NEW t \in Threads, LeaveCatch(t)  PROVE TypeOK'
      <3>1. Front(catches[t]) \in Seq(Nat)
        BY <2>8, FrontKeepsRest DEF LeaveCatch, AtCatch, TypeOK
      <3> QED  BY <2>8, <3>1 DEF LeaveCatch, TypeOK
    <2>9. ASSUME NEW t \in Threads, Spawn(t)  PROVE TypeOK'
      BY <2>9, UsizeMaxAssumption DEF Spawn, TypeOK, Words, UnsetSentinel
    <2>10. CASE UNCHANGED vars
      BY <2>10 DEF vars, TypeOK
    <2> QED
      BY <2>1, <2>3, <2>4, <2>5, <2>6, <2>7, <2>8, <2>9, <2>10
         DEF Next, Step, ReturnFromScope, UnwindScope
  <1> QED  BY <1>1, <1>2, PTL DEF Spec

-----------------------------------------------------------------------------

\* What one thread's guards and cell owe each other.
WellScoped(saved, word) ==
  /\ (saved # <<>>) <=> (word # UnsetSentinel)
  /\ \A i \in 1 .. Len(saved) : (saved[i] = UnsetSentinel) <=> (i = 1)

\* Opening a scope: the cell moves to a new guard, a set word replaces it.
LEMMA WellScopedPush ==
  ASSUME NEW saved \in Seq(Words), NEW old \in Words, NEW new \in Words \ {UnsetSentinel},
         WellScoped(saved, old)
  PROVE  WellScoped(Append(saved, old), new)
  <1>1. /\ Len(saved) \in Nat
        /\ Len(Append(saved, old)) = Len(saved) + 1
        /\ \A i \in 1 .. Len(saved) : Append(saved, old)[i] = saved[i]
        /\ Append(saved, old)[Len(saved) + 1] = old
        /\ Append(saved, old) # <<>>
    BY AppendProperties, LenProperties
  <1>2. saved = <<>> <=> Len(saved) = 0
    BY EmptySeq
  <1>3. ASSUME NEW i \in 1 .. Len(saved) + 1
        PROVE  (Append(saved, old)[i] = UnsetSentinel) <=> (i = 1)
    <2>1. CASE i \in 1 .. Len(saved)
      BY <1>1, <2>1 DEF WellScoped
    <2>2. CASE i = Len(saved) + 1
      BY <1>1, <1>2, <2>2 DEF WellScoped
    <2> QED  BY <1>1, <2>1, <2>2
  <1> QED  BY <1>1, <1>3 DEF WellScoped

\* Leaving a scope: the innermost saved word goes back to the cell.
LEMMA WellScopedPop ==
  ASSUME NEW saved \in Seq(Words), NEW word, saved # <<>>, WellScoped(saved, word)
  PROVE  WellScoped(Front(saved), Last(saved))
  <1>1. /\ Len(saved) \in Nat \ {0}
        /\ Front(saved) \in Seq(Words)
        /\ Len(Front(saved)) = Len(saved) - 1
        /\ \A i \in 1 .. Len(saved) - 1 : Front(saved)[i] = saved[i]
    BY FrontKeepsRest
  <1>2. Front(saved) = <<>> <=> Len(saved) = 1
    <2>1. Front(saved) = <<>> <=> Len(Front(saved)) = 0
      BY <1>1, EmptySeq
    <2> QED  BY <1>1, <2>1
  <1>3. Last(saved) = UnsetSentinel <=> Len(saved) = 1
    BY <1>1 DEF WellScoped, Last
  <1>4. \A i \in 1 .. Len(Front(saved)) : (Front(saved)[i] = UnsetSentinel) <=> (i = 1)
    BY <1>1 DEF WellScoped
  <1> QED  BY <1>2, <1>3, <1>4 DEF WellScoped

\* The inductive invariant.  A thread that ended left no scope open, so the
\* fresh cell of its successor is the one it must start from.
ScopeInv ==
  \A t \in Threads :
    /\ WellScoped(guards[t], cell[t])
    /\ mode[t] = "dead" => guards[t] = <<>>

LEMMA ScopeInvInit == Init => ScopeInv
  BY EmptySeq DEF Init, ScopeInv, WellScoped, UnsetSentinel

\* Replacing the cell and dropping a guard are the only actions that touch the
\* cell or the guards of a live thread (precision.rs 114-128, 158-163).
LEMMA ScopeInvStep == TypeOK /\ ScopeInv /\ [Next]_vars => ScopeInv'
  <1> SUFFICES ASSUME TypeOK, ScopeInv, [Next]_vars  PROVE ScopeInv'
    OBVIOUS
  <1> USE DEF ScopeInv
  <1>1. ASSUME NEW t \in Threads, NEW policy \in ScopePolicies, WithPrecision(t, policy),
               mode[t] = "running"
        PROVE ScopeInv'
    <2>1. encode_precision(policy) \in Words \ {UnsetSentinel}  BY ScopeWordIsSet
    <2>2. WellScoped(Append(guards[t], cell[t]), encode_precision(policy))
      BY <2>1, WellScopedPush DEF TypeOK
    <2> QED  BY <1>1, <2>2 DEF WithPrecision, TypeOK
  <1>2. ASSUME NEW t \in Threads, NEW bits \in Words, WithBounded(t, bits)  PROVE ScopeInv'
    <2>1. CASE bits \in BoundedWidths
      BY <1>1, <1>2, <2>1 DEF WithBounded, ScopePolicies
    <2>2. CASE bits \notin BoundedWidths
      BY <1>2, <2>2 DEF WithBounded, TypeOK
    <2> QED  BY <2>1, <2>2
  <1>3. ASSUME NEW t \in Threads, WithUnlimited(t)  PROVE ScopeInv'
    BY <1>1, <1>3 DEF WithUnlimited, ScopePolicies
  <1>4. ASSUME NEW t \in Threads, DropGuard(t), mode[t] # "dead"  PROVE ScopeInv'
    <2>1. WellScoped(Front(guards[t]), Last(guards[t]))
      BY <1>4, WellScopedPop DEF DropGuard, TypeOK
    <2> QED  BY <1>4, <2>1 DEF DropGuard, TypeOK
  <1>5. ASSUME NEW t \in Threads,
               SetGlobal(t) \/ Panic(t) \/ EnterCatch(t) \/ LeaveCatch(t) \/ Die(t)
        PROVE ScopeInv'
    BY <1>5 DEF SetGlobal, Panic, EnterCatch, LeaveCatch, Die, TypeOK
  <1>6. ASSUME NEW t \in Threads, Spawn(t)  PROVE ScopeInv'
    BY <1>6, EmptySeq DEF Spawn, TypeOK, WellScoped
  <1>7. CASE UNCHANGED vars
    BY <1>7 DEF vars
  <1> QED
    BY <1>2, <1>3, <1>4, <1>5, <1>6, <1>7 DEF Next, Step, ReturnFromScope, UnwindScope

LEMMA ScopeInvariant == Spec => []ScopeInv
  <1> QED  BY ScopeInvInit, ScopeInvStep, TypeCorrect, PTL DEF Spec

\* Inside a scope active() never falls through to the global policy, outside of
\* every scope it always does, for any interleaving of scopes and panics.
THEOREM ScopesNeverFallThrough == Spec => [](NoFallThrough /\ SavedWords)
  <1>1. ScopeInv => NoFallThrough /\ SavedWords
    BY DEF ScopeInv, WellScoped, NoFallThrough, SavedWords
  <1> QED  BY <1>1, ScopeInvariant, PTL

\* Nothing another thread does, and no set_global at all, changes the policy a
\* thread inside a scope resolves until that thread opens or leaves a scope.
THEOREM ScopesAreIsolated == Spec => ScopeIsolation
  <1>1. TypeOK /\ ScopeInv /\ [Next]_vars =>
          [\A t \in Threads :
             (guards[t] # <<>> /\ guards'[t] = guards[t]) => active(t)' = active(t)]_vars
    <2> SUFFICES ASSUME TypeOK, ScopeInv, [Next]_vars, NEW t \in Threads,
                        guards[t] # <<>>, guards'[t] = guards[t]
                 PROVE  active(t)' = active(t)
      OBVIOUS
    <2>1. cell[t] # UnsetSentinel /\ mode[t] # "dead"
      BY DEF ScopeInv, WellScoped
    <2>2. cell'[t] = cell[t]
      <3>1. guards[t] \in Seq(Words) /\ cell[t] \in Words  BY DEF TypeOK
      <3>2. Append(guards[t], cell[t]) # guards[t]
        BY <3>1, AppendProperties, LenProperties
      <3>3. Front(guards[t]) # guards[t]
        BY <3>1, FrontKeepsRest
      <3>4. ASSUME NEW u \in Threads, NEW policy, WithPrecision(u, policy)  PROVE cell'[t] = cell[t]
        BY <3>2, <3>4 DEF WithPrecision, TypeOK
      <3>5. ASSUME NEW u \in Threads, DropGuard(u)  PROVE cell'[t] = cell[t]
        BY <3>3, <3>5 DEF DropGuard, TypeOK
      <3>6. ASSUME NEW u \in Threads, Spawn(u)  PROVE cell'[t] = cell[t]
        BY <2>1, <3>6 DEF Spawn, TypeOK
      <3>7. ASSUME NEW u \in Threads, NEW bits \in Words, WithBounded(u, bits)
            PROVE cell'[t] = cell[t]
        BY <3>4, <3>7 DEF WithBounded
      <3> QED
        BY <3>4, <3>5, <3>6, <3>7
           DEF Next, Step, vars, WithUnlimited, ReturnFromScope, UnwindScope,
               SetGlobal, Panic, EnterCatch, LeaveCatch, Die
    <2> QED  BY <2>1, <2>2 DEF active, ActiveWord
  <1> QED  BY <1>1, TypeCorrect, ScopeInvariant, PTL DEF Spec, ScopeIsolation

-----------------------------------------------------------------------------
(* The refinement of ScopedPolicies. *)

\* A stack of open policies is a sequence of as many scope policies as guards.
LEMMA OpenPoliciesType ==
  ASSUME NEW saved \in Seq(Words), NEW word \in Words
  PROVE  /\ OpenPolicies(saved, word) \in Seq(Policies)
         /\ Len(OpenPolicies(saved, word)) = Len(saved)
         /\ (OpenPolicies(saved, word) = <<>>) <=> (saved = <<>>)
  <1> DEFINE open == OpenPolicies(saved, word)
  <1>1. Len(saved) \in Nat /\ saved \in [1 .. Len(saved) -> Words]
    BY LenProperties
  <1>2. open \in [1 .. Len(saved) -> Policies]
    BY <1>1, EncodingRoundTrip DEF OpenPolicies
  <1>3. open \in Seq(Policies)
    BY <1>1, <1>2, SeqDef
  <1>4. Len(open) = Len(saved)
    BY <1>1, <1>2, <1>3, LenProperties
  <1> HIDE DEF open
  <1>5. open = <<>> <=> Len(open) = 0
    BY <1>3, EmptySeq
  <1>6. saved = <<>> <=> Len(saved) = 0
    BY EmptySeq
  <1> QED  BY <1>3, <1>4, <1>5, <1>6 DEF open

\* Cell::replace pushes the policy of the new word on the stack of policies.
LEMMA OpenPoliciesPush ==
  ASSUME NEW saved \in Seq(Words), NEW old \in Words, NEW new \in Words
  PROVE  OpenPolicies(Append(saved, old), new)
           = Append(OpenPolicies(saved, old), decode_precision(new))
  <1> DEFINE before == OpenPolicies(saved, old)
             after == OpenPolicies(Append(saved, old), new)
             pushed == Append(before, decode_precision(new))
  <1>1. /\ Len(saved) \in Nat
        /\ Append(saved, old) \in Seq(Words)
        /\ Len(Append(saved, old)) = Len(saved) + 1
        /\ \A i \in 1 .. Len(saved) : Append(saved, old)[i] = saved[i]
        /\ Append(saved, old)[Len(saved) + 1] = old
    BY AppendProperties, LenProperties
  <1>2. /\ before \in Seq(Policies) /\ Len(before) = Len(saved)
        /\ after \in Seq(Policies) /\ Len(after) = Len(saved) + 1
    BY <1>1, OpenPoliciesType
  <1>3. decode_precision(new) \in Policies
    BY EncodingRoundTrip
  <1>4. /\ pushed \in Seq(Policies)
        /\ Len(pushed) = Len(saved) + 1
        /\ \A i \in 1 .. Len(saved) : pushed[i] = before[i]
        /\ pushed[Len(saved) + 1] = decode_precision(new)
    <2> HIDE DEF before
    <2> QED  BY <1>2, <1>3, AppendProperties
  <1>5. ASSUME NEW i \in 1 .. Len(saved) + 1  PROVE after[i] = pushed[i]
    <2>1. CASE i = Len(saved) + 1
      BY <1>1, <1>4, <2>1 DEF OpenPolicies
    <2>2. CASE i \in 1 .. Len(saved)
      <3>1. before[i] = decode_precision(IF i = Len(saved) THEN old ELSE saved[i + 1])
        BY <2>2 DEF OpenPolicies
      <3>2. after[i] = decode_precision(Append(saved, old)[i + 1])
        BY <1>1, <2>2 DEF OpenPolicies
      <3>3. Append(saved, old)[i + 1] = IF i = Len(saved) THEN old ELSE saved[i + 1]
        BY <1>1, <2>2
      <3> QED  BY <1>4, <2>2, <3>1, <3>2, <3>3
    <2>3. i = Len(saved) + 1 \/ i \in 1 .. Len(saved)
      BY <1>1
    <2> HIDE DEF after, pushed
    <2> QED  BY <2>1, <2>2, <2>3
  <1> HIDE DEF after, pushed
  <1>6. after = pushed
    BY <1>1, <1>2, <1>4, <1>5, SeqEqual
  <1> QED  BY <1>6 DEF after, pushed, before

\* PrecisionGuard::drop pops it.
LEMMA OpenPoliciesPop ==
  ASSUME NEW saved \in Seq(Words), NEW word \in Words, saved # <<>>
  PROVE  OpenPolicies(Front(saved), Last(saved))
           = SubSeq(OpenPolicies(saved, word), 1, Len(OpenPolicies(saved, word)) - 1)
  <1> DEFINE before == OpenPolicies(saved, word)
             after == OpenPolicies(Front(saved), Last(saved))
             popped == Front(before)
  <1>1. /\ Len(saved) \in Nat \ {0}
        /\ Front(saved) \in Seq(Words)
        /\ Last(saved) \in Words
        /\ Len(Front(saved)) = Len(saved) - 1
        /\ \A i \in 1 .. Len(saved) - 1 : Front(saved)[i] = saved[i]
    BY FrontKeepsRest
  <1>2. /\ before \in Seq(Policies) /\ Len(before) = Len(saved) /\ before # <<>>
        /\ after \in Seq(Policies) /\ Len(after) = Len(saved) - 1
    BY <1>1, OpenPoliciesType
  <1>3. /\ popped \in Seq(Policies)
        /\ Len(popped) = Len(saved) - 1
        /\ \A i \in 1 .. Len(saved) - 1 : popped[i] = before[i]
    <2> HIDE DEF before
    <2> QED  BY <1>2, FrontKeepsRest
  <1>4. ASSUME NEW i \in 1 .. Len(saved) - 1  PROVE after[i] = popped[i]
    <2>1. before[i] = decode_precision(saved[i + 1])
      BY <1>1 DEF OpenPolicies
    <2>2. after[i] = decode_precision(IF i = Len(saved) - 1 THEN Last(saved) ELSE Front(saved)[i + 1])
      BY <1>1 DEF OpenPolicies
    <2>3. (IF i = Len(saved) - 1 THEN Last(saved) ELSE Front(saved)[i + 1]) = saved[i + 1]
      BY <1>1 DEF Last
    <2> QED  BY <1>3, <2>1, <2>2, <2>3
  <1> HIDE DEF after, popped
  <1>5. after = popped
    BY <1>1, <1>2, <1>3, <1>4, SeqEqual
  <1> QED  BY <1>5 DEF after, popped, before, Front

\* The cell, the guards and the sentinels implement the stack of policies: each
\* step opens or closes one scope of one thread, sets the default, or changes
\* nothing a caller can see.
THEOREM ScopesRefine == Spec => ImplementsScopedPolicies
  <1> DEFINE default == decode_precision(global)
             scopes == [t \in Threads |-> OpenScopes(t)]
  <1>1. Init => Promised!Init
    <2> SUFFICES ASSUME Init  PROVE Promised!Init
      OBVIOUS
    <2>1. \A t \in Threads : OpenScopes(t) = <<>>
      <3> TAKE t \in Threads
      <3>1. guards[t] = <<>> /\ guards[t] \in Seq(Words) /\ cell[t] \in Words
        BY EmptySeq, UsizeMaxAssumption DEF Init, UnsetSentinel, Words
      <3> QED  BY <3>1, OpenPoliciesType DEF OpenScopes
    <2>2. default \in Policies
      BY EncodingRoundTrip, UsizeMaxAssumption DEF Init, UnsetSentinel, Words
    <2> QED  BY <2>1, <2>2 DEF Promised!Init
  <1>2. TypeOK /\ ScopeInv /\ [Next]_vars => [Promised!Next]_(Promised!vars)
    <2> SUFFICES ASSUME TypeOK, ScopeInv, [Next]_vars
                 PROVE  Promised!Next \/ UNCHANGED <<default, scopes>>
      BY DEF Promised!vars
    <2>1. \A t \in Threads : guards[t] \in Seq(Words) /\ cell[t] \in Words
      BY DEF TypeOK
    <2>2. ASSUME NEW t \in Threads, NEW policy \in ScopePolicies, WithPrecision(t, policy)
          PROVE  Promised!Next
      <3>1. /\ encode_precision(policy) \in Words
            /\ decode_precision(encode_precision(policy)) = policy
        BY EncodingRoundTrip DEF Policies
      <3>2. /\ guards'[t] = Append(guards[t], cell[t])
            /\ cell'[t] = encode_precision(policy)
            /\ \A u \in Threads \ {t} : guards'[u] = guards[u] /\ cell'[u] = cell[u]
            /\ global' = global
        BY <2>2 DEF WithPrecision, TypeOK
      <3>3. OpenScopes(t)' = Append(OpenScopes(t), policy)
        BY <2>1, <3>1, <3>2, OpenPoliciesPush DEF OpenScopes
      <3>4. \A u \in Threads \ {t} : OpenScopes(u)' = OpenScopes(u)
        BY <3>2 DEF OpenScopes
      <3>5. scopes' = [scopes EXCEPT ![t] = Append(@, policy)] /\ default' = default
        BY <3>2, <3>3, <3>4
      <3> QED  BY <3>5 DEF Promised!Next, Promised!Open
    <2>3. ASSUME NEW t \in Threads, DropGuard(t)  PROVE Promised!Next
      <3>1. /\ guards[t] # <<>>
            /\ guards'[t] = Front(guards[t])
            /\ cell'[t] = Last(guards[t])
            /\ \A u \in Threads \ {t} : guards'[u] = guards[u] /\ cell'[u] = cell[u]
            /\ global' = global
        BY <2>3 DEF DropGuard, TypeOK
      <3>2. /\ OpenScopes(t) # <<>>
            /\ OpenScopes(t)' = SubSeq(OpenScopes(t), 1, Len(OpenScopes(t)) - 1)
        BY <2>1, <3>1, OpenPoliciesType, OpenPoliciesPop DEF OpenScopes
      <3>3. \A u \in Threads \ {t} : OpenScopes(u)' = OpenScopes(u)
        BY <3>1 DEF OpenScopes
      <3>4. /\ scopes[t] # <<>>
            /\ scopes' = [scopes EXCEPT ![t] = SubSeq(@, 1, Len(@) - 1)]
            /\ default' = default
        BY <3>1, <3>2, <3>3
      <3> QED  BY <3>4 DEF Promised!Next, Promised!Close
    <2>4. ASSUME NEW t \in Threads, SetGlobal(t)  PROVE Promised!Next
      <3>1. default' \in Policies
        BY <2>4, EncodingRoundTrip DEF SetGlobal
      <3>2. scopes' = scopes
        BY <2>4 DEF SetGlobal, OpenScopes
      <3> QED  BY <3>1, <3>2 DEF Promised!Next, Promised!SetDefault
    <2>5. ASSUME NEW t \in Threads, Spawn(t)  PROVE UNCHANGED <<default, scopes>>
      <3>1. guards[t] = <<>> /\ guards' = guards /\ global' = global
            /\ \A u \in Threads \ {t} : cell'[u] = cell[u]
        BY <2>5 DEF Spawn, ScopeInv, TypeOK
      <3>2. OpenScopes(t)' = OpenScopes(t)
        <4>1. cell'[t] \in Words
          BY <2>5, UsizeMaxAssumption DEF Spawn, TypeOK, UnsetSentinel, Words
        <4> QED  BY <2>1, <3>1, <4>1, OpenPoliciesType DEF OpenScopes
      <3>3. \A u \in Threads : OpenScopes(u)' = OpenScopes(u)
        BY <3>1, <3>2 DEF OpenScopes
      <3> QED  BY <3>1, <3>3
    <2>6. ASSUME UNCHANGED <<global, cell, guards>>  PROVE UNCHANGED <<default, scopes>>
      BY <2>6 DEF OpenScopes
    <2>7. ASSUME NEW t \in Threads, NEW bits \in Words, WithBounded(t, bits)
          PROVE  Promised!Next \/ UNCHANGED <<default, scopes>>
      <3>1. CASE bits \in BoundedWidths
        BY <2>2, <2>7, <3>1 DEF WithBounded, ScopePolicies
      <3>2. CASE bits \notin BoundedWidths
        BY <2>6, <2>7, <3>2 DEF WithBounded
      <3> QED  BY <3>1, <3>2
    <2> HIDE DEF default, scopes
    <2>8. ASSUME NEW t \in Threads, Step(t)
          PROVE  Promised!Next \/ UNCHANGED <<default, scopes>>
      <3>1. CASE WithUnlimited(t)
        BY <2>2, <3>1 DEF WithUnlimited, ScopePolicies
      <3>2. CASE ReturnFromScope(t) \/ UnwindScope(t)
        BY <2>3, <3>2 DEF ReturnFromScope, UnwindScope
      <3>3. CASE Panic(t) \/ EnterCatch(t) \/ LeaveCatch(t) \/ Die(t)
        BY <2>6, <3>3 DEF Panic, EnterCatch, LeaveCatch, Die
      <3> QED  BY <2>4, <2>5, <2>7, <2>8, <3>1, <3>2, <3>3 DEF Step
    <2>9. CASE UNCHANGED vars
      BY <2>6, <2>9 DEF vars
    <2> QED  BY <2>8, <2>9 DEF Next
  <1> QED
    BY <1>1, <1>2, TypeCorrect, ScopeInvariant, PTL
       DEF Spec, ImplementsScopedPolicies, Promised!Spec

\* What active() answers is the policy of the innermost open scope, or the global
\* policy outside of every scope, on every thread and at any nesting (active).
THEOREM ScopesStaySound == Spec => []ScopesHold
  <1>1. TypeOK /\ NoFallThrough => ActiveIsResolved
    <2> SUFFICES ASSUME TypeOK, NoFallThrough, NEW t \in Threads
                 PROVE  active(t) = Promised!Resolved(t)
      BY DEF ActiveIsResolved
    <2>1. guards[t] \in Seq(Words) /\ Len(guards[t]) \in Nat
      BY LenProperties DEF TypeOK
    <2>2. Promised!Resolved(t) = IF OpenScopes(t) = <<>> THEN decode_precision(global)
                                 ELSE OpenScopes(t)[Len(OpenScopes(t))]
      BY DEF Promised!Resolved
    <2>3. CASE guards[t] = <<>>
      <3>1. OpenScopes(t) = <<>>
        BY <2>3 DEF OpenScopes, OpenPolicies
      <3>2. cell[t] = UnsetSentinel
        BY <2>3 DEF NoFallThrough
      <3> QED
        BY <2>2, <3>1, <3>2 DEF active, ActiveWord
    <2>4. CASE guards[t] # <<>>
      <3>1. Len(guards[t]) \in Nat \ {0}
        BY <2>1, <2>4, EmptySeq
      <3>2. /\ Len(OpenScopes(t)) = Len(guards[t])
            /\ OpenScopes(t)[Len(guards[t])] = decode_precision(cell[t])
        BY <3>1 DEF OpenScopes, OpenPolicies
      <3>3. OpenScopes(t) # <<>>
        BY <3>1, <3>2
      <3>4. cell[t] # UnsetSentinel
        BY <2>4 DEF NoFallThrough
      <3>5. active(t) = decode_precision(cell[t])
        BY <3>4 DEF active, ActiveWord
      <3> QED
        BY <2>2, <3>2, <3>3, <3>5
    <2> QED  BY <2>3, <2>4
  <1> QED
    BY <1>1, TypeCorrect, ScopesNeverFallThrough, PTL DEF ScopesHold

-----------------------------------------------------------------------------
(* The width: every set of threads and libraries, and every host.           *)

\* What a library cached is the width of the pool that exists.
CachesAgree == \A l \in Libraries : width[l] # 0 => width[l] = pool

\* Only a thread outside of every pool is inside a OnceLock, and after the
\* narrowing it attempted there is a pool whenever one was to be built.
SettersOutside ==
  \A t \in Callers :
    /\ pc[t] \in {"narrowing", "measuring"} => inside[t] = 0
    /\ pc[t] = "measuring" /\ Narrows => pool # 0

\* A thread in an operation has a library.
CallsKnown == \A t \in Callers : pc[t] # "idle" => call[t] \in Libraries

PoolsInv ==
  PoolsTypeOK /\ CachesAgree /\ SettersOutside /\ CallsKnown
    /\ BudgetIsPoolWidth /\ NarrowedByPolicy

LEMMA HostFacts ==
  ASSUME host \in Hosts
  PROVE  /\ host.available \in 0 .. MaxWidth /\ host.physical \in 0 .. MaxWidth
         /\ host.env.width \in 0 .. MaxWidth
         /\ ~ host.env.present => host.env.width = 0
<1>1. host.env \in Environments /\ host.available \in 0 .. MaxWidth
      /\ host.physical \in 0 .. MaxWidth
  BY DEF Hosts
<1>2. CASE host.env = Absent
  BY <1>1, <1>2, MaxWidthAssumption DEF Absent
<1>3. CASE host.env \in [present : {TRUE}, width : 0 .. MaxWidth]
  <2>1. host.env.present = TRUE /\ host.env.width \in 0 .. MaxWidth
    BY <1>3
  <2> QED
    BY <1>1, <2>1
<1> QED
  BY <1>1, <1>2, <1>3 DEF Environments

LEMMA WidthsPositive ==
  ASSUME host \in Hosts
  PROVE  /\ DefaultWidth \in 1 .. MaxWidth
         /\ Narrows => host.physical \in 1 .. MaxWidth
BY HostFacts, MaxWidthAssumption DEF DefaultWidth, Larger, Narrows

\* The two ways a pool appears under a library obey the policy.
LEMMA PolicyOfCreation ==
  ASSUME host \in Hosts
  PROVE  /\ ~ Narrows => Permitted(DefaultWidth)
         /\ Narrows => Permitted(host.physical)
BY HostFacts, MaxWidthAssumption DEF Permitted, DefaultWidth, Larger, Narrows

LEMMA PoolsInitially == PoolsInit => PoolsInv
<1> SUFFICES ASSUME PoolsInit PROVE PoolsInv
  OBVIOUS
<1>1. \A t \in Callers : None # t
  BY NoneAssumption
<1>2. PoolsTypeOK
  <2>1. 0 \in 0 .. MaxWidth
    BY MaxWidthAssumption
  <2>2. width \in [Libraries -> 0 .. MaxWidth] /\ setter \in [Libraries -> Callers \union {None}]
    BY <2>1 DEF PoolsInit
  <2>3. /\ inside \in [Callers -> 0 .. MaxWidth] /\ budget \in [Callers -> 0 .. MaxWidth]
        /\ call \in [Callers -> Libraries \union {None}]
    BY <2>1 DEF PoolsInit
  <2>4. \A t \in Callers, l \in Libraries :
          (setter[l] = t) <=> (pc[t] \in {"narrowing", "measuring"} /\ call[t] = l)
    BY <1>1 DEF PoolsInit
  <2> QED
    BY <2>1, <2>2, <2>3, <2>4 DEF PoolsInit, PoolsTypeOK
<1>3. CachesAgree /\ SettersOutside /\ CallsKnown /\ BudgetIsPoolWidth
  BY DEF PoolsInit, CachesAgree, SettersOutside, CallsKnown, BudgetIsPoolWidth
<1>4. NarrowedByPolicy
  BY DEF PoolsInit, NarrowedByPolicy
<1> QED
  BY <1>2, <1>3, <1>4 DEF PoolsInv

LEMMA PoolsStep == PoolsInv /\ [PoolsNext]_allPoolVars => PoolsInv'
<1> SUFFICES ASSUME PoolsInv, [PoolsNext]_allPoolVars PROVE PoolsInv'
  OBVIOUS
<1> USE MaxWidthAssumption, NoneAssumption, WidthsPositive DEF PoolsInv
<1>1. CASE UNCHANGED allPoolVars
  BY <1>1 DEF allPoolVars, PoolsTypeOK, CachesAgree, SettersOutside, CallsKnown, BudgetIsPoolWidth,
     PoolWidth, NarrowedByPolicy, Permitted, Narrows, DefaultWidth
<1>2. ASSUME NEW t \in Callers, NEW l \in Libraries, Call(t, l) PROVE PoolsInv'
  BY <1>2 DEF Call, PoolsTypeOK, CachesAgree, SettersOutside, CallsKnown, BudgetIsPoolWidth,
     PoolWidth, NarrowedByPolicy, Permitted, Narrows, DefaultWidth
<1>3. ASSUME NEW t \in Callers, ResolveInWorker(t) PROVE PoolsInv'
  BY <1>3 DEF ResolveInWorker, Resolved, PoolsTypeOK, CachesAgree, SettersOutside, CallsKnown,
     BudgetIsPoolWidth, PoolWidth, NarrowedByPolicy, Permitted, Narrows, DefaultWidth
<1>4. ASSUME NEW t \in Callers, ResolveFromCache(t) PROVE PoolsInv'
  BY <1>4 DEF ResolveFromCache, Resolved, PoolsTypeOK, CachesAgree, SettersOutside, CallsKnown,
     BudgetIsPoolWidth, PoolWidth, NarrowedByPolicy, Permitted, Narrows, DefaultWidth
<1>5. ASSUME NEW t \in Callers, EnterInit(t) PROVE PoolsInv'
  BY <1>5 DEF EnterInit, PoolsTypeOK, CachesAgree, SettersOutside, CallsKnown,
     BudgetIsPoolWidth, PoolWidth, NarrowedByPolicy, Permitted, Narrows, DefaultWidth
<1>6. ASSUME NEW t \in Callers, NarrowDefaultPool(t) PROVE PoolsInv'
  <2> USE <1>6 DEF NarrowDefaultPool
  <2>1. UNCHANGED <<host, width, setter, inside, call, budget, forked>>
    OBVIOUS
  <2>2. CASE pool' = pool /\ creator' = creator
    <3>1. ~ Narrows \/ pool # 0
      BY <2>2 DEF Built, poolVars, PoolsTypeOK
    <3> QED
      BY <2>2, <3>1 DEF PoolsTypeOK, CachesAgree, SettersOutside, CallsKnown, BudgetIsPoolWidth,
         PoolWidth, NarrowedByPolicy, Permitted, Narrows, DefaultWidth
  <2>3. CASE pool = 0 /\ Narrows
    <3>1. pool' = host.physical /\ creator' = "library" /\ pool' \in 1 .. MaxWidth
      BY <2>3 DEF Built, PoolsTypeOK
    <3>2. NarrowedByPolicy'
      BY <3>1, <2>1, <2>3, PolicyOfCreation DEF NarrowedByPolicy, Permitted, PoolsTypeOK, DefaultWidth
    <3>3. (PoolsTypeOK /\ CachesAgree /\ SettersOutside /\ CallsKnown /\ BudgetIsPoolWidth)'
      BY <2>3, <3>1 DEF PoolsTypeOK, CachesAgree, SettersOutside, CallsKnown, BudgetIsPoolWidth,
         PoolWidth, Narrows, DefaultWidth
    <3> QED
      BY <3>2, <3>3
  <2> QED
    BY <2>2, <2>3 DEF Built, poolVars
<1>7. ASSUME NEW t \in Callers, Measure(t) PROVE PoolsInv'
  <2> USE <1>7 DEF Measure
  <2>1. pool' \in 1 .. MaxWidth /\ (pool # 0 => pool' = pool /\ creator' = creator)
    BY DEF Demanded, PoolsTypeOK
  <2>2. inside[t] = 0 /\ call[t] \in Libraries /\ setter[call[t]] = t
    BY DEF PoolsTypeOK, SettersOutside, CallsKnown
  <2>3. (PoolsTypeOK /\ CachesAgree /\ SettersOutside /\ CallsKnown /\ BudgetIsPoolWidth)'
    BY <2>1, <2>2 DEF Demanded, Resolved, PoolsTypeOK, CachesAgree, SettersOutside, CallsKnown,
       BudgetIsPoolWidth, PoolWidth, Narrows
  <2>4. NarrowedByPolicy'
    <3>1. CASE pool # 0
      BY <3>1, <2>1 DEF NarrowedByPolicy, Permitted, DefaultWidth
    <3>2. CASE pool = 0
      <4>1. pool' = DefaultWidth /\ ~ Narrows
        BY <3>2 DEF Demanded, SettersOutside
      <4> QED
        BY <4>1, PolicyOfCreation DEF NarrowedByPolicy, Permitted, PoolsTypeOK, DefaultWidth
    <3> QED
      BY <3>1, <3>2
  <2> QED
    BY <2>3, <2>4
<1>8. ASSUME NEW t \in Callers, Fork(t) PROVE PoolsInv'
  <2>1. pool' = pool /\ creator' = creator /\ forked' \in BOOLEAN
    BY <1>8 DEF Fork, Demanded, PoolsTypeOK, BudgetIsPoolWidth, PoolWidth
  <2> QED
    BY <1>8, <2>1 DEF Fork, PoolsTypeOK, CachesAgree, SettersOutside, CallsKnown,
       BudgetIsPoolWidth, PoolWidth, NarrowedByPolicy, Permitted, Narrows, DefaultWidth
<1>9. ASSUME NEW t \in Callers, Return(t) PROVE PoolsInv'
  BY <1>9 DEF Return, PoolsTypeOK, CachesAgree, SettersOutside, CallsKnown,
     BudgetIsPoolWidth, PoolWidth, NarrowedByPolicy, Permitted, Narrows, DefaultWidth
<1>10. ASSUME NEW t \in Callers, NEW w \in 0 .. MaxWidth, Install(t, w) PROVE PoolsInv'
  BY <1>10 DEF Install, PoolsTypeOK, CachesAgree, SettersOutside, CallsKnown,
     BudgetIsPoolWidth, PoolWidth, NarrowedByPolicy, Permitted, Narrows, DefaultWidth
<1>11. ASSUME NEW w \in Widths, BuildGlobal(w) PROVE PoolsInv'
  BY <1>11 DEF BuildGlobal, Built, Widths, PoolsTypeOK, CachesAgree, SettersOutside, CallsKnown,
     BudgetIsPoolWidth, PoolWidth, NarrowedByPolicy, Permitted, Narrows, DefaultWidth
<1>12. CASE UseGlobal
  <2>1. pool' \in 1 .. MaxWidth
        /\ (pool # 0 => pool' = pool /\ creator' = creator)
        /\ (pool = 0 => creator' = "application")
    BY <1>12 DEF UseGlobal, Demanded, PoolsTypeOK
  <2> QED
    BY <1>12, <2>1 DEF UseGlobal, PoolsTypeOK, CachesAgree, SettersOutside, CallsKnown,
       BudgetIsPoolWidth, PoolWidth, NarrowedByPolicy, Permitted, Narrows, DefaultWidth
<1> QED
  BY <1>1, <1>2, <1>3, <1>4, <1>5, <1>6, <1>7, <1>8, <1>9, <1>10, <1>11, <1>12
     DEF PoolsNext, Resolve

THEOREM PoolInvariant == PoolsSpec => []PoolsInv
<1>1. PoolsInit => PoolsInv
  BY PoolsInitially
<1>2. PoolsInv /\ [PoolsNext]_allPoolVars => PoolsInv'
  BY PoolsStep
<1> QED
  BY <1>1, <1>2, PTL DEF PoolsSpec

\* Type correctness, with the exclusion a OnceLock gives.
THEOREM PoolTypeCorrect == PoolsSpec => []PoolsTypeOK
BY PoolInvariant, PTL DEF PoolsInv

\* Every operation is sized for the pool that runs it, however many threads and
\* libraries race with the application for the global pool.
THEOREM BudgetsFit == PoolsSpec => []BudgetIsPoolWidth
BY PoolInvariant, PTL DEF PoolsInv

\* A pool the library created has the documented width on every host.
THEOREM PoolsAreNarrowed == PoolsSpec => []NarrowedByPolicy
BY PoolInvariant, PTL DEF PoolsInv

\* Operations inside a pool of the application never create the global one.
THEOREM PoolsComeFromOutside == PoolsSpec => CreatedFromOutside
<1> DEFINE A == creator' = "library" /\ creator # "library" =>
       \E t \in Callers : pc[t] # "idle" /\ inside[t] = 0 /\ pc'[t] # pc[t]
<1>1. PoolsInv /\ [PoolsNext]_allPoolVars => [A]_allPoolVars
  <2> SUFFICES ASSUME PoolsInv, PoolsNext, creator' = "library", creator # "library"
               PROVE  \E t \in Callers : pc[t] # "idle" /\ inside[t] = 0 /\ pc'[t] # pc[t]
    OBVIOUS
  <2> USE DEF PoolsInv
  <2>1. ASSUME NEW t \in Callers, NarrowDefaultPool(t) PROVE inside[t] = 0 /\ pc[t] = "narrowing" /\ pc'[t] = "measuring"
    BY <2>1 DEF NarrowDefaultPool, SettersOutside, PoolsTypeOK
  <2>2. ASSUME NEW t \in Callers, Measure(t) PROVE inside[t] = 0 /\ pc[t] = "measuring" /\ pc'[t] = "resolved"
    BY <2>2 DEF Measure, Resolved, SettersOutside, PoolsTypeOK
  <2>3. ASSUME NEW t \in Callers, Fork(t) PROVE FALSE
    BY <2>3 DEF Fork, Demanded, BudgetIsPoolWidth, PoolWidth, PoolsTypeOK
  <2>4. ~ UseGlobal
    BY DEF UseGlobal, Demanded
  <2>5. ASSUME NEW w \in Widths PROVE ~ BuildGlobal(w)
    BY DEF BuildGlobal, Built
  <2>6. PICK t \in Callers : NarrowDefaultPool(t) \/ Measure(t)
    BY <2>3, <2>4, <2>5
       DEF PoolsNext, Resolve, ResolveInWorker, ResolveFromCache, EnterInit, Return, Call, Install
  <2> QED
    BY <2>1, <2>2, <2>6
<1>2. PoolsSpec => [][A]_allPoolVars
  BY PoolInvariant, <1>1, PTL DEF PoolsSpec
<1> QED
  BY <1>2 DEF CreatedFromOutside

\* Budgets, pools and the exclusion of every OnceLock, together.
THEOREM PoolsStaySound == PoolsSpec => []PoolsSound
BY PoolInvariant, PTL DEF PoolsInv, PoolsSound

-----------------------------------------------------------------------------
(* KernelSelection.  What is compiled: a policy is a list of items under     *)
(* predicates.  Resolves says of such a list that no two of its items that a *)
(* build takes declare a module, that one selects, and what it needs; there  *)
(* is one lemma per policy, and a build takes items of one list or the one   *)
(* backend of its architecture.                                              *)

\* A build of a target there is.
Possible(b) ==
  /\ b.std \in BOOLEAN /\ b.miri \in BOOLEAN
  /\ "avx512f" \in b.features => "avx2" \in b.features
  /\ b.arch = "powerpc64" => b.width = 64

\* Items that declare a module are one item.
Apart(items) ==
  \A i, j \in DOMAIN items :
    items[i].when /\ items[j].when /\ items[i].modules \intersect items[j].modules # {} => i = j

Settles(items) ==
  \E i \in DOMAIN items :
    /\ items[i].when /\ items[i].selects # "nothing"
    /\ \A j \in DOMAIN items : items[j].when /\ items[j].selects # "nothing" => j = i

\* What is selected is declared.
Provides(items) ==
  \A i \in DOMAIN items :
    items[i].when /\ items[i].selects \notin {"nothing", "dispatch"} =>
      \E j \in DOMAIN items : items[j].when /\ items[i].selects \in items[j].modules

\* What is selected on x86-64 has its instructions enabled.
Fits(k, b, items) ==
  \A i \in DOMAIN items : items[i].when =>
    /\ items[i].selects = "x86_64_adx" => Has(b, "adx") /\ (k \notin Butterflies \union {"add_sub_from"} => Has(b, "bmi2"))
    /\ items[i].selects = "x86_64_bmi2" => Has(b, "bmi2")
    /\ items[i].selects = "x86_64_avx2" => Has(b, "avx2")
    /\ items[i].selects = "x86_64_avx512" => Has(b, "avx512f") /\ Has(b, "avx2")
    /\ items[i].selects \notin {"bmi2_rows", "vanilla_rows"}

Dispatching(items) == \E i \in DOMAIN items : items[i].when /\ items[i].selects = "dispatch"

Offers(items, modules) == \A m \in modules : \E j \in DOMAIN items : items[j].when /\ m \in items[j].modules

Resolves(k, b, items) ==
  /\ Apart(items)
  /\ X64(b) /\ Surface(k, b) => Settles(items)
  /\ ~X64(b) /\ Generic(k, b) => Settles(items)
  /\ ~X64(b) /\ ~Generic(k, b) => \A i \in DOMAIN items : ~items[i].when
  /\ Provides(items)
  /\ Fits(k, b, items)
  /\ Dispatching(items) => X64(b)

LEMMA BaselineResolves ==
  ASSUME NEW k, NEW b, Possible(b), X64(b) => ~Generic(k, b)
  PROVE  /\ Resolves(k, b, BaselineItems(k, b))
         /\ ~Dispatching(BaselineItems(k, b))
<1> DEFINE s == BaselineItems(k, b)
<1>0. DOMAIN s = 1 .. 2
  BY DEF BaselineItems
<1>1. /\ s[1].when <=> (X64(b))
      /\ s[2].when <=> (Generic(k, b))
  BY DEF BaselineItems, Selects, Only, Item
<1>2. /\ s[1].modules = {"x86_64"} /\ s[1].selects = "x86_64"
      /\ s[2].modules = {"fallback"} /\ s[2].selects = "fallback"
  BY DEF BaselineItems, Selects, Only, Item
<1> HIDE DEF s
<1>3. Apart(s)
  BY <1>0, <1>1, <1>2 DEF Apart
<1>4. ASSUME X64(b), Surface(k, b) PROVE Settles(s)
  BY <1>0, <1>1, <1>2, <1>4 DEF Settles
<1>5. ASSUME ~X64(b), Generic(k, b) PROVE Settles(s)
  BY <1>0, <1>1, <1>2, <1>5 DEF Settles
<1>6. ASSUME ~X64(b), ~Generic(k, b) PROVE \A i \in DOMAIN s : ~s[i].when
  BY <1>0, <1>1, <1>2, <1>6
<1>7. Provides(s)
  BY <1>0, <1>1, <1>2 DEF Provides
<1>8. Fits(k, b, s)
  BY <1>0, <1>1, <1>2 DEF Fits, Possible, Has
<1>9. Dispatching(s) <=> FALSE
  BY <1>0, <1>1, <1>2 DEF Dispatching
<1>11. Dispatching(s) => X64(b)
  BY <1>9
<1> QED
  BY <1>3, <1>4, <1>5, <1>6, <1>7, <1>8, <1>9, <1>11 DEF Resolves, s

LEMMA MulLimbResolves ==
  ASSUME NEW k, NEW b, Possible(b), X64(b) => ~Generic(k, b)
  PROVE  /\ Resolves(k, b, MulLimbItems(k, b))
         /\ Dispatching(MulLimbItems(k, b)) <=> (Dispatches(b))
         /\ Dispatches(b) => Offers(MulLimbItems(k, b), {"x86_64", "x86_64_adx", "x86_64_bmi2"})
<1> DEFINE s == MulLimbItems(k, b)
<1>0. DOMAIN s = 1 .. 5
  BY DEF MulLimbItems
<1>1. /\ s[1].when <=> (X64(b) /\ Both(b))
      /\ s[2].when <=> (Bmi2Alone(b))
      /\ s[3].when <=> (Plain(b))
      /\ s[4].when <=> (Dispatches(b))
      /\ s[5].when <=> (Generic(k, b))
  BY DEF MulLimbItems, Selects, Only, Item
<1>2. /\ s[1].modules = {"x86_64_adx"} /\ s[1].selects = "x86_64_adx"
      /\ s[2].modules = {"x86_64_bmi2"} /\ s[2].selects = "x86_64_bmi2"
      /\ s[3].modules = {"x86_64"} /\ s[3].selects = "x86_64"
      /\ s[4].modules = {"x86_64", "x86_64_adx", "x86_64_bmi2"} /\ s[4].selects = "dispatch"
      /\ s[5].modules = {"fallback"} /\ s[5].selects = "fallback"
  BY DEF MulLimbItems, Selects, Only, Item
<1> HIDE DEF s
<1>3. Apart(s)
  BY <1>0, <1>1, <1>2 DEF Apart, Dispatches, Plain, Bmi2Alone, Both
<1>4. ASSUME X64(b), Surface(k, b) PROVE Settles(s)
  BY <1>0, <1>1, <1>2, <1>4 DEF Settles, Dispatches, Plain, Bmi2Alone, Both
<1>5. ASSUME ~X64(b), Generic(k, b) PROVE Settles(s)
  BY <1>0, <1>1, <1>2, <1>5 DEF Settles, Dispatches, Plain, Bmi2Alone, Both
<1>6. ASSUME ~X64(b), ~Generic(k, b) PROVE \A i \in DOMAIN s : ~s[i].when
  BY <1>0, <1>1, <1>2, <1>6 DEF Dispatches, Plain, Bmi2Alone, Both
<1>7. Provides(s)
  BY <1>0, <1>1, <1>2 DEF Provides, Dispatches, Plain, Bmi2Alone, Both
<1>8. Fits(k, b, s)
  BY <1>0, <1>1, <1>2 DEF Fits, Dispatches, Plain, Bmi2Alone, Both, Possible, Has
<1>9. Dispatching(s) <=> (Dispatches(b))
  BY <1>0, <1>1, <1>2 DEF Dispatching
<1>10. Dispatches(b) => Offers(s, {"x86_64", "x86_64_adx", "x86_64_bmi2"})
  BY <1>0, <1>1, <1>2 DEF Offers, Dispatches, Plain, Bmi2Alone, Both
<1>11. Dispatching(s) => X64(b)
  BY <1>9 DEF Dispatches, Plain, Bmi2Alone, Both
<1> QED
  BY <1>3, <1>4, <1>5, <1>6, <1>7, <1>8, <1>9, <1>10, <1>11 DEF Resolves, s

LEMMA TwoLimbResolves ==
  ASSUME NEW k, NEW b, Possible(b), X64(b) => ~Generic(k, b), Policy(k) = "bmi2"
  PROVE  /\ Resolves(k, b, TwoLimbItems(k, b))
         /\ Dispatching(TwoLimbItems(k, b)) <=> FALSE
         /\ Dispatches(b) => Offers(TwoLimbItems(k, b), {"x86_64", "x86_64_bmi2"})
<1> DEFINE s == TwoLimbItems(k, b)
<1>0. DOMAIN s = 1 .. 5
  BY DEF TwoLimbItems
<1>1. /\ s[1].when <=> (X64(b) /\ Both(b))
      /\ s[2].when <=> (Plain(b))
      /\ s[3].when <=> (Bmi2Alone(b))
      /\ s[4].when <=> (Dispatches(b))
      /\ s[5].when <=> (Generic(k, b))
  BY DEF TwoLimbItems, Selects, Only, Item
<1>2. /\ s[1].modules = {"x86_64_bmi2"} /\ s[1].selects = "x86_64_bmi2"
      /\ s[2].modules = {"x86_64"} /\ s[2].selects = "x86_64"
      /\ s[3].modules = {"x86_64_bmi2"} /\ s[3].selects = "x86_64_bmi2"
      /\ s[4].modules = {"x86_64", "x86_64_bmi2"} /\ s[4].selects = "nothing"
      /\ s[5].modules = {"fallback"} /\ s[5].selects = "fallback"
  BY DEF TwoLimbItems, Selects, Only, Item
<1> HIDE DEF s
<1>3. Apart(s)
  BY <1>0, <1>1, <1>2 DEF Apart, Dispatches, Plain, Bmi2Alone, Both
<1>4. ASSUME X64(b), Surface(k, b) PROVE Settles(s)
  BY <1>0, <1>1, <1>2, <1>4 DEF Settles, Dispatches, Plain, Bmi2Alone, Both, Surface
<1>5. ASSUME ~X64(b), Generic(k, b) PROVE Settles(s)
  BY <1>0, <1>1, <1>2, <1>5 DEF Settles, Dispatches, Plain, Bmi2Alone, Both
<1>6. ASSUME ~X64(b), ~Generic(k, b) PROVE \A i \in DOMAIN s : ~s[i].when
  BY <1>0, <1>1, <1>2, <1>6 DEF Dispatches, Plain, Bmi2Alone, Both
<1>7. Provides(s)
  BY <1>0, <1>1, <1>2 DEF Provides, Dispatches, Plain, Bmi2Alone, Both
<1>8. Fits(k, b, s)
  BY <1>0, <1>1, <1>2 DEF Fits, Dispatches, Plain, Bmi2Alone, Both, Possible, Has
<1>9. Dispatching(s) <=> FALSE
  BY <1>0, <1>1, <1>2 DEF Dispatching
<1>10. Dispatches(b) => Offers(s, {"x86_64", "x86_64_bmi2"})
  BY <1>0, <1>1, <1>2 DEF Offers, Dispatches, Plain, Bmi2Alone, Both
<1>11. Dispatching(s) => X64(b)
  BY <1>9 DEF Dispatches, Plain, Bmi2Alone, Both
<1> QED
  BY <1>3, <1>4, <1>5, <1>6, <1>7, <1>8, <1>9, <1>10, <1>11 DEF Resolves, s

LEMMA ButterflyResolves ==
  ASSUME NEW k, NEW b, Possible(b), Generic(k, b), k \in Butterflies
  PROVE  /\ Resolves(k, b, ButterflyItems(b))
         /\ Dispatching(ButterflyItems(b)) <=> (X64(b) /\ b.std /\ ~Has(b, "adx"))
         /\ X64(b) /\ b.std /\ ~Has(b, "adx") => Offers(ButterflyItems(b), {"fallback", "x86_64_adx"})
<1> DEFINE s == ButterflyItems(b)
<1>0. DOMAIN s = 1 .. 5
  BY DEF ButterflyItems
<1>1. /\ s[1].when <=> (~(X64(b) /\ Has(b, "adx")))
      /\ s[2].when <=> (X64(b) /\ (b.std \/ Has(b, "adx")))
      /\ s[3].when <=> (X64(b) /\ b.std /\ ~Has(b, "adx"))
      /\ s[4].when <=> (X64(b) /\ Has(b, "adx"))
      /\ s[5].when <=> (~((X64(b) /\ Has(b, "adx")) \/ (X64(b) /\ b.std /\ ~Has(b, "adx"))))
  BY DEF ButterflyItems, Selects, Only, Item
<1>2. /\ s[1].modules = {"fallback"} /\ s[1].selects = "nothing"
      /\ s[2].modules = {"x86_64_adx"} /\ s[2].selects = "nothing"
      /\ s[3].modules = {} /\ s[3].selects = "dispatch"
      /\ s[4].modules = {} /\ s[4].selects = "x86_64_adx"
      /\ s[5].modules = {} /\ s[5].selects = "fallback"
  BY DEF ButterflyItems, Selects, Only, Item
<1> HIDE DEF s
<1>3. Apart(s)
  BY <1>0, <1>1, <1>2 DEF Apart
<1>4. ASSUME X64(b), Surface(k, b) PROVE Settles(s)
  BY <1>0, <1>1, <1>2, <1>4 DEF Settles
<1>5. ASSUME ~X64(b), Generic(k, b) PROVE Settles(s)
  BY <1>0, <1>1, <1>2, <1>5 DEF Settles
<1>6. ASSUME ~X64(b), ~Generic(k, b) PROVE \A i \in DOMAIN s : ~s[i].when
  BY <1>0, <1>1, <1>2, <1>6
<1>7. Provides(s)
  BY <1>0, <1>1, <1>2 DEF Provides
<1>8. Fits(k, b, s)
  BY <1>0, <1>1, <1>2 DEF Fits, Possible, Has
<1>9. Dispatching(s) <=> (X64(b) /\ b.std /\ ~Has(b, "adx"))
  BY <1>0, <1>1, <1>2 DEF Dispatching
<1>10. X64(b) /\ b.std /\ ~Has(b, "adx") => Offers(s, {"fallback", "x86_64_adx"})
  BY <1>0, <1>1, <1>2 DEF Offers
<1>11. Dispatching(s) => X64(b)
  BY <1>9
<1> QED
  BY <1>3, <1>4, <1>5, <1>6, <1>7, <1>8, <1>9, <1>10, <1>11 DEF Resolves, s

LEMMA SingleAdxResolves ==
  ASSUME NEW k, NEW b, Possible(b), X64(b) => ~Generic(k, b), k = "add_sub_from"
  PROVE  /\ Resolves(k, b, Single(k, b, "x86_64_adx", "adx"))
         /\ Dispatching(Single(k, b, "x86_64_adx", "adx")) <=> (X64(b) /\ ~Has(b, "adx") /\ b.std)
         /\ X64(b) /\ ~Has(b, "adx") /\ b.std => Offers(Single(k, b, "x86_64_adx", "adx"), {"fallback", "x86_64_adx"})
<1> DEFINE s == Single(k, b, "x86_64_adx", "adx")
<1>0. DOMAIN s = 1 .. 5
  BY DEF Single
<1>1. /\ s[1].when <=> (Generic(k, b) \/ (X64(b) /\ ~Has(b, "adx")))
      /\ s[2].when <=> (X64(b) /\ (b.std \/ Has(b, "adx")))
      /\ s[3].when <=> (X64(b) /\ ~Has(b, "adx") /\ b.std)
      /\ s[4].when <=> (X64(b) /\ Has(b, "adx"))
      /\ s[5].when <=> (Generic(k, b) \/ (X64(b) /\ ~Has(b, "adx") /\ ~b.std))
  BY DEF Single, Selects, Only, Item
<1>2. /\ s[1].modules = {"fallback"} /\ s[1].selects = "nothing"
      /\ s[2].modules = {"x86_64_adx"} /\ s[2].selects = "nothing"
      /\ s[3].modules = {} /\ s[3].selects = "dispatch"
      /\ s[4].modules = {} /\ s[4].selects = "x86_64_adx"
      /\ s[5].modules = {} /\ s[5].selects = "fallback"
  BY DEF Single, Selects, Only, Item
<1> HIDE DEF s
<1>3. Apart(s)
  BY <1>0, <1>1, <1>2 DEF Apart
<1>4. ASSUME X64(b), Surface(k, b) PROVE Settles(s)
  BY <1>0, <1>1, <1>2, <1>4 DEF Settles
<1>5. ASSUME ~X64(b), Generic(k, b) PROVE Settles(s)
  BY <1>0, <1>1, <1>2, <1>5 DEF Settles
<1>6. ASSUME ~X64(b), ~Generic(k, b) PROVE \A i \in DOMAIN s : ~s[i].when
  BY <1>0, <1>1, <1>2, <1>6
<1>7. Provides(s)
  BY <1>0, <1>1, <1>2 DEF Provides
<1>8. Fits(k, b, s)
  BY <1>0, <1>1, <1>2 DEF Fits, Possible, Has
<1>9. Dispatching(s) <=> (X64(b) /\ ~Has(b, "adx") /\ b.std)
  BY <1>0, <1>1, <1>2 DEF Dispatching
<1>10. X64(b) /\ ~Has(b, "adx") /\ b.std => Offers(s, {"fallback", "x86_64_adx"})
  BY <1>0, <1>1, <1>2 DEF Offers
<1>11. Dispatching(s) => X64(b)
  BY <1>9
<1> QED
  BY <1>3, <1>4, <1>5, <1>6, <1>7, <1>8, <1>9, <1>10, <1>11 DEF Resolves, s

LEMMA SingleBmi2Resolves ==
  ASSUME NEW k, NEW b, Possible(b), X64(b) => ~Generic(k, b)
  PROVE  /\ Resolves(k, b, Single(k, b, "x86_64_bmi2", "bmi2"))
         /\ Dispatching(Single(k, b, "x86_64_bmi2", "bmi2")) <=> (X64(b) /\ ~Has(b, "bmi2") /\ b.std)
         /\ X64(b) /\ ~Has(b, "bmi2") /\ b.std => Offers(Single(k, b, "x86_64_bmi2", "bmi2"), {"fallback", "x86_64_bmi2"})
<1> DEFINE s == Single(k, b, "x86_64_bmi2", "bmi2")
<1>0. DOMAIN s = 1 .. 5
  BY DEF Single
<1>1. /\ s[1].when <=> (Generic(k, b) \/ (X64(b) /\ ~Has(b, "bmi2")))
      /\ s[2].when <=> (X64(b) /\ (b.std \/ Has(b, "bmi2")))
      /\ s[3].when <=> (X64(b) /\ ~Has(b, "bmi2") /\ b.std)
      /\ s[4].when <=> (X64(b) /\ Has(b, "bmi2"))
      /\ s[5].when <=> (Generic(k, b) \/ (X64(b) /\ ~Has(b, "bmi2") /\ ~b.std))
  BY DEF Single, Selects, Only, Item
<1>2. /\ s[1].modules = {"fallback"} /\ s[1].selects = "nothing"
      /\ s[2].modules = {"x86_64_bmi2"} /\ s[2].selects = "nothing"
      /\ s[3].modules = {} /\ s[3].selects = "dispatch"
      /\ s[4].modules = {} /\ s[4].selects = "x86_64_bmi2"
      /\ s[5].modules = {} /\ s[5].selects = "fallback"
  BY DEF Single, Selects, Only, Item
<1> HIDE DEF s
<1>3. Apart(s)
  BY <1>0, <1>1, <1>2 DEF Apart
<1>4. ASSUME X64(b), Surface(k, b) PROVE Settles(s)
  BY <1>0, <1>1, <1>2, <1>4 DEF Settles
<1>5. ASSUME ~X64(b), Generic(k, b) PROVE Settles(s)
  BY <1>0, <1>1, <1>2, <1>5 DEF Settles
<1>6. ASSUME ~X64(b), ~Generic(k, b) PROVE \A i \in DOMAIN s : ~s[i].when
  BY <1>0, <1>1, <1>2, <1>6
<1>7. Provides(s)
  BY <1>0, <1>1, <1>2 DEF Provides
<1>8. Fits(k, b, s)
  BY <1>0, <1>1, <1>2 DEF Fits, Possible, Has
<1>9. Dispatching(s) <=> (X64(b) /\ ~Has(b, "bmi2") /\ b.std)
  BY <1>0, <1>1, <1>2 DEF Dispatching
<1>10. X64(b) /\ ~Has(b, "bmi2") /\ b.std => Offers(s, {"fallback", "x86_64_bmi2"})
  BY <1>0, <1>1, <1>2 DEF Offers
<1>11. Dispatching(s) => X64(b)
  BY <1>9
<1> QED
  BY <1>3, <1>4, <1>5, <1>6, <1>7, <1>8, <1>9, <1>10, <1>11 DEF Resolves, s

LEMMA MontyResolves ==
  ASSUME NEW k, NEW b, Possible(b), X64(b) => ~Generic(k, b)
  PROVE  /\ Resolves(k, b, MontyItems(k, b))
         /\ Dispatching(MontyItems(k, b)) <=> (Dispatches(b))
         /\ Dispatches(b) => Offers(MontyItems(k, b), {"fallback", "x86_64_adx", "x86_64_bmi2"})
<1> DEFINE s == MontyItems(k, b)
<1>0. DOMAIN s = 1 .. 7
  BY DEF MontyItems
<1>1. /\ s[1].when <=> (Generic(k, b) \/ Dispatches(b) \/ Plain(b))
      /\ s[2].when <=> (X64(b) /\ (b.std \/ Both(b)))
      /\ s[3].when <=> (Dispatches(b) \/ Bmi2Alone(b))
      /\ s[4].when <=> (Dispatches(b))
      /\ s[5].when <=> (X64(b) /\ Both(b))
      /\ s[6].when <=> (Bmi2Alone(b))
      /\ s[7].when <=> (Generic(k, b) \/ Plain(b))
  BY DEF MontyItems, Selects, Only, Item
<1>2. /\ s[1].modules = {"fallback"} /\ s[1].selects = "nothing"
      /\ s[2].modules = {"x86_64_adx"} /\ s[2].selects = "nothing"
      /\ s[3].modules = {"x86_64_bmi2"} /\ s[3].selects = "nothing"
      /\ s[4].modules = {} /\ s[4].selects = "dispatch"
      /\ s[5].modules = {} /\ s[5].selects = "x86_64_adx"
      /\ s[6].modules = {} /\ s[6].selects = "x86_64_bmi2"
      /\ s[7].modules = {} /\ s[7].selects = "fallback"
  BY DEF MontyItems, Selects, Only, Item
<1> HIDE DEF s
<1>3. Apart(s)
  BY <1>0, <1>1, <1>2 DEF Apart, Dispatches, Plain, Bmi2Alone, Both
<1>4. ASSUME X64(b), Surface(k, b) PROVE Settles(s)
  BY <1>0, <1>1, <1>2, <1>4 DEF Settles, Dispatches, Plain, Bmi2Alone, Both
<1>5. ASSUME ~X64(b), Generic(k, b) PROVE Settles(s)
  BY <1>0, <1>1, <1>2, <1>5 DEF Settles, Dispatches, Plain, Bmi2Alone, Both
<1>6. ASSUME ~X64(b), ~Generic(k, b) PROVE \A i \in DOMAIN s : ~s[i].when
  BY <1>0, <1>1, <1>2, <1>6 DEF Dispatches, Plain, Bmi2Alone, Both
<1>7. Provides(s)
  BY <1>0, <1>1, <1>2 DEF Provides, Dispatches, Plain, Bmi2Alone, Both
<1>8. Fits(k, b, s)
  BY <1>0, <1>1, <1>2 DEF Fits, Dispatches, Plain, Bmi2Alone, Both, Possible, Has
<1>9. Dispatching(s) <=> (Dispatches(b))
  BY <1>0, <1>1, <1>2 DEF Dispatching
<1>10. Dispatches(b) => Offers(s, {"fallback", "x86_64_adx", "x86_64_bmi2"})
  BY <1>0, <1>1, <1>2 DEF Offers, Dispatches, Plain, Bmi2Alone, Both
<1>11. Dispatching(s) => X64(b)
  BY <1>9 DEF Dispatches, Plain, Bmi2Alone, Both
<1> QED
  BY <1>3, <1>4, <1>5, <1>6, <1>7, <1>8, <1>9, <1>10, <1>11 DEF Resolves, s

LEMMA SimdPairResolves ==
  ASSUME NEW k, NEW b, NEW avx512 \in BOOLEAN, Possible(b), X64(b) => ~Generic(k, b)
  PROVE  /\ Resolves(k, b, SimdPair(k, b, avx512))
         /\ Dispatching(SimdPair(k, b, avx512)) <=> (X64(b) /\ b.std)
         /\ X64(b) /\ b.std =>
              Offers(SimdPair(k, b, avx512),
                     {"x86_64", "x86_64_avx2"} \union (IF avx512 THEN {"x86_64_avx512"} ELSE {}))
<1> DEFINE s == SimdPair(k, b, avx512)
<1>0. DOMAIN s = 1 .. 9
  BY DEF SimdPair
<1>1. /\ s[1].when <=> (Generic(k, b))
      /\ s[2].when <=> (avx512 /\ X64(b) /\ (b.std \/ Has(b, "avx512f")))
      /\ s[3].when <=> (X64(b) /\ (b.std \/ ~Has(b, "avx2")))
      /\ s[4].when <=> (X64(b) /\ (b.std \/ (Has(b, "avx2") /\ ~(avx512 /\ Has(b, "avx512f")))))
      /\ s[5].when <=> (X64(b) /\ b.std)
      /\ s[6].when <=> (X64(b) /\ ~b.std /\ (avx512 /\ Has(b, "avx512f")))
      /\ s[7].when <=> (X64(b) /\ ~b.std /\ Has(b, "avx2") /\ ~(avx512 /\ Has(b, "avx512f")))
      /\ s[8].when <=> (X64(b) /\ ~b.std /\ ~Has(b, "avx2"))
      /\ s[9].when <=> (Generic(k, b))
  BY DEF SimdPair, Selects, Only, Item
<1>2. /\ s[1].modules = {"fallback"} /\ s[1].selects = "nothing"
      /\ s[2].modules = {"x86_64_avx512"} /\ s[2].selects = "nothing"
      /\ s[3].modules = {"x86_64"} /\ s[3].selects = "nothing"
      /\ s[4].modules = {"x86_64_avx2"} /\ s[4].selects = "nothing"
      /\ s[5].modules = {} /\ s[5].selects = "dispatch"
      /\ s[6].modules = {} /\ s[6].selects = "x86_64_avx512"
      /\ s[7].modules = {} /\ s[7].selects = "x86_64_avx2"
      /\ s[8].modules = {} /\ s[8].selects = "x86_64"
      /\ s[9].modules = {} /\ s[9].selects = "fallback"
  BY DEF SimdPair, Selects, Only, Item
<1> HIDE DEF s
<1>3. Apart(s)
  BY <1>0, <1>1, <1>2 DEF Apart, Possible, Has
<1>4. ASSUME X64(b), Surface(k, b) PROVE Settles(s)
  BY <1>0, <1>1, <1>2, <1>4 DEF Settles, Possible, Has
<1>5. ASSUME ~X64(b), Generic(k, b) PROVE Settles(s)
  BY <1>0, <1>1, <1>2, <1>5 DEF Settles, Possible, Has
<1>6. ASSUME ~X64(b), ~Generic(k, b) PROVE \A i \in DOMAIN s : ~s[i].when
  BY <1>0, <1>1, <1>2, <1>6 DEF Possible, Has
<1>7. Provides(s)
  BY <1>0, <1>1, <1>2 DEF Provides, Possible, Has
<1>8. Fits(k, b, s)
  BY <1>0, <1>1, <1>2 DEF Fits, Possible, Has
<1>9. Dispatching(s) <=> (X64(b) /\ b.std)
  BY <1>0, <1>1, <1>2 DEF Dispatching
<1>10. X64(b) /\ b.std => Offers(s, {"x86_64", "x86_64_avx2"} \union (IF avx512 THEN {"x86_64_avx512"} ELSE {}))
  BY <1>0, <1>1, <1>2 DEF Offers, Possible, Has
<1>11. Dispatching(s) => X64(b)
  BY <1>9 DEF Possible, Has
<1> QED
  BY <1>3, <1>4, <1>5, <1>6, <1>7, <1>8, <1>9, <1>10, <1>11 DEF Resolves, s

LEMMA MulResolves ==
  ASSUME NEW k, NEW b, Possible(b), X64(b) \/ Generic(k, b)
  PROVE  /\ Resolves(k, b, MulItems(b))
         /\ Dispatching(MulItems(b)) <=> (Dispatches(b))
         /\ Dispatches(b) => Offers(MulItems(b), {"portable", "x86_64_adx"})
<1> DEFINE s == MulItems(b)
<1>0. DOMAIN s = 1 .. 5
  BY DEF MulItems
<1>1. /\ s[1].when <=> (TRUE)
      /\ s[2].when <=> (~Dispatches(b))
      /\ s[3].when <=> (X64(b) /\ (b.std \/ Both(b)))
      /\ s[4].when <=> (~Dispatches(b))
      /\ s[5].when <=> (Dispatches(b))
  BY DEF MulItems, Selects, Only, Item
<1>2. /\ s[1].modules = {"portable"} /\ s[1].selects = "nothing"
      /\ s[2].modules = {"direct"} /\ s[2].selects = "nothing"
      /\ s[3].modules = {"x86_64_adx"} /\ s[3].selects = "nothing"
      /\ s[4].modules = {} /\ s[4].selects = "direct"
      /\ s[5].modules = {} /\ s[5].selects = "dispatch"
  BY DEF MulItems, Selects, Only, Item
<1> HIDE DEF s
<1>3. Apart(s)
  BY <1>0, <1>1, <1>2 DEF Apart, Dispatches, Plain, Bmi2Alone, Both
<1>4. ASSUME X64(b), Surface(k, b) PROVE Settles(s)
  BY <1>0, <1>1, <1>2, <1>4 DEF Settles, Dispatches, Plain, Bmi2Alone, Both
<1>5. ASSUME ~X64(b), Generic(k, b) PROVE Settles(s)
  BY <1>0, <1>1, <1>2, <1>5 DEF Settles, Dispatches, Plain, Bmi2Alone, Both
<1>6. ASSUME ~X64(b), ~Generic(k, b) PROVE \A i \in DOMAIN s : ~s[i].when
  BY <1>0, <1>1, <1>2, <1>6 DEF Dispatches, Plain, Bmi2Alone, Both
<1>7. Provides(s)
  BY <1>0, <1>1, <1>2 DEF Provides, Dispatches, Plain, Bmi2Alone, Both
<1>8. Fits(k, b, s)
  BY <1>0, <1>1, <1>2 DEF Fits, Dispatches, Plain, Bmi2Alone, Both, Possible, Has
<1>9. Dispatching(s) <=> (Dispatches(b))
  BY <1>0, <1>1, <1>2 DEF Dispatching
<1>10. Dispatches(b) => Offers(s, {"portable", "x86_64_adx"})
  BY <1>0, <1>1, <1>2 DEF Offers, Dispatches, Plain, Bmi2Alone, Both
<1>11. Dispatching(s) => X64(b)
  BY <1>9 DEF Dispatches, Plain, Bmi2Alone, Both
<1> QED
  BY <1>3, <1>4, <1>5, <1>6, <1>7, <1>8, <1>9, <1>10, <1>11 DEF Resolves, s

LEMMA Mul4Resolves ==
  ASSUME NEW k, NEW b, Possible(b), X64(b) \/ Generic(k, b)
  PROVE  /\ Resolves(k, b, Mul4Items(b))
         /\ Dispatching(Mul4Items(b)) <=> (Dispatches(b))
         /\ Dispatches(b) => Offers(Mul4Items(b), {"portable", "x86_64_adx"})
<1> DEFINE s == Mul4Items(b)
<1>0. DOMAIN s = 1 .. 5
  BY DEF Mul4Items
<1>1. /\ s[1].when <=> (TRUE)
      /\ s[2].when <=> (X64(b) /\ (b.std \/ Both(b)))
      /\ s[3].when <=> (X64(b) /\ Both(b))
      /\ s[4].when <=> (~(X64(b) /\ (b.std \/ Both(b))))
      /\ s[5].when <=> (Dispatches(b))
  BY DEF Mul4Items, Selects, Only, Item
<1>2. /\ s[1].modules = {"portable"} /\ s[1].selects = "nothing"
      /\ s[2].modules = {"x86_64_adx"} /\ s[2].selects = "nothing"
      /\ s[3].modules = {} /\ s[3].selects = "x86_64_adx"
      /\ s[4].modules = {} /\ s[4].selects = "portable"
      /\ s[5].modules = {} /\ s[5].selects = "dispatch"
  BY DEF Mul4Items, Selects, Only, Item
<1> HIDE DEF s
<1>3. Apart(s)
  BY <1>0, <1>1, <1>2 DEF Apart, Dispatches, Plain, Bmi2Alone, Both
<1>4. ASSUME X64(b), Surface(k, b) PROVE Settles(s)
  BY <1>0, <1>1, <1>2, <1>4 DEF Settles, Dispatches, Plain, Bmi2Alone, Both
<1>5. ASSUME ~X64(b), Generic(k, b) PROVE Settles(s)
  BY <1>0, <1>1, <1>2, <1>5 DEF Settles, Dispatches, Plain, Bmi2Alone, Both
<1>6. ASSUME ~X64(b), ~Generic(k, b) PROVE \A i \in DOMAIN s : ~s[i].when
  BY <1>0, <1>1, <1>2, <1>6 DEF Dispatches, Plain, Bmi2Alone, Both
<1>7. Provides(s)
  BY <1>0, <1>1, <1>2 DEF Provides, Dispatches, Plain, Bmi2Alone, Both
<1>8. Fits(k, b, s)
  BY <1>0, <1>1, <1>2 DEF Fits, Dispatches, Plain, Bmi2Alone, Both, Possible, Has
<1>9. Dispatching(s) <=> (Dispatches(b))
  BY <1>0, <1>1, <1>2 DEF Dispatching
<1>10. Dispatches(b) => Offers(s, {"portable", "x86_64_adx"})
  BY <1>0, <1>1, <1>2 DEF Offers, Dispatches, Plain, Bmi2Alone, Both
<1>11. Dispatching(s) => X64(b)
  BY <1>9 DEF Dispatches, Plain, Bmi2Alone, Both
<1> QED
  BY <1>3, <1>4, <1>5, <1>6, <1>7, <1>8, <1>9, <1>10, <1>11 DEF Resolves, s

LEMMA SqrResolves ==
  ASSUME NEW k, NEW b, Possible(b), X64(b) \/ Generic(k, b)
  PROVE  /\ Resolves(k, b, SqrItems(b))
         /\ Dispatching(SqrItems(b)) <=> (X64(b) /\ b.std /\ ~Has(b, "bmi2"))
         /\ X64(b) /\ b.std /\ ~Has(b, "bmi2") => Offers(SqrItems(b), {"direct", "x86_64_adx", "x86_64_bmi2"})
<1> DEFINE s == SqrItems(b)
<1>0. DOMAIN s = 1 .. 7
  BY DEF SqrItems
<1>1. /\ s[1].when <=> (TRUE)
      /\ s[2].when <=> (X64(b) /\ (Both(b) \/ (X64(b) /\ b.std /\ ~Has(b, "bmi2"))))
      /\ s[3].when <=> (X64(b) /\ ~Both(b) /\ (b.std \/ Has(b, "bmi2")))
      /\ s[4].when <=> (X64(b) /\ Both(b))
      /\ s[5].when <=> (X64(b) /\ Has(b, "bmi2") /\ ~Has(b, "adx"))
      /\ s[6].when <=> (X64(b) /\ b.std /\ ~Has(b, "bmi2"))
      /\ s[7].when <=> (~((X64(b) /\ Has(b, "bmi2")) \/ (X64(b) /\ b.std /\ ~Has(b, "bmi2"))))
  BY DEF SqrItems, Selects, Only, Item
<1>2. /\ s[1].modules = {"direct"} /\ s[1].selects = "nothing"
      /\ s[2].modules = {"x86_64_adx"} /\ s[2].selects = "nothing"
      /\ s[3].modules = {"x86_64_bmi2"} /\ s[3].selects = "nothing"
      /\ s[4].modules = {} /\ s[4].selects = "x86_64_adx"
      /\ s[5].modules = {} /\ s[5].selects = "x86_64_bmi2"
      /\ s[6].modules = {} /\ s[6].selects = "dispatch"
      /\ s[7].modules = {} /\ s[7].selects = "direct"
  BY DEF SqrItems, Selects, Only, Item
<1> HIDE DEF s
<1>3. Apart(s)
  BY <1>0, <1>1, <1>2 DEF Apart, Dispatches, Plain, Bmi2Alone, Both
<1>4. ASSUME X64(b), Surface(k, b) PROVE Settles(s)
  BY <1>0, <1>1, <1>2, <1>4 DEF Settles, Dispatches, Plain, Bmi2Alone, Both
<1>5. ASSUME ~X64(b), Generic(k, b) PROVE Settles(s)
  BY <1>0, <1>1, <1>2, <1>5 DEF Settles, Dispatches, Plain, Bmi2Alone, Both
<1>6. ASSUME ~X64(b), ~Generic(k, b) PROVE \A i \in DOMAIN s : ~s[i].when
  BY <1>0, <1>1, <1>2, <1>6 DEF Dispatches, Plain, Bmi2Alone, Both
<1>7. Provides(s)
  BY <1>0, <1>1, <1>2 DEF Provides, Dispatches, Plain, Bmi2Alone, Both
<1>8. Fits(k, b, s)
  BY <1>0, <1>1, <1>2 DEF Fits, Dispatches, Plain, Bmi2Alone, Both, Possible, Has
<1>9. Dispatching(s) <=> (X64(b) /\ b.std /\ ~Has(b, "bmi2"))
  BY <1>0, <1>1, <1>2 DEF Dispatching
<1>10. X64(b) /\ b.std /\ ~Has(b, "bmi2") => Offers(s, {"direct", "x86_64_adx", "x86_64_bmi2"})
  BY <1>0, <1>1, <1>2 DEF Offers, Dispatches, Plain, Bmi2Alone, Both
<1>11. Dispatching(s) => X64(b)
  BY <1>9 DEF Dispatches, Plain, Bmi2Alone, Both
<1> QED
  BY <1>3, <1>4, <1>5, <1>6, <1>7, <1>8, <1>9, <1>10, <1>11 DEF Resolves, s

\* A backend outside the half-limb division is named after its architecture.
LEMMA NamedAfterArch ==
  ASSUME NEW k \in Kernels, k # "divrem_1", NEW a \in Backends(k)
  PROVE  a.name = a.arch /\ a.arch \notin {"x86_64", "powerpc64", "nothing", "dispatch"}
<1>1. \A n, w : On(n, w).name = n /\ On(n, w).arch = n
  BY DEF On, Backend
<1>2. \A w, f : \A r \in RiscV(w, f) : r.name = r.arch /\ r.arch \in {"riscv64", "riscv32"}
  BY DEF RiscV, Backend
<1>3. \A f : ArmBackend(f).name = "arm" /\ ArmBackend(f).arch = "arm"
  BY DEF ArmBackend, Backend
<1>4. \A r \in Scalar : r.name = r.arch /\ r.arch \notin {"x86_64", "powerpc64", "nothing", "dispatch"}
  BY <1>1 DEF Scalar
<1>5. LET r == Backend("riscv64", "riscv64", 64, {"m"}, {}) IN r.name = "riscv64" /\ r.arch = "riscv64"
  BY DEF Backend
<1>6. CASE k \in Carries
  <2>1. Backends(k) = Scalar \union {ArmBackend({})} \union RiscV(AnyWidth, {})
    BY <1>6 DEF Backends, Carries, Propagations, ShiftsInto, ShiftsInPlace
  <2> QED
    BY <1>2, <1>3, <1>4, <2>1
<1>7. CASE k \in {"add_mul", "sub_mul"}
  <2>1. Backends(k) = Scalar \union {ArmBackend({})} \union RiscV(AnyWidth, {"m"})
    BY <1>7 DEF Backends, Carries, Propagations, ShiftsInto, ShiftsInPlace
  <2> QED
    BY <1>2, <1>3, <1>4, <2>1
<1>8. CASE k = "add_mul_2"
  BY <1>1, <1>2, <1>3, <1>4, <1>8 DEF Backends, Carries
<1>9. CASE k = "mul_2"
  BY <1>1, <1>3, <1>5, <1>9 DEF Backends, Carries
<1>10. CASE k = "monty_redc"
  BY <1>1, <1>5, <1>10 DEF Backends, Carries
<1>11. CASE k = "sub_shifted_high"
  BY <1>1, <1>11 DEF Backends, Carries
<1>12. CASE k \in Propagations
  BY <1>1, <1>12 DEF Backends, Carries, Propagations
<1>13. CASE k \in ShiftsInto \union ShiftsInPlace
  BY <1>1, <1>13 DEF Backends, Carries, Propagations, ShiftsInto, ShiftsInPlace
<1>14. CASE k \in Butterflies \union Composites \union {"add_sub_from", "lshift_overlapping"}
  BY <1>14 DEF Backends, Carries, Propagations, ShiftsInto, ShiftsInPlace, Butterflies, Composites
<1> QED
  BY <1>6, <1>7, <1>8, <1>9, <1>10, <1>11, <1>12, <1>13, <1>14 DEF Kernels, Others

LEMMA HalfLimbDivision ==
  ASSUME NEW a \in Backends("divrem_1")
  PROVE  /\ a.arch # "x86_64"
         /\ a.arch \in {"s390x", "x86"} => a.name = a.arch
         /\ a.arch \notin {"s390x", "x86"} => a.name = "half_limb"
<1>1. Backends("divrem_1") = {Backend("half_limb", h[1], h[2], {}, {}) : h \in HalfLimb} \union {On("s390x", 64), On("x86", 32)}
  BY DEF Backends, Carries, Propagations, ShiftsInto, ShiftsInPlace
<1>2. \A h \in HalfLimb : h[1] \notin {"x86_64", "s390x", "x86"}
  BY DEF HalfLimb
<1>3. \A n, w : On(n, w).name = n /\ On(n, w).arch = n
  BY DEF On, Backend
<1>4. \A h \in HalfLimb : /\ Backend("half_limb", h[1], h[2], {}, {}).arch = h[1]
                          /\ Backend("half_limb", h[1], h[2], {}, {}).name = "half_limb"
  BY DEF Backend
<1> QED
  BY <1>1, <1>2, <1>3, <1>4

\* At most one backend answers for a build, and none on x86-64.
LEMMA OneBackend ==
  ASSUME NEW k \in Kernels, NEW b, NEW x \in BackendItems(k, b)
  PROVE  /\ \A y \in BackendItems(k, b) : y = x
         /\ x.when /\ x.selects # "nothing" /\ x.modules = {x.selects}
         /\ x.selects # "dispatch"
         /\ b.arch # "x86_64" /\ ~X64(b) /\ ~Generic(k, b)
         /\ b.arch = "powerpc64" => PowerPolicy(k) = "none"
<1>1. \A a \in Backends(k) : Admits(a, b) => a.arch = b.arch /\ ~b.miri
  BY DEF Admits
<1>2. \A a \in Backends(k) : a.name # "nothing" /\ a.name # "dispatch" /\ a.arch # "x86_64"
  BY NamedAfterArch, HalfLimbDivision
<1>3. \A a, c \in Backends(k) : a.arch = c.arch => a.name = c.name
  BY NamedAfterArch, HalfLimbDivision
<1>4. \A a \in Backends(k) : a.arch = "powerpc64" => PowerPolicy(k) = "none"
  BY NamedAfterArch DEF PowerPolicy, Carries
<1>5. PICK a \in Backends(k) : Admits(a, b) /\ x = Selects(TRUE, a.name)
  BY DEF BackendItems
<1>6. x.when /\ x.selects = a.name /\ x.modules = {a.name}
  BY <1>5 DEF Selects, Item
<1>7. \A y \in BackendItems(k, b) : y = x
  BY <1>1, <1>3, <1>5 DEF BackendItems
<1>8. ~X64(b) /\ b.arch # "x86_64" /\ (b.arch = "powerpc64" => PowerPolicy(k) = "none")
  BY <1>1, <1>2, <1>4, <1>5 DEF X64
<1>9. ~Generic(k, b)
  BY <1>1, <1>5 DEF Generic
<1> QED
  BY <1>2, <1>6, <1>7, <1>8, <1>9

\* The x86-64 policies answer for every x86-64 build but a few kernels, which
\* keep the fallback beside what they select.
LEMMA GenericOutside ==
  ASSUME NEW k \in Kernels, NEW b, Possible(b)
  PROVE  /\ X64(b) /\ Policy(k) # "adx" => ~Generic(k, b)
         /\ ~X64(b) /\ b.arch = "powerpc64" /\ ~b.miri /\ PowerPolicy(k) # "none" => ~Generic(k, b)
         /\ k \in Butterflies => Generic(k, b)
         /\ k \in Composites => X64(b) \/ Generic(k, b)
         /\ ~X64(b) /\ ~Generic(k, b) /\ BackendItems(k, b) = {} =>
              b.arch = "powerpc64" /\ ~b.miri /\ PowerPolicy(k) # "none"
<1>1. X64(b) /\ Policy(k) # "adx" => Covers(k, b) /\ ~b.miri
  BY DEF X64, Covers
<1>2. X64(b) => \A a \in Backends(k) : ~Admits(a, b)
  <2>1. \A x \in BackendItems(k, b) : ~X64(b)
    BY OneBackend
  <2> QED
    BY <2>1 DEF BackendItems
<1>3. b.arch = "powerpc64" /\ PowerPolicy(k) # "none" => Covers(k, b)
  BY DEF Covers, Possible
<1>4. k \in Butterflies \union Composites => Backends(k) = {} /\ PowerPolicy(k) = "none"
  BY DEF Backends, PowerPolicy, Butterflies, Composites, Carries, Propagations, ShiftsInto, ShiftsInPlace
<1>5. k \in Butterflies => Policy(k) = "adx"
  BY DEF Policy, Butterflies, Carries, Propagations, ShiftsInto, ShiftsInPlace, Composites
<1>6. Covers(k, b) /\ ~b.miri /\ ~X64(b) => b.arch = "powerpc64" /\ PowerPolicy(k) # "none"
  BY DEF Covers, X64
<1>7. (\E a \in Backends(k) : Admits(a, b)) => BackendItems(k, b) # {}
  BY DEF BackendItems
<1>8. Covers(k, b) /\ X64(b) => Policy(k) # "adx"
  BY DEF Covers, X64
<1>9. Generic(k, b) <=> (b.miri \/ ~((\E a \in Backends(k) : Admits(a, b)) \/ Covers(k, b)))
  BY DEF Generic
<1>10. X64(b) => ~b.miri
  BY DEF X64
<1>11. k \in Butterflies => Generic(k, b)
  BY <1>4, <1>5, <1>6, <1>8, <1>9, <1>10
<1> QED
  BY <1>1, <1>2, <1>3, <1>4, <1>5, <1>6, <1>7, <1>8, <1>9, <1>10, <1>11
\* The modules a kernel keeps for a choice at run time, its own or that of a product's rows.
TierModules(k) ==
  CASE k \in Butterflies \union {"add_sub_from"} -> {"fallback", "x86_64_adx"}
    [] k = "sub_shifted_high" -> {"fallback", "x86_64_bmi2"}
    [] k = "monty_redc" -> {"fallback", "x86_64_adx", "x86_64_bmi2"}
    [] k \in ShiftsInPlace -> {"x86_64", "x86_64_avx2"}
    [] k \in ShiftsInto \union {"lshift_overlapping"} -> {"x86_64", "x86_64_avx2", "x86_64_avx512"}
    [] k \in {"add_mul", "sub_mul"} -> {"x86_64", "x86_64_adx", "x86_64_bmi2"}
    [] k \in {"add_mul_2", "mul_2"} -> {"x86_64", "x86_64_bmi2"}
    [] k \in {"mul_basecase", "mul_4x4"} -> {"portable", "x86_64_adx"}
    [] k = "sqr_basecase" -> {"direct", "x86_64_adx", "x86_64_bmi2"}

RowKernels == {"add_mul", "add_mul_2", "mul_2"}

Dispatchable ==
  Butterflies \union ShiftsInto \union ShiftsInPlace \union Composites
    \union {"lshift_overlapping", "add_sub_from", "sub_shifted_high", "monty_redc", "add_mul", "sub_mul"}

Serves(k, b, items) ==
  /\ Dispatching(items) => k \in Dispatchable /\ Offers(items, TierModules(k))
  /\ k \in RowKernels /\ Dispatches(b) => Offers(items, TierModules(k))
  /\ k = "mul_basecase" /\ Dispatching(items) => Dispatches(b)

\* Whatever the kernel's policy.
LEMMA PolicyResolves ==
  ASSUME NEW k \in Kernels, NEW b, Possible(b)
  PROVE  Resolves(k, b, X86Items(k, b)) /\ Serves(k, b, X86Items(k, b))
<1> USE DEF Carries, Propagations, Butterflies, ShiftsInto, ShiftsInPlace, Composites, Serves, Dispatchable, RowKernels
<1>1. Policy(k) # "adx" => (X64(b) => ~Generic(k, b))
  BY GenericOutside
<1>2. CASE k \in Carries \union Propagations \union {"divrem_1"}
  <2>1. Policy(k) = "baseline"
    BY <1>2 DEF Policy
  <2>2. X86Items(k, b) = BaselineItems(k, b)
    BY <2>1 DEF X86Items
  <2> QED
    BY <1>2, <1>1, <2>1, <2>2, BaselineResolves DEF TierModules
<1>3. CASE k \in Butterflies
  <2>1. Policy(k) = "adx"
    BY <1>3 DEF Policy
  <2>2. X86Items(k, b) = ButterflyItems(b)
    BY <2>1 DEF X86Items
  <2> QED
    BY <1>3, <2>2, ButterflyResolves, GenericOutside DEF TierModules
<1>4. CASE k \in ShiftsInPlace
  <2>1. Policy(k) = "sse2, avx2"
    BY <1>4 DEF Policy
  <2>2. X86Items(k, b) = SimdPair(k, b, FALSE)
    BY <2>1 DEF X86Items
  <2> QED
    BY <1>4, <1>1, <2>1, <2>2, SimdPairResolves DEF TierModules
<1>5. CASE k \in ShiftsInto \union {"lshift_overlapping"}
  <2>1. Policy(k) \in {"sse2, avx2, avx512, small", "sse2, avx2, avx512"}
    BY <1>5 DEF Policy
  <2>2. X86Items(k, b) = SimdPair(k, b, TRUE)
    BY <2>1 DEF X86Items
  <2> QED
    BY <1>5, <1>1, <2>1, <2>2, SimdPairResolves DEF TierModules
<1>6. CASE k = "add_sub_from"
  <2>1. Policy(k) = "fallback, adx"
    BY <1>6 DEF Policy
  <2>2. X86Items(k, b) = Single(k, b, "x86_64_adx", "adx")
    BY <2>1 DEF X86Items
  <2> QED
    BY <1>1, <1>6, <2>1, <2>2, SingleAdxResolves DEF TierModules
<1>7. CASE k = "sub_shifted_high"
  <2>1. Policy(k) = "fallback, bmi2"
    BY <1>7 DEF Policy
  <2>2. X86Items(k, b) = Single(k, b, "x86_64_bmi2", "bmi2")
    BY <2>1 DEF X86Items
  <2> QED
    BY <1>7, <1>1, <2>1, <2>2, SingleBmi2Resolves DEF TierModules
<1>8. CASE k = "monty_redc"
  <2>1. Policy(k) = "fallback, bmi2, adx_bmi2"
    BY <1>8 DEF Policy
  <2>2. X86Items(k, b) = MontyItems(k, b)
    BY <2>1 DEF X86Items
  <2> QED
    BY <1>8, <1>1, <2>1, <2>2, MontyResolves DEF TierModules
<1>9. CASE k \in {"add_mul", "sub_mul"}
  <2>1. Policy(k) = "bmi2, adx_bmi2"
    BY <1>9 DEF Policy
  <2>2. X86Items(k, b) = MulLimbItems(k, b)
    BY <2>1 DEF X86Items
  <2> QED
    BY <1>9, <1>1, <2>1, <2>2, MulLimbResolves DEF TierModules
<1>10. CASE k \in {"add_mul_2", "mul_2"}
  <2>1. Policy(k) = "bmi2"
    BY <1>10 DEF Policy
  <2>2. X86Items(k, b) = TwoLimbItems(k, b)
    BY <2>1 DEF X86Items
  <2> QED
    BY <1>10, <1>1, <2>1, <2>2, TwoLimbResolves DEF TierModules
<1>11. CASE k \in Composites
  <2>1. Policy(k) = k
    BY <1>11 DEF Policy
  <2>2. X64(b) \/ Generic(k, b)
    BY <1>11, GenericOutside
  <2>3. CASE k = "mul_basecase"
    <3>1. X86Items(k, b) = MulItems(b)
      BY <2>1, <2>3 DEF X86Items
    <3> QED
      BY <1>11, <2>2, <2>3, <3>1, MulResolves DEF TierModules
  <2>4. CASE k = "mul_4x4"
    <3>1. X86Items(k, b) = Mul4Items(b)
      BY <2>1, <2>4 DEF X86Items
    <3> QED
      BY <1>11, <2>2, <2>4, <3>1, Mul4Resolves DEF TierModules
  <2>5. CASE k = "sqr_basecase"
    <3>1. X86Items(k, b) = SqrItems(b)
      BY <2>1, <2>5 DEF X86Items
    <3> QED
      BY <1>11, <2>2, <2>5, <3>1, SqrResolves DEF TierModules
  <2> QED
    BY <1>11, <2>3, <2>4, <2>5
<1> QED
  BY <1>2, <1>3, <1>4, <1>5, <1>6, <1>7, <1>8, <1>9, <1>10, <1>11 DEF Kernels, Others

\* POWER takes one backend where its policy names one, and nothing elsewhere.
OnPower(k, b) == b.arch = "powerpc64" /\ ~b.miri /\ PowerPolicy(k) # "none"

PowerSettles(k, b, items) ==
  /\ Apart(items)
  /\ OnPower(k, b) => Settles(items)
  /\ ~OnPower(k, b) => \A i \in DOMAIN items : ~items[i].when
  /\ \A i \in DOMAIN items : items[i].selects # "dispatch" /\ items[i].modules = {items[i].selects}

LEMMA PowerResolves ==
  ASSUME NEW k \in Kernels, NEW b
  PROVE  PowerSettles(k, b, PowerItems(k, b))
<1> DEFINE s == PowerItems(k, b)
           power == ~b.miri /\ b.arch = "powerpc64"
<1>1. PowerPolicy(k) \in {"none", "baseline", "power8, power9"}
  BY DEF PowerPolicy
<1>2. CASE PowerPolicy(k) = "none"
  <2>1. s = <<>>
    BY <1>2 DEF PowerItems
  <2> QED
    BY <1>2, <2>1 DEF PowerSettles, Apart, OnPower
<1>3. CASE PowerPolicy(k) = "baseline"
  <2> DEFINE r == << Selects(power, "powerpc64") >>
  <2>1. s = r
    BY <1>3 DEF PowerItems
  <2>2. DOMAIN r = 1 .. 1
    OBVIOUS
  <2>3. (r[1].when <=> power) /\ r[1].modules = {"powerpc64"} /\ r[1].selects = "powerpc64"
    BY DEF Selects, Item
  <2>4. OnPower(k, b) <=> power
    BY <1>3 DEF OnPower
  <2> HIDE DEF r, power
  <2>5. PowerSettles(k, b, r)
    BY <2>2, <2>3, <2>4 DEF PowerSettles, Apart, Settles
  <2> QED
    BY <2>1, <2>5
<1>4. CASE PowerPolicy(k) = "power8, power9"
  <2> DEFINE p9 == Has(b, "power9-vector")
             r == << Selects(power /\ p9, "powerpc64_p9"), Selects(power /\ ~p9, "powerpc64") >>
  <2>1. s = r
    BY <1>4 DEF PowerItems
  <2>2. DOMAIN r = 1 .. 2
    OBVIOUS
  <2>3. /\ r[1].when <=> (power /\ p9)
        /\ r[2].when <=> (power /\ ~p9)
        /\ r[1].modules = {"powerpc64_p9"} /\ r[1].selects = "powerpc64_p9"
        /\ r[2].modules = {"powerpc64"} /\ r[2].selects = "powerpc64"
    BY DEF Selects, Item
  <2>4. OnPower(k, b) <=> power
    BY <1>4 DEF OnPower
  <2> HIDE DEF r, power, p9
  <2>5. PowerSettles(k, b, r)
    BY <2>2, <2>3, <2>4 DEF PowerSettles, Apart, Settles
  <2> QED
    BY <2>1, <2>5
<1> QED
  BY <1>1, <1>2, <1>3, <1>4

\* What a list of items leaves of a build.
LEMMA TakenApart ==
  ASSUME NEW from, NEW items, Apart(items), NEW x \in Taken(from, items), NEW y \in Taken(from, items),
         x.item.modules \intersect y.item.modules # {}
  PROVE  x = y
<1>1. PICK i \in DOMAIN items : items[i].when /\ x = [from |-> from, at |-> i, item |-> items[i]]
  BY DEF Taken
<1>2. PICK j \in DOMAIN items : items[j].when /\ y = [from |-> from, at |-> j, item |-> items[j]]
  BY DEF Taken
<1>3. x.item = items[i] /\ y.item = items[j]
  BY <1>1, <1>2
<1>4. i = j
  BY <1>1, <1>2, <1>3 DEF Apart
<1> QED
  BY <1>1, <1>2, <1>4

LEMMA TakenSettles ==
  ASSUME NEW from, NEW items, Settles(items)
  PROVE  \E x \in Taken(from, items) :
           x.item.selects # "nothing" /\ \A y \in Taken(from, items) : y.item.selects # "nothing" => y = x
<1>1. PICK i \in DOMAIN items :
        /\ items[i].when /\ items[i].selects # "nothing"
        /\ \A j \in DOMAIN items : items[j].when /\ items[j].selects # "nothing" => j = i
  BY DEF Settles
<1> DEFINE x == [from |-> from, at |-> i, item |-> items[i]]
<1>2. x \in Taken(from, items) /\ x.item.selects # "nothing"
  BY <1>1 DEF Taken
<1>3. ASSUME NEW y \in Taken(from, items), y.item.selects # "nothing" PROVE y = x
  <2>1. PICK j \in DOMAIN items : items[j].when /\ y = [from |-> from, at |-> j, item |-> items[j]]
    BY DEF Taken
  <2>2. y.item = items[j]
    BY <2>1
  <2> QED
    BY <1>1, <1>3, <2>1, <2>2
<1> QED
  BY <1>2, <1>3

LEMMA TakenNone ==
  ASSUME NEW from, NEW items, \A i \in DOMAIN items : ~items[i].when
  PROVE  Taken(from, items) = {}
BY DEF Taken

\* The active items of a build come from one place.
OneSelection(k, b) ==
  \E x \in Active(k, b) :
    x.item.selects # "nothing" /\ \A y \in Active(k, b) : y.item.selects # "nothing" => y = x

ItemFits(k, b, item) ==
  /\ item.selects = "x86_64_adx" => Has(b, "adx") /\ (k \notin Butterflies \union {"add_sub_from"} => Has(b, "bmi2"))
  /\ item.selects = "x86_64_bmi2" => Has(b, "bmi2")
  /\ item.selects = "x86_64_avx2" => Has(b, "avx2")
  /\ item.selects = "x86_64_avx512" => Has(b, "avx512f") /\ Has(b, "avx2")
  /\ item.selects \notin {"bmi2_rows", "vanilla_rows"}

LEMMA ActiveResolves ==
  ASSUME NEW k \in Kernels, NEW b, Possible(b)
  PROVE  /\ \A x, y \in Active(k, b) : x.item.modules \intersect y.item.modules # {} => x = y
         /\ Surface(k, b) => OneSelection(k, b)
         /\ \A x \in Active(k, b) : x.item.selects = "dispatch" => X64(b) /\ Dispatching(X86Items(k, b))
         /\ \A x \in Active(k, b) : x.item.selects \notin {"nothing", "dispatch"} => x.item.selects \in Declared(k, b)
         /\ b.arch = "x86_64" => \A x \in Active(k, b) : ItemFits(k, b, x.item)
<1> DEFINE power == Taken("powerpc64", PowerItems(k, b))
           x86 == Taken("x86_64", X86Items(k, b))
           others == {[from |-> "backends", at |-> 0, item |-> x] : x \in BackendItems(k, b)}
<1>1. Active(k, b) = power \union x86 \union others
  BY DEF Active
<1>2. PowerSettles(k, b, PowerItems(k, b))
  BY PowerResolves
<1>3. Resolves(k, b, X86Items(k, b))
  BY PolicyResolves
<1>4. \A x \in x86 : \E i \in DOMAIN X86Items(k, b) : X86Items(k, b)[i].when /\ x.item = X86Items(k, b)[i]
  BY DEF Taken
<1>5. \A i \in DOMAIN X86Items(k, b) : X86Items(k, b)[i].when => \E x \in x86 : x.item = X86Items(k, b)[i]
  <2>1. ASSUME NEW i \in DOMAIN X86Items(k, b), X86Items(k, b)[i].when
        PROVE  [from |-> "x86_64", at |-> i, item |-> X86Items(k, b)[i]] \in x86
    BY <2>1 DEF Taken
  <2> QED
    BY <2>1
<1>6. \A x \in x86 : x.item.selects = "dispatch" => X64(b) /\ Dispatching(X86Items(k, b))
  BY <1>3, <1>4 DEF Resolves, Dispatching
<1>7. \A x \in x86 : x.item.selects \notin {"nothing", "dispatch"} => \E y \in x86 : x.item.selects \in y.item.modules
  BY <1>3, <1>4, <1>5 DEF Resolves, Provides
<1>8. \A x \in x86 : ItemFits(k, b, x.item)
  BY <1>3, <1>4 DEF Resolves, Fits, ItemFits
<1>9. \A x \in power : x.item.selects # "dispatch" /\ x.item.modules = {x.item.selects}
  BY <1>2 DEF Taken, PowerSettles
<1> HIDE DEF x86, power
<1>10. CASE X64(b) \/ Generic(k, b)
  <2>1. others = {}
    BY <1>10, OneBackend
  <2>2. ~OnPower(k, b)
    BY <1>10, GenericOutside DEF OnPower, X64, Generic
  <2>3. Active(k, b) = x86
    BY <1>1, <1>2, <2>1, <2>2, TakenNone DEF PowerSettles, power
  <2>4. \A x, y \in x86 : x.item.modules \intersect y.item.modules # {} => x = y
    BY <1>3, TakenApart DEF x86, Resolves
  <2>5. Surface(k, b) => OneSelection(k, b)
    BY <1>3, <1>10, <2>3, TakenSettles DEF x86, Resolves, OneSelection
  <2>6. \A x \in x86 : x.item.selects \notin {"nothing", "dispatch"} => x.item.selects \in Declared(k, b)
    BY <1>7, <2>3 DEF Declared
  <2> QED
    BY <1>6, <1>8, <2>3, <2>4, <2>5, <2>6
<1>11. CASE ~X64(b) /\ ~Generic(k, b)
  <2>1. x86 = {}
    BY <1>3, <1>11, TakenNone DEF Resolves, x86
  <2>2. CASE OnPower(k, b)
    <3>1. others = {}
      BY <2>2, OneBackend DEF OnPower
    <3>2. Active(k, b) = power
      BY <1>1, <2>1, <3>1
    <3>3. \A x, y \in power : x.item.modules \intersect y.item.modules # {} => x = y
      BY <1>2, TakenApart DEF power, PowerSettles
    <3>4. OneSelection(k, b)
      BY <1>2, <2>2, <3>2, TakenSettles DEF power, PowerSettles, OneSelection
    <3>5. \A x \in power : x.item.selects \in Declared(k, b)
      BY <1>9, <3>2 DEF Declared
    <3>6. b.arch # "x86_64"
      BY <2>2 DEF OnPower
    <3> QED
      BY <1>9, <3>2, <3>3, <3>4, <3>5, <3>6
  <2>3. CASE ~OnPower(k, b)
    <3>1. Active(k, b) = others
      BY <1>1, <1>2, <2>1, <2>3, TakenNone DEF PowerSettles, power
    <3>2. BackendItems(k, b) # {}
      BY <1>11, <2>3, GenericOutside DEF OnPower
    <3>3. PICK z \in BackendItems(k, b) : TRUE
      BY <3>2
    <3>4. others = {[from |-> "backends", at |-> 0, item |-> z]}
      BY <3>3, OneBackend
    <3>5. z.selects \notin {"nothing", "dispatch"} /\ z.modules = {z.selects} /\ b.arch # "x86_64"
      BY <3>3, OneBackend
    <3> DEFINE y == [from |-> "backends", at |-> 0, item |-> z]
    <3>6. Active(k, b) = {y} /\ y.item = z
      BY <3>1, <3>4
    <3> HIDE DEF y
    <3>7. OneSelection(k, b)
      BY <3>5, <3>6 DEF OneSelection
    <3>8. y.item.selects \in Declared(k, b)
      BY <3>5, <3>6 DEF Declared
    <3> QED
      BY <3>5, <3>6, <3>7, <3>8
  <2> QED
    BY <2>2, <2>3
<1> QED
  BY <1>10, <1>11

\* Every module a tier may choose is one its kernel keeps.
LEMMA ChoicesKept ==
  ASSUME NEW k \in Dispatchable, NEW tier \in Tiers(k), NEW r \in Reaches(k, Choice(k, tier))
  PROVE  /\ r[2] \in TierModules(r[1])
         /\ r[1] = k \/ (k = "mul_basecase" /\ r[1] \in RowKernels)
         /\ r[1] = k => Choice(k, tier) \in TierModules(k)
<1> USE DEF Butterflies, ShiftsInto, ShiftsInPlace, Composites, IsShift
<1>1. CASE IsShift(k)
  <2>1. Choice(k, tier) = ShiftChoice(k, tier)
    BY <1>1 DEF Choice
  <2> QED
    BY <1>1, <2>1 DEF ShiftChoice, Reaches, TierModules
<1>2. CASE k \in Butterflies \union {"add_sub_from"}
  BY <1>2 DEF Choice, Reaches, TierModules
<1>3. CASE k = "sub_shifted_high"
  BY <1>3 DEF Choice, Reaches, TierModules
<1>4. CASE k = "mul_4x4"
  BY <1>4 DEF Choice, Reaches, TierModules
<1>5. CASE k = "mul_basecase"
  BY <1>5 DEF Choice, Reaches, TierModules, RowKernels
<1>6. CASE k \in {"add_mul", "sub_mul", "sqr_basecase", "monty_redc"}
  BY <1>6 DEF Choice, Slowest, Reaches, TierModules
<1> QED
  BY <1>1, <1>2, <1>3, <1>4, <1>5, <1>6 DEF Dispatchable

LEMMA OfferedDeclared ==
  ASSUME NEW k, NEW b, NEW modules, Offers(X86Items(k, b), modules)
  PROVE  modules \subseteq Declared(k, b)
<1>1. ASSUME NEW m \in modules PROVE m \in Declared(k, b)
  <2>1. PICK j \in DOMAIN X86Items(k, b) : X86Items(k, b)[j].when /\ m \in X86Items(k, b)[j].modules
    BY DEF Offers
  <2> DEFINE x == [from |-> "x86_64", at |-> j, item |-> X86Items(k, b)[j]]
  <2>2. x \in Active(k, b) /\ m \in x.item.modules
    BY <2>1 DEF Active, Taken
  <2> QED
    BY <2>2 DEF Declared
<1> QED
  BY <1>1

LEMMA SingletonCardinality ==
  ASSUME NEW S, NEW x \in S, \A y \in S : y = x
  PROVE  Cardinality(S) = 1
<1>1. S = {x}
  OBVIOUS
<1> QED
  BY <1>1, FS_Singleton

\* Every build of any target, with any features, has one definition of every
\* kernel, and every module that definition or a tier may ask for.
THEOREM EveryBuildResolves ==
  ASSUME NEW k \in Kernels, NEW b, Possible(b)
  PROVE  ResolvedOnce(k, b)
<1>1. \A x, y \in Active(k, b) : x.item.modules \intersect y.item.modules # {} => x = y
  BY ActiveResolves
<1>2. ASSUME NEW m \in Declared(k, b) PROVE Cardinality({x \in Active(k, b) : m \in x.item.modules}) = 1
  <2>1. PICK x \in Active(k, b) : m \in x.item.modules
    BY DEF Declared
  <2>2. \A y \in {y \in Active(k, b) : m \in y.item.modules} : y = x
    BY <1>1, <2>1
  <2> QED
    BY <2>1, <2>2, SingletonCardinality
<1>3. ASSUME Surface(k, b)
      PROVE  /\ Cardinality(Selections(k, b)) = 1
             /\ Selected(k, b) # "dispatch" => Selected(k, b) \in Declared(k, b)
             /\ Selected(k, b) = "dispatch" =>
                  \A tier \in Tiers(k) : \A r \in Reaches(k, Choice(k, tier)) : r[2] \in Declared(r[1], b)
  <2>1. PICK x \in Active(k, b) :
          x.item.selects # "nothing" /\ \A y \in Active(k, b) : y.item.selects # "nothing" => y = x
    BY <1>3, ActiveResolves DEF OneSelection
  <2>2. x \in Selections(k, b) /\ \A y \in Selections(k, b) : y = x
    BY <2>1 DEF Selections
  <2>3. Cardinality(Selections(k, b)) = 1
    BY <2>2, SingletonCardinality
  <2>4. Selected(k, b) = x.item.selects
    BY <2>2 DEF Selected
  <2>5. Selected(k, b) # "dispatch" => Selected(k, b) \in Declared(k, b)
    BY <2>1, <2>4, ActiveResolves
  <2>6. ASSUME Selected(k, b) = "dispatch", NEW tier \in Tiers(k), NEW r \in Reaches(k, Choice(k, tier))
        PROVE  r[2] \in Declared(r[1], b)
    <3>1. Dispatching(X86Items(k, b))
      BY <2>1, <2>4, <2>6, ActiveResolves
    <3>2. k \in Dispatchable /\ Offers(X86Items(k, b), TierModules(k)) /\ (k = "mul_basecase" => Dispatches(b))
      BY <3>1, PolicyResolves DEF Serves
    <3>3. CASE r[1] = k
      BY <3>2, <3>3, ChoicesKept, OfferedDeclared
    <3>4. CASE r[1] # k
      <4>1. r[1] \in RowKernels /\ Dispatches(b) /\ r[2] \in TierModules(r[1])
        BY <3>2, <3>4, ChoicesKept
      <4>2. r[1] \in Kernels
        BY <4>1 DEF RowKernels, Kernels, Others
      <4>3. Offers(X86Items(r[1], b), TierModules(r[1]))
        BY <4>1, <4>2, PolicyResolves DEF Serves
      <4> QED
        BY <4>1, <4>3, OfferedDeclared
    <3> QED
      BY <3>3, <3>4
  <2> QED
    BY <2>3, <2>5, <2>6
<1> QED
  BY <1>2, <1>3 DEF ResolvedOnce

-----------------------------------------------------------------------------
(* Run time.                                                                *)

NotChosen == {Empty, Running}

TierNeeds(tier) ==
  CASE tier = "AdxBmi2" -> {"adx", "bmi2"} [] tier = "Adx" -> {"adx"} [] tier = "Bmi2" -> {"bmi2"}
    [] tier = "Avx512" -> {"avx2", "avx512f"} [] tier = "Avx2" -> {"avx2"} [] OTHER -> {}

\* A detected tier is one the processor has.
TierHeld(kernel) ==
  once[TierCell(kernel)] \notin NotChosen =>
    once[TierCell(kernel)] \in Tiers(kernel) /\ TierNeeds(once[TierCell(kernel)]) \subseteq cpu

\* The module a kernel comes to, once that is settled.
Settled(kernel) == Selected(kernel, build) = "dispatch" => once[kernel] \notin NotChosen
Final(kernel) == IF Selected(kernel, build) = "dispatch" THEN once[kernel] ELSE Selected(kernel, build)

\* The build and the calls are a program's, and the processor is enough for it.
ProgramHeld ==
  /\ \E p \in Programs : build = p.build /\ calls = p.calls
  /\ \A t \in CallingThreads : Surface(Kernel(t), build)
  /\ build.arch = "x86_64" => build.features \subseteq cpu

SelectionTypeOK ==
  /\ stage \in [CallingThreads -> {"call", "select", "detect", "run", "done"}]
  /\ DOMAIN module = CallingThreads
  /\ DOMAIN once = Cells

\* A cell is running because of one thread, which is inside its initializer.
CellsHeld ==
  /\ \A t \in CallingThreads : stage[t] \in {"select", "detect"} =>
       Selected(Kernel(t), build) = "dispatch" /\ once[Kernel(t)] = Running
  /\ \A t \in CallingThreads : stage[t] = "detect" => once[TierCell(Kernel(t))] = Running
  /\ \A t, u \in CallingThreads :
       stage[t] \in {"select", "detect"} /\ stage[u] \in {"select", "detect"} /\ Kernel(t) = Kernel(u) => t = u
  /\ \A t, u \in CallingThreads :
       stage[t] = "detect" /\ stage[u] = "detect" /\ TierCell(Kernel(t)) = TierCell(Kernel(u)) => t = u

\* A kernel's cell follows the tier its own cell holds.
ChoicesHeld ==
  \A kernel \in Kernels :
    /\ TierHeld(kernel)
    /\ once[kernel] \notin NotChosen =>
         /\ Selected(kernel, build) = "dispatch"
         /\ once[TierCell(kernel)] \notin NotChosen
         /\ once[kernel] = Choice(kernel, once[TierCell(kernel)])

ModulesHeld ==
  \A t \in CallingThreads : stage[t] = "run" => Settled(Kernel(t)) /\ module[t] = Final(Kernel(t))

AnswersHeld ==
  \A a \in answers :
    /\ a.kernel \in Kernels /\ Surface(a.kernel, build) /\ Settled(a.kernel)
    /\ a.module = Final(a.kernel)

SelectionInv == ProgramHeld /\ SelectionTypeOK /\ CellsHeld /\ ChoicesHeld /\ ModulesHeld /\ AnswersHeld

\* No cell is two cells.
LEMMA CellsDiffer ==
  /\ \A kernel \in Kernels : kernel \in Cells /\ TierCell(kernel) \in Cells /\ TierCell(kernel) \notin Kernels
  /\ Empty # Running
BY DEF Cells, TierCell, Empty, Running, Kernels, Carries, Propagations, Butterflies, ShiftsInto, ShiftsInPlace,
       Composites, Others

LEMMA ProgramFacts ==
  ASSUME ProgramHeld
  PROVE  /\ Possible(build)
         /\ \A t \in CallingThreads : Kernel(t) \in Kernels /\ Surface(Kernel(t), build)
         /\ \A t \in CallingThreads : calls[t].op = "flag" => Kernel(t) = "add_sub"
BY BuildsAssumption, CallsAssumption DEF ProgramHeld, Possible, Kernel

\* What a thread selects is one of the items its build takes.
LEMMA SelectedFacts ==
  ASSUME NEW k \in Kernels, NEW b, Possible(b), Surface(k, b)
  PROVE  Selected(k, b) # "nothing" /\ \E x \in Active(k, b) : Selected(k, b) = x.item.selects
<1>1. PICK x \in Active(k, b) :
        x.item.selects # "nothing" /\ \A y \in Active(k, b) : y.item.selects # "nothing" => y = x
  BY ActiveResolves DEF OneSelection
<1>2. x \in Selections(k, b) /\ \A y \in Selections(k, b) : y = x
  BY <1>1 DEF Selections
<1>3. (CHOOSE y \in Selections(k, b) : TRUE) = x
  BY <1>2
<1> QED
  BY <1>1, <1>3 DEF Selected

LEMMA DispatchFacts ==
  ASSUME NEW k \in Kernels, NEW b, Possible(b), Surface(k, b), Selected(k, b) = "dispatch"
  PROVE  k \in Dispatchable
<1>1. Dispatching(X86Items(k, b))
  BY SelectedFacts, ActiveResolves
<1> QED
  BY <1>1, PolicyResolves DEF Serves

\* A choice is a module, never the mark of an unset cell.
LEMMA ChoiceIsSet ==
  ASSUME NEW k \in Dispatchable, NEW tier \in Tiers(k)
  PROVE  Choice(k, tier) \notin NotChosen
<1> USE DEF Butterflies, ShiftsInto, ShiftsInPlace, Composites, IsShift, NotChosen, Empty, Running
<1>1. CASE IsShift(k)
  BY <1>1 DEF Choice, ShiftChoice
<1>2. CASE k \in Butterflies \union {"add_sub_from"}
  BY <1>2 DEF Choice
<1>3. CASE k = "sub_shifted_high"
  BY <1>3 DEF Choice
<1>4. CASE k = "mul_4x4"
  BY <1>4 DEF Choice
<1>5. CASE k = "mul_basecase"
  BY <1>5 DEF Choice
<1>6. CASE k \in {"add_mul", "sub_mul", "sqr_basecase", "monty_redc"}
  BY <1>6 DEF Choice, Slowest
<1> QED
  BY <1>1, <1>2, <1>3, <1>4, <1>5, <1>6 DEF Dispatchable

\* Whatever a request asks for, a tier is one the processor has.
LEMMA TierDetected ==
  ASSUME NEW kernel \in Kernels, NEW processor, NEW asked
  PROVE  LET tier == IF IsShift(kernel) THEN SimdTier(processor, asked) ELSE ArithmeticTier(processor, asked)
         IN  tier \in Tiers(kernel) /\ TierNeeds(tier) \subseteq processor /\ tier \notin NotChosen
<1>1. /\ SimdTier(processor, asked) \in {"Avx512", "Avx2", "Sse2"}
      /\ SimdTier(processor, asked) = "Avx512" => "avx2" \in processor /\ "avx512f" \in processor
      /\ SimdTier(processor, asked) = "Avx2" => "avx2" \in processor
  BY DEF SimdTier
<1>2. /\ ArithmeticTier(processor, asked) \in {"AdxBmi2", "Adx", "Bmi2", "Baseline"}
      /\ ArithmeticTier(processor, asked) = "AdxBmi2" => "adx" \in processor /\ "bmi2" \in processor
      /\ ArithmeticTier(processor, asked) = "Adx" => "adx" \in processor
      /\ ArithmeticTier(processor, asked) = "Bmi2" => "bmi2" \in processor
  BY DEF ArithmeticTier
<1>3. CASE IsShift(kernel)
  BY <1>1, <1>3 DEF Tiers, TierNeeds, NotChosen, Empty, Running
<1>4. CASE ~IsShift(kernel)
  BY <1>2, <1>4 DEF Tiers, TierNeeds, NotChosen, Empty, Running
<1> QED
  BY <1>3, <1>4

\* A butterfly is the ADX kernel or the fallback, which is all its flag tells apart.
LEMMA ButterflyFacts ==
  ASSUME NEW k \in Butterflies, NEW b, Possible(b), Surface(k, b)
  PROVE  /\ Selected(k, b) \in {"dispatch", "x86_64_adx", "fallback"}
         /\ \A tier : Choice(k, tier) \in {"x86_64_adx", "fallback"}
<1> USE DEF Butterflies, Carries, Propagations, ShiftsInto, ShiftsInPlace, Composites
<1>1. k \in Kernels /\ Policy(k) = "adx" /\ PowerPolicy(k) = "none" /\ Backends(k) = {}
  BY DEF Kernels, Policy, PowerPolicy, Backends
<1>2. X86Items(k, b) = ButterflyItems(b) /\ PowerItems(k, b) = <<>> /\ BackendItems(k, b) = {}
  BY <1>1 DEF X86Items, PowerItems, BackendItems
<1>3. Active(k, b) = Taken("x86_64", ButterflyItems(b))
  BY <1>2 DEF Active, Taken
<1>4. \A i \in DOMAIN ButterflyItems(b) : ButterflyItems(b)[i].selects \in {"nothing", "dispatch", "x86_64_adx", "fallback"}
  <2>1. DOMAIN ButterflyItems(b) = 1 .. 5
    BY DEF ButterflyItems
  <2>2. /\ ButterflyItems(b)[1].selects = "nothing"
        /\ ButterflyItems(b)[2].selects = "nothing"
        /\ ButterflyItems(b)[3].selects = "dispatch"
        /\ ButterflyItems(b)[4].selects = "x86_64_adx"
        /\ ButterflyItems(b)[5].selects = "fallback"
    BY DEF ButterflyItems, Only, Item
  <2> QED
    BY <2>1, <2>2
<1>5. \A x \in Active(k, b) : x.item.selects \in {"nothing", "dispatch", "x86_64_adx", "fallback"}
  BY <1>3, <1>4 DEF Taken
<1>6. \A tier : Choice(k, tier) \in {"x86_64_adx", "fallback"}
  BY DEF Choice, IsShift
<1> QED
  BY <1>1, <1>5, <1>6, SelectedFacts

LEMMA SelectionInitially ==
  ASSUME SelectionInit
  PROVE  SelectionInv
<1>1. ProgramHeld
  <2>1. PICK p \in Programs :
          /\ build = p.build /\ calls = p.calls
          /\ \A t \in CallingThreads : Surface(p.calls[t].kernel, p.build)
          /\ cpu \in IF p.build.arch = "x86_64" THEN {c \in Cpus : p.build.features \subseteq c} ELSE {{}}
    BY DEF SelectionInit
  <2> QED
    BY <2>1 DEF ProgramHeld, Kernel
<1>2. \A c \in Cells : once[c] = Empty
  BY DEF SelectionInit
<1>3. \A t \in CallingThreads : stage[t] = "call"
  BY DEF SelectionInit
<1>4. SelectionTypeOK
  BY DEF SelectionInit, SelectionTypeOK
<1>5. CellsHeld
  BY <1>3 DEF CellsHeld
<1>6. ChoicesHeld
  BY <1>2, CellsDiffer DEF ChoicesHeld, TierHeld, NotChosen
<1>7. ModulesHeld
  BY <1>3 DEF ModulesHeld
<1>8. AnswersHeld
  BY DEF SelectionInit, AnswersHeld
<1> QED
  BY <1>1, <1>4, <1>5, <1>6, <1>7, <1>8 DEF SelectionInv

\* The program, the processor and its surfaces never change.
LEMMA ProgramKept ==
  ASSUME ProgramHeld, UNCHANGED <<build, cpu, calls>>
  PROVE  ProgramHeld'
BY DEF ProgramHeld, Kernel

\* What is settled stays: a step that writes no settled cell changes no module.
LEMMA SettledKept ==
  ASSUME UNCHANGED build, NEW kernel \in Kernels, Settled(kernel),
         \A k \in Kernels : once[k] \notin NotChosen => once'[k] = once[k]
  PROVE  Settled(kernel)' /\ Final(kernel)' = Final(kernel)
BY DEF Settled, Final, NotChosen

LEMMA SelectionStep ==
  ASSUME SelectionInv, [SelectionNext]_selectionVars
  PROVE  SelectionInv'
<1> USE DEF SelectionInv
<1>0. /\ Possible(build)
      /\ \A t \in CallingThreads : Kernel(t) \in Kernels /\ Surface(Kernel(t), build)
      /\ \A t \in CallingThreads : calls[t].op = "flag" => Kernel(t) = "add_sub"
  BY ProgramFacts
<1>00. /\ \A kernel \in Kernels : kernel \in Cells /\ TierCell(kernel) \in Cells /\ TierCell(kernel) \notin Kernels
       /\ Empty # Running
  BY CellsDiffer
<1>1. CASE UNCHANGED selectionVars
  BY <1>1 DEF selectionVars, ProgramHeld, SelectionTypeOK, CellsHeld, ChoicesHeld, TierHeld, ModulesHeld, AnswersHeld,
              Settled, Final, Kernel
<1>2. CASE ChangeRequest
  BY <1>2 DEF ChangeRequest, ProgramHeld, SelectionTypeOK, CellsHeld, ChoicesHeld, TierHeld, ModulesHeld, AnswersHeld,
              Settled, Final, Kernel
<1>3. ASSUME NEW t \in CallingThreads, CallSelected(t) PROVE SelectionInv'
  <2>1. /\ stage[t] = "call" /\ Selected(Kernel(t), build) # "dispatch"
        /\ module' = [module EXCEPT ![t] = Selected(Kernel(t), build)]
        /\ stage' = [stage EXCEPT ![t] = "run"]
        /\ UNCHANGED <<build, cpu, request, calls, once, answers>>
    BY <1>3 DEF CallSelected, Take, Go
  <2>2. ProgramHeld' /\ SelectionTypeOK'
    BY <2>1, ProgramKept DEF SelectionTypeOK
  <2>3. CellsHeld' /\ ChoicesHeld' /\ AnswersHeld'
    BY <2>1 DEF CellsHeld, ChoicesHeld, TierHeld, AnswersHeld, Settled, Final, Kernel, SelectionTypeOK
  <2>4. ModulesHeld'
    BY <2>1 DEF ModulesHeld, Settled, Final, Kernel, SelectionTypeOK
  <2> QED
    BY <2>2, <2>3, <2>4
<1>4. ASSUME NEW t \in CallingThreads, CallChosen(t) PROVE SelectionInv'
  <2>1. /\ stage[t] = "call" /\ Selected(Kernel(t), build) = "dispatch"
        /\ once[Kernel(t)] \notin NotChosen
        /\ module' = [module EXCEPT ![t] = once[Kernel(t)]]
        /\ stage' = [stage EXCEPT ![t] = "run"]
        /\ UNCHANGED <<build, cpu, request, calls, once, answers>>
    BY <1>4 DEF CallChosen, Take, Go, NotChosen
  <2>2. ProgramHeld' /\ SelectionTypeOK'
    BY <2>1, ProgramKept DEF SelectionTypeOK
  <2>3. CellsHeld' /\ ChoicesHeld' /\ AnswersHeld'
    BY <2>1 DEF CellsHeld, ChoicesHeld, TierHeld, AnswersHeld, Settled, Final, Kernel, SelectionTypeOK
  <2>4. ModulesHeld'
    BY <2>1 DEF ModulesHeld, Settled, Final, Kernel, SelectionTypeOK
  <2> QED
    BY <2>2, <2>3, <2>4
<1>5. ASSUME NEW t \in CallingThreads, ClaimKernel(t) PROVE SelectionInv'
  <2> DEFINE k == Kernel(t)
  <2>1. /\ stage[t] = "call" /\ Selected(k, build) = "dispatch"
        /\ once[k] = Empty
        /\ once' = [once EXCEPT ![k] = Running]
        /\ stage' = [stage EXCEPT ![t] = "select"]
        /\ UNCHANGED <<build, cpu, request, calls, module, answers>>
    BY <1>5 DEF ClaimKernel, Go
  <2>2. ProgramHeld' /\ SelectionTypeOK'
    BY <2>1, ProgramKept DEF SelectionTypeOK
  <2>3. /\ once'[k] = Running
        /\ \A c \in Cells : c # k => once'[c] = once[c]
        /\ \A u \in CallingThreads : Kernel(u)' = Kernel(u)
    BY <1>0, <1>00, <2>1 DEF SelectionTypeOK, Kernel
  <2>4. \A kernel \in Kernels : once'[TierCell(kernel)] = once[TierCell(kernel)]
    BY <1>0, <1>00, <2>3
  <2>5. \A kernel \in Kernels : once[kernel] \notin NotChosen => once'[kernel] = once[kernel]
    BY <1>00, <2>1, <2>3 DEF NotChosen
  <2>6. CellsHeld'
    BY <1>0, <1>00, <2>1, <2>3, <2>4 DEF CellsHeld, SelectionTypeOK
  <2>7. ChoicesHeld'
    BY <1>0, <1>00, <2>1, <2>3, <2>4 DEF ChoicesHeld, TierHeld, NotChosen
  <2>8. ModulesHeld'
    BY <1>0, <2>1, <2>3, <2>5, SettledKept DEF ModulesHeld, SelectionTypeOK
  <2>9. AnswersHeld'
    BY <2>1, <2>5, SettledKept DEF AnswersHeld
  <2> QED
    BY <2>2, <2>6, <2>7, <2>8, <2>9
<1>6. ASSUME NEW t \in CallingThreads, SelectKernel(t) PROVE SelectionInv'
  <2> DEFINE k == Kernel(t)
             chosen == Choice(k, once[TierCell(k)])
  <2>1. /\ stage[t] = "select" /\ once[TierCell(k)] \notin NotChosen
        /\ once' = [once EXCEPT ![k] = chosen]
        /\ module' = [module EXCEPT ![t] = chosen]
        /\ stage' = [stage EXCEPT ![t] = "run"]
        /\ UNCHANGED <<build, cpu, request, calls, answers>>
    BY <1>6 DEF SelectKernel, Take, Go, NotChosen
  <2>2. ProgramHeld' /\ SelectionTypeOK'
    BY <2>1, ProgramKept DEF SelectionTypeOK
  <2>3. k \in Kernels /\ k \in Cells /\ Selected(k, build) = "dispatch" /\ once[k] = Running
    BY <1>0, <1>00, <2>1 DEF CellsHeld
  <2>4. chosen \notin NotChosen
    <3>1. k \in Dispatchable
      BY <1>0, <2>3, DispatchFacts
    <3>2. once[TierCell(k)] \in Tiers(k)
      BY <2>1, <2>3 DEF ChoicesHeld, TierHeld
    <3> QED
      BY <3>1, <3>2, ChoiceIsSet
  <2> HIDE DEF chosen
  <2>5. /\ once'[k] = chosen
        /\ \A c \in Cells : c # k => once'[c] = once[c]
        /\ \A u \in CallingThreads : Kernel(u)' = Kernel(u)
    BY <2>1, <2>3 DEF SelectionTypeOK, Kernel
  <2>6. \A kernel \in Kernels : once'[TierCell(kernel)] = once[TierCell(kernel)]
    BY <1>00, <2>3, <2>5
  <2>7. \A kernel \in Kernels : once[kernel] \notin NotChosen => once'[kernel] = once[kernel]
    BY <1>00, <2>3, <2>5 DEF NotChosen
  <2>8. CellsHeld'
    BY <1>0, <1>00, <2>1, <2>3, <2>5, <2>6 DEF CellsHeld, SelectionTypeOK
  <2>9. ChoicesHeld'
    <3>1. \A kernel \in Kernels : TierHeld(kernel)'
      BY <2>1, <2>6 DEF ChoicesHeld, TierHeld
    <3>2. ASSUME NEW kernel \in Kernels, once'[kernel] \notin NotChosen
          PROVE  /\ Selected(kernel, build)' = "dispatch"
                 /\ once'[TierCell(kernel)] \notin NotChosen
                 /\ once'[kernel] = Choice(kernel, once'[TierCell(kernel)])
      <4>1. CASE kernel = k
        BY <2>1, <2>3, <2>5, <2>6, <4>1 DEF chosen
      <4>2. CASE kernel # k
        BY <1>00, <2>1, <2>5, <2>6, <3>2, <4>2 DEF ChoicesHeld
      <4> QED
        BY <4>1, <4>2
    <3> QED
      BY <3>1, <3>2 DEF ChoicesHeld
  <2>10. ModulesHeld'
    <3>1. ASSUME NEW u \in CallingThreads, stage'[u] = "run"
          PROVE  Settled(Kernel(u))' /\ module'[u] = Final(Kernel(u))'
      <4>1. CASE u = t
        <5>1. module'[t] = chosen
          BY <2>1 DEF SelectionTypeOK
        <5> QED
          BY <2>1, <2>3, <2>4, <2>5, <4>1, <5>1 DEF Settled, Final
      <4>2. CASE u # t
        <5>1. stage[u] = "run" /\ module'[u] = module[u]
          BY <2>1, <3>1, <4>2 DEF SelectionTypeOK
        <5>2. Settled(Kernel(u)) /\ module[u] = Final(Kernel(u))
          BY <5>1 DEF ModulesHeld
        <5>3. Settled(Kernel(u))' /\ Final(Kernel(u))' = Final(Kernel(u))
          BY <1>0, <2>1, <2>5, <2>7, <5>2, SettledKept DEF Settled, Final
        <5> QED
          BY <5>1, <5>2, <5>3
      <4> QED
        BY <4>1, <4>2
    <3> QED
      BY <3>1 DEF ModulesHeld
  <2>11. AnswersHeld'
    BY <2>1, <2>7, SettledKept DEF AnswersHeld
  <2> QED
    BY <2>2, <2>8, <2>9, <2>10, <2>11
<1>7. ASSUME NEW t \in CallingThreads, ClaimTier(t) PROVE SelectionInv'
  <2> DEFINE c == TierCell(Kernel(t))
  <2>1. /\ stage[t] = "select" /\ once[c] = Empty
        /\ once' = [once EXCEPT ![c] = Running]
        /\ stage' = [stage EXCEPT ![t] = "detect"]
        /\ UNCHANGED <<build, cpu, request, calls, module, answers>>
    BY <1>7 DEF ClaimTier, Go
  <2>2. ProgramHeld' /\ SelectionTypeOK'
    BY <2>1, ProgramKept DEF SelectionTypeOK
  <2>3. /\ once'[c] = Running
        /\ \A d \in Cells : d # c => once'[d] = once[d]
        /\ \A u \in CallingThreads : Kernel(u)' = Kernel(u)
    BY <1>0, <1>00, <2>1 DEF SelectionTypeOK, Kernel
  <2>4. \A kernel \in Kernels : once'[kernel] = once[kernel]
    BY <1>0, <1>00, <2>3
  <2>5. \A kernel \in Kernels : once[TierCell(kernel)] \notin NotChosen => once'[TierCell(kernel)] = once[TierCell(kernel)]
    BY <1>00, <2>1, <2>3 DEF NotChosen
  <2>6. CellsHeld'
    BY <1>0, <1>00, <2>1, <2>3, <2>4 DEF CellsHeld, SelectionTypeOK
  <2>7. ChoicesHeld'
    BY <1>0, <1>00, <2>1, <2>3, <2>4, <2>5 DEF ChoicesHeld, TierHeld, NotChosen
  <2>8. ModulesHeld'
    BY <1>0, <2>1, <2>3, <2>4, SettledKept DEF ModulesHeld, SelectionTypeOK
  <2>9. AnswersHeld'
    BY <2>1, <2>4, SettledKept DEF AnswersHeld
  <2> QED
    BY <2>2, <2>6, <2>7, <2>8, <2>9
<1>8. ASSUME NEW t \in CallingThreads, Detect(t) PROVE SelectionInv'
  <2> DEFINE k == Kernel(t)
             c == TierCell(k)
             tier == IF IsShift(k) THEN SimdTier(cpu, request) ELSE ArithmeticTier(cpu, request)
  <2>1. /\ stage[t] = "detect"
        /\ once' = [once EXCEPT ![c] = tier]
        /\ stage' = [stage EXCEPT ![t] = "select"]
        /\ UNCHANGED <<build, cpu, request, calls, module, answers>>
    BY <1>8 DEF Detect, Go
  <2>2. ProgramHeld' /\ SelectionTypeOK'
    BY <2>1, ProgramKept DEF SelectionTypeOK
  <2>3. tier \in Tiers(k) /\ TierNeeds(tier) \subseteq cpu /\ tier \notin NotChosen
    BY <1>0, TierDetected
  <2> HIDE DEF tier
  <2>4. /\ once'[c] = tier
        /\ \A d \in Cells : d # c => once'[d] = once[d]
        /\ \A u \in CallingThreads : Kernel(u)' = Kernel(u)
    BY <1>0, <1>00, <2>1 DEF SelectionTypeOK, Kernel
  <2>5. \A kernel \in Kernels : once'[kernel] = once[kernel]
    BY <1>0, <1>00, <2>4
  <2>6. once[c] = Running
    BY <2>1 DEF CellsHeld
  <2>7. CellsHeld'
    BY <1>0, <1>00, <2>1, <2>4, <2>5 DEF CellsHeld, SelectionTypeOK
  <2>8. \A kernel \in Kernels : TierCell(kernel) = c => Tiers(kernel) = Tiers(k)
    BY DEF TierCell, Tiers
  <2>9. ChoicesHeld'
    <3>1. ASSUME NEW kernel \in Kernels PROVE TierHeld(kernel)'
      BY <1>00, <2>1, <2>3, <2>4, <2>8 DEF ChoicesHeld, TierHeld
    <3>2. \A kernel \in Kernels : once[kernel] \notin NotChosen => once'[TierCell(kernel)] = once[TierCell(kernel)]
      BY <1>00, <2>4, <2>6 DEF ChoicesHeld, NotChosen
    <3> QED
      BY <2>1, <2>5, <3>1, <3>2 DEF ChoicesHeld
  <2>10. ModulesHeld'
    BY <1>0, <2>1, <2>4, <2>5, SettledKept DEF ModulesHeld, SelectionTypeOK
  <2>11. AnswersHeld'
    BY <2>1, <2>5, SettledKept DEF AnswersHeld
  <2> QED
    BY <2>2, <2>7, <2>9, <2>10, <2>11
<1>9. ASSUME NEW t \in CallingThreads, Run(t) PROVE SelectionInv'
  <2>1. /\ stage[t] = "run" /\ answers' = answers \union {Answer(t)}
        /\ stage' = [stage EXCEPT ![t] = "done"]
        /\ UNCHANGED <<build, cpu, request, calls, once, module>>
    BY <1>9 DEF Run, Go
  <2>2. ProgramHeld' /\ SelectionTypeOK'
    BY <2>1, ProgramKept DEF SelectionTypeOK
  <2>3. CellsHeld' /\ ChoicesHeld'
    BY <2>1 DEF CellsHeld, ChoicesHeld, TierHeld, Kernel, SelectionTypeOK
  <2>4. ModulesHeld'
    BY <2>1 DEF ModulesHeld, Settled, Final, Kernel, SelectionTypeOK
  <2>5. Settled(Kernel(t)) /\ module[t] = Final(Kernel(t))
    BY <2>1 DEF ModulesHeld
  <2>6. Answer(t).kernel = Kernel(t) /\ Answer(t).module = module[t]
    <3>1. CASE calls[t].op # "flag"
      BY <3>1 DEF Answer
    <3>2. CASE calls[t].op = "flag"
      <4>1. Kernel(t) \in Butterflies
        BY <1>0, <3>2 DEF Butterflies
      <4>2. Final(Kernel(t)) \in {"x86_64_adx", "fallback"}
        BY <1>0, <2>5, <4>1, ButterflyFacts DEF Final, Settled, ChoicesHeld
      <4> QED
        BY <2>5, <3>2, <4>2 DEF Answer
    <3> QED
      BY <3>1, <3>2
  <2>7. AnswersHeld'
    BY <1>0, <2>1, <2>5, <2>6 DEF AnswersHeld, Settled, Final
  <2> QED
    BY <2>2, <2>3, <2>4, <2>7
<1> QED
  BY <1>1, <1>2, <1>3, <1>4, <1>5, <1>6, <1>7, <1>8, <1>9 DEF SelectionNext

\* A set of features is enough for a module, and for those it reaches.
Enough(features, k, m) ==
  /\ m = "x86_64_adx" => "adx" \in features /\ (k \notin Butterflies \union {"add_sub_from"} => "bmi2" \in features)
  /\ m \in {"x86_64_bmi2", "bmi2_rows"} => "bmi2" \in features
  /\ m = "x86_64_avx2" => "avx2" \in features
  /\ m = "x86_64_avx512" => "avx512f" \in features /\ "avx2" \in features

LEMMA EnoughReaches ==
  ASSUME NEW features, NEW k \in Kernels, NEW m, Enough(features, k, m), NEW r \in Reaches(k, m)
  PROVE  Needs(r[1], r[2]) \subseteq features
<1> USE DEF ShiftsInPlace, Butterflies
<1>1. CASE k = "mul_basecase" /\ m = "x86_64_adx"
  BY <1>1 DEF Reaches, Needs, Enough
<1>2. CASE k = "mul_basecase" /\ m = "bmi2_rows"
  BY <1>2 DEF Reaches, Needs, Enough
<1>3. CASE k = "mul_basecase" /\ m = "vanilla_rows"
  BY <1>3 DEF Reaches, Needs, Enough
<1>4. CASE k = "lshift_overlapping" /\ m = "x86_64_avx512"
  BY <1>4 DEF Reaches, Needs, Enough
<1>5. CASE k \in ShiftsInPlace \union {"lshift_overlapping"} /\ m = "x86_64_avx2"
  BY <1>5 DEF Reaches, Needs, Enough
<1>6. CASE /\ k = "mul_basecase" => m \notin {"x86_64_adx", "bmi2_rows", "vanilla_rows"}
           /\ k = "lshift_overlapping" => m # "x86_64_avx512"
           /\ k \in ShiftsInPlace \union {"lshift_overlapping"} => m # "x86_64_avx2"
  <2>1. Reaches(k, m) = {<<k, m>>}
    BY <1>6 DEF Reaches
  <2>2. r[1] = k /\ r[2] = m
    BY <2>1
  <2> QED
    BY <2>2 DEF Needs, Enough
<1> QED
  BY <1>1, <1>2, <1>3, <1>4, <1>5, <1>6

LEMMA ChoiceEnough ==
  ASSUME NEW features, NEW k \in Dispatchable, NEW tier \in Tiers(k), TierNeeds(tier) \subseteq features
  PROVE  Enough(features, k, Choice(k, tier))
<1> USE DEF Butterflies, ShiftsInto, ShiftsInPlace, Composites, IsShift, Tiers
<1>1. /\ tier = "AdxBmi2" => "adx" \in features /\ "bmi2" \in features
      /\ tier = "Adx" => "adx" \in features
      /\ tier = "Bmi2" => "bmi2" \in features
      /\ tier = "Avx512" => "avx2" \in features /\ "avx512f" \in features
      /\ tier = "Avx2" => "avx2" \in features
  BY DEF TierNeeds
<1>2. CASE IsShift(k)
  BY <1>1, <1>2 DEF Choice, ShiftChoice, Enough
<1>3. CASE k \in Butterflies \union {"add_sub_from"}
  BY <1>1, <1>3 DEF Choice, Enough
<1>4. CASE k = "sub_shifted_high"
  BY <1>1, <1>4 DEF Choice, Enough
<1>5. CASE k = "mul_4x4"
  BY <1>1, <1>5 DEF Choice, Enough
<1>6. CASE k = "mul_basecase"
  BY <1>1, <1>6 DEF Choice, Enough
<1>7. CASE k \in {"add_mul", "sub_mul", "sqr_basecase", "monty_redc"}
  BY <1>1, <1>7 DEF Choice, Slowest, Enough
<1> QED
  BY <1>2, <1>3, <1>4, <1>5, <1>6, <1>7 DEF Dispatchable

\* What a thread runs is within the processor, on x86-64.
LEMMA RunFits ==
  ASSUME SelectionInv, NEW k \in Kernels, Surface(k, build), Settled(k), build.arch = "x86_64",
         NEW r \in Reaches(k, Final(k))
  PROVE  Needs(r[1], r[2]) \subseteq cpu
<1>0. Possible(build) /\ build.features \subseteq cpu
  BY ProgramFacts DEF ProgramHeld, SelectionInv
<1>1. CASE Selected(k, build) # "dispatch"
  <2>1. Final(k) = Selected(k, build)
    BY <1>1 DEF Final
  <2>2. PICK x \in Active(k, build) : Final(k) = x.item.selects
    BY <1>0, <2>1, SelectedFacts
  <2>3. ItemFits(k, build, x.item)
    BY <1>0, <2>2, ActiveResolves
  <2>4. Enough(cpu, k, Final(k))
    BY <1>0, <2>2, <2>3 DEF ItemFits, Has, Enough
  <2> QED
    BY <2>4, EnoughReaches
<1>2. CASE Selected(k, build) = "dispatch"
  <2> DEFINE tier == once[TierCell(k)]
  <2>1. k \in Dispatchable
    BY <1>0, <1>2, DispatchFacts
  <2>2. Final(k) = Choice(k, tier) /\ tier \in Tiers(k) /\ TierNeeds(tier) \subseteq cpu
    BY <1>2 DEF Final, Settled, ChoicesHeld, TierHeld, SelectionInv
  <2> QED
    BY <2>1, <2>2, ChoiceEnough, EnoughReaches
<1> QED
  BY <1>1, <1>2

LEMMA InvSound ==
  ASSUME SelectionInv
  PROVE  SelectionSound
<1>1. \A k \in Kernels : ResolvedOnce(k, build)
  BY ProgramFacts, EveryBuildResolves DEF SelectionInv
<1>2. ASSUME NEW a \in answers, build.arch = "x86_64", NEW r \in Reaches(a.kernel, a.module)
      PROVE  Needs(r[1], r[2]) \subseteq cpu
  BY <1>2, RunFits DEF SelectionInv, AnswersHeld
<1>3. \A k \in Kernels : once[k] \notin {Empty, Running} => once[k] = Choice(k, once[TierCell(k)])
  BY DEF SelectionInv, ChoicesHeld, NotChosen
<1>4. \A a, c \in answers : a.kernel = c.kernel => a.module = c.module
  BY DEF SelectionInv, AnswersHeld
<1> QED
  BY <1>1, <1>2, <1>3, <1>4 DEF SelectionSound

THEOREM SelectionInvariant == SelectionSpec => []SelectionInv
<1>1. SelectionInit => SelectionInv
  BY SelectionInitially
<1>2. SelectionInv /\ [SelectionNext]_selectionVars => SelectionInv'
  BY SelectionStep
<1> QED
  BY <1>1, <1>2, PTL DEF SelectionSpec

\* Whatever the target, the features, the calls and the request, a thread only
\* runs instructions the processor has, and every kernel follows the one tier.
THEOREM SelectionStaysSound == SelectionSpec => []SelectionSound
<1>1. SelectionInv => SelectionSound
  BY InvSound
<1> QED
  BY <1>1, SelectionInvariant, PTL
=============================================================================

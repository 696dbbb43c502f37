--------------------------- MODULE ScopedPolicies ---------------------------
(***************************************************************************)
(* What the ambient precision context promises its callers (spec.md, 3.2   *)
(* and 3.4), with no word encoding, no thread-local cell and no guard: a   *)
(* default policy shared by all threads, and for each thread the stack of  *)
(* the policies of the scopes it is inside of.  A construction sees the    *)
(* innermost scope of its own thread, and the default when there is none.  *)
(***************************************************************************)
EXTENDS Naturals, Sequences

CONSTANTS
  Threads,          \* the threads of the program
  Policies,         \* every ambient policy, "unset" included
  ScopePolicies     \* the policies a scope can impose

VARIABLES
  default,          \* the process-wide policy
  scopes            \* scopes[t]: the policies of t's open scopes, innermost last

vars == <<default, scopes>>

\* The policy a construction of thread t resolves to.
Resolved(t) == IF scopes[t] = <<>> THEN default ELSE scopes[t][Len(scopes[t])]

Init == default \in Policies /\ scopes = [t \in Threads |-> <<>>]

SetDefault == default' \in Policies /\ UNCHANGED scopes

Open(t) ==
  /\ \E p \in ScopePolicies : scopes' = [scopes EXCEPT ![t] = Append(@, p)]
  /\ UNCHANGED default

\* A scope closes when its closure returns or unwinds, innermost first.
Close(t) ==
  /\ scopes[t] # <<>>
  /\ scopes' = [scopes EXCEPT ![t] = SubSeq(@, 1, Len(@) - 1)]
  /\ UNCHANGED default

Next == SetDefault \/ \E t \in Threads : Open(t) \/ Close(t)

Spec == Init /\ [][Next]_vars
=============================================================================

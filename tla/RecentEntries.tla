---------------------------- MODULE RecentEntries ----------------------------
(***************************************************************************)
(* What every plan cache of the transform multiplication promises          *)
(* (ssa/plan/cache.rs): it holds the entries stored last, oldest first, at  *)
(* most as many as it has slots, one per key.  Storing a key that is held  *)
(* changes nothing.                                                        *)
(***************************************************************************)
EXTENDS Naturals, Sequences

CONSTANTS
  Caches,      \* the caches of the process and of its threads
  Slots        \* the number of slots of each

VARIABLE recent   \* recent[c]: the entries of c, oldest first

Init == recent = [c \in Caches |-> <<>>]

Held(c) == {recent[c][i] : i \in DOMAIN recent[c]}
Keys(c) == {e.key : e \in Held(c)}

Store(c, e) ==
  /\ e.key \notin Keys(c)
  /\ LET kept == IF Len(recent[c]) = Slots[c] THEN Tail(recent[c]) ELSE recent[c]
     IN  recent' = [recent EXCEPT ![c] = Append(kept, e)]

\* A store leaves the cache nonempty, the entry stored last.
Next ==
  \E c \in Caches :
    recent'[c] # <<>> /\ Store(c, recent'[c][Len(recent'[c])])

Spec == Init /\ [][Next]_recent
=============================================================================

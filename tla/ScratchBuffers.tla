--------------------------- MODULE ScratchBuffers ---------------------------
(***************************************************************************)
(* What int/logic/unsigned/memory/arena.rs promises the arithmetic that    *)
(* holds scratch buffers: each is a vector of its own, empty when it is    *)
(* acquired and never smaller than the request.  Where its storage comes   *)
(* from and where it goes is not part of the promise.                      *)
(*                                                                         *)
(* The contents of a buffer are represented by their length.               *)
(***************************************************************************)
EXTENDS Naturals

CONSTANTS
  Handles,    \* the scratch buffers of the program
  Sizes,      \* the capacities the program asks for
  Lengths,    \* the lengths it writes
  MaxCap,     \* no capacity exceeds this
  None        \* a scratch buffer not yet acquired, or dropped

VARIABLE held   \* held[h]: [cap, len], or None

Acquire(h) ==
  /\ held[h] = None
  /\ \E n \in Sizes, c \in 0 .. MaxCap :
       c >= n /\ held' = [held EXCEPT ![h] = [cap |-> c, len |-> 0]]

\* The owner's own pushes and resizes.
Write(h) ==
  /\ held[h] # None
  /\ \E n \in Lengths, c \in 0 .. MaxCap :
       /\ c >= n /\ c >= held[h].cap
       /\ held' = [held EXCEPT ![h] = [cap |-> c, len |-> n]]

Reset(h) ==
  /\ held[h] # None
  /\ \E n \in Sizes, c \in 0 .. MaxCap :
       /\ c >= n /\ c >= held[h].cap
       /\ held' = [held EXCEPT ![h] = [cap |-> c, len |-> 0]]

Clone(h, g) ==
  /\ held[h] = None /\ held[g] # None
  /\ \E c \in 0 .. MaxCap :
       c >= held[g].cap /\ held' = [held EXCEPT ![h] = [cap |-> c, len |-> held[g].len]]

CloneFrom(h, g) ==
  /\ h # g /\ held[h] # None /\ held[g] # None
  /\ \E c \in 0 .. MaxCap :
       /\ c >= held[h].cap /\ c >= held[g].len
       /\ held' = [held EXCEPT ![h] = [cap |-> c, len |-> held[g].len]]

\* Both end with the contents of h, in each other's storage.
CloneInto(h, g) ==
  /\ h # g /\ held[h] # None /\ held[g] # None
  /\ \E c \in 0 .. MaxCap :
       /\ c >= held[g].cap /\ c >= held[h].len
       /\ held' = [held EXCEPT ![h] = [cap |-> c, len |-> held[h].len], ![g] = held[h]]

Drop(h) == held[h] # None /\ held' = [held EXCEPT ![h] = None]

Init == held = [h \in Handles |-> None]

Next ==
  \E h \in Handles :
    \/ Acquire(h) \/ Write(h) \/ Reset(h) \/ Drop(h)
    \/ \E g \in Handles : Clone(h, g) \/ CloneFrom(h, g) \/ CloneInto(h, g)

Spec == Init /\ [][Next]_held
=============================================================================

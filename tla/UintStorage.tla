---------------------------- MODULE UintStorage ----------------------------
(***************************************************************************)
(* int/logic/unsigned/storage.rs and memory/inplace.rs: how an unsigned    *)
(* integer is stored.                                                      *)
(*                                                                         *)
(* A value of up to INLINE_LIMBS limbs may live in an inline array; a      *)
(* longer one lives in a heap vector, which also keeps its capacity when   *)
(* its value gets short.  Only the active prefix is the value: what lies   *)
(* between the length and the capacity is stale or uninitialized, written  *)
(* Junk here, and any operation that moves the length up must have         *)
(* written it.  The highest active limb is nonzero except while a raw      *)
(* operation is in progress, and its caller must normalize.                *)
(*                                                                         *)
(* The allocator may return more capacity than asked for, and a vector     *)
(* that moves copies its active prefix only.                               *)
(***************************************************************************)
EXTENDS Limbs

CONSTANTS
  Regs,       \* the integers of the program
  Inline,     \* INLINE_LIMBS, four in the source
  MaxLimbs,   \* bound on every capacity
  Operands,   \* the canonical limb slices operations read from
  Junk        \* a slot nobody wrote for the current value

ASSUME InlineAssumption == Inline \in Nat \ {0}
ASSUME MaxLimbsAssumption == MaxLimbs \in Nat /\ MaxLimbs > Inline
ASSUME OperandsAssumption ==
  Operands \subseteq Seq(Limb) /\ \A x \in Operands : Canonical(x)
ASSUME JunkAssumption == Junk \notin Limb

VARIABLES
  repr,       \* repr[r]: [heap, cap, limbs], limbs being the active prefix
  pending,    \* pending[r]: the LimbWriteGuard borrowing r, or NoGuard
  raw         \* the registers whose caller owes a normalize()

vars == <<repr, pending, raw>>

Guards == [old : 0 .. MaxLimbs, new : 0 .. MaxLimbs]
NoGuard == [old |-> 0, new |-> -1]

InlineRepr(limbs) == [heap |-> FALSE, cap |-> Inline, limbs |-> limbs]
HeapRepr(limbs, cap) == [heap |-> TRUE, cap |-> cap, limbs |-> limbs]

\* Vec::with_capacity and to_vec: at least what was asked for.
Allocations(needed) == needed .. MaxLimbs

\* Vec::reserve: nothing when the capacity is there already.
Reserved(v, needed) == IF needed <= v.cap THEN {v.cap} ELSE Allocations(needed)

Prepared_ForgetsLength(v, n) ==
  IF v.heap THEN {HeapRepr(v.limbs, c) : c \in Reserved(v, n)}
  ELSE IF n <= Inline THEN {v}
  ELSE {HeapRepr(<<>>, c) : c \in Allocations(n)}

\* v, moved if n limbs do not fit where it is: an inline value spills to a new
\* vector, a vector grows, and the active prefix is copied.
Prepared(v, n) ==
  IF v.heap THEN {HeapRepr(v.limbs, c) : c \in Reserved(v, n)}
  ELSE IF n <= Inline THEN {v}
  ELSE {HeapRepr(v.limbs, c) : c \in Allocations(n)}

\* v once `limbs` have been written over it.
Fits(v, limbs) == {[u EXCEPT !.limbs = limbs] : u \in Prepared(v, Len(limbs))}

\* from_limbs_slice, and Clone for InternalMpUint: short values go inline.
Fresh(limbs) ==
  IF Len(limbs) <= Inline THEN {InlineRepr(limbs)}
  ELSE {HeapRepr(limbs, c) : c \in Allocations(Len(limbs))}

\* set_len on a buffer whose first Len(limbs) slots are initialized.
WithLength(limbs, n) == [i \in 1 .. n |-> IF i <= Len(limbs) THEN limbs[i] ELSE Junk]

\* A register nobody borrows, and one whose magnitude may be queried.
Unborrowed(r) == pending[r] = NoGuard
Ready(r) == Unborrowed(r) /\ r \notin raw

\* r holds v; owing says whether its caller must normalize.
Store(r, v, owing) ==
  /\ repr' = [repr EXCEPT ![r] = v]
  /\ raw' = IF owing THEN raw \union {r} ELSE raw \ {r}
  /\ UNCHANGED pending

-----------------------------------------------------------------------------

Init ==
  /\ repr = [r \in Regs |-> InlineRepr(<<>>)]
  /\ pending = [r \in Regs |-> NoGuard]
  /\ raw = {}

(* Construction, which replaces whatever r held. *)

WithCapacity(r, capacity) ==
  /\ Unborrowed(r)
  /\ \E v \in IF capacity <= Inline THEN {InlineRepr(<<>>)}
              ELSE {HeapRepr(<<>>, c) : c \in Allocations(capacity)} : Store(r, v, FALSE)

\* from_limbs: the vector is kept only when the trimmed value needs it.
FromLimbs(r, limbs) ==
  /\ Unborrowed(r)
  /\ LET kept == Normalized(limbs) IN
     IF Len(kept) <= Inline THEN Store(r, InlineRepr(kept), FALSE)
     ELSE \E c \in Allocations(Len(limbs)) : Store(r, HeapRepr(kept, c), FALSE)

FromLimbsSlice(r, limbs) ==
  /\ Unborrowed(r)
  /\ \E v \in Fresh(Normalized(limbs)) : Store(r, v, FALSE)

CloneOf(r, s) ==
  /\ Unborrowed(r) /\ Ready(s)
  /\ \E v \in Fresh(repr[s].limbs) : Store(r, v, FALSE)

(* Replacement of the value in place. *)

\* A heap destination keeps its buffer, an inline one takes a clone.
CloneFrom(r, s) ==
  /\ r # s /\ Unborrowed(r) /\ Ready(s)
  /\ \E v \in Fits(repr[r], repr[s].limbs) : Store(r, v, FALSE)

CloneFromSlice(r, limbs) ==
  /\ Unborrowed(r)
  /\ \E v \in Fits(repr[r], Normalized(limbs)) : Store(r, v, FALSE)

SetLimb(r, limb) ==
  /\ Unborrowed(r)
  /\ \E v \in Fits(repr[r], IF limb = 0 THEN <<>> ELSE <<limb>>) : Store(r, v, FALSE)

Clear(r) == Unborrowed(r) /\ Store(r, [repr[r] EXCEPT !.limbs = <<>>], FALSE)

Swap(r, s) ==
  /\ r # s /\ Ready(r) /\ Ready(s)
  /\ repr' = [repr EXCEPT ![r] = repr[s], ![s] = repr[r]]
  /\ UNCHANGED <<pending, raw>>

(* Capacity. *)

\* reserve and reserve_exact: an inline value spills when it cannot grow in place.
Reserve(r, additional) ==
  /\ Unborrowed(r)
  /\ \E v \in Prepared(repr[r], Len(repr[r].limbs) + additional) : Store(r, v, r \in raw)

ShrinkToFit(r) ==
  /\ Unborrowed(r) /\ repr[r].heap
  /\ \E c \in Len(repr[r].limbs) .. repr[r].cap :
       Store(r, HeapRepr(repr[r].limbs, c), r \in raw)

(* Raw operations: the caller owes a normalize(). *)

\* Growing writes zeros over the new slots.
Resize(r, n) ==
  /\ Unborrowed(r)
  /\ LET old == repr[r].limbs IN
     \E v \in Fits(repr[r], [i \in 1 .. n |-> Column(old, i)]) : Store(r, v, TRUE)

\* Appending zero to zero does nothing.
PushLimb(r, limb) ==
  /\ Unborrowed(r)
  /\ LET old == repr[r].limbs IN
     IF limb = 0 /\ old = <<>> THEN Store(r, repr[r], FALSE)
     ELSE \E v \in Fits(repr[r], Append(old, limb)) : Store(r, v, limb = 0)

\* limbs_mut: the slice covers the active prefix.
WriteLimb(r, i, limb) ==
  /\ Unborrowed(r)
  /\ i \in 1 .. Len(repr[r].limbs)
  /\ Store(r, [repr[r] EXCEPT !.limbs[i] = limb], TRUE)

\* set_len under its safety contract: the elements are initialized already.
SetLen(r, n) ==
  /\ Unborrowed(r)
  /\ n <= Len(repr[r].limbs)
  /\ Store(r, [repr[r] EXCEPT !.limbs = WithLength(@, n)], TRUE)

Normalize(r) ==
  /\ Unborrowed(r)
  /\ Store(r, [repr[r] EXCEPT !.limbs = Normalized(@)], FALSE)

(* The write guard.  The owner keeps its length until the commit. *)

Borrow(r, v, n) ==
  /\ repr' = [repr EXCEPT ![r] = v]
  /\ pending' = [pending EXCEPT ![r] = [old |-> Len(repr[r].limbs), new |-> n]]
  /\ UNCHANGED raw

PrepareLimbWrite(r, n) ==
  /\ Unborrowed(r)
  /\ \E v \in Prepared(repr[r], n) : Borrow(r, v, n)

\* None, with r unchanged, unless the heap buffer is large enough already.
TryPrepareReusedHeapLimbs(r, n) ==
  /\ Unborrowed(r)
  /\ repr[r].heap /\ n <= repr[r].cap
  /\ Borrow(r, repr[r], n)

Release(r, limbs, owing) ==
  /\ repr' = [repr EXCEPT ![r].limbs = limbs]
  /\ pending' = [pending EXCEPT ![r] = NoGuard]
  /\ raw' = IF owing THEN raw \union {r} ELSE raw

\* commit under its safety contract: the kernel wrote all of 0..new_len.
Commit(r, written) ==
  /\ ~ Unborrowed(r)
  /\ Len(written) = pending[r].new
  /\ Release(r, written, TRUE)

InitializeSuffixWithZeroes_SkipsOne(r) ==
  /\ ~ Unborrowed(r)
  /\ LET guard == pending[r]
         before == repr[r].limbs
         zeroed(i) == guard.old + 1 < i /\ i <= guard.new
     IN  Release(r, [i \in 1 .. guard.new |->
                       IF zeroed(i) THEN 0 ELSE WithLength(before, guard.new)[i]], TRUE)

\* Zeros go from the length at preparation to the new one, then commit.
InitializeSuffixWithZeroes(r) ==
  /\ ~ Unborrowed(r)
  /\ LET guard == pending[r]
         before == repr[r].limbs
         zeroed(i) == guard.old < i /\ i <= guard.new
     IN  Release(r, [i \in 1 .. guard.new |->
                       IF zeroed(i) THEN 0 ELSE WithLength(before, guard.new)[i]], TRUE)

\* A guard dropped without a commit leaves the owner's length alone.
DropGuard(r) == ~ Unborrowed(r) /\ Release(r, repr[r].limbs, FALSE)

-----------------------------------------------------------------------------

\* The limb slices a raw caller may hand over, leading zeros included.
Slices == Operands \union {Append(x, 0) : x \in Operands}

\* A new value in r, and the operations that work in r's own storage.
Construct(r) ==
  \/ \E n \in 0 .. MaxLimbs : WithCapacity(r, n)
  \/ \E limbs \in Slices : FromLimbs(r, limbs) \/ FromLimbsSlice(r, limbs)
  \/ \E s \in Regs : CloneOf(r, s)

InPlace(r) ==
  \/ \E n \in 0 .. MaxLimbs :
       \/ Resize(r, n)
       \/ SetLen(r, n)
       \/ PrepareLimbWrite(r, n)
       \/ TryPrepareReusedHeapLimbs(r, n)
       \/ Reserve(r, n)
  \/ \E limbs \in Slices : CloneFromSlice(r, limbs) \/ Commit(r, limbs)
  \/ \E limb \in Limb : SetLimb(r, limb) \/ PushLimb(r, limb)
  \/ \E limb \in Limb, i \in 1 .. MaxLimbs : WriteLimb(r, i, limb)
  \/ \E s \in Regs : CloneFrom(r, s)
  \/ Clear(r) \/ Normalize(r) \/ InitializeSuffixWithZeroes(r) \/ DropGuard(r)

StorageStep(r) ==
  Construct(r) \/ InPlace(r) \/ ShrinkToFit(r) \/ \E s \in Regs : Swap(r, s)

Next == \E r \in Regs : StorageStep(r)

Spec == Init /\ [][Next]_vars

-----------------------------------------------------------------------------
(* Properties. *)

\* Every variable has its type; a slot may be Junk as far as the type goes.
TypeOK ==
  /\ repr \in [Regs -> [heap : BOOLEAN, cap : 0 .. MaxLimbs,
                        limbs : Seq(Limb \union {Junk})]]
  /\ pending \in [Regs -> Guards \union {NoGuard}]
  /\ raw \subseteq Regs

\* No active limb is stale or uninitialized: every operation that raises the
\* length wrote the limbs it exposes, whatever moved the buffer in between.
Initialized ==
  \A r \in Regs : \A i \in 1 .. Len(repr[r].limbs) : repr[r].limbs[i] # Junk

\* The active prefix lies within the storage: no kernel wrote past its end.
WithinCapacity ==
  \A r \in Regs :
    /\ Len(repr[r].limbs) <= repr[r].cap
    /\ repr[r].heap \/ repr[r].cap = Inline

\* A magnitude that may be queried has no high zero limb, so its length, its
\* bit length and comparisons by length are those of the number.
Normal == \A r \in Regs : Ready(r) => Canonical(repr[r].limbs)

\* What a live guard was promised: room for its new length, and a prefix of
\* the length it recorded.
GuardHasRoom ==
  \A r \in Regs : ~ Unborrowed(r) =>
    /\ pending[r].new <= repr[r].cap
    /\ pending[r].old = Len(repr[r].limbs)

\* What every operation on a magnitude relies on.
Representation == TypeOK /\ Initialized /\ WithinCapacity /\ Normal /\ GuardHasRoom

\* Moving storage is invisible: spilling to the heap, growing, shrinking,
\* preparing a write or dropping its guard leaves the number as it is, and
\* normalizing or zeroing a longer span does too.
StorageKeepsValue ==
  [][\A r \in Regs :
       (\/ \E n \in 0 .. MaxLimbs :
             Reserve(r, n) \/ PrepareLimbWrite(r, n) \/ TryPrepareReusedHeapLimbs(r, n)
        \/ ShrinkToFit(r) \/ Normalize(r) \/ DropGuard(r)
        \/ InitializeSuffixWithZeroes(r) /\ pending[r].new >= pending[r].old)
       => Value(repr'[r].limbs) = Value(repr[r].limbs)]_vars

\* An operation that works in place keeps the buffer it works in: a value that
\* got short stays on the heap, and never pays for its allocation twice.
BufferRetained ==
  [][\A r \in Regs :
       repr[r].heap /\ InPlace(r) => repr'[r].heap /\ repr'[r].cap >= repr[r].cap]_vars

\* A step changes neither the number nor the buffer unless it says so.
StorageSteps == StorageKeepsValue /\ BufferRetained
=============================================================================

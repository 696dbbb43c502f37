----------------------------- MODULE UintProofs -----------------------------
(***************************************************************************)
(* Theorems about UintStorage and UintAddition, for every set of           *)
(* registers, base, inline size, capacity bound and set of operands.       *)
(*                                                                         *)
(* The storage invariant says more than the properties: the limbs are      *)
(* typed without Junk, and a register that owes no normalize() is          *)
(* canonical even while a guard borrows it, which is what lets a guard be  *)
(* dropped.                                                                *)
(*                                                                         *)
(* It is inductive for additions and subtractions as well, because of two  *)
(* facts about columns: a top column that cannot carry keeps the sum       *)
(* within a buffer of the operands' width, and the top column of a sum     *)
(* that does not carry is never zero.                                      *)
(*                                                                         *)
(* Then the numbers: what is trimmed, moved or zeroed stands for what it   *)
(* stood for, and every sum and difference is exact.                       *)
(***************************************************************************)
EXTENDS UintAddition, LimbProofs

\* One register's storage: typed, holding its value, and inline only at the
\* inline capacity.
Stored(v) ==
  /\ v \in [heap : BOOLEAN, cap : 0 .. MaxLimbs, limbs : Seq(Limb)]
  /\ Len(v.limbs) <= v.cap
  /\ v.heap \/ v.cap = Inline

GuardFits(g, v) ==
  g # NoGuard => g.new <= v.cap /\ g.old = Len(v.limbs)

StorageInv ==
  /\ DOMAIN repr = Regs /\ repr = [r \in Regs |-> repr[r]]
  /\ \A r \in Regs : Stored(repr[r])
  /\ pending \in [Regs -> Guards \union {NoGuard}]
  /\ raw \subseteq Regs
  /\ \A r \in Regs : r \notin raw => Canonical(repr[r].limbs)
  /\ \A r \in Regs : GuardFits(pending[r], repr[r])

-----------------------------------------------------------------------------
(* The operators the actions are built from.                               *)

LEMMA Sizes == /\ Inline \in Nat /\ Inline > 0
               /\ MaxLimbs \in Nat /\ MaxLimbs > Inline
               /\ 0 \in Limb
               /\ Junk \notin Limb
BY InlineAssumption, MaxLimbsAssumption, BaseAssumption, JunkAssumption DEF Limb

\* normalized_len exists: the shortest prefix that leaves out zeros only.
LEMMA NormalizedLenExists ==
  ASSUME NEW x \in Seq(Limb)
  PROVE  \E n \in 0 .. Len(x) :
           /\ n > 0 => x[n] # 0
           /\ \A i \in n + 1 .. Len(x) : x[i] = 0
<1> DEFINE T == {n \in 0 .. Len(x) : \A i \in n + 1 .. Len(x) : x[i] = 0}
<1>1. Len(x) \in Nat
  BY LenProperties
<1>2. \A n : n \in T <=> n \in 0 .. Len(x) /\ \A i \in n + 1 .. Len(x) : x[i] = 0
  OBVIOUS
<1> HIDE DEF T
<1>3. Len(x) \in T
  BY <1>1, <1>2
<1>4. T \subseteq Nat
  BY <1>1, <1>2
<1>5. PICK n \in T : \A m \in T : ~ (<<m, n>> \in OpToRel(<, Nat))
  BY <1>3, <1>4, NatLessThanWellFounded, WFMin, Zenon
<1>6. /\ n \in 0 .. Len(x) /\ n \in Nat
      /\ \A i \in n + 1 .. Len(x) : x[i] = 0
  <2>1. n \in T
    BY <1>5
  <2>2. n \in 0 .. Len(x)
    BY <2>1, <1>2, Zenon
  <2>3. \A i \in n + 1 .. Len(x) : x[i] = 0
    BY <2>1, <1>2, Zenon
  <2> QED BY <1>1, <2>2, <2>3
<1>7. ASSUME n > 0, x[n] = 0  PROVE FALSE
  <2>1. n - 1 \in 0 .. Len(x) /\ n - 1 \in Nat
    BY <1>1, <1>6, <1>7
  <2>2. \A i \in (n - 1) + 1 .. Len(x) : x[i] = 0
    <3> TAKE i \in (n - 1) + 1 .. Len(x)
    <3>1. i = n \/ i \in n + 1 .. Len(x)
      BY <1>1, <1>6
    <3> QED BY <3>1, <1>6, <1>7
  <2>3. n - 1 \in T
    BY <2>1, <2>2, <1>2
  <2>4. <<n - 1, n>> \in OpToRel(<, Nat)
    BY <2>1, <1>6 DEF OpToRel
  <2> QED BY <2>3, <2>4, <1>5
<1> QED BY <1>6, <1>7

\* Normalizing yields a canonical prefix.
LEMMA NormalizedFacts ==
  ASSUME NEW x \in Seq(Limb)
  PROVE  /\ Normalized(x) \in Seq(Limb)
         /\ Len(Normalized(x)) <= Len(x)
         /\ Canonical(Normalized(x))
<1> DEFINE n == NormalizedLen(x)
<1>1. /\ n \in 0 .. Len(x)
      /\ n > 0 => x[n] # 0
  BY NormalizedLenExists DEF NormalizedLen
<1>2. Len(x) \in Nat
  BY LenProperties
<1> HIDE DEF n
<1> DEFINE y == SubSeq(x, 1, n)
<1>3. /\ y \in Seq(Limb)
      /\ Len(y) = n
      /\ \A i \in 1 .. n : y[i] = x[i]
  BY <1>1, <1>2, SubSeqProperties
<1>4. Canonical(y)
  <2>1. CASE n = 0
    BY <2>1, <1>3, EmptySeq DEF Canonical
  <2>2. CASE n # 0
    BY <2>2, <1>1, <1>2, <1>3 DEF Canonical
  <2> QED BY <2>1, <2>2
<1> QED BY <1>1, <1>2, <1>3, <1>4 DEF n, Normalized

\* Preparing v for n limbs leaves its value and makes the room.
LEMMA PreparedSound ==
  ASSUME NEW v, Stored(v), NEW n \in Nat, NEW u \in Prepared(v, n)
  PROVE  /\ Stored(u)
         /\ u.limbs = v.limbs
         /\ n <= u.cap
         /\ v.heap => u.heap /\ u.cap >= v.cap
<1>1. /\ v \in [heap : BOOLEAN, cap : 0 .. MaxLimbs, limbs : Seq(Limb)]
      /\ Len(v.limbs) \in Nat /\ Len(v.limbs) <= v.cap
      /\ v.cap \in Nat /\ v.cap <= MaxLimbs
      /\ v.heap \/ v.cap = Inline
  BY Sizes, LenProperties DEF Stored
<1>2. CASE v.heap
  <2>1. PICK c \in Reserved(v, n) : u = HeapRepr(v.limbs, c)
    BY <1>2 DEF Prepared
  <2>2. c \in 0 .. MaxLimbs /\ c >= v.cap /\ n <= c
    BY <2>1, <1>1, Sizes DEF Reserved, Allocations
  <2> QED BY <2>1, <2>2, <1>1 DEF Stored, HeapRepr
<1>3. CASE ~ v.heap /\ n <= Inline
  BY <1>1, <1>3 DEF Prepared
<1>4. CASE ~ v.heap /\ ~ (n <= Inline)
  <2>1. PICK c \in Allocations(n) : u = HeapRepr(v.limbs, c)
    BY <1>4 DEF Prepared
  <2>2. c \in 0 .. MaxLimbs /\ n <= c /\ Len(v.limbs) <= c
    BY <2>1, <1>1, <1>4, Sizes DEF Allocations
  <2> QED BY <2>1, <2>2, <1>1, <1>4 DEF Stored, HeapRepr
<1> QED BY <1>2, <1>3, <1>4

\* Writing other limbs in place, when the storage has room for them.
LEMMA OverwriteSound ==
  ASSUME NEW v, Stored(v), NEW limbs \in Seq(Limb), Len(limbs) <= v.cap
  PROVE  /\ Stored([v EXCEPT !.limbs = limbs])
         /\ [v EXCEPT !.limbs = limbs].limbs = limbs
         /\ [v EXCEPT !.limbs = limbs].cap = v.cap
         /\ [v EXCEPT !.limbs = limbs].heap = v.heap
BY DEF Stored

LEMMA FitsSound ==
  ASSUME NEW v, Stored(v), NEW limbs \in Seq(Limb), NEW u \in Fits(v, limbs)
  PROVE  /\ Stored(u)
         /\ u.limbs = limbs
         /\ v.heap => u.heap /\ u.cap >= v.cap
<1>1. Len(limbs) \in Nat
  BY LenProperties
<1>2. PICK w \in Prepared(v, Len(limbs)) : u = [w EXCEPT !.limbs = limbs]
  BY DEF Fits
<1>3. Stored(w) /\ Len(limbs) <= w.cap /\ (v.heap => w.heap /\ w.cap >= v.cap)
  BY <1>1, <1>2, PreparedSound
<1> QED BY <1>2, <1>3, OverwriteSound

LEMMA InlineSound ==
  ASSUME NEW limbs \in Seq(Limb), Len(limbs) <= Inline
  PROVE  Stored(InlineRepr(limbs)) /\ InlineRepr(limbs).limbs = limbs
BY Sizes DEF Stored, InlineRepr

LEMMA HeapSound ==
  ASSUME NEW limbs \in Seq(Limb), NEW n \in Nat, Len(limbs) <= n,
         NEW c \in Allocations(n)
  PROVE  Stored(HeapRepr(limbs, c)) /\ HeapRepr(limbs, c).limbs = limbs
<1>1. Len(limbs) \in Nat
  BY LenProperties
<1>2. c \in 0 .. MaxLimbs /\ Len(limbs) <= c
  BY <1>1, Sizes DEF Allocations
<1> QED BY <1>2 DEF Stored, HeapRepr

LEMMA FreshSound ==
  ASSUME NEW limbs \in Seq(Limb), NEW u \in Fresh(limbs)
  PROVE  Stored(u) /\ u.limbs = limbs
<1>1. Len(limbs) \in Nat
  BY LenProperties
<1>2. CASE Len(limbs) <= Inline
  BY <1>2, InlineSound DEF Fresh
<1>3. CASE ~ (Len(limbs) <= Inline)
  BY <1>1, <1>3, HeapSound DEF Fresh
<1> QED BY <1>2, <1>3

\* Zero, inline or on the heap.
LEMMA ZeroStored ==
  /\ Stored(InlineRepr(<<>>)) /\ InlineRepr(<<>>).limbs = <<>>
  /\ \A n \in Nat : \A c \in Allocations(n) :
       Stored(HeapRepr(<<>>, c)) /\ HeapRepr(<<>>, c).limbs = <<>>
<1>1. ASSUME NEW x \in Seq(Limb), Len(x) = 0
      PROVE  Stored(InlineRepr(x)) /\ InlineRepr(x).limbs = x
  <2>1. Len(x) <= Inline
    BY <1>1, Sizes
  <2> QED BY <2>1, InlineSound
<1>2. ASSUME NEW x \in Seq(Limb), Len(x) = 0, NEW n \in Nat, NEW c \in Allocations(n)
      PROVE  Stored(HeapRepr(x, c)) /\ HeapRepr(x, c).limbs = x
  <2>1. Len(x) <= n
    BY <1>2
  <2> QED BY <2>1, HeapSound
<1>3. <<>> \in Seq(Limb) /\ Len(<<>>) = 0
  BY EmptySeq
<1> QED BY <1>1, <1>2, <1>3, Zenon

LEMMA SliceType ==
  ASSUME NEW x \in Slices
  PROVE  x \in Seq(Limb) /\ Len(x) \in Nat
<1>1. Operands \subseteq Seq(Limb) /\ 0 \in Limb
  BY OperandsAssumption, Sizes
<1>2. CASE x \in Operands
  BY <1>1, <1>2, LenProperties
<1>3. CASE x \in {Append(y, 0) : y \in Operands}
  BY <1>1, <1>3, AppendProperties, LenProperties
<1> QED BY <1>2, <1>3 DEF Slices

LEMMA EmptyFacts == <<>> \in Seq(Limb) /\ Len(<<>>) = 0 /\ Canonical(<<>>)
BY EmptySeq DEF Canonical

-----------------------------------------------------------------------------
(* The three ways an action ends.                                          *)

LEMMA StoreStep ==
  ASSUME StorageInv, NEW r \in Regs, Unborrowed(r),
         NEW v, Stored(v), NEW owing \in BOOLEAN,
         owing \/ Canonical(v.limbs),
         Store(r, v, owing)
  PROVE  StorageInv'
<1>1. /\ repr' = [repr EXCEPT ![r] = v]
      /\ raw' = IF owing THEN raw \union {r} ELSE raw \ {r}
      /\ pending' = pending
  BY DEF Store
<1>2. DOMAIN repr' = Regs /\ repr' = [s \in Regs |-> repr'[s]]
  BY <1>1 DEF StorageInv
<1>3. repr'[r] = v /\ \A s \in Regs : s # r => repr'[s] = repr[s]
  BY <1>1 DEF StorageInv
<1>4. \A s \in Regs : Stored(repr'[s])
  BY <1>3 DEF StorageInv
<1>5. raw' \subseteq Regs
  BY <1>1 DEF StorageInv
<1>6. \A s \in Regs : s \notin raw' => Canonical(repr'[s].limbs)
  BY <1>1, <1>3 DEF StorageInv
<1>7. \A s \in Regs : GuardFits(pending'[s], repr'[s])
  BY <1>1, <1>3 DEF StorageInv, Unborrowed, GuardFits
<1> QED BY <1>1, <1>2, <1>4, <1>5, <1>6, <1>7 DEF StorageInv, Stored

LEMMA BorrowStep ==
  ASSUME StorageInv, NEW r \in Regs,
         NEW v, Stored(v), v.limbs = repr[r].limbs,
         NEW n \in Nat, n <= v.cap,
         Borrow(r, v, n)
  PROVE  StorageInv'
<1>1. /\ repr' = [repr EXCEPT ![r] = v]
      /\ pending' = [pending EXCEPT ![r] = [old |-> Len(repr[r].limbs), new |-> n]]
      /\ raw' = raw
  BY DEF Borrow
<1>2. DOMAIN repr' = Regs /\ repr' = [s \in Regs |-> repr'[s]]
  BY <1>1 DEF StorageInv
<1>3. repr'[r] = v /\ \A s \in Regs : s # r => repr'[s] = repr[s]
  BY <1>1 DEF StorageInv
<1>4. \A s \in Regs : Stored(repr'[s])
  BY <1>3 DEF StorageInv
<1>5. [old |-> Len(repr[r].limbs), new |-> n] \in Guards
  <2>1. /\ v.cap \in 0 .. MaxLimbs
        /\ v.limbs \in Seq(Limb) /\ Len(v.limbs) <= v.cap
    BY DEF Stored
  <2>2. Len(v.limbs) \in Nat
    BY <2>1, LenProperties
  <2> QED BY <2>1, <2>2, Sizes DEF Guards
<1>6. pending' \in [Regs -> Guards \union {NoGuard}]
  BY <1>1, <1>5 DEF StorageInv
<1>7. \A s \in Regs : s \notin raw' => Canonical(repr'[s].limbs)
  BY <1>1, <1>3 DEF StorageInv
<1>8. \A s \in Regs : GuardFits(pending'[s], repr'[s])
  <2>1. pending'[r] = [old |-> Len(repr[r].limbs), new |-> n]
    BY <1>1 DEF StorageInv
  <2>2. \A s \in Regs : s # r => pending'[s] = pending[s]
    BY <1>1 DEF StorageInv
  <2> QED BY <2>1, <2>2, <1>3 DEF StorageInv, GuardFits
<1>9. raw' \subseteq Regs
  BY <1>1 DEF StorageInv
<1> QED BY <1>2, <1>4, <1>6, <1>7, <1>8, <1>9 DEF StorageInv, Stored

LEMMA ReleaseStep ==
  ASSUME StorageInv, NEW r \in Regs,
         NEW limbs \in Seq(Limb), Len(limbs) <= repr[r].cap,
         NEW owing \in BOOLEAN, owing \/ limbs = repr[r].limbs,
         Release(r, limbs, owing)
  PROVE  StorageInv'
<1> DEFINE v == [repr[r] EXCEPT !.limbs = limbs]
<1>1. /\ repr' = [repr EXCEPT ![r] = v]
      /\ pending' = [pending EXCEPT ![r] = NoGuard]
      /\ raw' = IF owing THEN raw \union {r} ELSE raw
  BY DEF Release
<1>2. Stored(v) /\ v.limbs = limbs
  BY OverwriteSound DEF StorageInv
<1> HIDE DEF v
<1>3. DOMAIN repr' = Regs /\ repr' = [s \in Regs |-> repr'[s]]
  BY <1>1 DEF StorageInv
<1>4. repr'[r] = v /\ \A s \in Regs : s # r => repr'[s] = repr[s]
  BY <1>1 DEF StorageInv
<1>5. \A s \in Regs : Stored(repr'[s])
  BY <1>2, <1>4 DEF StorageInv
<1>6. pending' \in [Regs -> Guards \union {NoGuard}]
  BY <1>1 DEF StorageInv
<1>7. \A s \in Regs : s \notin raw' => Canonical(repr'[s].limbs)
  BY <1>1, <1>2, <1>4 DEF StorageInv
<1>8. \A s \in Regs : GuardFits(pending'[s], repr'[s])
  BY <1>1, <1>4 DEF StorageInv, GuardFits
<1>9. raw' \subseteq Regs
  BY <1>1 DEF StorageInv
<1> QED BY <1>3, <1>5, <1>6, <1>7, <1>8, <1>9 DEF StorageInv, Stored

-----------------------------------------------------------------------------
(* Every operation preserves the invariant.                                *)

LEMMA Held ==
  ASSUME StorageInv, NEW r \in Regs
  PROVE  /\ Stored(repr[r])
         /\ repr[r].limbs \in Seq(Limb)
         /\ Len(repr[r].limbs) \in Nat
         /\ repr[r].cap \in Nat
         /\ Len(repr[r].limbs) <= repr[r].cap
         /\ r \notin raw => Canonical(repr[r].limbs)
<1>1. Stored(repr[r]) /\ (r \notin raw => Canonical(repr[r].limbs))
  BY DEF StorageInv
<1>2. /\ repr[r].limbs \in Seq(Limb)
      /\ repr[r].cap \in Nat
      /\ Len(repr[r].limbs) <= repr[r].cap
  BY <1>1, Sizes DEF Stored
<1> QED BY <1>1, <1>2, LenProperties

\* A borrowed register's guard: typed, and within the storage.
LEMMA Borrowed ==
  ASSUME StorageInv, NEW r \in Regs, ~ Unborrowed(r)
  PROVE  /\ pending[r].old \in Nat /\ pending[r].new \in Nat
         /\ pending[r].new <= repr[r].cap
         /\ pending[r].old = Len(repr[r].limbs)
<1>1. pending[r] \in Guards /\ GuardFits(pending[r], repr[r]) /\ pending[r] # NoGuard
  BY DEF StorageInv, Unborrowed
<1> QED BY <1>1, Sizes DEF Guards, GuardFits

LEMMA ConstructPreserves ==
  ASSUME StorageInv, NEW r \in Regs, Construct(r)
  PROVE  StorageInv'
<1>1. ASSUME NEW n \in 0 .. MaxLimbs, WithCapacity(r, n)  PROVE StorageInv'
  <2>1. PICK v \in IF n <= Inline THEN {InlineRepr(<<>>)}
                   ELSE {HeapRepr(<<>>, c) : c \in Allocations(n)} : Store(r, v, FALSE)
    BY <1>1 DEF WithCapacity
  <2>2. Stored(v) /\ v.limbs = <<>>
    <3>1. CASE n <= Inline
      BY <2>1, <3>1, ZeroStored
    <3>2. CASE ~ (n <= Inline)
      BY <2>1, <3>2, ZeroStored, Sizes
    <3> QED BY <3>1, <3>2
  <2> QED BY <1>1, <2>1, <2>2, EmptyFacts, StoreStep DEF WithCapacity
<1>2. ASSUME NEW limbs \in Slices, FromLimbs(r, limbs)  PROVE StorageInv'
  <2> DEFINE kept == Normalized(limbs)
  <2>1. /\ limbs \in Seq(Limb) /\ Len(limbs) \in Nat
        /\ kept \in Seq(Limb) /\ Len(kept) <= Len(limbs) /\ Canonical(kept)
    BY SliceType, NormalizedFacts
  <2> HIDE DEF kept
  <2>2. PICK v : Store(r, v, FALSE) /\ Stored(v) /\ v.limbs = kept
    <3>1. CASE Len(kept) <= Inline
      BY <1>2, <2>1, <3>1, InlineSound DEF FromLimbs, kept
    <3>2. CASE ~ (Len(kept) <= Inline)
      BY <1>2, <2>1, <3>2, HeapSound DEF FromLimbs, kept
    <3> QED BY <3>1, <3>2
  <2> QED BY <1>2, <2>1, <2>2, StoreStep DEF FromLimbs
<1>3. ASSUME NEW limbs \in Slices, FromLimbsSlice(r, limbs)  PROVE StorageInv'
  <2>1. PICK v \in Fresh(Normalized(limbs)) : Store(r, v, FALSE)
    BY <1>3 DEF FromLimbsSlice
  <2>2. Stored(v) /\ Canonical(v.limbs)
    BY SliceType, NormalizedFacts, FreshSound
  <2> QED BY <1>3, <2>1, <2>2, StoreStep DEF FromLimbsSlice
<1>4. ASSUME NEW s \in Regs, CloneOf(r, s)  PROVE StorageInv'
  <2>1. PICK v \in Fresh(repr[s].limbs) : Store(r, v, FALSE)
    BY <1>4 DEF CloneOf
  <2>2. Stored(v) /\ Canonical(v.limbs)
    BY <1>4, Held, FreshSound DEF CloneOf, Ready
  <2> QED BY <1>4, <2>1, <2>2, StoreStep DEF CloneOf
<1> QED BY <1>1, <1>2, <1>3, <1>4 DEF Construct

\* What an in-place operation does to the invariant, and to the buffer.
Kept(r) == repr[r].heap => repr'[r].heap /\ repr'[r].cap >= repr[r].cap

LEMMA StoreKeeps ==
  ASSUME StorageInv, NEW r \in Regs, NEW v, NEW owing, Store(r, v, owing),
         repr[r].heap => v.heap /\ v.cap >= repr[r].cap
  PROVE  Kept(r)
BY DEF StorageInv, Store, Kept

LEMMA BorrowKeeps ==
  ASSUME StorageInv, NEW r \in Regs, NEW v, NEW n, Borrow(r, v, n),
         repr[r].heap => v.heap /\ v.cap >= repr[r].cap
  PROVE  Kept(r)
BY DEF StorageInv, Borrow, Kept

LEMMA ReleaseKeeps ==
  ASSUME StorageInv, NEW r \in Regs, NEW limbs \in Seq(Limb), NEW owing,
         Release(r, limbs, owing)
  PROVE  Kept(r)
<1>1. repr' = [repr EXCEPT ![r] = [repr[r] EXCEPT !.limbs = limbs]]
  BY DEF Release
<1>2. repr'[r] = [repr[r] EXCEPT !.limbs = limbs]
  BY <1>1 DEF StorageInv
<1>3. repr[r] \in [heap : BOOLEAN, cap : 0 .. MaxLimbs, limbs : Seq(Limb)]
  BY DEF StorageInv, Stored
<1> QED BY <1>2, <1>3, Sizes DEF Kept

LEMMA InPlacePreserves ==
  ASSUME StorageInv, NEW r \in Regs, InPlace(r)
  PROVE  StorageInv' /\ Kept(r)
<1> DEFINE old == repr[r].limbs
<1>h. /\ Stored(repr[r]) /\ old \in Seq(Limb) /\ Len(old) \in Nat
      /\ repr[r].cap \in Nat /\ Len(old) <= repr[r].cap
      /\ r \notin raw => Canonical(old)
  BY Held
<1>n. 0 .. MaxLimbs \subseteq Nat /\ 1 .. MaxLimbs \subseteq Nat \ {0}
  BY Sizes
<1>z. 0 \in Limb
  BY Sizes
<1>1. ASSUME NEW n \in 0 .. MaxLimbs, Resize(r, n)  PROVE StorageInv' /\ Kept(r)
  <2> DEFINE limbs == [i \in 1 .. n |-> Column(old, i)]
  <2>1. limbs \in Seq(Limb)
    <3>1. \A i \in 1 .. n : Column(old, i) \in Limb
      BY <1>h, <1>n, ColumnType
    <3> QED BY <3>1, <1>n, IsASeq
  <2> HIDE DEF limbs
  <2>2. PICK v \in Fits(repr[r], limbs) : Store(r, v, TRUE)
    BY <1>1 DEF Resize, limbs
  <2>3. Stored(v) /\ (repr[r].heap => v.heap /\ v.cap >= repr[r].cap)
    BY <1>h, <2>1, FitsSound
  <2> QED BY <1>1, <2>2, <2>3, StoreStep, StoreKeeps DEF Resize
<1>2. ASSUME NEW n \in 0 .. MaxLimbs, SetLen(r, n)  PROVE StorageInv' /\ Kept(r)
  <2> DEFINE limbs == WithLength(old, n)
             v == [repr[r] EXCEPT !.limbs = limbs]
  <2>1. n \in Nat /\ n <= Len(old)
    BY <1>2, <1>n DEF SetLen
  <2>2. limbs \in Seq(Limb) /\ Len(limbs) = n
    <3>1. \A i \in 1 .. n : (IF i <= Len(old) THEN old[i] ELSE Junk) \in Limb
      BY <1>h, <2>1, LenProperties
    <3>2. limbs = [i \in 1 .. n |-> IF i <= Len(old) THEN old[i] ELSE Junk]
      BY DEF WithLength
    <3> HIDE DEF limbs
    <3> QED BY <3>1, <3>2, <2>1, IsASeq, LenProperties
  <2>3. Store(r, v, TRUE)
    BY <1>2 DEF SetLen
  <2> HIDE DEF limbs
  <2>4. Stored(v) /\ (repr[r].heap => v.heap /\ v.cap >= repr[r].cap)
    BY <1>h, <2>1, <2>2, OverwriteSound
  <2>5. Unborrowed(r)
    BY <1>2 DEF SetLen
  <2> HIDE DEF v
  <2> QED BY <2>3, <2>4, <2>5, StoreStep, StoreKeeps
<1>3. ASSUME NEW n \in 0 .. MaxLimbs, PrepareLimbWrite(r, n)  PROVE StorageInv' /\ Kept(r)
  <2>1. PICK v \in Prepared(repr[r], n) : Borrow(r, v, n)
    BY <1>3 DEF PrepareLimbWrite
  <2>2. /\ Stored(v) /\ v.limbs = old /\ n <= v.cap
        /\ repr[r].heap => v.heap /\ v.cap >= repr[r].cap
    BY <1>h, <1>n, PreparedSound
  <2> QED BY <1>n, <2>1, <2>2, BorrowStep, BorrowKeeps
<1>4. ASSUME NEW n \in 0 .. MaxLimbs, TryPrepareReusedHeapLimbs(r, n)
      PROVE  StorageInv' /\ Kept(r)
  <2>1. Borrow(r, repr[r], n) /\ n <= repr[r].cap
    BY <1>4 DEF TryPrepareReusedHeapLimbs
  <2> QED BY <1>h, <1>n, <2>1, BorrowStep, BorrowKeeps
<1>5. ASSUME NEW n \in 0 .. MaxLimbs, Reserve(r, n)  PROVE StorageInv' /\ Kept(r)
  <2>1. PICK v \in Prepared(repr[r], Len(old) + n) : Store(r, v, r \in raw)
    BY <1>5 DEF Reserve
  <2>2. Len(old) + n \in Nat
    BY <1>h, <1>n
  <2>3. /\ Stored(v) /\ v.limbs = old
        /\ repr[r].heap => v.heap /\ v.cap >= repr[r].cap
    BY <1>h, <2>2, PreparedSound
  <2>4. r \in raw \/ Canonical(v.limbs)
    BY <1>h, <2>3
  <2>5. Unborrowed(r) /\ (r \in raw) \in BOOLEAN
    BY <1>5 DEF Reserve
  <2> QED BY <2>1, <2>3, <2>4, <2>5, StoreStep, StoreKeeps
<1>6. ASSUME NEW limbs \in Slices, CloneFromSlice(r, limbs)
      PROVE  StorageInv' /\ Kept(r)
  <2>1. PICK v \in Fits(repr[r], Normalized(limbs)) : Store(r, v, FALSE)
    BY <1>6 DEF CloneFromSlice
  <2>2. Normalized(limbs) \in Seq(Limb) /\ Canonical(Normalized(limbs))
    BY SliceType, NormalizedFacts
  <2>3. /\ Stored(v) /\ Canonical(v.limbs)
        /\ repr[r].heap => v.heap /\ v.cap >= repr[r].cap
    BY <1>h, <2>2, FitsSound
  <2> QED BY <1>6, <2>1, <2>3, StoreStep, StoreKeeps DEF CloneFromSlice
<1>7. ASSUME NEW limbs \in Slices, Commit(r, limbs)  PROVE StorageInv' /\ Kept(r)
  <2>1. Release(r, limbs, TRUE) /\ Len(limbs) = pending[r].new /\ ~ Unborrowed(r)
    BY <1>7 DEF Commit
  <2>2. limbs \in Seq(Limb) /\ Len(limbs) <= repr[r].cap
    BY <2>1, SliceType, Borrowed
  <2> QED BY <2>1, <2>2, ReleaseStep, ReleaseKeeps
<1>8. ASSUME NEW limb \in Limb, SetLimb(r, limb)  PROVE StorageInv' /\ Kept(r)
  <2> DEFINE limbs == IF limb = 0 THEN <<>> ELSE <<limb>>
  <2>1. limbs \in Seq(Limb) /\ Canonical(limbs)
    <3>1. CASE limb = 0
      BY <3>1, EmptyFacts
    <3>2. CASE limb # 0
      BY <3>2 DEF Canonical
    <3> QED BY <3>1, <3>2
  <2>2. PICK v \in Fits(repr[r], limbs) : Store(r, v, FALSE)
    BY <1>8 DEF SetLimb
  <2> HIDE DEF limbs
  <2>3. /\ Stored(v) /\ Canonical(v.limbs)
        /\ repr[r].heap => v.heap /\ v.cap >= repr[r].cap
    BY <1>h, <2>1, FitsSound
  <2> QED BY <1>8, <2>2, <2>3, StoreStep, StoreKeeps DEF SetLimb
<1>9. ASSUME NEW limb \in Limb, PushLimb(r, limb)  PROVE StorageInv' /\ Kept(r)
  <2>1. CASE limb = 0 /\ old = <<>>
    <3>1. Store(r, repr[r], FALSE) /\ Canonical(old) /\ Unborrowed(r)
      BY <1>9, <2>1, EmptyFacts DEF PushLimb
    <3>2. repr[r].heap => repr[r].heap /\ repr[r].cap >= repr[r].cap
      BY <1>h
    <3> QED BY <1>h, <3>1, <3>2, StoreStep, StoreKeeps
  <2>2. CASE ~ (limb = 0 /\ old = <<>>)
    <3>1. PICK v \in Fits(repr[r], Append(old, limb)) : Store(r, v, limb = 0)
      BY <1>9, <2>2 DEF PushLimb
    <3>2. /\ Append(old, limb) \in Seq(Limb)
          /\ limb = 0 \/ Canonical(Append(old, limb))
      BY <1>h, AppendProperties DEF Canonical
    <3>3. /\ Stored(v) /\ v.limbs = Append(old, limb)
          /\ repr[r].heap => v.heap /\ v.cap >= repr[r].cap
      BY <1>h, <3>2, FitsSound
    <3>4. limb = 0 \/ Canonical(v.limbs)
      BY <3>2, <3>3
    <3>5. Unborrowed(r) /\ (limb = 0) \in BOOLEAN
      BY <1>9 DEF PushLimb
    <3> QED BY <3>1, <3>3, <3>4, <3>5, StoreStep, StoreKeeps
  <2> QED BY <2>1, <2>2
<1>10. ASSUME NEW limb \in Limb, NEW i \in 1 .. MaxLimbs, WriteLimb(r, i, limb)
       PROVE  StorageInv' /\ Kept(r)
  <2> DEFINE limbs == [old EXCEPT ![i] = limb]
             v == [repr[r] EXCEPT !.limbs = limbs]
  <2>1. i \in 1 .. Len(old) /\ Unborrowed(r)
    BY <1>10 DEF WriteLimb
  <2>2. limbs \in Seq(Limb) /\ Len(limbs) = Len(old)
    BY <1>h, <2>1, ExceptSeq
  <2>3. Store(r, v, TRUE)
    BY <1>10 DEF WriteLimb
  <2> HIDE DEF limbs
  <2>4. Stored(v) /\ (repr[r].heap => v.heap /\ v.cap >= repr[r].cap)
    BY <1>h, <2>2, OverwriteSound
  <2> HIDE DEF v
  <2> QED BY <2>1, <2>3, <2>4, StoreStep, StoreKeeps
<1>11. ASSUME NEW s \in Regs, CloneFrom(r, s)  PROVE StorageInv' /\ Kept(r)
  <2>1. PICK v \in Fits(repr[r], repr[s].limbs) : Store(r, v, FALSE)
    BY <1>11 DEF CloneFrom
  <2>2. repr[s].limbs \in Seq(Limb) /\ Canonical(repr[s].limbs)
    BY <1>11, Held DEF CloneFrom, Ready
  <2>3. /\ Stored(v) /\ Canonical(v.limbs)
        /\ repr[r].heap => v.heap /\ v.cap >= repr[r].cap
    BY <1>h, <2>2, FitsSound
  <2> QED BY <1>11, <2>1, <2>3, StoreStep, StoreKeeps DEF CloneFrom
<1>12. ASSUME Clear(r)  PROVE StorageInv' /\ Kept(r)
  <2> DEFINE v == [repr[r] EXCEPT !.limbs = <<>>]
  <2>1. Store(r, v, FALSE) /\ Unborrowed(r)
    BY <1>12 DEF Clear
  <2>2. /\ Stored(v) /\ Canonical(v.limbs)
        /\ repr[r].heap => v.heap /\ v.cap >= repr[r].cap
    <3>1. ASSUME NEW x \in Seq(Limb), Len(x) = 0
          PROVE  /\ Stored([repr[r] EXCEPT !.limbs = x])
                 /\ [repr[r] EXCEPT !.limbs = x].limbs = x
                 /\ repr[r].heap => /\ [repr[r] EXCEPT !.limbs = x].heap
                                  /\ [repr[r] EXCEPT !.limbs = x].cap >= repr[r].cap
      <4>1. Len(x) <= repr[r].cap
        BY <1>h, <3>1
      <4>2. /\ Stored([repr[r] EXCEPT !.limbs = x])
            /\ [repr[r] EXCEPT !.limbs = x].limbs = x
            /\ [repr[r] EXCEPT !.limbs = x].cap = repr[r].cap
            /\ [repr[r] EXCEPT !.limbs = x].heap = repr[r].heap
        BY <1>h, <4>1, OverwriteSound
      <4> QED BY <1>h, <4>2
    <3> QED BY <3>1, EmptyFacts, Zenon
  <2> HIDE DEF v
  <2> QED BY <2>1, <2>2, StoreStep, StoreKeeps
<1>13. ASSUME Normalize(r)  PROVE StorageInv' /\ Kept(r)
  <2> DEFINE limbs == Normalized(old)
             v == [repr[r] EXCEPT !.limbs = limbs]
  <2>1. Store(r, v, FALSE) /\ Unborrowed(r)
    BY <1>13 DEF Normalize
  <2>2. limbs \in Seq(Limb) /\ Len(limbs) <= Len(old) /\ Canonical(limbs)
    BY <1>h, NormalizedFacts
  <2> HIDE DEF limbs
  <2>3. Len(limbs) \in Nat
    BY <2>2, LenProperties
  <2>4. /\ Stored(v) /\ Canonical(v.limbs)
        /\ repr[r].heap => v.heap /\ v.cap >= repr[r].cap
    BY <1>h, <2>2, <2>3, OverwriteSound
  <2> HIDE DEF v
  <2> QED BY <2>1, <2>4, StoreStep, StoreKeeps
<1>14. ASSUME InitializeSuffixWithZeroes(r)  PROVE StorageInv' /\ Kept(r)
  <2> DEFINE g == pending[r]
             zeroed(i) == g.old < i /\ i <= g.new
             limbs == [i \in 1 .. g.new |->
                         IF zeroed(i) THEN 0 ELSE WithLength(old, g.new)[i]]
  <2>1. Release(r, limbs, TRUE) /\ ~ Unborrowed(r)
    BY <1>14 DEF InitializeSuffixWithZeroes
  <2>2. /\ g.old \in Nat /\ g.new \in Nat
        /\ g.new <= repr[r].cap /\ g.old = Len(old)
    BY <2>1, Borrowed
  <2>3. \A i \in 1 .. g.new : (IF zeroed(i) THEN 0 ELSE WithLength(old, g.new)[i]) \in Limb
    <3> TAKE i \in 1 .. g.new
    <3>1. CASE zeroed(i)
      BY <3>1, <1>z
    <3>2. CASE ~ zeroed(i)
      <4>1. i \in 1 .. Len(old)
        BY <2>2, <3>2
      <4>2. WithLength(old, g.new)[i] = old[i]
        BY <2>2, <4>1 DEF WithLength
      <4> QED BY <1>h, <3>2, <4>1, <4>2, LenProperties
    <3> QED BY <3>1, <3>2
  <2>4. limbs \in Seq(Limb) /\ Len(limbs) = g.new
    BY <2>2, <2>3, IsASeq
  <2> HIDE DEF limbs, g
  <2> QED BY <2>1, <2>2, <2>4, ReleaseStep, ReleaseKeeps
<1>15. ASSUME DropGuard(r)  PROVE StorageInv' /\ Kept(r)
  <2>1. Release(r, old, FALSE)
    BY <1>15 DEF DropGuard
  <2> QED BY <1>h, <2>1, ReleaseStep, ReleaseKeeps
<1> QED
  BY <1>1, <1>2, <1>3, <1>4, <1>5, <1>6, <1>7, <1>8, <1>9, <1>10, <1>11, <1>12,
     <1>13, <1>14, <1>15
  DEF InPlace

LEMMA ShrinkToFitPreserves ==
  ASSUME StorageInv, NEW r \in Regs, ShrinkToFit(r)
  PROVE  StorageInv'
<1> DEFINE old == repr[r].limbs
<1>1. /\ Stored(repr[r]) /\ old \in Seq(Limb) /\ Len(old) \in Nat
      /\ r \notin raw => Canonical(old)
  BY Held
<1>2. PICK c \in Len(old) .. repr[r].cap : Store(r, HeapRepr(old, c), r \in raw)
  BY DEF ShrinkToFit
<1>3. c \in Allocations(Len(old))
  BY <1>1, <1>2, Sizes DEF Stored, Allocations
<1>4. Stored(HeapRepr(old, c)) /\ HeapRepr(old, c).limbs = old
  BY <1>1, <1>3, HeapSound
<1>5. Unborrowed(r) /\ (r \in raw) \in BOOLEAN
  BY DEF ShrinkToFit
<1>6. (r \in raw) \/ Canonical(HeapRepr(old, c).limbs)
  BY <1>1, <1>4
<1> QED BY <1>2, <1>4, <1>5, <1>6, StoreStep

LEMMA SwapPreserves ==
  ASSUME StorageInv, NEW r \in Regs, NEW s \in Regs, Swap(r, s)
  PROVE  StorageInv'
<1>1. /\ repr' = [repr EXCEPT ![r] = repr[s], ![s] = repr[r]]
      /\ pending' = pending /\ raw' = raw
      /\ r \notin raw /\ s \notin raw
      /\ pending[r] = NoGuard /\ pending[s] = NoGuard
  BY DEF Swap, Ready, Unborrowed
<1>2. DOMAIN repr' = Regs /\ repr' = [t \in Regs |-> repr'[t]]
  BY <1>1 DEF StorageInv
<1>3. /\ repr'[s] = repr[r] /\ repr'[r] = repr[s]
      /\ \A t \in Regs : t # r /\ t # s => repr'[t] = repr[t]
  BY <1>1 DEF StorageInv
<1>4. \A t \in Regs : Stored(repr'[t]) /\ (t \notin raw' => Canonical(repr'[t].limbs))
  BY <1>1, <1>3 DEF StorageInv
<1>5. \A t \in Regs : GuardFits(pending'[t], repr'[t])
  BY <1>1, <1>3 DEF StorageInv, GuardFits
<1> QED BY <1>1, <1>2, <1>4, <1>5 DEF StorageInv, Stored

LEMMA StoragePreserved ==
  ASSUME StorageInv, NEW r \in Regs, StorageStep(r)
  PROVE  StorageInv'
BY ConstructPreserves, InPlacePreserves, ShrinkToFitPreserves, SwapPreserves
DEF StorageStep

LEMMA StorageStutters ==
  ASSUME StorageInv, UNCHANGED vars
  PROVE  StorageInv'
BY DEF StorageInv, vars, Stored, GuardFits

LEMMA StorageStarts ==
  ASSUME Init
  PROVE  StorageInv
<1>1. Stored(InlineRepr(<<>>)) /\ InlineRepr(<<>>).limbs = <<>>
  BY ZeroStored
<1>2. \A r \in Regs : repr[r] = InlineRepr(<<>>) /\ pending[r] = NoGuard
  BY DEF Init
<1> QED BY <1>1, <1>2, EmptyFacts DEF Init, StorageInv, GuardFits

-----------------------------------------------------------------------------
(* What the invariant says of the storage.                                 *)

LEMMA InvariantGivesType == StorageInv => TypeOK
<1> SUFFICES ASSUME StorageInv  PROVE TypeOK
  OBVIOUS
<1>1. Seq(Limb) \subseteq Seq(Limb \union {Junk})
  OBVIOUS
<1>2. \A r \in Regs : repr[r] \in [heap : BOOLEAN, cap : 0 .. MaxLimbs,
                                   limbs : Seq(Limb \union {Junk})]
  <2> TAKE r \in Regs
  <2>1. repr[r] \in [heap : BOOLEAN, cap : 0 .. MaxLimbs, limbs : Seq(Limb)]
    BY DEF StorageInv, Stored
  <2> QED BY <2>1, <1>1
<1> QED BY <1>2 DEF StorageInv, TypeOK

LEMMA InvariantGivesInitialized == StorageInv => Initialized
<1> SUFFICES ASSUME StorageInv, NEW r \in Regs, NEW i \in 1 .. Len(repr[r].limbs)
             PROVE  repr[r].limbs[i] # Junk
  BY DEF Initialized
<1>1. repr[r].limbs \in Seq(Limb)
  BY Held
<1>2. repr[r].limbs[i] \in Limb
  BY <1>1, LenProperties
<1> QED BY <1>2, Sizes

LEMMA InvariantGivesRest ==
  StorageInv => WithinCapacity /\ Normal /\ GuardHasRoom
BY DEF StorageInv, Stored, GuardFits, WithinCapacity, Normal, GuardHasRoom, Ready,
       Unborrowed

\* The invariant holds in every reachable state.
THEOREM StorageInvariant == Spec => []StorageInv
<1>1. Init => StorageInv
  BY StorageStarts
<1>2. StorageInv /\ [Next]_vars => StorageInv'
  BY StoragePreserved, StorageStutters DEF Next
<1> QED BY <1>1, <1>2, PTL DEF Spec

\* Every register, guard and debt keeps its type, whatever the operations.
THEOREM StorageTypeCorrect == Spec => []TypeOK
BY StorageInvariant, InvariantGivesType, PTL

\* No operation exposes a limb it did not write: not a commit of a longer
\* length, not a resize, not a spill from inline storage to the heap.
THEOREM NeverExposesJunk == Spec => []Initialized
BY StorageInvariant, InvariantGivesInitialized, PTL

\* The active prefix never outgrows the storage it lies in.
THEOREM StaysWithinCapacity == Spec => []WithinCapacity
BY StorageInvariant, InvariantGivesRest, PTL

\* Once its caller has normalized, a magnitude has no high zero limb.
THEOREM QueriesSeeNormal == Spec => []Normal
BY StorageInvariant, InvariantGivesRest, PTL

\* A guard keeps the room it was given and the length it recorded until it is
\* committed or dropped.
THEOREM GuardsKeepTheirRoom == Spec => []GuardHasRoom
BY StorageInvariant, InvariantGivesRest, PTL

\* In-place operations never give up a heap buffer.
THEOREM BuffersAreRetained == Spec => BufferRetained
<1>1. StorageInv /\ [Next]_vars =>
        [\A r \in Regs :
           repr[r].heap /\ InPlace(r) => repr'[r].heap /\ repr'[r].cap >= repr[r].cap]_vars
  BY InPlacePreserves DEF Kept
<1> QED BY <1>1, StorageInvariant, PTL DEF Spec, BufferRetained

\* Every magnitude satisfies what its operations rely on, for every base, inline
\* capacity and sequence of operations.
THEOREM RepresentationHolds == Spec => []Representation
BY StorageInvariant, InvariantGivesType, InvariantGivesInitialized, InvariantGivesRest, PTL
   DEF Representation

-----------------------------------------------------------------------------
(* Sums.                                                                   *)

LEMMA WidthFacts ==
  ASSUME NEW x \in Seq(Limb), NEW y \in Seq(Limb)
  PROVE  /\ Width(x, y) \in Nat
         /\ Len(x) \in Nat /\ Len(y) \in Nat
         /\ Len(x) <= Width(x, y) /\ Len(y) <= Width(x, y)
         /\ Width(x, y) = Len(x) \/ Width(x, y) = Len(y)
         /\ x # <<>> \/ y # <<>> => Width(x, y) > 0
<1>1. Len(x) \in Nat /\ Len(y) \in Nat
  BY LenProperties
<1>2. (Len(x) = 0 => x = <<>>) /\ (Len(y) = 0 => y = <<>>)
  BY EmptySeq
<1> QED BY <1>1, <1>2 DEF Width

LEMMA SumLimbsType ==
  ASSUME NEW x \in Seq(Limb), NEW y \in Seq(Limb), NEW n \in Nat
  PROVE  /\ SumLimbs(x, y, n) \in Seq(Limb)
         /\ Len(SumLimbs(x, y, n)) = n
         /\ \A i \in 1 .. n : SumLimbs(x, y, n)[i] = SumLimb(x, y, i)
<1>1. \A i \in 1 .. n : SumLimb(x, y, i) \in Limb
  BY SumLimbType
<1>2. [i \in 1 .. n |-> SumLimb(x, y, i)] \in Seq(Limb)
  BY <1>1, IsASeq
<1>3. SumLimbs(x, y, n) = [i \in 1 .. n |-> SumLimb(x, y, i)]
  BY DEF SumLimbs
<1> HIDE DEF SumLimbs
<1> QED BY <1>2, <1>3, LenProperties

\* The top column of canonical operands is not zero in one of them.
LEMMA TopColumn ==
  ASSUME NEW x \in Seq(Limb), NEW y \in Seq(Limb), Canonical(x), Canonical(y),
         x # <<>> \/ y # <<>>
  PROVE  LET n == Width(x, y) IN Column(x, n) # 0 \/ Column(y, n) # 0
<1> DEFINE n == Width(x, y)
<1>1. /\ n \in Nat /\ n > 0
      /\ Len(x) \in Nat /\ Len(y) \in Nat
  BY WidthFacts
<1>2. n > 0 /\ (n = Len(x) \/ n = Len(y))
  BY WidthFacts
<1>3. CASE n = Len(x)
  <2>1. x # <<>>
    BY <1>2, <1>3, EmptySeq
  <2> QED BY <1>1, <1>3, <2>1 DEF Canonical, Column
<1>4. CASE n = Len(y)
  <2>1. y # <<>>
    BY <1>2, <1>4, EmptySeq
  <2> QED BY <1>1, <1>4, <2>1 DEF Canonical, Column
<1> QED BY <1>2, <1>3, <1>4

\* A column that does not carry keeps its operands' sum.
LEMMA SumLimbWithoutCarry ==
  ASSUME NEW x \in Seq(Limb), NEW y \in Seq(Limb), NEW n \in Nat \ {0},
         CarryOut(x, y, n) = 0,
         Column(x, n) # 0 \/ Column(y, n) # 0
  PROVE  SumLimb(x, y, n) # 0
<1> DEFINE a == Column(x, n)
           b == Column(y, n)
           c == CarryInto(x, y, n)
<1>1. a \in Limb /\ b \in Limb /\ c \in {0, 1}
  BY ColumnType, CarryType
<1>2. ~ (a + b + c >= Base)
  BY CarryRecurrence DEF CarryOut
<1>3. SumLimb(x, y, n) = (a + b + c) % Base
  BY DEF SumLimb
<1>4. /\ a \in Int /\ 0 <= a /\ b \in Int /\ 0 <= b /\ Base \in Nat /\ Base >= 2
      /\ c \in Int /\ 0 <= c
  BY <1>1, LimbBounds
<1>5. a # 0 \/ b # 0
  OBVIOUS
<1> HIDE DEF a, b, c
<1>6. a + b + c \in 1 .. Base - 1
  BY <1>2, <1>4, <1>5
<1>7. (a + b + c) % Base = a + b + c
  BY <1>4, <1>6
<1> QED BY <1>3, <1>6, <1>7

\* A sum is a canonical sequence of limbs: as wide as the wider operand, or one
\* limb wider when the top column carries.
LEMMA TotalFacts ==
  ASSUME NEW x \in Seq(Limb), NEW y \in Seq(Limb), Canonical(x), Canonical(y),
         x # <<>> \/ y # <<>>
  PROVE  LET n == Width(x, y) IN
         /\ Total(x, y) \in Seq(Limb)
         /\ Len(Total(x, y)) = IF CarryOut(x, y, n) = 0 THEN n ELSE n + 1
         /\ Canonical(Total(x, y))
<1> DEFINE n == Width(x, y)
           s == SumLimbs(x, y, n)
           t == Total(x, y)
<1>1. n \in Nat /\ n > 0
  BY WidthFacts
<1> HIDE DEF n
<1>2. /\ s \in Seq(Limb) /\ Len(s) = n
      /\ \A i \in 1 .. n : s[i] = SumLimb(x, y, i)
  BY <1>1, SumLimbsType
<1>3. CASE CarryOut(x, y, n) = 0
  <2>1. t = s
    BY <1>3 DEF Total, n
  <2>2. Column(x, n) # 0 \/ Column(y, n) # 0
    BY TopColumn DEF n
  <2>3. SumLimb(x, y, n) # 0
    BY <1>1, <1>3, <2>2, SumLimbWithoutCarry
  <2>4. s[n] # 0
    BY <1>1, <1>2, <2>3
  <2> HIDE DEF s, t
  <2> QED BY <1>2, <1>3, <2>1, <2>4 DEF n, t, Canonical
<1>4. CASE CarryOut(x, y, n) # 0
  <2>1. t = Append(s, 1)
    BY <1>4 DEF Total, n
  <2>2. 1 \in Limb
    BY BaseAssumption DEF Limb
  <2> HIDE DEF s, t
  <2>3. /\ t \in Seq(Limb) /\ Len(t) = n + 1 /\ t[n + 1] = 1
    BY <1>1, <1>2, <2>1, <2>2, AppendProperties
  <2> QED BY <1>4, <2>3 DEF n, t, Canonical
<1> QED BY <1>3, <1>4

LEMMA TotalSize ==
  ASSUME NEW x \in Seq(Limb), NEW y \in Seq(Limb), Canonical(x), Canonical(y),
         x # <<>> \/ y # <<>>
  PROVE  /\ Total(x, y) \in Seq(Limb) /\ Canonical(Total(x, y))
         /\ Len(Total(x, y)) \in Nat
         /\ Len(Total(x, y)) <= Width(x, y) + 1
         /\ CarryOut(x, y, Width(x, y)) = 0 => Len(Total(x, y)) <= Width(x, y)
<1>1. /\ Total(x, y) \in Seq(Limb) /\ Canonical(Total(x, y))
      /\ Len(Total(x, y)) = IF CarryOut(x, y, Width(x, y)) = 0 THEN Width(x, y)
                            ELSE Width(x, y) + 1
  BY TotalFacts, Zenon
<1>2. Width(x, y) \in Nat
  BY WidthFacts
<1> QED BY <1>1, <1>2

\* A buffer that needs no growth has room for the sum, carry included.
LEMMA GrowthDecidesRoom ==
  ASSUME NEW x \in Seq(Limb), NEW y \in Seq(Limb), Canonical(x), Canonical(y),
         x # <<>> \/ y # <<>>, NEW cap \in Nat, ~ NeedsGrowth(cap, x, y)
  PROVE  Len(Total(x, y)) <= cap
<1> DEFINE n == Width(x, y)
<1>1. n \in Nat \ {0}
  BY WidthFacts
<1>2. /\ Len(Total(x, y)) \in Nat /\ Len(Total(x, y)) <= n + 1
      /\ CarryOut(x, y, n) = 0 => Len(Total(x, y)) <= n
  BY TotalSize
<1>3. CASE cap = n
  <2>1. ~ (Column(x, n) >= Complement(Column(y, n)))
    BY <1>3 DEF NeedsGrowth
  <2>2. Column(x, n) \in Int /\ Complement(Column(y, n)) \in Int
    <3>1. Column(x, n) \in Limb /\ Column(y, n) \in Limb
      BY <1>1, ColumnType
    <3> HIDE DEF n
    <3> QED BY <3>1, LimbBounds DEF Complement, LimbMax
  <2>3. CarryOut(x, y, n) = 0
    BY <1>1, <2>1, <2>2, CarryNeverEscapes
  <2> QED BY <1>2, <1>3, <2>3
<1>4. CASE cap # n
  <2>1. ~ (cap < n)
    BY <1>4 DEF NeedsGrowth
  <2> HIDE DEF n
  <2> QED BY <1>1, <1>2, <1>4, <2>1
<1> QED BY <1>3, <1>4

\* What a sound result looks like: stored, canonical, and still in the buffer
\* that v was in.
Sound(u, v) ==
  /\ Stored(u) /\ Canonical(u.limbs)
  /\ v.heap => u.heap /\ u.cap >= v.cap

LEMMA SumOverSound ==
  ASSUME NEW v, Stored(v), v.heap,
         NEW x \in Seq(Limb), NEW y \in Seq(Limb), Canonical(x), Canonical(y),
         x # <<>> \/ y # <<>>, NEW u \in SumOver(v, x, y)
  PROVE  Sound(u, v)
<1> DEFINE n == Width(x, y)
           t == Total(x, y)
<1>1. n \in Nat
  BY WidthFacts
<1>2. /\ t \in Seq(Limb) /\ Canonical(t) /\ Len(t) \in Nat /\ Len(t) <= n + 1
  BY TotalSize
<1>3. v.cap \in 0 .. MaxLimbs /\ v.cap \in Nat
  BY Sizes DEF Stored
<1>4. PICK c \in IF NeedsGrowth(v.cap, x, y) THEN Allocations(n + 1) ELSE {v.cap} :
        u = HeapRepr(t, c)
  BY DEF SumOver
<1>5. c \in 0 .. MaxLimbs /\ Len(t) <= c /\ c >= v.cap
  <2>1. CASE NeedsGrowth(v.cap, x, y)
    <3>1. c \in n + 1 .. MaxLimbs
      BY <1>4, <2>1 DEF Allocations
    <3>2. v.cap <= n
      BY <1>1, <1>3, <2>1 DEF NeedsGrowth
    <3> HIDE DEF n, t
    <3> QED BY <1>1, <1>2, <1>3, <3>1, <3>2, Sizes
  <2>2. CASE ~ NeedsGrowth(v.cap, x, y)
    <3>1. c = v.cap
      BY <1>4, <2>2
    <3>2. Len(t) <= v.cap
      BY <1>3, <2>2, GrowthDecidesRoom
    <3> QED BY <1>3, <3>1, <3>2
  <2> QED BY <2>1, <2>2
<1> HIDE DEF t
<1> QED BY <1>2, <1>4, <1>5 DEF Sound, Stored, HeapRepr

LEMMA SumOfSound ==
  ASSUME NEW x \in Seq(Limb), NEW y \in Seq(Limb), Canonical(x), Canonical(y),
         NEW u \in SumOf(x, y)
  PROVE  Stored(u) /\ Canonical(u.limbs)
<1>1. CASE x = <<>>
  BY <1>1, FreshSound DEF SumOf
<1>2. CASE x # <<>> /\ y = <<>>
  BY <1>2, FreshSound DEF SumOf
<1>3. CASE x # <<>> /\ y # <<>>
  <2>1. /\ Total(x, y) \in Seq(Limb) /\ Canonical(Total(x, y))
        /\ Len(Total(x, y)) <= Width(x, y) + 1
    BY <1>3, TotalSize
  <2>2. Width(x, y) + 1 \in Nat
    BY WidthFacts
  <2>3. CASE Width(x, y) <= Inline
    BY <1>3, <2>1, <2>3, FreshSound DEF SumOf
  <2>4. CASE ~ (Width(x, y) <= Inline)
    <3>1. PICK c \in Allocations(Width(x, y) + 1) : u = HeapRepr(Total(x, y), c)
      BY <1>3, <2>4 DEF SumOf
    <3> QED BY <2>1, <2>2, <3>1, HeapSound
  <2> QED BY <2>3, <2>4
<1> QED BY <1>1, <1>2, <1>3

LEMMA SumIntoSound ==
  ASSUME NEW v, Stored(v),
         NEW x \in Seq(Limb), NEW y \in Seq(Limb), Canonical(x), Canonical(y),
         NEW u \in SumInto(v, x, y)
  PROVE  Sound(u, v)
<1>1. CASE x = <<>>
  BY <1>1, FitsSound DEF SumInto, Sound
<1>2. CASE x # <<>> /\ y = <<>>
  BY <1>2, FitsSound DEF SumInto, Sound
<1>3. CASE x # <<>> /\ y # <<>> /\ v.heap
  BY <1>3, SumOverSound DEF SumInto
<1>4. CASE x # <<>> /\ y # <<>> /\ ~ v.heap
  BY <1>4, SumOfSound DEF SumInto, Sound
<1> QED BY <1>1, <1>2, <1>3, <1>4

\* An increment appends at most one limb.
LEMMA IncrementSound ==
  ASSUME NEW v, Stored(v), NEW x \in Seq(Limb), Canonical(x),
         NEW u \in Fits(v, Total(x, << 1 >>))
  PROVE  Sound(u, v)
<1>1. << 1 >> \in Seq(Limb) /\ Canonical(<< 1 >>) /\ << 1 >> # <<>>
  <2>1. 1 \in Limb
    BY BaseAssumption DEF Limb
  <2> QED BY <2>1 DEF Canonical
<1>2. Total(x, << 1 >>) \in Seq(Limb) /\ Canonical(Total(x, << 1 >>))
  BY <1>1, TotalSize
<1> QED BY <1>2, FitsSound DEF Sound

-----------------------------------------------------------------------------
(* Differences.                                                            *)

LEMMA DifferenceLimbsType ==
  ASSUME NEW x \in Seq(Limb), NEW y \in Seq(Limb), NEW n \in Nat
  PROVE  /\ DifferenceLimbs(x, y, n) \in Seq(Limb)
         /\ Len(DifferenceLimbs(x, y, n)) = n
         /\ \A i \in 1 .. n : DifferenceLimbs(x, y, n)[i] = DifferenceLimb(x, y, i)
<1>1. \A i \in 1 .. n : DifferenceLimb(x, y, i) \in Limb
  BY DifferenceLimbType
<1>2. [i \in 1 .. n |-> DifferenceLimb(x, y, i)] \in Seq(Limb)
  BY <1>1, IsASeq
<1>3. DifferenceLimbs(x, y, n) = [i \in 1 .. n |-> DifferenceLimb(x, y, i)]
  BY DEF DifferenceLimbs
<1> HIDE DEF DifferenceLimbs
<1> QED BY <1>2, <1>3, LenProperties

\* A trimmed difference of n columns is canonical and no longer than n.
LEMMA TrimmedDifference ==
  ASSUME NEW x \in Seq(Limb), NEW y \in Seq(Limb), NEW n \in Nat
  PROVE  LET d == Normalized(DifferenceLimbs(x, y, n)) IN
         d \in Seq(Limb) /\ Canonical(d) /\ Len(d) \in Nat /\ Len(d) <= n
<1>1. /\ DifferenceLimbs(x, y, n) \in Seq(Limb)
      /\ Len(DifferenceLimbs(x, y, n)) = n
  BY DifferenceLimbsType
<1> QED BY <1>1, NormalizedFacts, LenProperties

LEMMA ResidueFacts ==
  ASSUME NEW x \in Seq(Limb), NEW y \in Seq(Limb)
  PROVE  /\ Residue(x, y) \in Seq(Limb) /\ Canonical(Residue(x, y))
         /\ Len(Residue(x, y)) \in Nat
         /\ Len(Residue(x, y)) <= Width(x, y)
<1>1. Width(x, y) \in Nat
  BY WidthFacts
<1> QED BY <1>1, TrimmedDifference DEF Residue

LEMMA DifferenceIntoSound ==
  ASSUME NEW v, Stored(v), NEW x \in Seq(Limb), NEW y \in Seq(Limb),
         NEW u \in DifferenceInto(v, x, y)
  PROVE  Sound(u, v)
<1>1. PICK w \in Prepared(v, Width(x, y)) : u = [w EXCEPT !.limbs = Residue(x, y)]
  BY DEF DifferenceInto
<1>2. /\ Stored(w) /\ Width(x, y) <= w.cap
      /\ v.heap => w.heap /\ w.cap >= v.cap
  BY <1>1, WidthFacts, PreparedSound
<1>3. w.cap \in Nat
  BY <1>2, Sizes DEF Stored
<1>4. /\ Residue(x, y) \in Seq(Limb) /\ Canonical(Residue(x, y))
      /\ Len(Residue(x, y)) <= w.cap
  <2>1. /\ Residue(x, y) \in Seq(Limb) /\ Canonical(Residue(x, y))
        /\ Len(Residue(x, y)) \in Nat /\ Len(Residue(x, y)) <= Width(x, y)
        /\ Width(x, y) \in Nat
    BY ResidueFacts, WidthFacts
  <2> QED BY <1>2, <1>3, <2>1
<1>5. /\ Stored(u) /\ u.limbs = Residue(x, y)
      /\ u.cap = w.cap /\ u.heap = w.heap
  BY <1>1, <1>2, <1>4, OverwriteSound
<1> QED BY <1>2, <1>4, <1>5 DEF Sound

LEMMA DifferenceOfSound ==
  ASSUME NEW x \in Seq(Limb), NEW y \in Seq(Limb), Canonical(x),
         NEW u \in DifferenceOf(x, y)
  PROVE  Stored(u) /\ Canonical(u.limbs)
<1>1. CASE y = <<>>
  BY <1>1, FreshSound DEF DifferenceOf
<1>2. CASE y # <<>> /\ Width(x, y) <= Inline
  <2>1. u = InlineRepr(Residue(x, y))
    BY <1>2 DEF DifferenceOf
  <2>2. Len(Residue(x, y)) <= Inline
    BY <1>2, ResidueFacts, WidthFacts, Sizes, SMTT(30)
  <2> QED BY <2>1, <2>2, ResidueFacts, InlineSound
<1>3. CASE y # <<>> /\ ~ (Width(x, y) <= Inline)
  <2>1. PICK c \in Allocations(Width(x, y)) : u = HeapRepr(Residue(x, y), c)
    BY <1>3 DEF DifferenceOf
  <2>2. Width(x, y) \in Nat /\ Len(Residue(x, y)) <= Width(x, y)
    BY WidthFacts, ResidueFacts
  <2>3. Stored(u) /\ u.limbs = Residue(x, y)
    BY <2>1, <2>2, ResidueFacts, HeapSound
  <2> QED BY <2>3, ResidueFacts
<1> QED BY <1>1, <1>2, <1>3

\* A decrement that empties the top column borrowed through the one below,
\* which is then not zero: one limb is all there is to trim.
LEMMA DecrementTrimsOnce ==
  ASSUME NEW x \in Seq(Limb), Canonical(x), NEW n \in Nat \ {0}, n = Len(x), n > 1,
         DifferenceLimb(x, << 1 >>, n) = 0
  PROVE  DifferenceLimb(x, << 1 >>, n - 1) # 0
<1> DEFINE a == Column(x, n)
           e == BorrowInto(x, << 1 >>, n)
           b == Column(x, n - 1)
           s == Column(<< 1 >>, n - 1)
           d == BorrowInto(x, << 1 >>, n - 1)
<1>1. << 1 >> \in Seq(Limb) /\ n - 1 \in Nat \ {0} /\ (n - 1) + 1 = n
  <2>1. 1 \in Limb
    BY BaseAssumption DEF Limb
  <2> QED BY <2>1
<1>2. /\ a \in Limb /\ b \in Limb /\ s \in Limb
      /\ e \in {0, 1} /\ d \in {0, 1}
  BY <1>1, ColumnType, BorrowType
<1>3. a # 0
  BY EmptySeq, LenProperties DEF Canonical, Column
<1>4. Column(<< 1 >>, n) = 0
  BY DEF Column
<1>5. /\ DifferenceLimb(x, << 1 >>, n) = (a - 0 - e) % Base
      /\ DifferenceLimb(x, << 1 >>, n - 1) = (b - s - d) % Base
  BY <1>4 DEF DifferenceLimb
<1>6. e = IF b - s - d < 0 THEN 1 ELSE 0
  <2> DEFINE m == n - 1
  <2>1. << 1 >> \in Seq(Limb) /\ m \in Nat \ {0} /\ m + 1 = n
    BY <1>1
  <2>2. BorrowInto(x, << 1 >>, m + 1) =
          IF Column(x, m) - Column(<< 1 >>, m) - BorrowInto(x, << 1 >>, m) < 0 THEN 1 ELSE 0
    <3> HIDE DEF m
    <3> QED BY <2>1, BorrowRecurrence
  <2> QED BY <2>1, <2>2
<1>7. (s = 1 /\ d = 0) \/ s = 0
  <2>1. CASE n - 1 = 1
    BY <2>1, NoBorrowIn DEF Column
  <2>2. CASE n - 1 # 1
    BY <1>1, <2>2 DEF Column
  <2> QED BY <2>1, <2>2
<1>8. /\ a \in Int /\ 0 <= a /\ a <= Base - 1
      /\ b \in Int /\ 0 <= b /\ b <= Base - 1
      /\ Base \in Nat /\ Base >= 2
  BY <1>2, LimbBounds
<1>9. (a - 0 - e) % Base = 0
  BY <1>5
<1> HIDE DEF a, b, e, s, d
<1>10. e = 1
  <2> SUFFICES ASSUME e = 0  PROVE FALSE
    BY <1>2
  <2>1. a - 0 - e = a /\ a \in 1 .. Base - 1
    BY <1>3, <1>8
  <2>2. a % Base = a
    BY <1>8, <2>1
  <2> QED BY <1>3, <1>9, <2>1, <2>2
<1>11. b - s - d = 0 - 1
  BY <1>2, <1>6, <1>7, <1>8, <1>10
<1>12. (0 - 1) % Base = Base - 1
  BY <1>8
<1> QED BY <1>5, <1>8, <1>11, <1>12

LEMMA DecrementSound ==
  ASSUME NEW x \in Seq(Limb), Canonical(x), x # <<>>
  PROVE  LET difference == DifferenceLimbs(x, << 1 >>, Len(x))
             kept == IF Last(difference) = 0 THEN Front(difference) ELSE difference
         IN  kept \in Seq(Limb) /\ Canonical(kept) /\ Len(kept) <= Len(x)
<1> DEFINE n == Len(x)
           difference == DifferenceLimbs(x, << 1 >>, n)
           kept == IF Last(difference) = 0 THEN Front(difference) ELSE difference
<1>1. n \in Nat \ {0}
  BY LenProperties, EmptySeq
<1>2. << 1 >> \in Seq(Limb)
  <2>1. 1 \in Limb
    BY BaseAssumption DEF Limb
  <2> QED BY <2>1
<1>3. /\ difference \in Seq(Limb) /\ Len(difference) = n
      /\ \A i \in 1 .. n : difference[i] = DifferenceLimb(x, << 1 >>, i)
  BY <1>1, <1>2, DifferenceLimbsType
<1>4. Last(difference) = difference[n] /\ Front(difference) = SubSeq(difference, 1, n - 1)
  BY <1>3 DEF Last, Front
<1>5. n > 1 /\ difference[n] = 0 => difference[n - 1] # 0
  BY <1>1, <1>3, DecrementTrimsOnce
<1> HIDE DEF difference
<1>6. CASE Last(difference) = 0
  <2> DEFINE front == SubSeq(difference, 1, n - 1)
  <2>1. kept = front
    BY <1>4, <1>6
  <2>2. /\ front \in Seq(Limb) /\ Len(front) = n - 1
        /\ \A i \in 1 .. n - 1 : front[i] = difference[i]
    BY <1>1, <1>3, SubSeqProperties
  <2>3. Canonical(front)
    <3>1. CASE n = 1
      BY <2>2, <3>1, EmptySeq DEF Canonical
    <3>2. CASE n # 1
      BY <1>1, <1>4, <1>5, <1>6, <2>2, <3>2 DEF Canonical
    <3> QED BY <3>1, <3>2
  <2> HIDE DEF front
  <2> QED BY <1>1, <2>1, <2>2, <2>3 DEF difference
<1>7. CASE Last(difference) # 0
  <2>1. kept = difference
    BY <1>7
  <2>2. Canonical(difference)
    BY <1>3, <1>4, <1>7 DEF Canonical
  <2> QED BY <1>1, <1>3, <2>1, <2>2 DEF difference
<1> QED BY <1>6, <1>7

-----------------------------------------------------------------------------
(* Every arithmetic operation preserves the storage invariant, and keeps   *)
(* the buffer of a register it assigns to.                                 *)

LEMMA SoundStore ==
  ASSUME StorageInv, NEW r \in Regs, Unborrowed(r),
         NEW v, Sound(v, repr[r]), Store(r, v, FALSE)
  PROVE  StorageInv' /\ Kept(r)
<1>1. /\ Stored(v) /\ Canonical(v.limbs)
      /\ repr[r].heap => v.heap /\ v.cap >= repr[r].cap
  BY DEF Sound
<1> QED BY <1>1, StoreStep, StoreKeeps

LEMMA OperandType == ASSUME NEW x \in Operands PROVE x \in Seq(Limb) /\ Canonical(x)
BY OperandsAssumption

\* Cutting a register's value to shorter limbs is sound.
LEMMA ShorterSound ==
  ASSUME StorageInv, NEW r \in Regs, NEW limbs \in Seq(Limb), Canonical(limbs),
         Len(limbs) \in Nat, Len(limbs) <= Len(repr[r].limbs)
  PROVE  Sound([repr[r] EXCEPT !.limbs = limbs], repr[r])
<1>1. /\ Stored(repr[r]) /\ Len(repr[r].limbs) \in Nat /\ repr[r].cap \in Nat
      /\ Len(repr[r].limbs) <= repr[r].cap
  BY Held
<1>2. Len(limbs) <= repr[r].cap
  BY <1>1
<1>3. /\ Stored([repr[r] EXCEPT !.limbs = limbs])
      /\ [repr[r] EXCEPT !.limbs = limbs].limbs = limbs
      /\ [repr[r] EXCEPT !.limbs = limbs].cap = repr[r].cap
      /\ [repr[r] EXCEPT !.limbs = limbs].heap = repr[r].heap
  BY <1>1, <1>2, OverwriteSound
<1> QED BY <1>1, <1>3 DEF Sound

\* The assignments.
LEMMA AssignmentSound ==
  ASSUME StorageInv, NEW r \in Regs,
         NEW x \in Seq(Limb), Canonical(x), NEW y \in Seq(Limb), Canonical(y),
         \/ AddAssign(r, x) \/ SubAssign(r, x) \/ SubAssignWithUnderflow(r, x)
         \/ AssignSum(r, x, y) \/ AssignDifference(r, x, y)
         \/ Increment(r) \/ Decrement(r)
  PROVE  StorageInv' /\ Kept(r)
<1> DEFINE old == repr[r].limbs
<1>o. /\ x \in Seq(Limb) /\ Canonical(x)
      /\ y \in Seq(Limb) /\ Canonical(y)
  OBVIOUS
<1>i. Stored(repr[r]) /\ old \in Seq(Limb) /\ (Ready(r) => Canonical(old) /\ Unborrowed(r))
  BY Held DEF Ready
<1>c. repr[r].cap \in Nat /\ Len(old) \in Nat
  BY Held
<1>1. CASE AddAssign(r, x)
  <2>1. PICK v \in SumInto(repr[r], old, x) : Store(r, v, FALSE)
    BY <1>1 DEF AddAssign
  <2>2. Canonical(old) /\ Unborrowed(r)
    BY <1>1, <1>i DEF AddAssign
  <2>3. Sound(v, repr[r])
    BY <1>o, <1>i, <2>1, <2>2, SumIntoSound
  <2> QED BY <2>1, <2>2, <2>3, SoundStore
<1>2. CASE SubAssign(r, x)
  <2> DEFINE limbs == Normalized(DifferenceLimbs(old, x, Len(old)))
             v == [repr[r] EXCEPT !.limbs = limbs]
  <2>1. Unborrowed(r) /\ Store(r, v, FALSE)
    BY <1>2 DEF SubAssign, Ready
  <2>2. limbs \in Seq(Limb) /\ Canonical(limbs) /\ Len(limbs) \in Nat /\ Len(limbs) <= Len(old)
    BY <1>o, <1>i, <1>c, TrimmedDifference
  <2> HIDE DEF limbs
  <2>3. Sound(v, repr[r])
    BY <2>2, ShorterSound
  <2> HIDE DEF v
  <2> QED BY <2>1, <2>3, SoundStore
<1>3. CASE SubAssignWithUnderflow(r, x)
  <2>1. PICK v \in IF x = <<>> THEN {repr[r]} ELSE DifferenceInto(repr[r], old, x) :
          Store(r, v, FALSE)
    BY <1>3 DEF SubAssignWithUnderflow
  <2>2. Canonical(old) /\ Unborrowed(r)
    BY <1>3, <1>i DEF SubAssignWithUnderflow
  <2>3. CASE x = <<>>
    <3>1. v = repr[r]
      BY <2>1, <2>3
    <3>2. Sound(v, repr[r])
      BY <1>i, <1>c, <2>2, <3>1 DEF Sound
    <3> QED BY <2>1, <2>2, <3>2, SoundStore
  <2>4. CASE x # <<>>
    <3>1. v \in DifferenceInto(repr[r], old, x)
      BY <2>1, <2>4
    <3>2. Sound(v, repr[r])
      BY <1>o, <1>i, <3>1, DifferenceIntoSound
    <3> QED BY <2>1, <2>2, <3>2, SoundStore
  <2> QED BY <2>3, <2>4
<1>4. CASE AssignSum(r, x, y)
  <2>1. PICK v \in SumInto(repr[r], x, y) : Store(r, v, FALSE)
    BY <1>4 DEF AssignSum
  <2>2. Sound(v, repr[r]) /\ Unborrowed(r)
    BY <1>4, <1>o, <1>i, <2>1, SumIntoSound DEF AssignSum
  <2> QED BY <2>1, <2>2, SoundStore
<1>5. CASE AssignDifference(r, x, y)
  <2>1. PICK v \in IF y = <<>> THEN Fits(repr[r], x) ELSE DifferenceInto(repr[r], x, y) :
          Store(r, v, FALSE)
    BY <1>5 DEF AssignDifference
  <2>2. Unborrowed(r)
    BY <1>5 DEF AssignDifference
  <2>3. Sound(v, repr[r])
    <3>1. CASE y = <<>>
      BY <1>o, <1>i, <2>1, <3>1, FitsSound DEF Sound
    <3>2. CASE y # <<>>
      BY <1>o, <1>i, <2>1, <3>2, DifferenceIntoSound
    <3> QED BY <3>1, <3>2
  <2> QED BY <2>1, <2>2, <2>3, SoundStore
<1>6. CASE Increment(r)
  <2>1. PICK v \in Fits(repr[r], Total(old, << 1 >>)) : Store(r, v, FALSE)
    BY <1>6 DEF Increment
  <2>2. Canonical(old) /\ Unborrowed(r)
    BY <1>6, <1>i DEF Increment
  <2>3. Sound(v, repr[r])
    BY <1>i, <2>1, <2>2, IncrementSound
  <2> QED BY <2>1, <2>2, <2>3, SoundStore
<1>7. CASE Decrement(r)
  <2> DEFINE difference == DifferenceLimbs(old, << 1 >>, Len(old))
             limbs == IF Last(difference) = 0 THEN Front(difference) ELSE difference
             v == [repr[r] EXCEPT !.limbs = limbs]
  <2>1. Ready(r) /\ old # <<>> /\ Store(r, v, FALSE)
    BY <1>7 DEF Decrement
  <2>2. Canonical(old) /\ Unborrowed(r)
    BY <1>i, <2>1
  <2>3. limbs \in Seq(Limb) /\ Canonical(limbs) /\ Len(limbs) <= Len(old)
    BY <1>i, <2>1, <2>2, DecrementSound
  <2> HIDE DEF limbs, difference
  <2>4. Len(limbs) \in Nat
    BY <2>3, LenProperties
  <2>5. Sound(v, repr[r])
    BY <2>3, <2>4, ShorterSound
  <2> HIDE DEF v
  <2> QED BY <2>1, <2>2, <2>5, SoundStore
<1> QED BY <1>1, <1>2, <1>3, <1>4, <1>5, <1>6, <1>7

\* The functions that return a new value.
LEMMA OwnedSound ==
  ASSUME StorageInv, NEW r \in Regs, NEW x \in Operands, NEW y \in Operands,
         Add(r, x, y) \/ Sub(r, x, y) \/ SubWithUnderflow(r, x, y)
  PROVE  StorageInv'
<1>o. /\ x \in Seq(Limb) /\ Canonical(x)
      /\ y \in Seq(Limb) /\ Canonical(y)
  BY OperandType
<1>1. PICK v : Stored(v) /\ Canonical(v.limbs) /\ Store(r, v, FALSE)
  <2>1. CASE Add(r, x, y)
    <3>1. PICK v \in SumOf(x, y) : Store(r, v, FALSE)
      BY <2>1 DEF Add
    <3> QED BY <1>o, <3>1, SumOfSound
  <2>2. CASE Sub(r, x, y)
    <3>1. PICK v \in DifferenceOf(x, y) : Store(r, v, FALSE)
      BY <2>2 DEF Sub
    <3> QED BY <1>o, <3>1, DifferenceOfSound
  <2>3. CASE SubWithUnderflow(r, x, y)
    <3>1. PICK v \in DifferenceOf(x, y) : Store(r, v, FALSE)
      BY <2>3 DEF SubWithUnderflow
    <3> QED BY <1>o, <3>1, DifferenceOfSound
  <2> QED BY <2>1, <2>2, <2>3
<1>2. Unborrowed(r)
  BY DEF Add, Sub, SubWithUnderflow
<1> QED BY <1>1, <1>2, StoreStep

LEMMA AdditionPreserves ==
  ASSUME StorageInv, NEW r \in Regs, AdditionStep(r)
  PROVE  StorageInv'
<1>1. CASE \E x \in Operands :
             AddAssign(r, x) \/ SubAssign(r, x) \/ SubAssignWithUnderflow(r, x)
  BY <1>1, OperandType, EmptyFacts, AssignmentSound
<1>2. CASE \E x, y \in Operands :
             \/ AssignSum(r, x, y)
             \/ AssignDifference(r, x, y)
             \/ Add(r, x, y)
             \/ Sub(r, x, y)
             \/ SubWithUnderflow(r, x, y)
  BY <1>2, OperandType, AssignmentSound, OwnedSound
<1>3. CASE Increment(r) \/ Decrement(r)
  BY <1>3, EmptyFacts, AssignmentSound
<1> QED BY <1>1, <1>2, <1>3 DEF AdditionStep

-----------------------------------------------------------------------------
(* What every call returns.                                                *)

LEMMA ReturnsType ==
  ASSUME NEW r \in Regs, NEW op \in Sums \union Differences \union Residues,
         NEW x \in Seq(Limb), NEW y \in Seq(Limb), NEW underflow \in BOOLEAN,
         Returns(op, r, x, y, underflow)
  PROVE  call' \in Calls /\ call'.reg = r /\ call'.op = op
BY DEF Returns, Calls

\* A call is recorded with its operands, and one that is not Owned has assigned
\* to the register it names.
LEMMA CallRecorded ==
  ASSUME StorageInv, NEW r \in Regs, AdditionStep(r)
  PROVE  /\ call' \in Calls
         /\ call'.op \notin Owned => call'.reg = r /\ Kept(r)
<1> USE DEF Sums, Differences, Residues, Owned
<1>1. repr[r].limbs \in Seq(Limb)
  BY Held
<1>2. << 1 >> \in Seq(Limb) /\ <<>> \in Seq(Limb) /\ Canonical(<<>>)
  <2>1. 1 \in Limb
    BY BaseAssumption DEF Limb
  <2> QED BY <2>1, EmptyFacts
<1>3. ASSUME NEW x \in Operands, AddAssign(r, x) \/ SubAssign(r, x) \/ SubAssignWithUnderflow(r, x)
      PROVE  call' \in Calls /\ (call'.op \notin Owned => call'.reg = r /\ Kept(r))
  <2>1. Kept(r)
    BY <1>2, <1>3, OperandType, AssignmentSound
  <2>2. x \in Seq(Limb)
    BY OperandType
  <2>3. CASE AddAssign(r, x)
    BY <1>1, <2>1, <2>2, <2>3, ReturnsType DEF AddAssign
  <2>4. CASE SubAssign(r, x)
    BY <1>1, <2>1, <2>2, <2>4, ReturnsType DEF SubAssign
  <2>5. CASE SubAssignWithUnderflow(r, x)
    BY <1>1, <2>1, <2>2, <2>5, ReturnsType DEF SubAssignWithUnderflow
  <2> QED BY <1>3, <2>3, <2>4, <2>5
<1>4. ASSUME NEW x \in Operands, NEW y \in Operands,
             AssignSum(r, x, y) \/ AssignDifference(r, x, y)
      PROVE  call' \in Calls /\ (call'.op \notin Owned => call'.reg = r /\ Kept(r))
  <2>1. Kept(r)
    BY <1>4, OperandType, AssignmentSound
  <2>2. x \in Seq(Limb) /\ y \in Seq(Limb)
    BY OperandType
  <2>3. CASE AssignSum(r, x, y)
    BY <2>1, <2>2, <2>3, ReturnsType DEF AssignSum
  <2>4. CASE AssignDifference(r, x, y)
    BY <2>1, <2>2, <2>4, ReturnsType DEF AssignDifference
  <2> QED BY <1>4, <2>3, <2>4
<1>5. ASSUME NEW x \in Operands, NEW y \in Operands,
             Add(r, x, y) \/ Sub(r, x, y) \/ SubWithUnderflow(r, x, y)
      PROVE  call' \in Calls /\ (call'.op \notin Owned => call'.reg = r /\ Kept(r))
  <2>2. x \in Seq(Limb) /\ y \in Seq(Limb)
    BY OperandType
  <2>3. CASE Add(r, x, y)
    BY <2>2, <2>3, ReturnsType DEF Add
  <2>4. CASE Sub(r, x, y)
    BY <2>2, <2>4, ReturnsType DEF Sub
  <2>5. CASE SubWithUnderflow(r, x, y)
    BY <2>2, <2>5, ReturnsType DEF SubWithUnderflow
  <2> QED BY <1>5, <2>3, <2>4, <2>5
<1>6. ASSUME Increment(r) \/ Decrement(r)
      PROVE  call' \in Calls /\ (call'.op \notin Owned => call'.reg = r /\ Kept(r))
  <2>1. Kept(r)
    BY <1>2, <1>6, AssignmentSound
  <2>2. CASE Increment(r)
    BY <1>1, <1>2, <2>1, <2>2, ReturnsType DEF Increment
  <2>3. CASE Decrement(r)
    BY <1>1, <1>2, <2>1, <2>3, ReturnsType DEF Decrement
  <2> QED BY <1>6, <2>2, <2>3
<1> QED BY <1>3, <1>4, <1>5, <1>6 DEF AdditionStep

-----------------------------------------------------------------------------
(* The numbers that sums and differences stand for.                        *)

\* Trimming high zeros leaves every column, and so the number.
LEMMA NormalizedValue ==
  ASSUME NEW x \in Seq(Limb)
  PROVE  Value(Normalized(x)) = Value(x)
<1> DEFINE n == NormalizedLen(x)
           y == SubSeq(x, 1, n)
<1>1. /\ n \in 0 .. Len(x)
      /\ \A i \in n + 1 .. Len(x) : x[i] = 0
  BY NormalizedLenExists DEF NormalizedLen
<1>2. Len(x) \in Nat
  BY LenProperties
<1> HIDE DEF n
<1>3. /\ y \in Seq(Limb) /\ Len(y) = n
      /\ \A i \in 1 .. n : y[i] = x[i]
  BY <1>1, <1>2, SubSeqProperties
<1> HIDE DEF y
<1>4. ASSUME NEW i \in Nat \ {0} PROVE Column(y, i) = Column(x, i)
  <2>1. CASE i <= n
    BY <1>1, <1>2, <1>3, <2>1 DEF Column
  <2>2. CASE ~ (i <= n)
    BY <1>1, <1>2, <1>3, <2>2 DEF Column
  <2> QED BY <2>1, <2>2
<1>5. Value(y) = Value(x)
  BY <1>3, <1>4, ValueOfColumns
<1> QED BY <1>5 DEF y, n, Normalized

LEMMA EmptyValue == Value(<<>>) = 0
<1>1. <<>> \in Seq(Limb) /\ Len(<<>>) = 0
  BY EmptySeq
<1> QED BY <1>1, LowestFacts DEF Value

\* The limbs of a sum stand for the sum.
LEMMA TotalValue ==
  ASSUME NEW x \in Seq(Limb), NEW y \in Seq(Limb)
  PROVE  Value(Total(x, y)) = Value(x) + Value(y)
<1> DEFINE n == Width(x, y)
           s == SumLimbs(x, y, n)
           t == Total(x, y)
           c == CarryOut(x, y, n)
<1>1. n \in Nat /\ Len(x) \in Nat /\ Len(y) \in Nat /\ Len(x) <= n /\ Len(y) <= n
  BY WidthFacts
<1>2. Lowest(x, n) = Value(x) /\ Lowest(y, n) = Value(y)
  BY <1>1, LowestBeyond
<1>3. c \in {0, 1}
  BY CarryType DEF CarryOut
<1>e. t = IF c = 0 THEN s ELSE Append(s, 1)
  BY Zenon DEF Total
<1> HIDE DEF n, t
<1>4. /\ s \in Seq(Limb) /\ Len(s) = n
      /\ \A i \in 1 .. n : s[i] = SumLimb(x, y, i)
  BY <1>1, SumLimbsType
<1> HIDE DEF s, c
<1>5. /\ t \in Seq(Limb) /\ Len(t) = n + c
      /\ \A i \in 1 .. n : t[i] = SumLimb(x, y, i)
      /\ c = 1 => t[n + 1] = 1
  <2>1. CASE c = 0
    BY <1>1, <1>4, <1>e, <2>1
  <2>2. CASE c = 1
    <3>1. 1 \in Limb
      BY BaseAssumption DEF Limb
    <3>2. t = Append(s, 1)
      BY <1>e, <2>2
    <3>3. t \in Seq(Limb) /\ Len(t) = n + 1 /\ t[n + 1] = 1
      BY <1>1, <1>4, <3>1, <3>2, AppendProperties
    <3>4. \A i \in 1 .. n : t[i] = s[i]
      BY <1>1, <1>4, <3>1, <3>2, AppendProperties
    <3> QED BY <1>4, <2>2, <3>3, <3>4
  <2> QED BY <1>3, <2>1, <2>2
<1>6. \A i \in 1 .. n : Column(t, i) = SumLimb(x, y, i)
  BY <1>1, <1>3, <1>5 DEF Column
<1>7. Lowest(t, n) + c * Power(Base, n) = Value(x) + Value(y)
  <2>1. n \in 0 .. n
    BY <1>1
  <2>2. \A k \in 0 .. n : Lowest(t, k) + CarryOut(x, y, k) * Power(Base, k)
                            = Lowest(x, k) + Lowest(y, k)
    <3>1. t \in Seq(Limb)
      BY <1>5
    <3> QED BY <1>1, <1>6, <3>1, SumOfLowest, SMTT(30)
  <2>3. Lowest(t, n) + CarryOut(x, y, n) * Power(Base, n) = Lowest(x, n) + Lowest(y, n)
    BY <2>1, <2>2, Zenon
  <2> QED BY <1>2, <2>3 DEF c
<1>8. Power(Base, n) \in Nat /\ Lowest(t, n) \in Int
  BY <1>1, <1>5, WeightType, LowestFacts
<1>9. CASE c = 0
  <2>1. Value(t) = Lowest(t, n)
    BY <1>1, <1>5, <1>9 DEF Value
  <2>2. Lowest(t, n) = Value(x) + Value(y)
    BY <1>7, <1>8, <1>9
  <2> QED BY <2>1, <2>2 DEF t
<1>10. CASE c = 1
  <2>1. Value(t) = Lowest(t, n + 1)
    BY <1>1, <1>5, <1>10 DEF Value
  <2>2. Column(t, n + 1) = 1
    BY <1>1, <1>5, <1>10 DEF Column
  <2>3. Lowest(t, n + 1) = Lowest(t, n) + 1 * Power(Base, n)
    BY <1>1, <1>5, <2>2, LowestFacts
  <2>4. Lowest(t, n + 1) = Value(x) + Value(y)
    BY <1>7, <1>8, <1>10, <2>3
  <2> QED BY <2>1, <2>4 DEF t
<1> QED BY <1>3, <1>9, <1>10

\* A representative in range is the residue.
LEMMA ResidueIs ==
  ASSUME NEW d \in Int, NEW p \in Nat \ {0}, NEW b \in {0, 1},
         0 <= d + b * p, d + b * p < p
  PROVE  d % p = d + b * p /\ (b = 1 <=> d < 0)
<1>1. CASE b = 0
  BY <1>1
<1>2. CASE b = 1
  <2>1. d + p \in 0 .. p - 1
    BY <1>2
  <2>2. d % p = d + p
    BY <2>1
  <2> QED BY <1>2, <2>1, <2>2
<1> QED BY <1>1, <1>2

\* The columns of a difference, trimmed, stand for the difference modulo the
\* weight beyond them; the borrow says whether it is negative.
LEMMA DifferenceValue ==
  ASSUME NEW x \in Seq(Limb), NEW y \in Seq(Limb), NEW n \in Nat,
         Len(x) <= n, Len(y) <= n
  PROVE  LET d == DifferenceLimbs(x, y, n)
             difference == Value(x) - Value(y)
         IN  /\ Value(d) = difference % Power(Base, n)
             /\ Value(Normalized(d)) = Value(d)
             /\ BorrowOut(x, y, n) = 1 <=> difference < 0
             /\ BorrowOut(x, y, n) # 1 => Value(d) = difference
<1> DEFINE d == DifferenceLimbs(x, y, n)
           diff == Value(x) - Value(y)
           b == BorrowOut(x, y, n)
           p == Power(Base, n)
<1>1. /\ d \in Seq(Limb) /\ Len(d) = n
      /\ \A i \in 1 .. n : d[i] = DifferenceLimb(x, y, i)
  BY DifferenceLimbsType
<1>2. Lowest(x, n) = Value(x) /\ Lowest(y, n) = Value(y)
  BY LowestBeyond
<1>3. b \in {0, 1}
  BY BorrowType DEF BorrowOut
<1>4. p \in Nat \ {0}
  BY WeightType
<1>5. Value(x) \in Int /\ Value(y) \in Int
  BY ValueBound
<1>n. Value(Normalized(d)) = Value(d)
  BY <1>1, NormalizedValue
<1> HIDE DEF d
<1>6. \A i \in 1 .. n : Column(d, i) = DifferenceLimb(x, y, i)
  BY <1>1 DEF Column
<1>7. Lowest(d, n) - b * p = diff
  <2>1. n \in 0 .. n
    OBVIOUS
  <2>2. Lowest(d, n) - BorrowOut(x, y, n) * Power(Base, n) = Lowest(x, n) - Lowest(y, n)
    BY <1>1, <1>6, <2>1, DifferenceOfLowest, SMTT(30)
  <2> QED BY <1>2, <2>2
<1>8. Value(d) = Lowest(d, n) /\ Value(d) \in Int
  BY <1>1, LowestFacts DEF Value
<1>9. 0 <= Value(d) /\ Value(d) < p
  BY <1>1, <1>8, LowestBound
<1>10. diff \in Int
  BY <1>5
<1> HIDE DEF p, b, diff
<1>11. Value(d) = diff + b * p
  <2>1. b * p \in Int
    BY <1>3, <1>4
  <2> QED BY <1>7, <1>8, <1>10, <2>1
<1>12. diff % p = diff + b * p /\ (b = 1 <=> diff < 0)
  <2>1. 0 <= diff + b * p /\ diff + b * p < p
    BY <1>9, <1>11
  <2> QED BY <1>3, <1>4, <1>10, <2>1, ResidueIs
<1>13. b # 1 => Value(d) = diff
  BY <1>3, <1>4, <1>10, <1>11
<1> QED BY <1>n, <1>11, <1>12, <1>13 DEF d, diff, b, p

-----------------------------------------------------------------------------
(* Every call is exact.                                                    *)

\* What SumsExact says of one call, as a relation of its operands and result.
Exact(op, limbs, x, y, underflow) ==
  LET difference == Value(x) - Value(y) IN
  /\ op \in Sums => Value(limbs) = Value(x) + Value(y)
  /\ op \in Differences => Value(limbs) = difference
  /\ op \in Residues =>
       /\ Value(limbs) = difference % Power(Base, Width(x, y))
       /\ underflow = (difference < 0)

LEMMA SumOfValue ==
  ASSUME NEW x \in Seq(Limb), NEW y \in Seq(Limb), Canonical(x), Canonical(y),
         NEW u \in SumOf(x, y)
  PROVE  Value(u.limbs) = Value(x) + Value(y)
<1>0. Value(x) \in Int /\ Value(y) \in Int
  BY ValueBound, LenProperties
<1>1. CASE x = <<>>
  <2>1. u.limbs = y
    BY <1>1, FreshSound DEF SumOf
  <2> QED BY <1>0, <1>1, <2>1, EmptyValue
<1>2. CASE x # <<>> /\ y = <<>>
  <2>1. u.limbs = x
    BY <1>2, FreshSound DEF SumOf
  <2> QED BY <1>0, <1>2, <2>1, EmptyValue
<1>3. CASE x # <<>> /\ y # <<>>
  <2>1. Total(x, y) \in Seq(Limb)
    BY <1>3, TotalSize
  <2>2. u.limbs = Total(x, y)
    <3>1. CASE Width(x, y) <= Inline
      BY <1>3, <2>1, <3>1, FreshSound DEF SumOf
    <3>2. CASE ~ (Width(x, y) <= Inline)
      BY <1>3, <3>2 DEF SumOf, HeapRepr
    <3> QED BY <3>1, <3>2
  <2> QED BY <2>2, TotalValue
<1> QED BY <1>1, <1>2, <1>3

LEMMA SumIntoValue ==
  ASSUME NEW v, Stored(v),
         NEW x \in Seq(Limb), NEW y \in Seq(Limb), Canonical(x), Canonical(y),
         NEW u \in SumInto(v, x, y)
  PROVE  Value(u.limbs) = Value(x) + Value(y)
<1>0. Value(x) \in Int /\ Value(y) \in Int
  BY ValueBound, LenProperties
<1>1. CASE x = <<>>
  <2>1. u.limbs = y
    BY <1>1, FitsSound DEF SumInto
  <2> QED BY <1>0, <1>1, <2>1, EmptyValue
<1>2. CASE x # <<>> /\ y = <<>>
  <2>1. u.limbs = x
    BY <1>2, FitsSound DEF SumInto
  <2> QED BY <1>0, <1>2, <2>1, EmptyValue
<1>3. CASE x # <<>> /\ y # <<>> /\ v.heap
  <2>1. u.limbs = Total(x, y)
    BY <1>3 DEF SumInto, SumOver, HeapRepr
  <2> QED BY <2>1, TotalValue
<1>4. CASE x # <<>> /\ y # <<>> /\ ~ v.heap
  BY <1>4, SumOfValue DEF SumInto
<1> QED BY <1>1, <1>2, <1>3, <1>4

\* The residue and the borrow, over the columns of the wider operand.
LEMMA ResidueValue ==
  ASSUME NEW x \in Seq(Limb), NEW y \in Seq(Limb)
  PROVE  LET difference == Value(x) - Value(y) IN
         /\ Value(Residue(x, y)) = difference % Power(Base, Width(x, y))
         /\ Underflows(x, y) <=> difference < 0
         /\ ~ Underflows(x, y) => Value(Residue(x, y)) = difference
<1>1. Width(x, y) \in Nat /\ Len(x) <= Width(x, y) /\ Len(y) <= Width(x, y)
  BY WidthFacts
<1> QED BY <1>1, DifferenceValue DEF Residue, Underflows

\* Nothing is subtracted from x: it is its own residue.
LEMMA SubtractNothing ==
  ASSUME NEW x \in Seq(Limb)
  PROVE  LET difference == Value(x) - Value(<<>>) IN
         /\ Value(x) = difference /\ ~ (difference < 0)
         /\ Value(x) = difference % Power(Base, Width(x, <<>>))
<1> DEFINE p == Power(Base, Width(x, <<>>))
<1>1. Width(x, <<>>) \in Nat /\ Len(x) <= Width(x, <<>>)
  BY EmptyFacts, WidthFacts
<1>2. Value(x) \in Nat /\ Value(x) < p /\ p \in Nat
  BY <1>1, ValueBound, WeightType
<1> HIDE DEF p
<1>3. Value(x) - Value(<<>>) = Value(x)
  BY <1>2, EmptyValue
<1>4. Value(x) % p = Value(x)
  BY <1>2
<1> QED BY <1>2, <1>3, <1>4 DEF p

LEMMA DifferenceIntoLimbs ==
  ASSUME NEW v, Stored(v), NEW x \in Seq(Limb), NEW y \in Seq(Limb),
         NEW u \in DifferenceInto(v, x, y)
  PROVE  u.limbs = Residue(x, y)
<1>1. PICK w \in Prepared(v, Width(x, y)) : u = [w EXCEPT !.limbs = Residue(x, y)]
  BY DEF DifferenceInto
<1>2. Stored(w)
  BY <1>1, WidthFacts, PreparedSound
<1> QED BY <1>1, <1>2 DEF Stored

LEMMA DifferenceOfLimbs ==
  ASSUME NEW x \in Seq(Limb), NEW y \in Seq(Limb), NEW u \in DifferenceOf(x, y)
  PROVE  u.limbs = IF y = <<>> THEN x ELSE Residue(x, y)
<1>1. CASE y = <<>>
  BY <1>1, FreshSound DEF DifferenceOf
<1>2. CASE y # <<>>
  BY <1>2 DEF DifferenceOf, InlineRepr, HeapRepr
<1> QED BY <1>1, <1>2

\* Either way of sizing the result gives the residue and the flag.
LEMMA DifferenceExact ==
  ASSUME NEW x \in Seq(Limb), NEW y \in Seq(Limb), NEW limbs,
         limbs = IF y = <<>> THEN x ELSE Residue(x, y), NEW op \in Residues
  PROVE  Exact(op, limbs, x, y, y # <<>> /\ Underflows(x, y))
<1>1. op \notin Sums /\ op \notin Differences
  BY DEF Sums, Differences, Residues
<1>2. CASE y = <<>>
  BY <1>1, <1>2, SubtractNothing DEF Exact
<1>3. CASE y # <<>>
  <2>1. limbs = Residue(x, y)
    BY <1>3
  <2>2. /\ Value(limbs) = (Value(x) - Value(y)) % Power(Base, Width(x, y))
        /\ (y # <<>> /\ Underflows(x, y)) = (Value(x) - Value(y) < 0)
    BY <1>3, <2>1, ResidueValue
  <2> QED BY <1>1, <2>2 DEF Exact
<1> QED BY <1>2, <1>3

\* With the order established, the difference itself.
LEMMA OrderedDifferenceExact ==
  ASSUME NEW x \in Seq(Limb), NEW y \in Seq(Limb), NEW limbs, ~ Underflows(x, y),
         limbs = IF y = <<>> THEN x ELSE Residue(x, y), NEW op \in Differences,
         NEW underflow
  PROVE  Exact(op, limbs, x, y, underflow)
<1>1. op \notin Sums /\ op \notin Residues
  BY DEF Sums, Differences, Residues
<1>2. CASE y = <<>>
  BY <1>1, <1>2, SubtractNothing DEF Exact
<1>3. CASE y # <<>>
  BY <1>1, <1>3, ResidueValue DEF Exact
<1> QED BY <1>2, <1>3

\* A canonical subtrahend that does not underflow is no longer than what it is
\* subtracted from.
LEMMA OrderedIsNoLonger ==
  ASSUME NEW x \in Seq(Limb), NEW y \in Seq(Limb), Canonical(y), ~ Underflows(x, y)
  PROVE  Width(x, y) = Len(x)
<1> SUFFICES ASSUME ~ (Len(x) >= Len(y))  PROVE FALSE
  BY DEF Width
<1> DEFINE n == Len(y)
<1>1. Len(x) \in Nat /\ n \in Nat \ {0} /\ Width(x, y) = n /\ Len(x) < n
  BY LenProperties DEF Width
<1>2. y # <<>>
  BY <1>1, EmptySeq
<1>3. Column(y, n) # 0 /\ Column(x, n) = 0
  BY <1>1, <1>2 DEF Canonical, Column
<1>4. Column(y, n) \in Int /\ 0 <= Column(y, n) /\ BorrowInto(x, y, n) \in {0, 1}
  BY <1>1, ColumnType, LimbBounds, BorrowType
<1>5. BorrowInto(x, y, n + 1) = 1
  <2>1. Column(x, n) - Column(y, n) - BorrowInto(x, y, n) < 0
    <3> DEFINE e == BorrowInto(x, y, n)
               a == Column(y, n)
    <3>1. Column(x, n) = 0 /\ a # 0 /\ a \in Int /\ 0 <= a /\ e \in {0, 1}
      BY <1>3, <1>4
    <3> HIDE DEF e, a, n
    <3>2. 0 - a - e < 0
      BY <3>1
    <3> QED BY <3>1, <3>2 DEF a, e
  <2> QED BY <1>1, <2>1, BorrowRecurrence
<1> QED BY <1>1, <1>5 DEF Underflows, BorrowOut

\* A nonzero value absorbs the borrow of a decrement.
LEMMA DecrementOrdered ==
  ASSUME NEW x \in Seq(Limb), Canonical(x), x # <<>>
  PROVE  ~ Underflows(x, << 1 >>) /\ Width(x, << 1 >>) = Len(x) /\ << 1 >> \in Seq(Limb)
<1> DEFINE n == Len(x)
           a == Column(x, n)
           b == Column(<< 1 >>, n)
           e == BorrowInto(x, << 1 >>, n)
<1>0. << 1 >> \in Seq(Limb)
  <2>1. 1 \in Limb
    BY BaseAssumption DEF Limb
  <2> QED BY <2>1
<1>1. n \in Nat \ {0}
  BY LenProperties, EmptySeq
<1>2. Width(x, << 1 >>) = n
  BY <1>1 DEF Width
<1>3. a \in Int /\ 0 <= a /\ e \in {0, 1}
  BY <1>0, <1>1, ColumnType, LimbBounds, BorrowType
<1>4. a # 0
  BY <1>1 DEF Canonical, Column
<1>5. (b = 1 /\ e = 0) \/ b = 0
  <2>1. CASE n = 1
    BY <2>1, NoBorrowIn DEF Column
  <2>2. CASE n # 1
    BY <1>1, <2>2 DEF Column
  <2> QED BY <2>1, <2>2
<1>6. BorrowInto(x, << 1 >>, n + 1) = IF a - b - e < 0 THEN 1 ELSE 0
  BY <1>0, <1>1, BorrowRecurrence
<1>7. ~ (a - b - e < 0)
  <2> HIDE DEF a, b, e
  <2> QED BY <1>3, <1>4, <1>5
<1> QED BY <1>0, <1>2, <1>6, <1>7 DEF Underflows, BorrowOut

\* Dropping a zero top limb leaves the number.
LEMMA FrontValue ==
  ASSUME NEW d \in Seq(Limb), Len(d) > 0, d[Len(d)] = 0
  PROVE  Value(Front(d)) = Value(d)
<1> DEFINE n == Len(d)
           f == SubSeq(d, 1, n - 1)
<1>1. n \in Nat \ {0}
  BY LenProperties
<1>2. /\ f \in Seq(Limb) /\ Len(f) = n - 1
      /\ \A i \in 1 .. n - 1 : f[i] = d[i]
  <2> DEFINE m == n - 1
  <2>1. m \in 1 - 1 .. Len(d) /\ 1 \in 1 .. Len(d) + 1 /\ m - 1 + 1 = m
    BY <1>1
  <2> HIDE DEF m
  <2>2. /\ SubSeq(d, 1, m) \in Seq(Limb) /\ Len(SubSeq(d, 1, m)) = m
        /\ \A i \in 1 .. m : SubSeq(d, 1, m)[i] = d[i]
    BY <1>1, <2>1, SubSeqProperties
  <2> QED BY <2>2 DEF m
<1> HIDE DEF f
<1>3. ASSUME NEW i \in Nat \ {0} PROVE Column(f, i) = Column(d, i)
  <2>1. CASE i <= n - 1
    BY <1>1, <1>2, <2>1 DEF Column
  <2>2. CASE i = n
    BY <1>1, <1>2, <2>2 DEF Column
  <2>3. CASE i > n
    BY <1>1, <1>2, <2>3 DEF Column
  <2> QED BY <1>1, <2>1, <2>2, <2>3
<1>4. Value(f) = Value(d)
  BY <1>2, <1>3, ValueOfColumns
<1> QED BY <1>4 DEF f, Front

LEMMA DecrementValue ==
  ASSUME NEW x \in Seq(Limb), Canonical(x), x # <<>>
  PROVE  LET difference == DifferenceLimbs(x, << 1 >>, Len(x))
             kept == IF Last(difference) = 0 THEN Front(difference) ELSE difference
         IN  Value(kept) = Value(x) - Value(<< 1 >>)
<1> DEFINE n == Len(x)
           d == DifferenceLimbs(x, << 1 >>, n)
<1>1. /\ << 1 >> \in Seq(Limb) /\ Len(<< 1 >>) <= n /\ n \in Nat \ {0}
      /\ BorrowOut(x, << 1 >>, n) # 1
  <2>1. ~ Underflows(x, << 1 >>) /\ Width(x, << 1 >>) = n /\ << 1 >> \in Seq(Limb)
    BY DecrementOrdered
  <2>2. n \in Nat \ {0}
    BY LenProperties, EmptySeq
  <2> QED BY <2>1, <2>2 DEF Underflows
<1>2. d \in Seq(Limb) /\ Len(d) = n
  BY <1>1, DifferenceLimbsType
<1>3. Value(d) = Value(x) - Value(<< 1 >>)
  <2>1. Len(x) <= n /\ n \in Nat
    BY <1>1
  <2> HIDE DEF n
  <2> QED BY <1>1, <2>1, DifferenceValue
<1>4. Last(d) = d[n]
  BY <1>2 DEF Last
<1> HIDE DEF d
<1>5. d[n] = 0 => Value(Front(d)) = Value(d)
  BY <1>1, <1>2, FrontValue
<1> QED BY <1>3, <1>4, <1>5 DEF d

\* A call that stored v returns v.
LEMMA Returned ==
  ASSUME StorageInv, NEW r \in Regs, NEW v, NEW op, NEW x, NEW y, NEW underflow,
         Store(r, v, FALSE), Returns(op, r, x, y, underflow),
         Exact(op, v.limbs, x, y, underflow)
  PROVE  Exact(call'.op, repr'[call'.reg].limbs, call'.x, call'.y, call'.underflow)
<1>1. repr'[r] = v
  BY DEF Store, StorageInv
<1>2. call' = [op |-> op, reg |-> r, x |-> x, y |-> y, underflow |-> underflow]
  BY DEF Returns
<1>3. /\ call'.op = op /\ call'.reg = r /\ call'.x = x /\ call'.y = y
      /\ call'.underflow = underflow
  BY <1>2
<1>4. repr'[call'.reg].limbs = v.limbs
  BY <1>1, <1>3
<1> QED BY <1>3, <1>4, Zenon

\* Every call is exact, whatever storage it found.
LEMMA CallExact ==
  ASSUME StorageInv, NEW r \in Regs, AdditionStep(r)
  PROVE  Exact(call'.op, repr'[call'.reg].limbs, call'.x, call'.y, call'.underflow)
<1> DEFINE old == repr[r].limbs
           Goal == Exact(call'.op, repr'[call'.reg].limbs, call'.x, call'.y, call'.underflow)
<1>i. Stored(repr[r]) /\ old \in Seq(Limb) /\ (Ready(r) => Canonical(old))
  BY Held DEF Ready
<1>s. \A op \in Sums : op \notin Differences /\ op \notin Residues
  BY DEF Sums, Differences, Residues
<1>1. ASSUME NEW x \in Operands, AddAssign(r, x)  PROVE Goal
  <2>1. PICK v \in SumInto(repr[r], old, x) : Store(r, v, FALSE)
    BY <1>1 DEF AddAssign
  <2>2. Value(v.limbs) = Value(old) + Value(x)
    BY <1>1, <1>i, <2>1, OperandType, SumIntoValue DEF AddAssign
  <2>3. Exact("add_assign", v.limbs, old, x, FALSE)
    BY <1>s, <2>2 DEF Exact, Sums
  <2> QED BY <1>1, <2>1, <2>3, Returned DEF AddAssign
<1>2. ASSUME NEW x \in Operands, NEW y \in Operands, AssignSum(r, x, y)  PROVE Goal
  <2>1. PICK v \in SumInto(repr[r], x, y) : Store(r, v, FALSE)
    BY <1>2 DEF AssignSum
  <2>2. Value(v.limbs) = Value(x) + Value(y)
    BY <1>i, <2>1, OperandType, SumIntoValue
  <2>3. Exact("assign_sum", v.limbs, x, y, FALSE)
    BY <1>s, <2>2 DEF Exact, Sums
  <2> QED BY <1>2, <2>1, <2>3, Returned DEF AssignSum
<1>3. ASSUME NEW x \in Operands, NEW y \in Operands, Add(r, x, y)  PROVE Goal
  <2>1. PICK v \in SumOf(x, y) : Store(r, v, FALSE)
    BY <1>3 DEF Add
  <2>2. Value(v.limbs) = Value(x) + Value(y)
    BY <2>1, OperandType, SumOfValue
  <2>3. Exact("add", v.limbs, x, y, FALSE)
    BY <1>s, <2>2 DEF Exact, Sums
  <2> QED BY <1>3, <2>1, <2>3, Returned DEF Add
<1>4. ASSUME Increment(r)  PROVE Goal
  <2>1. PICK v \in Fits(repr[r], Total(old, << 1 >>)) : Store(r, v, FALSE)
    BY <1>4 DEF Increment
  <2>2. /\ << 1 >> \in Seq(Limb) /\ Canonical(<< 1 >>) /\ << 1 >> # <<>>
    <3>1. 1 \in Limb
      BY BaseAssumption DEF Limb
    <3> QED BY <3>1 DEF Canonical
  <2>3. Total(old, << 1 >>) \in Seq(Limb)
    BY <1>4, <1>i, <2>2, TotalSize DEF Increment
  <2>4. v.limbs = Total(old, << 1 >>)
    BY <1>i, <2>1, <2>3, FitsSound
  <2>5. Value(v.limbs) = Value(old) + Value(<< 1 >>)
    BY <1>i, <2>2, <2>4, TotalValue
  <2>6. Exact("increment", v.limbs, old, << 1 >>, FALSE)
    BY <1>s, <2>5 DEF Exact, Sums
  <2> QED BY <1>4, <2>1, <2>6, Returned DEF Increment
<1>5. ASSUME NEW x \in Operands, SubAssign(r, x)  PROVE Goal
  <2> DEFINE limbs == Normalized(DifferenceLimbs(old, x, Len(old)))
             v == [repr[r] EXCEPT !.limbs = limbs]
  <2>1. Store(r, v, FALSE) /\ ~ Underflows(old, x)
    BY <1>5 DEF SubAssign
  <2>2. v.limbs = limbs
    BY <1>i DEF Stored
  <2>3. limbs = Residue(old, x)
    BY <1>i, <2>1, OperandType, OrderedIsNoLonger DEF Residue
  <2>4. Value(limbs) = Value(old) - Value(x)
    BY <1>i, <2>1, <2>3, OperandType, ResidueValue
  <2> HIDE DEF v, limbs
  <2>5. "sub_assign" \notin Sums /\ "sub_assign" \notin Residues
    BY DEF Sums, Residues
  <2>6. Exact("sub_assign", v.limbs, old, x, FALSE)
    BY <2>2, <2>4, <2>5 DEF Exact
  <2>7. Returns("sub_assign", r, old, x, FALSE)
    BY <1>5 DEF SubAssign
  <2> QED BY <2>1, <2>6, <2>7, Returned
<1>6. ASSUME NEW x \in Operands, SubAssignWithUnderflow(r, x)  PROVE Goal
  <2>1. PICK v \in IF x = <<>> THEN {repr[r]} ELSE DifferenceInto(repr[r], old, x) :
          Store(r, v, FALSE)
    BY <1>6 DEF SubAssignWithUnderflow
  <2>2. v.limbs = IF x = <<>> THEN old ELSE Residue(old, x)
    BY <1>i, <2>1, OperandType, DifferenceIntoLimbs
  <2>3. Exact("sub_assign_with_underflow", v.limbs, old, x, x # <<>> /\ Underflows(old, x))
    BY <1>i, <2>2, OperandType, DifferenceExact DEF Residues
  <2> QED BY <1>6, <2>1, <2>3, Returned DEF SubAssignWithUnderflow
<1>7. ASSUME NEW x \in Operands, NEW y \in Operands, AssignDifference(r, x, y)  PROVE Goal
  <2>1. PICK v \in IF y = <<>> THEN Fits(repr[r], x) ELSE DifferenceInto(repr[r], x, y) :
          Store(r, v, FALSE)
    BY <1>7 DEF AssignDifference
  <2>2. v.limbs = IF y = <<>> THEN x ELSE Residue(x, y)
    BY <1>i, <2>1, OperandType, FitsSound, DifferenceIntoLimbs
  <2>3. Exact("assign_difference", v.limbs, x, y, y # <<>> /\ Underflows(x, y))
    BY <2>2, OperandType, DifferenceExact DEF Residues
  <2> QED BY <1>7, <2>1, <2>3, Returned DEF AssignDifference
<1>8. ASSUME NEW x \in Operands, NEW y \in Operands, Sub(r, x, y)  PROVE Goal
  <2>1. PICK v \in DifferenceOf(x, y) : Store(r, v, FALSE)
    BY <1>8 DEF Sub
  <2>2. v.limbs = IF y = <<>> THEN x ELSE Residue(x, y)
    BY <2>1, OperandType, DifferenceOfLimbs
  <2>3. Exact("sub", v.limbs, x, y, FALSE)
    BY <1>8, <2>2, OperandType, OrderedDifferenceExact DEF Differences, Sub
  <2> QED BY <1>8, <2>1, <2>3, Returned DEF Sub
<1>9. ASSUME NEW x \in Operands, NEW y \in Operands, SubWithUnderflow(r, x, y)  PROVE Goal
  <2>1. PICK v \in DifferenceOf(x, y) : Store(r, v, FALSE)
    BY <1>9 DEF SubWithUnderflow
  <2>2. v.limbs = IF y = <<>> THEN x ELSE Residue(x, y)
    BY <2>1, OperandType, DifferenceOfLimbs
  <2>3. Exact("sub_with_underflow", v.limbs, x, y, y # <<>> /\ Underflows(x, y))
    BY <2>2, OperandType, DifferenceExact DEF Residues
  <2> QED BY <1>9, <2>1, <2>3, Returned DEF SubWithUnderflow
<1>10. ASSUME Decrement(r)  PROVE Goal
  <2> DEFINE difference == DifferenceLimbs(old, << 1 >>, Len(old))
             limbs == IF Last(difference) = 0 THEN Front(difference) ELSE difference
             v == [repr[r] EXCEPT !.limbs = limbs]
  <2>1. Ready(r) /\ old # <<>> /\ Store(r, v, FALSE)
    BY <1>10 DEF Decrement
  <2>2. Value(limbs) = Value(old) - Value(<< 1 >>)
    BY <1>i, <2>1, DecrementValue
  <2>3. v.limbs = limbs
    BY <1>i DEF Stored
  <2> HIDE DEF v, limbs
  <2>4. "decrement" \notin Sums /\ "decrement" \notin Residues
    BY DEF Sums, Residues
  <2>5. Exact("decrement", v.limbs, old, << 1 >>, FALSE)
    BY <2>2, <2>3, <2>4 DEF Exact
  <2>6. Returns("decrement", r, old, << 1 >>, FALSE)
    BY <1>10 DEF Decrement
  <2> QED BY <2>1, <2>5, <2>6, Returned
<1> HIDE DEF Goal
<1>11. Goal
  BY <1>1, <1>2, <1>3, <1>4, <1>5, <1>6, <1>7, <1>8, <1>9, <1>10 DEF AdditionStep
<1> QED BY <1>11 DEF Goal

-----------------------------------------------------------------------------
(* Storage operations leave numbers alone.                                 *)

\* Zeros over the new slots of a longer span leave the number.
LEMMA ZeroExtendedValue ==
  ASSUME NEW x \in Seq(Limb), NEW n \in Nat, Len(x) <= n, NEW y,
         y = [i \in 1 .. n |-> IF Len(x) < i /\ i <= n THEN 0 ELSE WithLength(x, n)[i]]
  PROVE  Value(y) = Value(x)
<1>1. Len(x) \in Nat /\ 0 \in Limb
  BY LenProperties, BaseAssumption DEF Limb
<1>2. \A i \in 1 .. n : WithLength(x, n)[i] = IF i <= Len(x) THEN x[i] ELSE Junk
  BY DEF WithLength
<1>3. \A i \in 1 .. n : y[i] = IF Len(x) < i THEN 0 ELSE x[i]
  BY <1>1, <1>2
<1>4. \A i \in 1 .. n : y[i] \in Limb
  BY <1>1, <1>3, LenProperties
<1>5. y = [i \in 1 .. n |-> y[i]]
  OBVIOUS
<1>6. y \in Seq(Limb) /\ Len(y) = n
  BY <1>4, <1>5, IsASeq, LenProperties
<1>7. ASSUME NEW i \in Nat \ {0} PROVE Column(y, i) = Column(x, i)
  <2>1. CASE i <= Len(x)
    BY <1>1, <1>3, <1>6, <2>1 DEF Column
  <2>2. CASE Len(x) < i /\ i <= n
    BY <1>1, <1>3, <1>6, <2>2 DEF Column
  <2>3. CASE n < i
    BY <1>1, <1>6, <2>3 DEF Column
  <2> QED BY <1>1, <2>1, <2>2, <2>3
<1> QED BY <1>6, <1>7, ValueOfColumns

\* The storage operations that move a value, and what they leave.
LEMMA MovesKeepValue ==
  ASSUME StorageInv, NEW r \in Regs,
         \/ \E n \in 0 .. MaxLimbs :
              Reserve(r, n) \/ PrepareLimbWrite(r, n) \/ TryPrepareReusedHeapLimbs(r, n)
         \/ ShrinkToFit(r) \/ Normalize(r) \/ DropGuard(r)
         \/ InitializeSuffixWithZeroes(r) /\ pending[r].new >= pending[r].old
  PROVE  Value(repr'[r].limbs) = Value(repr[r].limbs)
<1> DEFINE old == repr[r].limbs
<1>i. Stored(repr[r]) /\ old \in Seq(Limb) /\ Len(old) \in Nat
  BY Held
<1>s. \A v, owing : Store(r, v, owing) => repr'[r] = v
  BY DEF Store, StorageInv
<1>b. \A v, n : Borrow(r, v, n) => repr'[r] = v
  BY DEF Borrow, StorageInv
<1>r. \A limbs, owing : Release(r, limbs, owing) => repr'[r].limbs = limbs
  BY DEF Release, StorageInv, Stored
<1>1. ASSUME NEW n \in 0 .. MaxLimbs, Reserve(r, n) \/ PrepareLimbWrite(r, n)
      PROVE  Value(repr'[r].limbs) = Value(old)
  <2>1. PICK m \in Nat : \E v \in Prepared(repr[r], m) : repr'[r] = v
    BY <1>1, <1>i, <1>s, <1>b, Sizes DEF Reserve, PrepareLimbWrite
  <2> QED BY <1>i, <2>1, PreparedSound
<1>2. ASSUME NEW n \in 0 .. MaxLimbs, TryPrepareReusedHeapLimbs(r, n)
      PROVE  Value(repr'[r].limbs) = Value(old)
  BY <1>2, <1>b DEF TryPrepareReusedHeapLimbs
<1>3. CASE ShrinkToFit(r)
  BY <1>3, <1>s DEF ShrinkToFit, HeapRepr
<1>4. CASE Normalize(r)
  <2>1. repr'[r].limbs = Normalized(old)
    BY <1>4, <1>i, <1>s DEF Normalize, Stored
  <2> QED BY <1>i, <2>1, NormalizedValue
<1>5. CASE DropGuard(r)
  BY <1>5, <1>r DEF DropGuard
<1>6. CASE InitializeSuffixWithZeroes(r) /\ pending[r].new >= pending[r].old
  <2> DEFINE n == pending[r].new
             y == [i \in 1 .. n |-> IF Len(old) < i /\ i <= n THEN 0 ELSE WithLength(old, n)[i]]
  <2>1. pending[r].old = Len(old) /\ n \in Nat /\ Len(old) <= n
    BY <1>6, Borrowed DEF InitializeSuffixWithZeroes
  <2>2. repr'[r].limbs = y
    BY <1>6, <1>r, <2>1 DEF InitializeSuffixWithZeroes
  <2> HIDE DEF n
  <2> QED BY <1>i, <2>1, <2>2, ZeroExtendedValue
<1> QED BY <1>1, <1>2, <1>3, <1>4, <1>5, <1>6

\* Storage moves without the number noticing, and in-place operations keep
\* their buffer.
THEOREM StorageMovesSilently == Spec => StorageSteps
<1> DEFINE Keeps ==
      \A r \in Regs :
        (\/ \E n \in 0 .. MaxLimbs :
              Reserve(r, n) \/ PrepareLimbWrite(r, n) \/ TryPrepareReusedHeapLimbs(r, n)
         \/ ShrinkToFit(r) \/ Normalize(r) \/ DropGuard(r)
         \/ InitializeSuffixWithZeroes(r) /\ pending[r].new >= pending[r].old)
        => Value(repr'[r].limbs) = Value(repr[r].limbs)
<1>1. StorageInv /\ [Next]_vars => [Keeps]_vars
  BY MovesKeepValue
<1>2. Spec => StorageKeepsValue
  BY <1>1, StorageInvariant, PTL DEF Spec, StorageKeepsValue
<1> QED BY <1>2, BuffersAreRetained DEF StorageSteps

-----------------------------------------------------------------------------
(* Widths: whole limbs and a partial one.                                  *)

\* The number a width counts to.
Modulus(bits) == Power(2, bits)

\* A width is whole limbs and the bits of a partial one, and so is its modulus.
LEMMA WidthParts ==
  ASSUME NEW bits \in Nat
  PROVE  /\ FullLimbs(bits) \in Nat
         /\ PartialBits(bits) \in Nat /\ PartialBits(bits) < LimbBits
         /\ LimbsFor(bits) = IF PartialBits(bits) = 0 THEN FullLimbs(bits) ELSE FullLimbs(bits) + 1
         /\ Modulus(bits) = Power(Base, FullLimbs(bits)) * Power(2, PartialBits(bits))
<1> DEFINE q == FullLimbs(bits)
           p == PartialBits(bits)
           l == LimbBits
<1>1. l \in Nat \ {0} /\ Base = Power(2, l)
  BY LimbBitsAssumption
<1>2. q \in Int /\ p \in 0 .. l - 1 /\ bits = l * q + p
  BY <1>1 DEF FullLimbs, PartialBits
<1>3. LimbsFor(bits) = (bits + l - 1) \div l
  BY DEF LimbsFor
<1> HIDE DEF q, p, l
<1>4. q \in Nat
  <2> SUFFICES ASSUME q <= -1  PROVE FALSE
    BY <1>2
  <2>1. l * q <= 0 - l /\ l * q \in Int
    BY <1>1, <1>2
  <2> QED BY <1>1, <1>2, <2>1
<1>5. p \in Nat /\ p < l /\ l * q = q * l /\ q * l \in Nat
  BY <1>1, <1>2, <1>4
<1>6. Modulus(bits) = Power(Base, q) * Power(2, p)
  <2>1. bits = q * l + p
    BY <1>2, <1>5
  <2>2. Power(2, q * l + p) = Power(2, q * l) * Power(2, p)
    BY <1>5, PowerSum
  <2>3. Power(Base, q) = Power(2, q * l)
    BY <1>1, <1>4, PowerOfPower
  <2> QED BY <2>1, <2>2, <2>3 DEF Modulus
<1>7. LimbsFor(bits) = IF p = 0 THEN q ELSE q + 1
  <2>1. CASE p = 0
    <3>1. l - 1 \in 0 .. l - 1 /\ bits + l - 1 = q * l + (l - 1) /\ bits + l - 1 \in Int
      BY <1>1, <1>2, <1>5, <2>1
    <3>2. (bits + l - 1) \div l = q
      BY <1>1, <1>4, <3>1, DivisionUnique
    <3> QED BY <1>3, <2>1, <3>2
  <2>2. CASE p # 0
    <3>1. /\ p - 1 \in 0 .. l - 1 /\ bits + l - 1 \in Int /\ q + 1 \in Int
          /\ bits + l - 1 = (q + 1) * l + (p - 1)
      <4>1. (q + 1) * l = q * l + l
        BY <1>1, <1>4
      <4> QED BY <1>1, <1>2, <1>4, <1>5, <2>2, <4>1
    <3>2. (bits + l - 1) \div l = q + 1
      BY <1>1, <3>1, DivisionUnique
    <3> QED BY <1>3, <2>2, <3>2
  <2> QED BY <2>1, <2>2
<1> QED BY <1>4, <1>5, <1>6, <1>7 DEF q, p, l

\* The modulus divides the weight of whole limbs, and the partial limb's divides
\* the base.
LEMMA WidthWeights ==
  ASSUME NEW bits \in Nat
  PROVE  /\ Modulus(bits) \in Nat \ {0}
         /\ Power(2, PartialBits(bits)) \in Nat \ {0}
         /\ PartialBits(bits) # 0 => Power(2, PartialBits(bits)) >= 2
         /\ \E s \in Nat \ {0} : Base = s * Power(2, PartialBits(bits))
         /\ \E s \in Nat \ {0} : Power(Base, LimbsFor(bits)) = s * Modulus(bits)
<1> DEFINE p == PartialBits(bits)
           q == FullLimbs(bits)
           r == Power(2, p)
           s == Power(2, LimbBits - p)
           w == Power(Base, q)
           m == Modulus(bits)
<1>1. /\ q \in Nat /\ p \in Nat /\ p < LimbBits /\ LimbBits \in Nat
      /\ LimbsFor(bits) = IF p = 0 THEN q ELSE q + 1
      /\ m = w * r
  BY WidthParts, LimbBitsAssumption
<1>2. LimbBits - p \in Nat /\ p + (LimbBits - p) = LimbBits
  BY <1>1
<1>3. r \in Nat \ {0} /\ s \in Nat \ {0} /\ w \in Nat \ {0}
  <2>1. Base \in Nat \ {0} /\ 2 \in Nat \ {0}
    BY BaseAssumption
  <2> QED BY <1>1, <1>2, <2>1, PowerFacts
<1>4. Base = s * r
  <2>1. Base = Power(2, p + (LimbBits - p))
    BY <1>2, LimbBitsAssumption
  <2>2. Power(2, p + (LimbBits - p)) = r * s
    <3>1. 2 \in Nat \ {0}
      OBVIOUS
    <3> QED BY <1>1, <1>2, <3>1, PowerSum
  <2>3. r * s = s * r
    BY <1>3
  <2> QED BY <2>1, <2>2, <2>3
<1>5. p # 0 => r >= 2
  <2> SUFFICES ASSUME p # 0  PROVE r >= 2
    OBVIOUS
  <2>1. p - 1 \in Nat /\ (p - 1) + 1 = p /\ 2 \in Nat \ {0}
    BY <1>1
  <2>2. Power(2, (p - 1) + 1) = 2 * Power(2, p - 1) /\ Power(2, p - 1) \in Nat \ {0}
    BY <2>1, PowerFacts
  <2> QED BY <2>1, <2>2
<1>6. Power(Base, LimbsFor(bits)) = w \/ Power(Base, LimbsFor(bits)) = Base * w
  BY <1>1, WeightType
<1>7. p = 0 => r = 1
  BY PowerFacts
<1>8. \E t \in Nat \ {0} : Power(Base, LimbsFor(bits)) = t * m
  <2>1. CASE p = 0
    <3>1. Power(Base, LimbsFor(bits)) = w
      BY <1>1, <2>1
    <3> HIDE DEF w, m, r
    <3>2. w = 1 * m
      BY <1>1, <1>3, <1>7, <2>1
    <3> QED BY <3>1, <3>2
  <2>2. CASE p # 0
    <3>1. Power(Base, LimbsFor(bits)) = Base * w
      BY <1>1, <2>2, WeightType
    <3> HIDE DEF w, m, r, s
    <3>2. (s * r) * w = s * (w * r)
      BY <1>3
    <3>3. Base * w = s * m
      BY <1>1, <1>4, <3>2
    <3> QED BY <1>3, <3>1, <3>3
  <2> QED BY <2>1, <2>2
<1>9. m \in Nat \ {0}
  <2> HIDE DEF w, m, r
  <2> QED BY <1>1, <1>3
<1> HIDE DEF w, m, s
<1> QED BY <1>3, <1>4, <1>5, <1>8, <1>9 DEF m

\* What the mask leaves of a limb.
LEMMA MaskedFacts ==
  ASSUME NEW limb \in Limb, NEW bits \in Nat
  PROVE  /\ Masked(limb, bits) \in Limb
         /\ PartialBits(bits) = 0 => Masked(limb, bits) = limb
         /\ PartialBits(bits) # 0 =>
              /\ Masked(limb, bits) < Power(2, PartialBits(bits))
              /\ \E k \in Nat : limb = k * Power(2, PartialBits(bits)) + Masked(limb, bits)
<1> DEFINE r == Power(2, PartialBits(bits))
<1>1. r \in Nat \ {0}
  BY WidthWeights
<1>2. limb \in Nat /\ limb < Base
  BY LimbBounds
<1> HIDE DEF r
<1>3. CASE PartialBits(bits) = 0
  BY <1>3 DEF Masked
<1>4. CASE PartialBits(bits) # 0
  <2>1. Masked(limb, bits) = limb % r
    BY <1>4 DEF Masked, r
  <2>2. limb % r \in 0 .. r - 1
    BY <1>1, <1>2
  <2>3. PICK k \in Int : limb = k * r + (limb % r) /\ limb % r \in 0 .. r - 1
    <3>1. limb \in Int
      BY <1>2
    <3> QED BY <1>1, <3>1, DivisionExists
  <2>4. k \in Nat
    <3> SUFFICES ASSUME k <= -1  PROVE FALSE
      OBVIOUS
    <3>1. k * r <= 0 - r /\ k * r \in Int
      BY <1>1
    <3> QED BY <1>1, <1>2, <2>2, <2>3, <3>1
  <2>5. limb % r <= limb
    <3>1. k * r \in Nat
      BY <1>1, <2>4
    <3> QED BY <1>2, <2>2, <2>3, <3>1
  <2>6. limb % r \in Limb
    <3>1. limb % r \in Int /\ 0 <= limb % r /\ limb % r <= Base - 1 /\ Base \in Nat
      BY <1>1, <1>2, <2>2, <2>5, BaseAssumption
    <3> QED BY <3>1 DEF Limb
  <2>7. Masked(limb, bits) < r
    BY <1>1, <2>1, <2>2
  <2>8. limb = k * r + Masked(limb, bits)
    BY <2>1, <2>3
  <2>9. \E j \in Nat : limb = j * r + Masked(limb, bits)
    BY <2>4, <2>8
  <2> QED BY <1>4, <2>1, <2>6, <2>7, <2>9 DEF r
<1> QED BY <1>3, <1>4

LEMMA TruncatedType ==
  ASSUME NEW z \in Seq(Limb), NEW bits \in Nat, LimbsFor(bits) <= Len(z)
  PROVE  /\ LimbsFor(bits) \in Nat
         /\ Truncated(z, bits) \in Seq(Limb)
         /\ Len(Truncated(z, bits)) = LimbsFor(bits)
         /\ \A i \in 1 .. LimbsFor(bits) :
              Column(Truncated(z, bits), i)
                = IF i = LimbsFor(bits) THEN Masked(Column(z, i), bits) ELSE Column(z, i)
<1> DEFINE n == LimbsFor(bits)
           t == Truncated(z, bits)
           limb(i) == IF i = n THEN Masked(z[i], bits) ELSE z[i]
<1>1. n \in Nat /\ Len(z) \in Nat
  <2>1. /\ FullLimbs(bits) \in Nat
        /\ n = IF PartialBits(bits) = 0 THEN FullLimbs(bits) ELSE FullLimbs(bits) + 1
    BY WidthParts
  <2> HIDE DEF n
  <2>2. n \in Nat
    BY <2>1
  <2> QED BY <2>2, LenProperties
<1>2. \A i \in 1 .. n : z[i] \in Limb /\ Column(z, i) = z[i]
  BY <1>1, LenProperties DEF Column
<1>3. \A i \in 1 .. n : limb(i) \in Limb
  BY <1>2, MaskedFacts
<1>4. t = [i \in 1 .. n |-> limb(i)]
  BY DEF Truncated
<1> HIDE DEF limb, t, n
<1>5. [i \in 1 .. n |-> limb(i)] \in Seq(Limb)
  BY <1>1, <1>3, IsASeq
<1>6. t \in Seq(Limb) /\ Len(t) = n
  BY <1>1, <1>4, <1>5, LenProperties
<1>7. \A i \in 1 .. n : Column(t, i) = limb(i)
  BY <1>4, <1>6 DEF Column
<1> QED BY <1>1, <1>2, <1>6, <1>7 DEF n, t, limb

\* Cutting a value to a width leaves its residue and discards a multiple of the
\* modulus, which is nothing only when the columns the width keeps are all there
\* are and the mask changes none.
LEMMA TruncatedValue ==
  ASSUME NEW z \in Seq(Limb), NEW bits \in Nat, LimbsFor(bits) <= Len(z)
  PROVE  /\ Value(Truncated(z, bits)) \in 0 .. Modulus(bits) - 1
         /\ \E e \in Nat : Value(z) = Value(Truncated(z, bits)) + e * Modulus(bits)
<1> DEFINE n == LimbsFor(bits)
           q == FullLimbs(bits)
           t == Truncated(z, bits)
           m == Modulus(bits)
           r == Power(2, PartialBits(bits))
           w == Power(Base, q)
           lz == Lowest(z, q)
<1>1. /\ n \in Nat /\ t \in Seq(Limb) /\ Len(t) = n
      /\ \A i \in 1 .. n :
           Column(t, i) = IF i = n THEN Masked(Column(z, i), bits) ELSE Column(z, i)
  BY TruncatedType
<1>2. /\ q \in Nat /\ n = IF PartialBits(bits) = 0 THEN q ELSE q + 1
      /\ m = w * r
  BY WidthParts
<1>3. w \in Nat \ {0} /\ r \in Nat \ {0} /\ m \in Nat \ {0}
  <2>1. w \in Nat /\ w >= 1
    BY <1>2, WeightType
  <2>2. r \in Nat \ {0} /\ m \in Nat \ {0}
    BY WidthWeights
  <2> HIDE DEF w, r, m
  <2> QED BY <2>1, <2>2
<1>4. lz \in Int /\ 0 <= lz /\ lz < w
  BY <1>2, LowestFacts, LowestBound
<1>5. Value(t) = Lowest(t, n)
  BY <1>1 DEF Value
<1>6. \A i \in 1 .. q : Column(t, i) = Column(z, i)
  <2> TAKE i \in 1 .. q
  <2>1. i \in 1 .. n /\ i \in Nat \ {0}
    BY <1>2
  <2>2. CASE i # n
    BY <1>1, <2>1, <2>2
  <2>3. CASE i = n
    <3>1. PartialBits(bits) = 0
      BY <1>2, <2>3
    <3>2. Masked(Column(z, i), bits) = Column(z, i)
      BY <2>1, <3>1, ColumnType, MaskedFacts
    <3> QED BY <1>1, <2>1, <2>3, <3>2
  <2> QED BY <2>2, <2>3
<1> HIDE DEF t
<1>7. Lowest(t, q) = lz
  BY <1>1, <1>2, <1>6, LowestOfColumns
<1>8. CASE PartialBits(bits) = 0
  <2>1. r = 1 /\ n = q
    BY <1>2, <1>8, PowerFacts
  <2>2. m = w
    <3> HIDE DEF m, w, r
    <3> QED BY <1>2, <1>3, <2>1
  <2>3. Value(t) = lz
    BY <1>5, <1>7, <2>1
  <2>4. PICK k \in Nat : Value(z) = lz + k * w
    BY <1>2, ValueSplit
  <2>5. Value(z) = Value(t) + k * m
    BY <2>2, <2>3, <2>4
  <2>6. Value(t) \in 0 .. m - 1
    <3> HIDE DEF m, w, lz
    <3> QED BY <1>3, <1>4, <2>2, <2>3
  <2> QED BY <2>5, <2>6 DEF t
<1>9. CASE PartialBits(bits) # 0
  <2> DEFINE c == Column(z, q + 1)
             d == Masked(c, bits)
  <2>1. n = q + 1 /\ q + 1 \in 1 .. n /\ q + 1 \in Nat \ {0}
    BY <1>2, <1>9
  <2>2. Column(t, q + 1) = d
    BY <1>1, <2>1
  <2>3. c \in Limb
    BY <2>1, ColumnType
  <2>4. d \in Limb /\ d < r /\ \E k \in Nat : c = k * r + d
    BY <1>9, <2>3, MaskedFacts
  <2>5. PICK j \in Nat : c = j * r + d
    BY <2>4
  <2>6. c \in Nat /\ d \in Nat /\ d <= r - 1
    BY <1>3, <2>3, <2>4, LimbBounds
  <2>7. Value(t) = lz + d * w
    BY <1>1, <1>2, <1>5, <1>7, <2>1, <2>2, LowestFacts
  <2>8. PICK k \in Nat : Value(z) = Lowest(z, q + 1) + k * Power(Base, q + 1)
    BY <2>1, ValueSplit
  <2>9. Lowest(z, q + 1) = lz + c * w
    BY <1>2, LowestFacts
  <2>10. PICK s \in Nat \ {0} : Power(Base, q + 1) = s * m
    BY <2>1, WidthWeights
  <2>11. Value(z) = (lz + c * w) + k * (s * m)
    BY <2>8, <2>9, <2>10
  <2> DEFINE e == j + k * s
  <2> HIDE DEF c, d, lz, w, r, m
  <2>12. Value(z) = Value(t) + e * m
    <3>1. c * w = d * w + j * m
      <4>1. c * w = (j * r) * w + d * w
        BY <1>3, <2>5, <2>6
      <4>2. (j * r) * w = j * (w * r)
        BY <1>3
      <4>3. d * w \in Int /\ j * (w * r) \in Int
        BY <1>3, <2>6
      <4> QED BY <1>2, <4>1, <4>2, <4>3
    <3>2. e * m = j * m + k * (s * m)
      BY <1>3
    <3>3. d * w \in Int /\ j * m \in Int /\ k * (s * m) \in Int
      BY <1>3, <2>6
    <3> QED BY <1>4, <2>7, <2>11, <3>1, <3>2, <3>3
  <2>13. Value(t) \in 0 .. m - 1
    <3>1. d * w <= (r - 1) * w /\ d * w \in Nat
      BY <1>3, <2>6
    <3>2. (r - 1) * w = w * r - w /\ w * r \in Int
      BY <1>3
    <3> QED BY <1>2, <1>3, <1>4, <2>7, <3>1, <3>2
  <2>14. e \in Nat
    OBVIOUS
  <2> HIDE DEF e
  <2> QED BY <2>12, <2>13, <2>14 DEF t, m
<1> QED BY <1>8, <1>9

\* ... so that what is left is the residue.
LEMMA TruncatedResidue ==
  ASSUME NEW z \in Seq(Limb), NEW bits \in Nat, LimbsFor(bits) <= Len(z)
  PROVE  Value(Truncated(z, bits)) = Value(z) % Modulus(bits)
<1>1. Modulus(bits) \in Nat \ {0}
  BY WidthWeights
<1>2. Value(z) \in Int
  BY ValueBound, LenProperties
<1>3. PICK e \in Nat : Value(z) = Value(Truncated(z, bits)) + e * Modulus(bits)
  BY TruncatedValue
<1>4. Value(Truncated(z, bits)) \in 0 .. Modulus(bits) - 1
  BY TruncatedValue
<1>5. ASSUME NEW a \in Int, NEW m \in Nat \ {0}, NEW v \in 0 .. m - 1, a = v + e * m
      PROVE  v = a % m
  <2>1. a = e * m + v /\ e \in Int
    <3>1. e * m \in Int
      OBVIOUS
    <3> QED BY <1>5, <3>1
  <2> QED BY <2>1, DivisionUnique
<1> QED BY <1>1, <1>2, <1>3, <1>4, <1>5

\* A limb of a register's value is its column.
LEMMA ColumnOfLimb ==
  ASSUME NEW x \in Seq(Limb), NEW i \in 1 .. Len(x)
  PROVE  Column(x, i) = x[i] /\ x[i] \in Limb /\ i \in Nat \ {0}
BY LenProperties DEF Column

\* A value no longer than the whole limbs of a width is below its modulus.
LEMMA ShortIsBelow ==
  ASSUME NEW x \in Seq(Limb), NEW bits \in Nat, Len(x) <= FullLimbs(bits)
  PROVE  Value(x) \in Nat /\ Value(x) < Modulus(bits)
<1> DEFINE w == Power(Base, FullLimbs(bits))
           r == Power(2, PartialBits(bits))
<1>1. FullLimbs(bits) \in Nat /\ Modulus(bits) = w * r
  BY WidthParts
<1>2. Value(x) \in Nat /\ Value(x) < w
  BY <1>1, ValueBound
<1>3. r \in Nat \ {0}
  BY WidthWeights
<1>4. w \in Nat
  BY <1>1, WeightType
<1> HIDE DEF w, r
<1>5. w <= w * r /\ w * r \in Nat
  BY <1>3, <1>4
<1> QED BY <1>1, <1>2, <1>4, <1>5

\* How many limbs a width keeps of a value that is longer than its whole limbs.
LEMMA KeptLimbs ==
  ASSUME NEW x \in Seq(Limb), NEW bits \in Nat, ~ (FullLimbs(bits) >= Len(x))
  PROVE  /\ LimbsFor(bits) \in Nat /\ Len(x) \in Nat /\ FullLimbs(bits) \in Nat
         /\ LimbsFor(bits) <= Len(x) /\ FullLimbs(bits) < Len(x)
<1> DEFINE q == FullLimbs(bits)
<1>1. q \in Nat /\ LimbsFor(bits) = IF PartialBits(bits) = 0 THEN q ELSE q + 1
  BY WidthParts
<1>2. Len(x) \in Nat
  BY LenProperties
<1> HIDE DEF q
<1> QED BY <1>1, <1>2 DEF q

\* Reduction: what is left is a value no longer than before, and the residue.
LEMMA WrappedSound ==
  ASSUME NEW x \in Seq(Limb), Canonical(x), NEW bits \in Nat
  PROVE  /\ Wrapped(x, bits) \in Seq(Limb) /\ Canonical(Wrapped(x, bits))
         /\ Len(Wrapped(x, bits)) \in Nat /\ Len(Wrapped(x, bits)) <= Len(x)
         /\ Value(Wrapped(x, bits)) = Value(x) % Modulus(bits)
<1>1. CASE FullLimbs(bits) >= Len(x)
  <2>1. Wrapped(x, bits) = x /\ Len(x) \in Nat
    BY <1>1, LenProperties DEF Wrapped
  <2>2. Value(x) \in Nat /\ Value(x) < Modulus(bits) /\ Modulus(bits) \in Nat
    <3>1. Len(x) <= FullLimbs(bits)
      BY <1>1, WidthParts, LenProperties
    <3>2. Modulus(bits) \in Nat \ {0}
      BY WidthWeights
    <3> QED BY <3>1, <3>2, ShortIsBelow
  <2>3. Value(x) % Modulus(bits) = Value(x)
    BY <2>2
  <2> QED BY <2>1, <2>3
<1>2. CASE ~ (FullLimbs(bits) >= Len(x))
  <2> DEFINE t == Truncated(x, bits)
  <2>1. LimbsFor(bits) <= Len(x) /\ Len(x) \in Nat /\ LimbsFor(bits) \in Nat
    BY <1>2, KeptLimbs
  <2>2. t \in Seq(Limb) /\ Len(t) = LimbsFor(bits)
    BY <2>1, TruncatedType
  <2>3. Value(t) = Value(x) % Modulus(bits)
    BY <2>1, TruncatedResidue
  <2> HIDE DEF t
  <2>4. /\ Normalized(t) \in Seq(Limb) /\ Len(Normalized(t)) <= Len(t)
        /\ Canonical(Normalized(t)) /\ Value(Normalized(t)) = Value(t)
        /\ Len(Normalized(t)) \in Nat
    BY <2>2, NormalizedFacts, NormalizedValue, LenProperties
  <2>5. Wrapped(x, bits) = Normalized(t)
    BY <1>2 DEF Wrapped, t
  <2> QED BY <2>1, <2>2, <2>3, <2>4, <2>5
<1> QED BY <1>1, <1>2

\* ... and bits are discarded exactly when the value is not its own residue.
LEMMA DiscardsExact ==
  ASSUME NEW x \in Seq(Limb), Canonical(x), NEW bits \in Nat
  PROVE  Discards(x, bits) <=> Value(x) >= Modulus(bits)
<1> DEFINE q == FullLimbs(bits)
           n == LimbsFor(bits)
           m == Modulus(bits)
           w == Power(Base, q)
           r == Power(2, PartialBits(bits))
<1>m. m \in Nat \ {0} /\ Value(x) \in Nat
  <2>1. m \in Nat \ {0}
    BY WidthWeights
  <2>2. Value(x) \in Nat
    BY ValueBound, LenProperties
  <2> HIDE DEF m
  <2> QED BY <2>1, <2>2
<1>1. CASE q >= Len(x)
  <2>1. q \in Nat /\ Len(x) \in Nat /\ Len(x) <= q
    BY <1>1, WidthParts, LenProperties
  <2>2. Value(x) < m
    BY <2>1, ShortIsBelow
  <2>3. ~ Discards(x, bits)
    BY <2>1 DEF Discards
  <2> HIDE DEF m
  <2>4. ~ (Value(x) >= m)
    BY <1>m, <2>2
  <2> QED BY <2>3, <2>4 DEF m
<1>2. CASE ~ (q >= Len(x))
  <2>1. n \in Nat /\ Len(x) \in Nat /\ q \in Nat /\ n <= Len(x) /\ q < Len(x)
    BY <1>2, KeptLimbs
  <2>2. n = (IF PartialBits(bits) = 0 THEN q ELSE q + 1) /\ m = w * r
    BY WidthParts
  <2>3. CASE PartialBits(bits) = 0
    <3>1. Discards(x, bits)
      BY <2>1, <2>3 DEF Discards
    <3>2. r = 1
      BY <2>3, PowerFacts
    <3>3. w \in Nat /\ Value(x) >= w
      BY <2>1, WeightType, ValueOfCanonical
    <3>4. m = w
      <4> HIDE DEF m, w, r
      <4> QED BY <2>2, <3>2, <3>3
    <3> QED BY <3>1, <3>3, <3>4
  <2>4. CASE PartialBits(bits) # 0 /\ n < Len(x)
    <3>1. Discards(x, bits)
      BY <2>1, <2>4 DEF Discards
    <3>2. Value(x) >= Power(Base, n)
      BY <2>1, <2>4, ValueOfCanonical
    <3>3. PICK s \in Nat \ {0} : Power(Base, n) = s * m
      BY WidthWeights
    <3> HIDE DEF m
    <3>4. s * m >= m /\ s * m \in Nat
      BY <1>m, <3>3
    <3>5. Value(x) >= m
      BY <1>m, <3>2, <3>3, <3>4
    <3> QED BY <3>1, <3>5 DEF m
  <2>5. CASE PartialBits(bits) # 0 /\ n = Len(x)
    <3> DEFINE t == Truncated(x, bits)
               c == x[n]
               d == Masked(c, bits)
               lx == Lowest(x, q)
    <3>1. n = q + 1 /\ n \in 1 .. Len(x)
      BY <2>1, <2>2, <2>5
    <3>2. Discards(x, bits) <=> d # c
      BY <2>1, <2>5 DEF Discards
    <3>3. c \in Limb /\ Column(x, n) = c
      BY <3>1, ColumnOfLimb
    <3>4. d \in Limb /\ \E k \in Nat : c = k * r + d
      BY <2>5, <3>3, MaskedFacts
    <3>5. PICK e \in Nat : Value(x) = Value(t) + e * m
      BY <2>5, <2>1, TruncatedValue
    <3>6. Value(t) \in 0 .. m - 1
      BY <2>5, <2>1, TruncatedValue
    <3>7. /\ t \in Seq(Limb) /\ Len(t) = n
          /\ \A i \in 1 .. n :
               Column(t, i) = IF i = n THEN Masked(Column(x, i), bits) ELSE Column(x, i)
      BY <2>5, <2>1, TruncatedType
    <3> HIDE DEF t
    <3>8. Lowest(t, q) = lx
      <4>1. ASSUME NEW i \in 1 .. q  PROVE Column(t, i) = Column(x, i)
        <5>1. i \in 1 .. n /\ i # n
          BY <2>1, <3>1
        <5> QED BY <3>7, <5>1
      <4> QED BY <2>1, <3>7, <4>1, LowestOfColumns
    <3>9. Column(t, n) = d
      BY <3>1, <3>3, <3>7
    <3>10. Value(t) = lx + d * w
      BY <2>1, <3>1, <3>7, <3>8, <3>9, LowestFacts DEF Value
    <3>11. Value(x) = lx + c * w
      BY <2>1, <2>5, <3>1, <3>3, LowestFacts DEF Value
    <3>12. w \in Nat \ {0} /\ r \in Nat \ {0} /\ lx \in Int
      <4>1. w \in Nat /\ w >= 1
        BY <2>1, WeightType
      <4>2. r \in Nat \ {0} /\ lx \in Int
        BY <2>1, WidthWeights, LowestFacts
      <4> HIDE DEF w, r
      <4> QED BY <4>1, <4>2
    <3>13. PICK k \in Nat : c = k * r + d
      BY <3>4
    <3>14. c \in Nat /\ d \in Nat
      BY <3>3, <3>4, LimbBounds
    <3> HIDE DEF c, d, w, r, lx, m
    <3>15. CASE d = c
      <4>1. Value(x) = Value(t)
        BY <3>10, <3>11, <3>15
      <4> QED BY <1>m, <3>2, <3>6, <3>15, <4>1 DEF m
    <3>16. CASE d # c
      <4>1. d < c
        <5>1. k * r \in Nat
          BY <3>12
        <5> QED BY <3>13, <3>14, <3>16, <5>1
      <4>2. d * w < c * w /\ d * w \in Int /\ c * w \in Int
        BY <3>12, <3>14, <4>1
      <4>3. Value(t) < Value(x)
        BY <3>10, <3>11, <3>12, <4>2
      <4>4. e # 0
        BY <3>5, <3>6, <1>m, <4>3
      <4>5. e * m >= m /\ e * m \in Nat
        BY <1>m, <4>4
      <4>6. Value(x) >= m
        BY <1>m, <3>5, <3>6, <4>5
      <4> QED BY <3>2, <3>16, <4>6 DEF m
    <3> QED BY <3>15, <3>16
  <2> QED BY <2>1, <2>3, <2>4, <2>5
<1> QED BY <1>1, <1>2

-----------------------------------------------------------------------------
(* The additive inverse.                                                   *)

\* Columns of zeros stand for zero.
LEMMA ZeroColumns ==
  ASSUME NEW x \in Seq(Limb), NEW n \in Nat, \A i \in 1 .. n : Column(x, i) = 0
  PROVE  Lowest(x, n) = 0
<1>1. ASSUME NEW e \in Seq(Limb), Len(e) = 0, Value(e) = 0  PROVE Lowest(x, n) = 0
  <2>1. \A i \in 1 .. n : Column(e, i) = Column(x, i)
    BY <1>1 DEF Column
  <2>2. Lowest(e, n) = Value(e)
    <3>1. n >= Len(e)
      BY <1>1
    <3>2. \A k \in Nat : k >= Len(e) => Lowest(e, k) = Value(e)
      BY LowestBeyond
    <3> QED BY <3>1, <3>2
  <2>3. Lowest(x, n) = Lowest(e, n)
    BY <2>1, LowestOfColumns
  <2> QED BY <1>1, <2>2, <2>3
<1> QED BY <1>1, EmptyFacts, EmptyValue

\* first is the lowest limb of x that is not zero.
LowestLimb(x, first) ==
  /\ first \in 1 .. Len(x) /\ x[first] # 0
  /\ \A i \in 1 .. first - 1 : x[i] = 0

LEMMA NegatedType ==
  ASSUME NEW x \in Seq(Limb), NEW first, LowestLimb(x, first)
  PROVE  /\ \A i \in Nat \ {0} : Negated(x, first, i) \in Limb
         /\ Negated(x, first, first) = Base - x[first]
<1>1. /\ first \in 1 .. Len(x) /\ x[first] \in Limb /\ x[first] # 0
      /\ first \in Nat \ {0} /\ Len(x) \in Nat
  BY LenProperties DEF LowestLimb
<1>2. x[first] \in Int /\ 0 < x[first] /\ x[first] <= Base - 1 /\ Base \in Nat
  BY <1>1, LimbBounds
<1>3. Negated(x, first, first) = WrappingNeg(x[first])
  BY <1>1 DEF Negated
<1>4. (Base - x[first]) % Base = Base - x[first]
  BY <1>2
<1>5. Base - x[first] \in Limb
  BY <1>2 DEF Limb
<1>6. ASSUME NEW i \in Nat \ {0}  PROVE Negated(x, first, i) \in Limb
  <2>1. CASE i < first
    <3>1. Negated(x, first, i) = 0
      BY <1>1, <2>1 DEF Negated
    <3> QED BY <3>1, Sizes
  <2>2. CASE i = first
    BY <1>3, <1>4, <1>5, <2>2 DEF WrappingNeg
  <2>3. CASE i > first
    <3>1. Negated(x, first, i) = Complement(Column(x, i))
      BY <1>1, <2>3 DEF Negated
    <3>2. Column(x, i) \in Limb
      BY ColumnType
    <3> QED BY <3>1, <3>2, LimbBounds DEF Complement, LimbMax, Limb
  <2> QED BY <1>1, <2>1, <2>2, <2>3
<1> QED BY <1>3, <1>4, <1>6 DEF WrappingNeg

\* The lowest columns of the inverse: what they lack of the weight above them.
LEMMA NegatedColumns ==
  ASSUME NEW x \in Seq(Limb), NEW first, LowestLimb(x, first),
         NEW z \in Seq(Limb), NEW m \in Nat,
         \A i \in 1 .. m : Column(z, i) = Negated(x, first, i)
  PROVE  \A n \in Nat : first <= n /\ n <= m => Lowest(z, n) = Power(Base, n) - Lowest(x, n)
<1> DEFINE T == {n \in Nat : first <= n /\ n <= m =>
                               Lowest(z, n) = Power(Base, n) - Lowest(x, n)}
<1>1. /\ first \in Nat \ {0} /\ first \in 1 .. Len(x) /\ first - 1 \in Nat
      /\ (first - 1) + 1 = first
      /\ \A i \in 1 .. first - 1 : x[i] = 0
  BY LenProperties DEF LowestLimb
<1>2. 0 \in T
  BY <1>1
<1>3. ASSUME NEW n \in Nat, n \in T PROVE n + 1 \in T
  <2> SUFFICES ASSUME first <= n + 1, n + 1 <= m
               PROVE  Lowest(z, n + 1) = Power(Base, n + 1) - Lowest(x, n + 1)
    OBVIOUS
  <2> DEFINE p == Power(Base, n)
             a == Column(x, n + 1)
             b == Column(z, n + 1)
             lx == Lowest(x, n)
             lz == Lowest(z, n)
  <2>1. n + 1 \in 1 .. m /\ n + 1 \in Nat \ {0}
    OBVIOUS
  <2>2. a \in Int /\ b \in Int /\ p \in Nat /\ lx \in Int /\ lz \in Int /\ Base \in Nat
    <3>1. a \in Limb /\ b \in Limb
      BY <2>1, ColumnType
    <3>2. a \in Int /\ b \in Int /\ Base \in Nat
      BY <3>1, LimbBounds
    <3> QED BY <3>2, WeightType, LowestFacts
  <2>3. b = Negated(x, first, n + 1)
    BY <2>1
  <2>4. /\ Lowest(z, n + 1) = lz + b * p
        /\ Lowest(x, n + 1) = lx + a * p
        /\ Power(Base, n + 1) = Base * p
    BY LowestFacts, WeightType
  <2>5. CASE first = n + 1
    <3>1. b = Base - a
      <4>1. Column(x, first) = x[first]
        BY <1>1, ColumnOfLimb
      <4> QED BY <2>3, <2>5, <4>1, NegatedType
    <3>2. lx = 0
      <4>1. \A i \in 1 .. n : Column(x, i) = 0
        <5> TAKE i \in 1 .. n
        <5>1. i \in 1 .. first - 1 /\ i \in 1 .. Len(x)
          BY <1>1, <2>5, LenProperties
        <5> QED BY <1>1, <5>1, ColumnOfLimb
      <4> QED BY <4>1, ZeroColumns
    <3>3. lz = 0
      <4>1. \A i \in 1 .. n : Column(z, i) = 0
        <5> TAKE i \in 1 .. n
        <5>1. i \in 1 .. m /\ i < first
          BY <2>5
        <5> QED BY <5>1 DEF Negated
      <4> QED BY <4>1, ZeroColumns
    <3> HIDE DEF p, a, b, lx, lz
    <3>4. (Base - a) * p = Base * p - a * p /\ Base * p \in Int /\ a * p \in Int
      BY <2>2
    <3> QED BY <2>4, <3>1, <3>2, <3>3, <3>4
  <2>6. CASE first # n + 1
    <3>1. first <= n /\ n <= m /\ n + 1 > first
      BY <1>1, <2>6
    <3>2. lz = p - lx
      BY <1>3, <3>1
    <3>3. b = Base - 1 - a
      BY <2>3, <3>1, <1>1 DEF Negated, Complement, LimbMax
    <3> HIDE DEF p, a, b, lx, lz
    <3>4. /\ (Base - 1 - a) * p = Base * p - p - a * p
          /\ Base * p \in Int /\ a * p \in Int
      BY <2>2
    <3> QED BY <2>2, <2>4, <3>2, <3>3, <3>4
  <2> QED BY <2>5, <2>6
<1>4. \A n \in Nat : n \in T
  <2> HIDE DEF T
  <2> QED BY <1>2, <1>3, SetInduction
<1> QED BY <1>4

LEMMA WidthType == \A bits \in Nat : LimbsFor(bits) \in Nat
<1> TAKE bits \in Nat
<1>1. /\ FullLimbs(bits) \in Nat
      /\ LimbsFor(bits) = IF PartialBits(bits) = 0 THEN FullLimbs(bits) ELSE FullLimbs(bits) + 1
  BY WidthParts
<1> QED BY <1>1

\* A full limb does not mask to zero.
LEMMA MaskedMax == ASSUME NEW bits \in Nat PROVE Masked(LimbMax, bits) # 0
<1> DEFINE r == Power(2, PartialBits(bits))
<1>1. LimbMax \in Limb /\ LimbMax = Base - 1 /\ Base \in Nat /\ Base >= 2
  BY BaseAssumption DEF LimbMax, Limb
<1>2. CASE PartialBits(bits) = 0
  BY <1>1, <1>2, MaskedFacts
<1>3. CASE PartialBits(bits) # 0
  <2> SUFFICES ASSUME Masked(LimbMax, bits) = 0  PROVE FALSE
    OBVIOUS
  <2>1. r \in Nat /\ r >= 2
    BY <1>3, WidthWeights
  <2>2. \E s \in Nat \ {0} : Base = s * r
    BY WidthWeights
  <2>3. PICK s \in Nat : Base = s * r
    BY <2>2
  <2>4. \E k \in Nat : LimbMax = k * r + Masked(LimbMax, bits)
    BY <1>1, <1>3, MaskedFacts
  <2>5. PICK k \in Nat : LimbMax = k * r + Masked(LimbMax, bits)
    BY <2>4
  <2> HIDE DEF r
  <2>6. s * r - k * r = 1 /\ s * r \in Int /\ k * r \in Int
    BY <1>1, <2>1, <2>3, <2>5
  <2>7. (s - k) * r = 1
    BY <2>1, <2>6
  <2>8. CASE s - k >= 1
    <3>1. (s - k) * r >= r
      BY <2>1, <2>8
    <3> QED BY <2>1, <2>7, <3>1
  <2>9. CASE s - k <= 0
    <3>1. (s - k) * r <= 0
      BY <2>1, <2>9
    <3> QED BY <2>7, <3>1
  <2> QED BY <2>8, <2>9
<1> QED BY <1>2, <1>3

\* Limbs given by their columns are a sequence with these columns.
LEMMA SequenceOf ==
  ASSUME NEW n \in Nat, NEW f, \A i \in 1 .. n : f[i] \in Limb, NEW y,
         y = [i \in 1 .. n |-> f[i]]
  PROVE  y \in Seq(Limb) /\ Len(y) = n /\ \A i \in 1 .. n : Column(y, i) = f[i]
<1>1. y \in Seq(Limb)
  BY IsASeq
<1>2. Len(y) = n
  BY <1>1, LenProperties
<1> QED BY <1>1, <1>2 DEF Column

\* Dropping columns of zeros from the top leaves the number.
LEMMA ShortenedSound ==
  ASSUME NEW t \in Seq(Limb), NEW n \in 0 .. Len(t), NEW y,
         y = [i \in 1 .. n |-> t[i]],
         \A i \in n + 1 .. Len(t) : t[i] = 0,
         n > 0 => t[n] # 0
  PROVE  y \in Seq(Limb) /\ Canonical(y) /\ Value(y) = Value(t)
<1>1. Len(t) \in Nat /\ n \in Nat /\ \A i \in 1 .. Len(t) : t[i] \in Limb
  BY LenProperties
<1>2. /\ y \in Seq(Limb) /\ Len(y) = n /\ \A i \in 1 .. n : Column(y, i) = t[i]
  BY <1>1, SequenceOf
<1>3. ASSUME NEW i \in Nat \ {0} PROVE Column(y, i) = Column(t, i)
  <2>1. CASE i <= n
    BY <1>1, <1>2, <2>1 DEF Column
  <2>2. CASE ~ (i <= n)
    BY <1>1, <1>2, <2>2 DEF Column
  <2> QED BY <2>1, <2>2
<1>4. Canonical(y)
  <2> SUFFICES ASSUME y # <<>>  PROVE y[Len(y)] # 0
    BY DEF Canonical
  <2>1. n > 0
    BY <1>1, <1>2, EmptySeq
  <2>2. y[n] = t[n]
    BY <2>1, <1>1
  <2> QED BY <1>2, <2>1, <2>2
<1> QED BY <1>2, <1>3, <1>4, ValueOfColumns

\* Where the retained columns that are not zero begin.
LEMMA LowestRetained ==
  ASSUME NEW x \in Seq(Limb), NEW bits \in Nat, Nonzero(x, bits) # {}
  PROVE  /\ LowestLimb(x, Min(Nonzero(x, bits)))
         /\ Min(Nonzero(x, bits)) <= LimbsFor(bits)
<1> DEFINE S == Nonzero(x, bits)
           n == LimbsFor(bits)
           first == Min(S)
<1>1. n \in Nat /\ Len(x) \in Nat
  BY WidthType, LenProperties
<1>2. S = {i \in 1 .. Len(x) : i <= n /\ x[i] # 0}
  BY DEF Nonzero
<1> HIDE DEF S, n
<1>3. S \subseteq Nat
  BY <1>1, <1>2
<1>4. S # {}
  BY DEF S
<1>5. first \in S /\ \A i \in S : first <= i
  BY <1>3, <1>4, LeastOf
<1> HIDE DEF first
<1>6. first \in 1 .. Len(x) /\ first <= n /\ x[first] # 0
  BY <1>2, <1>5
<1>7. ASSUME NEW i \in 1 .. first - 1  PROVE x[i] = 0
  <2> SUFFICES ASSUME x[i] # 0  PROVE FALSE
    OBVIOUS
  <2>1. i \in 1 .. Len(x) /\ i <= n /\ ~ (first <= i)
    BY <1>1, <1>6
  <2>2. i \in S
    BY <1>2, <2>1
  <2> QED BY <1>5, <2>1, <2>2
<1> QED BY <1>6, <1>7 DEF LowestLimb, first, S, n

\* The columns of the inverse before its high zeros are dropped.
InverseColumns(x, first, bits) ==
  Truncated([i \in 1 .. LimbsFor(bits) |-> Negated(x, first, i)], bits)

LEMMA InverseType ==
  ASSUME NEW x \in Seq(Limb), NEW bits \in Nat, NEW first, LowestLimb(x, first),
         first <= LimbsFor(bits)
  PROVE  LET t == InverseColumns(x, first, bits)
             n == LimbsFor(bits)
         IN  /\ n \in Nat /\ t \in Seq(Limb) /\ Len(t) = n
             /\ \A i \in 1 .. n : t[i] = IF i = n THEN Masked(Negated(x, first, i), bits)
                                         ELSE Negated(x, first, i)
             /\ Value(t) = (0 - Value(x)) % Modulus(bits)
<1> DEFINE n == LimbsFor(bits)
           f == [i \in 1 .. n |-> Negated(x, first, i)]
           m == Modulus(bits)
<1>1. n \in Nat /\ first \in Nat /\ first >= 1
  BY WidthType, LenProperties DEF LowestLimb
<1>2. \A i \in 1 .. n : f[i] \in Limb /\ f[i] = Negated(x, first, i)
  <2> TAKE i \in 1 .. n
  <2>1. i \in Nat \ {0}
    BY <1>1
  <2> QED BY <2>1, NegatedType
<1>3. f = [i \in 1 .. n |-> f[i]]
  OBVIOUS
<1>4. InverseColumns(x, first, bits) = Truncated(f, bits)
  BY DEF InverseColumns
<1> HIDE DEF f
<1>5. f \in Seq(Limb) /\ Len(f) = n /\ \A i \in 1 .. n : Column(f, i) = f[i]
  BY <1>1, <1>2, <1>3, SequenceOf, SMTT(30)
<1> DEFINE t == Truncated(f, bits)
<1>6. LimbsFor(bits) <= Len(f)
  BY <1>1, <1>5
<1>7. /\ t \in Seq(Limb) /\ Len(t) = n
      /\ \A i \in 1 .. n :
           Column(t, i) = IF i = n THEN Masked(Column(f, i), bits) ELSE Column(f, i)
  BY <1>5, <1>6, TruncatedType
<1>8. Value(t) = Value(f) % m
  BY <1>5, <1>6, TruncatedResidue
<1> HIDE DEF t
<1>9. \A i \in 1 .. n : t[i] = IF i = n THEN Masked(Negated(x, first, i), bits)
                              ELSE Negated(x, first, i)
  <2> TAKE i \in 1 .. n
  <2>1. Column(t, i) = t[i]
    BY <1>1, <1>7 DEF Column
  <2> QED BY <1>2, <1>5, <1>7, <2>1
<1> DEFINE w == Power(Base, n)
           lx == Lowest(x, n)
<1>10. Value(f) = w - lx
  <2>1. \A i \in 1 .. n : Column(f, i) = Negated(x, first, i)
    BY <1>2, <1>5
  <2>2. Lowest(f, n) = w - lx
    BY <1>1, <1>5, <2>1, NegatedColumns
  <2> QED BY <1>5, <2>2 DEF Value
<1>11. PICK k \in Nat : Value(x) = lx + k * w
  BY <1>1, ValueSplit
<1>12. PICK s \in Nat \ {0} : w = s * m
  BY WidthWeights
<1>13. lx \in Int /\ m \in Nat \ {0}
  BY <1>1, LowestFacts, WidthWeights
<1> HIDE DEF w, lx, m
<1>14. Value(f) % m = (0 - Value(x)) % m
  <2> DEFINE a == 0 - Value(x)
             b == Value(f)
             j == (1 + k) * s
  <2>1. w \in Int /\ k * w \in Int
    BY <1>12, <1>13
  <2>2. a \in Int /\ b \in Int /\ j \in Int
    BY <1>10, <1>11, <1>13, <2>1
  <2>3. b = a + j * m
    <3>1. (1 + k) * w = w + k * w
      BY <2>1
    <3>2. ((1 + k) * s) * m = (1 + k) * (s * m)
      BY <1>13
    <3> QED BY <1>10, <1>11, <1>12, <1>13, <2>1, <3>1, <3>2
  <2> HIDE DEF a, b, j
  <2>4. b % m = a % m
    BY <1>13, <2>2, <2>3, RemainderShift
  <2> QED BY <2>4 DEF a, b
<1> QED BY <1>1, <1>4, <1>7, <1>8, <1>9, <1>14 DEF t, m

\* final_len drops only zeros, and all of them.
LEMMA FinalLength ==
  ASSUME NEW x \in Seq(Limb), NEW bits \in Nat, NEW first, LowestLimb(x, first),
         first <= LimbsFor(bits)
  PROVE  LET t == InverseColumns(x, first, bits)
             k == NegatedLen(x, first, bits)
         IN  /\ k \in 0 .. LimbsFor(bits)
             /\ \A i \in k + 1 .. LimbsFor(bits) : t[i] = 0
             /\ k > 0 => t[k] # 0
<1> DEFINE n == LimbsFor(bits)
           t == InverseColumns(x, first, bits)
           k == NegatedLen(x, first, bits)
<1>1. /\ n \in Nat /\ Len(t) = n
      /\ \A i \in 1 .. n : t[i] = IF i = n THEN Masked(Negated(x, first, i), bits)
                                  ELSE Negated(x, first, i)
  BY InverseType
<1>2. /\ first \in Nat /\ first >= 1 /\ first <= n /\ Len(x) \in Nat /\ first <= Len(x)
      /\ n \in 1 .. n
  BY <1>1, LenProperties DEF LowestLimb
<1>3. t[n] = Masked(Negated(x, first, n), bits)
  BY <1>1, <1>2
<1>4. k = IF n > Len(x) \/ t[n] # 0 THEN n
          ELSE IF n = first THEN 0
          ELSE Max({i \in first .. n - 1 : i = first \/ x[i] # LimbMax})
  BY <1>3 DEF NegatedLen
<1>5. ASSUME n > Len(x)  PROVE t[n] # 0
  <2>1. Column(x, n) = 0 /\ n > first
    BY <1>2, <1>5 DEF Column
  <2>2. Negated(x, first, n) = LimbMax
    BY <1>2, <2>1, BaseAssumption DEF Negated, Complement, LimbMax
  <2> QED BY <1>3, <2>2, MaskedMax
<1> HIDE DEF t, k, n
<1>6. CASE n > Len(x) \/ t[n] # 0
  <2>1. k = n
    BY <1>4, <1>6
  <2> QED BY <1>1, <1>5, <1>6, <2>1 DEF t, k, n
<1>7. CASE ~ (n > Len(x) \/ t[n] # 0) /\ n = first
  <2>1. k = 0
    BY <1>4, <1>7
  <2>2. ASSUME NEW i \in 1 .. n  PROVE t[i] = 0
    <3>1. CASE i = n
      BY <1>7, <3>1
    <3>2. CASE i # n
      <4>1. i < first
        BY <1>1, <1>7, <3>2
      <4> QED BY <1>1, <3>2, <4>1 DEF Negated
    <3> QED BY <3>1, <3>2
  <2> QED BY <1>1, <2>1, <2>2 DEF t, k, n
<1>8. CASE ~ (n > Len(x) \/ t[n] # 0) /\ n # first
  <2> DEFINE S == {i \in first .. n - 1 : i = first \/ x[i] # LimbMax}
  <2>1. k = Max(S)
    BY <1>4, <1>8
  <2>2. S \subseteq 0 .. n /\ first \in S
    BY <1>1, <1>2, <1>8
  <2>3. \A i : i \in S <=> i \in first .. n - 1 /\ (i = first \/ x[i] # LimbMax)
    OBVIOUS
  <2> HIDE DEF S
  <2>4. k \in S /\ \A i \in S : i <= k
    BY <1>1, <2>1, <2>2, GreatestOf
  <2>5. k \in first .. n - 1 /\ (k = first \/ x[k] # LimbMax)
    BY <2>3, <2>4
  <2>l. \A i \in first .. n - 1 : i \in 1 .. Len(x) /\ i \in 1 .. n /\ i # n
    BY <1>1, <1>2, <1>8
  <2>6. \A i \in first .. n - 1 : Column(x, i) = x[i] /\ x[i] \in Limb
    BY <2>l, ColumnOfLimb
  <2>7. ASSUME NEW i \in k + 1 .. n  PROVE t[i] = 0
    <3>1. CASE i = n
      BY <1>8, <3>1
    <3>2. CASE i # n
      <4>1. i \in first .. n - 1 /\ i > first /\ ~ (i <= k)
        BY <1>1, <1>2, <2>5, <3>2
      <4>2. x[i] = LimbMax
        BY <2>3, <2>4, <4>1
      <4>3. Negated(x, first, i) = LimbMax - LimbMax
        BY <1>2, <2>6, <4>1, <4>2 DEF Negated, Complement
      <4>4. LimbMax - LimbMax = 0
        BY BaseAssumption DEF LimbMax
      <4> QED BY <1>1, <2>l, <4>1, <4>3, <4>4
    <3> QED BY <3>1, <3>2
  <2>8. t[k] # 0
    <3>1. t[k] = Negated(x, first, k)
      BY <1>1, <2>l, <2>5
    <3>2. CASE k = first
      <4>1. Negated(x, first, first) = Base - x[first]
        BY NegatedType
      <4>2. x[first] \in Limb
        BY <2>5, <2>6, <3>2
      <4>3. Base - x[first] # 0
        BY <4>2, LimbBounds
      <4> QED BY <3>1, <3>2, <4>1, <4>3
    <3>3. CASE k # first
      <4>1. k > first /\ x[k] \in Limb /\ x[k] # LimbMax /\ Column(x, k) = x[k]
        BY <1>2, <2>5, <2>6, <3>3
      <4>2. Negated(x, first, k) = LimbMax - x[k]
        BY <1>2, <2>5, <4>1 DEF Negated, Complement
      <4>3. LimbMax - x[k] # 0
        BY <4>1, LimbBounds DEF LimbMax
      <4> QED BY <3>1, <4>2, <4>3
    <3> QED BY <3>2, <3>3
  <2>9. k \in 0 .. n
    BY <1>1, <1>2, <2>5
  <2> QED BY <2>7, <2>8, <2>9 DEF t, k, n
<1> QED BY <1>6, <1>7, <1>8

\* The inverse is canonical and exact.
LEMMA NegatedSound ==
  ASSUME NEW x \in Seq(Limb), NEW bits \in Nat
  PROVE  LET y == NegatedLimbs(x, bits) IN
         y \in Seq(Limb) /\ Canonical(y) /\ Value(y) = (0 - Value(x)) % Modulus(bits)
<1> DEFINE m == Modulus(bits)
<1>m. m \in Nat \ {0}
  BY WidthWeights
<1>1. CASE Nonzero(x, bits) = {}
  <2> DEFINE n == LimbsFor(bits)
             w == Power(Base, n)
  <2>1. n \in Nat /\ Len(x) \in Nat
    BY WidthType, LenProperties
  <2>2. \A i \in 1 .. n : Column(x, i) = 0
    <3> TAKE i \in 1 .. n
    <3>1. CASE i <= Len(x)
      <4>1. i \in 1 .. Len(x) /\ i <= n
        BY <2>1, <3>1
      <4>2. x[i] = 0
        BY <1>1, <4>1 DEF Nonzero
      <4> QED BY <3>1, <4>2 DEF Column
    <3>2. CASE ~ (i <= Len(x))
      BY <3>2 DEF Column
    <3> QED BY <3>1, <3>2
  <2>3. Lowest(x, n) = 0
    BY <2>1, <2>2, ZeroColumns
  <2>4. PICK k \in Nat : Value(x) = Lowest(x, n) + k * w
    BY <2>1, ValueSplit
  <2>5. PICK s \in Nat \ {0} : w = s * m
    BY WidthWeights
  <2> HIDE DEF w, m
  <2> DEFINE a == 0 - Value(x)
             j == 0 - k * s
  <2>6. a \in Int /\ j \in Int /\ a = 0 + j * m
    <3>1. k * w \in Int /\ k * s \in Int
      BY <1>m, <2>5
    <3>2. (0 - k * s) * m = 0 - k * (s * m)
      BY <1>m
    <3> QED BY <2>3, <2>4, <2>5, <3>1, <3>2
  <2> HIDE DEF a, j
  <2>7. a % m = 0 % m
    <3>1. ASSUME NEW b \in Int, NEW i \in Int, NEW c \in Int, c = b + i * m
          PROVE  c % m = b % m
      BY <1>m, <3>1, RemainderShift, ZenonT(30)
    <3>2. 0 \in Int
      OBVIOUS
    <3> QED BY <2>6, <3>1, <3>2
  <2>8. 0 % m = 0
    BY <1>m
  <2>9. NegatedLimbs(x, bits) = <<>>
    BY <1>1 DEF NegatedLimbs
  <2> QED BY <2>7, <2>8, <2>9, EmptyFacts, EmptyValue DEF a, m
<1>2. CASE Nonzero(x, bits) # {}
  <2> DEFINE first == Min(Nonzero(x, bits))
             t == InverseColumns(x, first, bits)
             k == NegatedLen(x, first, bits)
             n == LimbsFor(bits)
             y == NegatedLimbs(x, bits)
  <2>1. LowestLimb(x, first) /\ first <= n
    BY <1>2, LowestRetained
  <2>2. y = [i \in 1 .. k |-> IF i = n THEN Masked(Negated(x, first, i), bits)
                              ELSE Negated(x, first, i)]
    BY <1>2 DEF NegatedLimbs
  <2> HIDE DEF first
  <2>3. /\ n \in Nat /\ t \in Seq(Limb) /\ Len(t) = n
        /\ \A i \in 1 .. n : t[i] = IF i = n THEN Masked(Negated(x, first, i), bits)
                                    ELSE Negated(x, first, i)
        /\ Value(t) = (0 - Value(x)) % m
    BY <2>1, InverseType
  <2>4. /\ k \in 0 .. n /\ \A i \in k + 1 .. n : t[i] = 0
        /\ k > 0 => t[k] # 0
    BY <2>1, FinalLength
  <2> HIDE DEF t, k, n, y, m
  <2>5. y = [i \in 1 .. k |-> t[i]]
    <3>1. \A i \in 1 .. k : i \in 1 .. n
      BY <2>3, <2>4
    <3> QED BY <2>2, <2>3, <3>1
  <2>6. y \in Seq(Limb) /\ Canonical(y) /\ Value(y) = Value(t)
    BY <2>3, <2>4, <2>5, ShortenedSound
  <2> QED BY <2>3, <2>6 DEF y, m
<1> QED BY <1>1, <1>2

-----------------------------------------------------------------------------
(* Subtraction modulo a width.                                             *)

\* A value that fits a width has no more limbs than it keeps, and is its own
\* residue.
LEMMA FittingFacts ==
  ASSUME NEW x \in Seq(Limb), Canonical(x), NEW bits \in Nat, Fitting(x, bits)
  PROVE  /\ Len(x) <= LimbsFor(bits)
         /\ Value(x) \in Nat /\ Value(x) < Modulus(bits)
<1>1. Modulus(bits) \in Nat \ {0}
  BY WidthWeights
<1>2. Value(x) \in Nat
  BY ValueBound, LenProperties
<1>3. ~ Discards(x, bits)
  BY DEF Fitting
<1>4. ~ (Value(x) >= Modulus(bits))
  BY <1>3, DiscardsExact
<1>5. Value(x) < Modulus(bits)
  BY <1>1, <1>2, <1>4
<1>6. /\ FullLimbs(bits) \in Nat /\ Len(x) \in Nat
      /\ LimbsFor(bits) = IF PartialBits(bits) = 0 THEN FullLimbs(bits) ELSE FullLimbs(bits) + 1
  BY WidthParts, LenProperties
<1>7. \/ ~ (FullLimbs(bits) < Len(x))
      \/ PartialBits(bits) # 0 /\ ~ (LimbsFor(bits) < Len(x))
  BY <1>3 DEF Discards
<1>8. Len(x) <= LimbsFor(bits)
  BY <1>6, <1>7
<1> QED BY <1>2, <1>5, <1>8

\* The residue of a difference that is negative.
LEMMA NegativeResidue ==
  ASSUME NEW x \in Seq(Limb), NEW y \in Seq(Limb), Underflows(x, y)
  PROVE  /\ Value(x) - Value(y) < 0
         /\ Value(Residue(x, y)) = Value(x) - Value(y) + Power(Base, Width(x, y))
<1> DEFINE w == Power(Base, Width(x, y))
           d == Value(x) - Value(y)
<1>1. /\ Width(x, y) \in Nat /\ Len(x) <= Width(x, y) /\ Len(y) <= Width(x, y)
  BY WidthFacts
<1>2. Value(x) \in Nat /\ Value(y) \in Nat /\ Value(y) < w /\ w \in Nat
  BY <1>1, ValueBound, WeightType
<1>3. Value(Residue(x, y)) = d % w /\ d < 0
  BY ResidueValue
<1> HIDE DEF w
<1>4. d \in Int /\ d + w \in 0 .. w - 1 /\ d = (-1) * w + (d + w) /\ w \in Nat \ {0}
  BY <1>2, <1>3
<1>5. -1 \in Int
  OBVIOUS
<1> HIDE DEF d
<1>6. d % w = d + w
  <2> DEFINE v == d + w
  <2>1. v \in 0 .. w - 1 /\ d = (-1) * w + v
    BY <1>4
  <2> HIDE DEF v
  <2>2. d % w = v
    BY <1>4, <1>5, <2>1, DivisionUnique
  <2> QED BY <2>2 DEF v
<1> QED BY <1>3, <1>6 DEF d, w

\* A negative residue is extended with ones to the width asked for.
LEMMA SignExtendedSound ==
  ASSUME NEW x \in Seq(Limb), NEW y \in Seq(Limb), NEW bits \in Nat,
         Underflows(x, y), Width(x, y) < LimbsFor(bits)
  PROVE  LET e == SignExtended(x, y, bits) IN
         /\ e \in Seq(Limb) /\ Canonical(e)
         /\ Value(e) = (Value(x) - Value(y)) % Modulus(bits)
<1> DEFINE n == LimbsFor(bits)
           v == Width(x, y)
           u == Residue(x, y)
           f == [i \in 1 .. n |-> IF i <= v THEN Column(u, i) ELSE LimbMax]
           m == Modulus(bits)
           d == Value(x) - Value(y)
<1>1. n \in Nat /\ v \in Nat /\ v < n
  BY WidthType, WidthFacts
<1>2. u \in Seq(Limb) /\ Len(u) \in Nat /\ Len(u) <= v
  BY ResidueFacts
<1>3. d < 0 /\ Value(u) = d + Power(Base, v)
  BY NegativeResidue
<1>d. d \in Int
  BY ValueBound, LenProperties
<1>4. LimbMax \in Limb /\ LimbMax = Base - 1
  BY BaseAssumption DEF LimbMax, Limb
<1> HIDE DEF u, v, n, d
<1>5. \A i \in 1 .. n : f[i] \in Limb /\ f[i] = IF i <= v THEN Column(u, i) ELSE LimbMax
  <2> TAKE i \in 1 .. n
  <2>1. Column(u, i) \in Limb
    BY <1>1, <1>2, ColumnType
  <2> QED BY <1>4, <2>1
<1>6. f = [i \in 1 .. n |-> f[i]]
  OBVIOUS
<1> DEFINE t == Truncated(f, bits)
<1>7. SignExtended(x, y, bits) = [i \in 1 .. n |-> IF i = n THEN Masked(f[i], bits) ELSE f[i]]
  <2>1. SignExtended(x, y, bits)
          = [i \in 1 .. n |-> IF i <= v THEN Column(u, i)
                              ELSE IF i = n THEN Masked(LimbMax, bits) ELSE LimbMax]
    BY DEF SignExtended, u, v, n
  <2>2. \A i \in 1 .. n : (IF i <= v THEN Column(u, i)
                           ELSE IF i = n THEN Masked(LimbMax, bits) ELSE LimbMax)
                          = IF i = n THEN Masked(f[i], bits) ELSE f[i]
    <3> TAKE i \in 1 .. n
    <3>1. f[i] = IF i <= v THEN Column(u, i) ELSE LimbMax
      BY <1>5
    <3> HIDE DEF f
    <3> QED BY <1>1, <3>1
  <2> HIDE DEF f
  <2> QED BY <2>1, <2>2
<1>8. SignExtended(x, y, bits) = t
  BY <1>7 DEF Truncated, n
<1> HIDE DEF f
<1>9. f \in Seq(Limb) /\ Len(f) = n /\ \A i \in 1 .. n : Column(f, i) = f[i]
  <2>1. \A i \in 1 .. n : f[i] \in Limb
    BY <1>5
  <2>2. [i \in 1 .. n |-> f[i]] \in Seq(Limb)
    BY <1>1, <2>1, IsASeq
  <2>3. f \in Seq(Limb)
    BY <1>6, <2>2
  <2>4. DOMAIN f = 1 .. n
    BY <1>6
  <2>5. Len(f) = n
    BY <1>1, <2>3, <2>4, LenProperties
  <2> QED BY <2>3, <2>5 DEF Column
<1>10. \A k \in Nat : v + k <= n =>
          Lowest(f, v + k) = d + Power(Base, v + k)
  <2> DEFINE T == {k \in Nat : v + k <= n => Lowest(f, v + k) = d + Power(Base, v + k)}
  <2>1. 0 \in T
    <3>1. \A i \in 1 .. v : Column(f, i) = Column(u, i)
      <4> TAKE i \in 1 .. v
      <4>1. i \in 1 .. n /\ i <= v
        BY <1>1
      <4> QED BY <1>5, <1>9, <4>1
    <3>2. Lowest(f, v) = Lowest(u, v)
      BY <1>1, <1>2, <1>9, <3>1, LowestOfColumns
    <3>3. Lowest(u, v) = Value(u)
      BY <1>1, <1>2, LowestBeyond
    <3>4. v + 0 = v
      BY <1>1
    <3> QED BY <1>3, <3>2, <3>3, <3>4
  <2>2. ASSUME NEW k \in Nat, k \in T PROVE k + 1 \in T
    <3> SUFFICES ASSUME v + (k + 1) <= n
                 PROVE  Lowest(f, v + (k + 1)) = d + Power(Base, v + (k + 1))
      OBVIOUS
    <3> DEFINE j == v + k
               p == Power(Base, j)
               l == Lowest(f, j)
    <3>1. j \in Nat /\ v + (k + 1) = j + 1 /\ j + 1 \in 1 .. n /\ j <= n /\ ~ (j + 1 <= v)
      BY <1>1
    <3>2. l = d + p
      BY <2>2, <3>1
    <3> HIDE DEF j
    <3>3. Column(f, j + 1) = Base - 1
      BY <1>4, <1>5, <1>9, <3>1
    <3>4. /\ Lowest(f, j + 1) = l + (Base - 1) * p /\ l \in Int
          /\ Power(Base, j + 1) = Base * p /\ p \in Nat
      BY <1>9, <3>1, <3>3, LowestFacts, WeightType
    <3> HIDE DEF p, l
    <3>5. (Base - 1) * p = Base * p - p /\ Base * p \in Int
      BY <3>4, BaseAssumption
    <3>6. Lowest(f, j + 1) = d + Power(Base, j + 1)
      BY <1>d, <3>2, <3>4, <3>5
    <3> QED BY <3>1, <3>6
  <2>3. \A k \in Nat : k \in T
    <3> HIDE DEF T
    <3> QED BY <2>1, <2>2, SetInduction
  <2> QED BY <2>3
<1>11. Value(f) = d + Power(Base, n)
  <2>1. n - v \in Nat /\ v + (n - v) = n
    BY <1>1
  <2>2. v + (n - v) <= n
    BY <1>1, <2>1
  <2>3. Lowest(f, v + (n - v)) = d + Power(Base, v + (n - v))
    BY <1>10, <2>1, <2>2
  <2> QED BY <1>9, <2>1, <2>3 DEF Value
<1>12. PICK s \in Nat \ {0} : Power(Base, n) = s * m
  BY WidthWeights DEF n
<1>13. LimbsFor(bits) <= Len(f)
  BY <1>1, <1>9 DEF n
<1>14. t \in Seq(Limb) /\ Len(t) = n /\ Value(t) = Value(f) % m
  BY <1>9, <1>13, TruncatedType, TruncatedResidue DEF n
<1>15. Value(f) % m = d % m
  <2>1. m \in Nat \ {0}
    BY WidthWeights
  <2>2. d + s * m \in Int /\ Value(f) = d + s * m
    <3> HIDE DEF m
    <3> QED BY <1>d, <1>11, <1>12, <2>1
  <2> HIDE DEF m
  <2>3. ASSUME NEW b \in Int, NEW i \in Int, NEW c \in Int, c = b + i * m
        PROVE  c % m = b % m
    BY <2>1, <2>3, RemainderShift, ZenonT(30)
  <2>4. s \in Int /\ Value(f) \in Int
    BY <2>2
  <2> QED BY <1>d, <2>2, <2>3, <2>4
<1>16. Canonical(t)
  <2>1. n \in 1 .. n /\ ~ (n <= v)
    BY <1>1
  <2>2. t[n] = Masked(LimbMax, bits)
    BY <1>5, <1>7, <1>8, <2>1
  <2> QED BY <1>14, <2>2, MaskedMax DEF Canonical
<1> QED BY <1>8, <1>14, <1>15, <1>16 DEF d, m

\* Where a wrapped difference is stored, it is the residue of its width.
LEMMA WrappedDifferenceSound ==
  ASSUME NEW x \in Seq(Limb), Canonical(x), NEW y \in Seq(Limb), Canonical(y),
         NEW bits \in Nat, Fitting(x, bits), Fitting(y, bits),
         NEW u \in WrappedDifference(x, y, bits)
  PROVE  /\ Stored(u) /\ Canonical(u.limbs)
         /\ Value(u.limbs) = (Value(x) - Value(y)) % Modulus(bits)
         /\ (y # <<>> /\ Underflows(x, y)) = (Value(x) < Value(y))
<1> DEFINE m == Modulus(bits)
           d == Value(x) - Value(y)
           a == Value(x)
           b == Value(y)
<1>m. m \in Nat \ {0}
  BY WidthWeights
<1>1. /\ Len(x) <= LimbsFor(bits) /\ a \in Nat /\ a < m
      /\ Len(y) <= LimbsFor(bits) /\ b \in Nat /\ b < m
  BY FittingFacts
<1>2. CASE y = <<>>
  <2>1. Stored(u) /\ u.limbs = x
    BY <1>2, FreshSound DEF WrappedDifference
  <2>2. b = 0
    BY <1>2, EmptyValue
  <2> HIDE DEF m, a, b
  <2>3. a % m = a /\ a - b = a /\ ~ (a < b)
    BY <1>m, <1>1, <2>2
  <2> QED BY <1>2, <2>1, <2>3 DEF a, b, m
<1>3. CASE y # <<>> /\ ~ Underflows(x, y)
  <2>1. u \in DifferenceOf(x, y)
    BY <1>3 DEF WrappedDifference
  <2>2. Stored(u) /\ Canonical(u.limbs) /\ u.limbs = Residue(x, y)
    BY <1>3, <2>1, DifferenceOfSound, DifferenceOfLimbs
  <2>3. Value(u.limbs) = a - b /\ ~ (a - b < 0)
    BY <1>3, <2>2, ResidueValue
  <2> HIDE DEF m, a, b
  <2>4. (a - b) % m = a - b /\ ~ (a < b)
    BY <1>m, <1>1, <2>3
  <2> QED BY <1>3, <2>2, <2>3, <2>4 DEF a, b, m
<1>4. CASE y # <<>> /\ Underflows(x, y)
  <2> DEFINE w == Power(Base, Width(x, y))
  <2>1. a - b < 0 /\ Value(Residue(x, y)) = (a - b) % w
    BY <1>4, ResidueValue
  <2>2. a < b
    <3> HIDE DEF a, b
    <3> QED BY <1>1, <2>1
  <2>3. ASSUME NEW v \in DifferenceOf(x, y)
        PROVE  Stored(v) /\ v.limbs = Residue(x, y)
    BY <1>4, DifferenceOfSound, DifferenceOfLimbs
  <2>4. /\ Residue(x, y) \in Seq(Limb) /\ Canonical(Residue(x, y))
        /\ Width(x, y) \in Nat /\ LimbsFor(bits) \in Nat
    BY ResidueFacts, WidthFacts, WidthType
  <2>5. CASE LimbsFor(bits) = Width(x, y)
    <3>1. PICK v \in DifferenceOf(x, y) : u = [v EXCEPT !.limbs = Wrapped(@, bits)]
      BY <1>4, <2>5 DEF WrappedDifference
    <3>2. Stored(v) /\ v.limbs = Residue(x, y)
      BY <2>3
    <3> DEFINE z == Residue(x, y)
               t == Wrapped(z, bits)
    <3>3. /\ t \in Seq(Limb) /\ Canonical(t) /\ Len(t) \in Nat /\ Len(t) <= Len(z)
          /\ Value(t) = Value(z) % m
      BY <2>4, WrappedSound
    <3>4. Len(z) \in Nat /\ v.cap \in Nat /\ Len(z) <= v.cap
      <4>1. v.cap \in Nat /\ Len(v.limbs) <= v.cap
        BY <3>2, Sizes DEF Stored
      <4> QED BY <2>4, <3>2, <4>1, LenProperties
    <3>5. u = [v EXCEPT !.limbs = t]
      BY <3>1, <3>2 DEF Stored
    <3> HIDE DEF z, t
    <3>6. Len(t) <= v.cap
      BY <3>3, <3>4
    <3>7. Stored(u) /\ u.limbs = t
      BY <3>2, <3>3, <3>5, <3>6, OverwriteSound
    <3>8. PICK s \in Nat \ {0} : Power(Base, LimbsFor(bits)) = s * m
      BY WidthWeights
    <3>9. Value(z) = (a - b) % w /\ w = s * m
      BY <2>1, <2>5, <3>8 DEF z
    <3> HIDE DEF a, b, w, m
    <3>10. a - b \in Int
      BY <1>1
    <3>11. ((a - b) % w) % m = (a - b) % m
      BY <1>m, <3>9, <3>10, RemainderOfMultiple
    <3>12. Value(t) = (a - b) % m
      BY <3>3, <3>9, <3>11
    <3> QED BY <1>4, <2>2, <3>3, <3>7, <3>12 DEF a, b, m
  <2>6. CASE LimbsFor(bits) # Width(x, y)
    <3> DEFINE e == SignExtended(x, y, bits)
    <3>1. Width(x, y) < LimbsFor(bits)
      <4>1. Width(x, y) = Len(x) \/ Width(x, y) = Len(y)
        BY DEF Width
      <4>2. Width(x, y) <= LimbsFor(bits)
        BY <1>1, <4>1
      <4> QED BY <2>4, <2>6, <4>2
    <3>2. e \in Seq(Limb) /\ Canonical(e) /\ Value(e) = d % m
      BY <1>4, <3>1, SignExtendedSound
    <3>3. PICK v \in DifferenceOf(x, y) : u \in Fits(v, e)
      BY <1>4, <2>6 DEF WrappedDifference
    <3>4. Stored(v)
      BY <2>3
    <3>5. Stored(u) /\ u.limbs = e
      BY <3>2, <3>3, <3>4, FitsSound
    <3> QED BY <1>4, <2>2, <3>2, <3>5
  <2> QED BY <2>5, <2>6
<1> QED BY <1>2, <1>3, <1>4

\* A value that is no longer than the one it replaces stays where that one was.
LEMMA FitsInPlace ==
  ASSUME NEW v, Stored(v), NEW limbs \in Seq(Limb), NEW u \in Fits(v, limbs),
         Len(limbs) <= Len(v.limbs)
  PROVE  u.cap = v.cap
<1>1. /\ v.cap \in Nat /\ Len(v.limbs) <= v.cap /\ Len(v.limbs) \in Nat /\ Len(limbs) \in Nat
      /\ v.heap \/ v.cap = Inline
  BY Sizes, LenProperties DEF Stored
<1>2. Len(limbs) <= v.cap
  BY <1>1
<1>3. PICK w \in Prepared(v, Len(limbs)) : u = [w EXCEPT !.limbs = limbs]
  BY DEF Fits
<1>4. w.cap = v.cap
  <2>1. CASE v.heap
    BY <1>2, <1>3, <2>1 DEF Prepared, Reserved, HeapRepr
  <2>2. CASE ~ v.heap
    BY <1>1, <1>2, <1>3, <2>2 DEF Prepared
  <2> QED BY <2>1, <2>2
<1>5. Stored(w)
  BY <1>1, <1>3, PreparedSound
<1> QED BY <1>3, <1>4, <1>5 DEF Stored

-----------------------------------------------------------------------------
(* The wrapping operations.                                                *)

\* What a wrapping call promises of the register it wrote, old before it and
\* new after it.
WrappedAs(op, old, new, x, y, bits, flag) ==
  /\ op = "apply_wrapping" =>
       Value(new.limbs) = Value(x) % Modulus(bits) /\ flag = (Value(x) >= Modulus(bits))
  /\ op = "apply_negate_wrapping" => Value(new.limbs) = (0 - Value(x)) % Modulus(bits)
  /\ op = "wrapping_sub_with_underflow" =>
       /\ Value(new.limbs) = (Value(x) - Value(y)) % Modulus(bits)
       /\ flag = (Value(x) < Value(y))
  /\ op \in {"apply_wrapping", "apply_negate_wrapping"} =>
       /\ old.heap => new.heap /\ new.cap >= old.cap
       /\ Len(new.limbs) <= Len(old.limbs) => new.cap = old.cap

WrappingNames == {"apply_wrapping", "apply_negate_wrapping", "wrapping_sub_with_underflow"}

\* What the step that makes a call guarantees.
WrappingCallHolds ==
  /\ call' \in WrappingCalls
  /\ call'.op \notin Owned => Kept(call'.reg)
  /\ WrappedAs(call'.op, repr[call'.reg], repr'[call'.reg],
               call'.x, call'.y, call'.bits, call'.flag)

\* A call that stored v leaves v.
LEMMA WrappingReturned ==
  ASSUME StorageInv, NEW r \in Regs, Unborrowed(r), NEW v, Stored(v), Canonical(v.limbs),
         NEW op \in WrappingNames, NEW x \in Seq(Limb), NEW y \in Seq(Limb),
         NEW bits \in Widths, NEW flag \in BOOLEAN,
         op \notin Owned => Sound(v, repr[r]),
         Store(r, v, FALSE), Reports(op, r, x, y, bits, flag),
         WrappedAs(op, repr[r], v, x, y, bits, flag)
  PROVE  StorageInv' /\ WrappingCallHolds
<1>1. StorageInv'
  BY StoreStep
<1>2. repr'[r] = v
  BY DEF Store, StorageInv
<1>3. call' = [op |-> op, reg |-> r, x |-> x, y |-> y, bits |-> bits, flag |-> flag]
  BY DEF Reports
<1>4. /\ call'.op = op /\ call'.reg = r /\ call'.x = x /\ call'.y = y
      /\ call'.bits = bits /\ call'.flag = flag
  BY <1>3
<1>5. call' \in WrappingCalls
  BY <1>3 DEF WrappingCalls, WrappingNames
<1>6. op \notin Owned => Kept(r)
  BY SoundStore
<1>7. repr'[call'.reg] = v
  BY <1>2, <1>4
<1> QED BY <1>1, <1>4, <1>5, <1>6, <1>7, Zenon DEF WrappingCallHolds

LEMMA ApplyWrappingStep ==
  ASSUME StorageInv, NEW r \in Regs, NEW bits \in Widths, ApplyWrapping(r, bits)
  PROVE  StorageInv' /\ WrappingCallHolds
<1> DEFINE op == "apply_wrapping"
           old == repr[r].limbs
           limbs == Wrapped(old, bits)
           v == [repr[r] EXCEPT !.limbs = limbs]
           flag == Discards(old, bits)
<1>1. /\ Unborrowed(r) /\ r \notin raw
      /\ Store(r, v, FALSE) /\ Reports(op, r, old, <<>>, bits, flag)
  BY DEF ApplyWrapping, Ready
<1>2. /\ Stored(repr[r]) /\ old \in Seq(Limb) /\ Canonical(old)
      /\ Len(old) \in Nat /\ repr[r].cap \in Nat /\ Len(old) <= repr[r].cap
  BY <1>1, Held
<1>3. bits \in Nat
  BY WidthsAssumption
<1>4. /\ limbs \in Seq(Limb) /\ Canonical(limbs)
      /\ Len(limbs) \in Nat /\ Len(limbs) <= Len(old)
      /\ Value(limbs) = Value(old) % Modulus(bits)
  BY <1>2, <1>3, WrappedSound
<1>5. Sound(v, repr[r])
  BY <1>4, ShorterSound
<1>6. flag = (Value(old) >= Modulus(bits)) /\ flag \in BOOLEAN
  <2>1. flag <=> Value(old) >= Modulus(bits)
    BY <1>2, <1>3, DiscardsExact
  <2>2. flag \in BOOLEAN
    BY DEF Discards
  <2>3. (Value(old) >= Modulus(bits)) \in BOOLEAN
    BY ValueBound, WidthWeights, <1>2, <1>3
  <2> HIDE DEF flag
  <2> QED BY <2>1, <2>2, <2>3
<1>7. v.limbs = limbs /\ v.cap = repr[r].cap /\ v.heap = repr[r].heap
  BY <1>2 DEF Stored
<1>8. Stored(v) /\ Canonical(v.limbs)
  BY <1>5 DEF Sound
<1> HIDE DEF v, limbs, flag
<1>9. WrappedAs(op, repr[r], v, old, <<>>, bits, flag)
  BY <1>2, <1>4, <1>6, <1>7 DEF WrappedAs
<1>10. op \in WrappingNames
  BY DEF WrappingNames
<1> HIDE DEF op, old
<1>11. StorageInv' /\ WrappingCallHolds
  BY <1>1, <1>2, <1>5, <1>6, <1>8, <1>9, <1>10, EmptyFacts, WrappingReturned
<1> QED BY <1>11

LEMMA ApplyNegateWrappingStep ==
  ASSUME StorageInv, NEW r \in Regs, NEW bits \in Widths, ApplyNegateWrapping(r, bits)
  PROVE  StorageInv' /\ WrappingCallHolds
<1> DEFINE op == "apply_negate_wrapping"
           old == repr[r].limbs
           limbs == NegatedLimbs(old, bits)
<1>1. Unborrowed(r) /\ r \notin raw /\ Reports(op, r, old, <<>>, bits, FALSE)
  BY DEF ApplyNegateWrapping, Ready
<1>2. PICK v \in Fits(repr[r], limbs) : Store(r, v, FALSE)
  BY DEF ApplyNegateWrapping
<1>3. Stored(repr[r]) /\ old \in Seq(Limb)
  BY Held
<1>4. bits \in Nat
  BY WidthsAssumption
<1>5. /\ limbs \in Seq(Limb) /\ Canonical(limbs)
      /\ Value(limbs) = (0 - Value(old)) % Modulus(bits)
  BY <1>3, <1>4, NegatedSound
<1> HIDE DEF limbs
<1>6. /\ Stored(v) /\ v.limbs = limbs
      /\ repr[r].heap => v.heap /\ v.cap >= repr[r].cap
      /\ Len(limbs) <= Len(repr[r].limbs) => v.cap = repr[r].cap
  BY <1>2, <1>3, <1>5, FitsSound, FitsInPlace
<1>7. Sound(v, repr[r]) /\ Canonical(v.limbs)
  BY <1>5, <1>6 DEF Sound
<1>8. WrappedAs(op, repr[r], v, old, <<>>, bits, FALSE)
  BY <1>5, <1>6 DEF WrappedAs
<1>9. op \in WrappingNames
  BY DEF WrappingNames
<1> HIDE DEF op, old
<1>10. StorageInv' /\ WrappingCallHolds
  BY <1>1, <1>2, <1>3, <1>6, <1>7, <1>8, <1>9, EmptyFacts, WrappingReturned
<1> QED BY <1>10

LEMMA WrappingSubStep ==
  ASSUME StorageInv, NEW r \in Regs, NEW bits \in Widths,
         NEW x \in Operands, NEW y \in Operands,
         WrappingSubWithUnderflow(r, x, y, bits)
  PROVE  StorageInv' /\ WrappingCallHolds
<1> DEFINE op == "wrapping_sub_with_underflow"
           flag == y # <<>> /\ Underflows(x, y)
<1>1. /\ Unborrowed(r) /\ Fitting(x, bits) /\ Fitting(y, bits)
      /\ Reports(op, r, x, y, bits, flag)
  BY DEF WrappingSubWithUnderflow
<1>2. PICK v \in WrappedDifference(x, y, bits) : Store(r, v, FALSE)
  BY DEF WrappingSubWithUnderflow
<1>3. bits \in Nat
  BY WidthsAssumption
<1>4. x \in Seq(Limb) /\ Canonical(x) /\ y \in Seq(Limb) /\ Canonical(y)
  BY OperandType
<1>5. /\ Stored(v) /\ Canonical(v.limbs)
      /\ Value(v.limbs) = (Value(x) - Value(y)) % Modulus(bits)
      /\ flag = (Value(x) < Value(y))
  BY <1>1, <1>2, <1>3, <1>4, WrappedDifferenceSound
<1>6. flag \in BOOLEAN
  BY DEF Underflows
<1> HIDE DEF flag
<1>7. WrappedAs(op, repr[r], v, x, y, bits, flag)
  BY <1>5 DEF WrappedAs
<1>8. op \in WrappingNames /\ op \in Owned
  BY DEF WrappingNames, Owned
<1> HIDE DEF op
<1>9. StorageInv' /\ WrappingCallHolds
  BY <1>1, <1>2, <1>4, <1>5, <1>6, <1>7, <1>8, WrappingReturned
<1> QED BY <1>9

LEMMA WrappingPreserves ==
  ASSUME StorageInv, NEW r \in Regs, WrappingStep(r)
  PROVE  StorageInv' /\ WrappingCallHolds
<1>1. PICK bits \in Widths :
        \/ ApplyWrapping(r, bits)
        \/ ApplyNegateWrapping(r, bits)
        \/ \E x, y \in Operands : WrappingSubWithUnderflow(r, x, y, bits)
  BY DEF WrappingStep
<1>2. CASE ApplyWrapping(r, bits)
  BY <1>2, ApplyWrappingStep
<1>3. CASE ApplyNegateWrapping(r, bits)
  BY <1>3, ApplyNegateWrappingStep
<1>4. CASE \E x, y \in Operands : WrappingSubWithUnderflow(r, x, y, bits)
  BY <1>4, WrappingSubStep
<1> QED BY <1>1, <1>2, <1>3, <1>4

\* The two kinds of call are told apart by their names.
LEMMA KindsOfCalls ==
  /\ NoCall.op \notin Sums \union Differences \union Residues \union WrappingNames
  /\ \A c \in Calls : c.op \in Sums \union Differences \union Residues
  /\ \A c \in WrappingCalls : c.op \in WrappingNames
  /\ \A op \in WrappingNames : op \notin Sums \union Differences \union Residues
BY DEF NoCall, Calls, WrappingCalls, WrappingNames, Sums, Differences, Residues

-----------------------------------------------------------------------------
(* Arithmetic.                                                             *)

AdditionInv == StorageInv /\ call \in Calls \union WrappingCalls \union {NoCall}

\* The storage invariant holds in every state arithmetic can reach.
THEOREM AdditionInvariant == SpecArithmetic => []AdditionInv
<1>1. InitAddition => AdditionInv
  BY StorageStarts DEF InitAddition, AdditionInv
<1>2. AdditionInv /\ [NextArithmetic]_allVars => AdditionInv'
  <2> SUFFICES ASSUME AdditionInv, [NextArithmetic]_allVars  PROVE AdditionInv'
    OBVIOUS
  <2>1. CASE Next /\ call' = NoCall
    BY <2>1, StoragePreserved DEF AdditionInv, Next
  <2>2. ASSUME NEW r \in Regs, AdditionStep(r)  PROVE AdditionInv'
    BY <2>2, AdditionPreserves, CallRecorded DEF AdditionInv
  <2>3. ASSUME NEW r \in Regs, WrappingStep(r)  PROVE AdditionInv'
    BY <2>3, WrappingPreserves DEF AdditionInv, WrappingCallHolds
  <2>4. CASE UNCHANGED allVars
    BY <2>4, StorageStutters DEF AdditionInv, allVars
  <2> QED BY <2>1, <2>2, <2>3, <2>4 DEF NextArithmetic
<1> QED BY <1>1, <1>2, PTL DEF SpecArithmetic

\* Registers, guards, debts and calls keep their types.
THEOREM AdditionTypeCorrect == SpecArithmetic => []TypeOKAddition
<1>1. AdditionInv => TypeOKAddition
  BY InvariantGivesType DEF AdditionInv, TypeOKAddition
<1> QED BY <1>1, AdditionInvariant, PTL

\* No carry is written past the end of a buffer, and no sum, difference or
\* inverse outgrows the storage it was sized for.
THEOREM AdditionStaysWithinCapacity == SpecArithmetic => []WithinCapacity
<1>1. AdditionInv => WithinCapacity
  BY InvariantGivesRest DEF AdditionInv
<1> QED BY <1>1, AdditionInvariant, PTL

\* Every result is canonical: sums without a scan, decrements with a single
\* trimmed limb, inverses by their final length, the others with a scan.
THEOREM ResultsAreNormal == SpecArithmetic => []Normal
<1>1. AdditionInv => Normal
  BY InvariantGivesRest DEF AdditionInv
<1> QED BY <1>1, AdditionInvariant, PTL

\* An assignment never leaves the heap buffer it found.
THEOREM AssignmentsKeepBuffers == SpecArithmetic => AssignmentKeepsBuffer
<1> DEFINE Keeps == call' # NoCall /\ call'.op \notin Owned =>
                      LET r == call'.reg IN
                      repr[r].heap => repr'[r].heap /\ repr'[r].cap >= repr[r].cap
<1>1. AdditionInv /\ [NextArithmetic]_allVars => [Keeps]_allVars
  <2> SUFFICES ASSUME AdditionInv, NextArithmetic  PROVE Keeps
    OBVIOUS
  <2>1. CASE Next /\ call' = NoCall
    BY <2>1
  <2>2. ASSUME NEW r \in Regs, AdditionStep(r)  PROVE Keeps
    BY <2>2, CallRecorded DEF AdditionInv, Kept
  <2>3. ASSUME NEW r \in Regs, WrappingStep(r)  PROVE Keeps
    BY <2>3, WrappingPreserves DEF AdditionInv, WrappingCallHolds, Kept
  <2> QED BY <2>1, <2>2, <2>3 DEF NextArithmetic
<1> QED BY <1>1, AdditionInvariant, PTL DEF SpecArithmetic, AssignmentKeepsBuffer

\* Arithmetic keeps the representation of every register sound.
THEOREM AdditionKeepsRepresentation == SpecArithmetic => []Representation
<1>1. AdditionInv => Representation
  BY InvariantGivesType, InvariantGivesInitialized, InvariantGivesRest DEF AdditionInv, Representation
<1> QED BY <1>1, AdditionInvariant, PTL

\* Sums lose no carry and pick up no stale limb, differences are exact or the
\* residue their flag announces, in whatever storage, for every base and length.
THEOREM AdditionIsExact == SpecArithmetic => SumsExact
<1> DEFINE Added == call'.op \in Sums => Result' = Value(call'.x) + Value(call'.y)
           Subtracted ==
             LET difference == Value(call'.x) - Value(call'.y) IN
             /\ call'.op \in Differences => Result' = difference
             /\ call'.op \in Residues =>
                  /\ Result' = difference % Power(Base, Width(call'.x, call'.y))
                  /\ call'.underflow = (difference < 0)
<1>1. AdditionInv /\ [NextArithmetic]_allVars => [Added]_allVars /\ [Subtracted]_allVars
  <2> SUFFICES ASSUME AdditionInv, NextArithmetic  PROVE Added /\ Subtracted
    OBVIOUS
  <2>1. CASE Next /\ call' = NoCall
    <3>1. call'.op \notin Sums /\ call'.op \notin Differences /\ call'.op \notin Residues
      BY <2>1, KindsOfCalls
    <3> QED BY <3>1
  <2>2. ASSUME NEW r \in Regs, AdditionStep(r)  PROVE Added /\ Subtracted
    <3>1. Exact(call'.op, repr'[call'.reg].limbs, call'.x, call'.y, call'.underflow)
      BY <2>2, CallExact DEF AdditionInv
    <3>2. Result' = Value(repr'[call'.reg].limbs)
      BY DEF Result
    <3> QED BY <3>1, <3>2 DEF Exact
  <2>3. ASSUME NEW r \in Regs, WrappingStep(r)  PROVE Added /\ Subtracted
    <3>1. call' \in WrappingCalls
      BY <2>3, WrappingPreserves DEF AdditionInv, WrappingCallHolds
    <3>2. call'.op \notin Sums /\ call'.op \notin Differences /\ call'.op \notin Residues
      BY <3>1, KindsOfCalls
    <3> QED BY <3>2
  <2> QED BY <2>1, <2>2, <2>3 DEF NextArithmetic
<1> QED BY <1>1, AdditionInvariant, PTL DEF SpecArithmetic, SumsExact, AdditionExact, SubtractionExact

\* Reduction, inverse and subtraction modulo 2^bits are exact for every width,
\* partial limbs and widths beyond the value included; their flags say what was
\* lost, and only a result that is longer than the value can move it.
THEOREM WrappingIsSound == SpecArithmetic => WrappingSound
<1> DEFINE Wraps ==
             LET modulus == Power(2, call'.bits)
                 x == Value(call'.x)
                 y == Value(call'.y)
             IN  /\ call'.op = "apply_wrapping" =>
                      Result' = x % modulus /\ call'.flag = (x >= modulus)
                 /\ call'.op = "apply_negate_wrapping" => Result' = (0 - x) % modulus
                 /\ call'.op = "wrapping_sub_with_underflow" =>
                      Result' = (x - y) % modulus /\ call'.flag = (x < y)
           Stays ==
             call'.op \in {"apply_wrapping", "apply_negate_wrapping"} =>
               LET old == repr[call'.reg]
                   new == repr'[call'.reg]
               IN  /\ old.heap => new.heap /\ new.cap >= old.cap
                   /\ Len(new.limbs) <= Len(old.limbs) => new.cap = old.cap
<1>1. ASSUME call'.op \notin WrappingNames  PROVE Wraps /\ Stays
  BY <1>1 DEF WrappingNames
<1>2. AdditionInv /\ [NextArithmetic]_allVars => [Wraps]_allVars /\ [Stays]_allVars
  <2> SUFFICES ASSUME AdditionInv, NextArithmetic  PROVE Wraps /\ Stays
    OBVIOUS
  <2>1. CASE Next /\ call' = NoCall
    <3>1. call'.op \notin WrappingNames
      BY <2>1, KindsOfCalls
    <3> QED BY <1>1, <3>1
  <2>2. ASSUME NEW r \in Regs, AdditionStep(r)  PROVE Wraps /\ Stays
    <3>1. call' \in Calls
      BY <2>2, CallRecorded DEF AdditionInv
    <3>2. call'.op \notin WrappingNames
      BY <3>1, KindsOfCalls
    <3> QED BY <1>1, <3>2
  <2>3. ASSUME NEW r \in Regs, WrappingStep(r)  PROVE Wraps /\ Stays
    <3>1. WrappedAs(call'.op, repr[call'.reg], repr'[call'.reg],
                    call'.x, call'.y, call'.bits, call'.flag)
      BY <2>3, WrappingPreserves DEF AdditionInv, WrappingCallHolds
    <3>2. Result' = Value(repr'[call'.reg].limbs)
      BY DEF Result
    <3> QED BY <3>1, <3>2 DEF WrappedAs, Modulus
  <2> QED BY <2>1, <2>2, <2>3 DEF NextArithmetic
<1> QED BY <1>2, AdditionInvariant, PTL
        DEF SpecArithmetic, WrappingSound, WrappingExact, WrappingKeepsBuffer
=============================================================================

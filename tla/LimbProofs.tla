----------------------------- MODULE LimbProofs -----------------------------
(***************************************************************************)
(* The carry-lookahead columns of Limbs obey the column recurrences the    *)
(* kernels compute, the facts about top columns that let a caller size its *)
(* destination before the kernels run, and what columns stand for: those   *)
(* of a sum and of a difference stand for the sum and the difference.      *)
(* Of LoopShapes, that the blocks of a schedule share out the span.        *)
(*                                                                         *)
(* Numbers are recursive functions of a count of columns.  That such a     *)
(* function exists, and what holds of all its values, is proved here by    *)
(* induction over sets of naturals.                                        *)
(***************************************************************************)
EXTENDS Limbs, LoopShapes, TLAPS, SequenceTheorems, WellFoundedInduction

-----------------------------------------------------------------------------
(* Recursion over the naturals.                                            *)

\* A set that holds zero and the successor of what it holds is all of Nat.
LEMMA SetInduction ==
  ASSUME NEW T, 0 \in T, \A n \in Nat : n \in T => n + 1 \in T
  PROVE  \A n \in Nat : n \in T
<1> DEFINE U == {n \in Nat : n \notin T}
<1>1. \A n : n \in U <=> n \in Nat /\ n \notin T
  OBVIOUS
<1>2. U \subseteq Nat
  OBVIOUS
<1> HIDE DEF U
<1>3. SUFFICES ASSUME U # {} PROVE FALSE
  BY <1>1
<1>4. PICK n \in U : \A m \in U : ~ (<< m, n >> \in OpToRel(<, Nat))
  BY <1>2, <1>3, NatLessThanWellFounded, WFMin, Zenon
<1>5. n \in Nat /\ n \notin T
  BY <1>1, <1>4
<1>6. n # 0 /\ n - 1 \in Nat /\ (n - 1) + 1 = n
  BY <1>5
<1>7. n - 1 \notin T
  BY <1>5, <1>6
<1>8. n - 1 \in U
  BY <1>1, <1>6, <1>7
<1>9. << n - 1, n >> \in OpToRel(<, Nat)
  BY <1>5, <1>6 DEF OpToRel
<1> QED BY <1>4, <1>8, <1>9

\* g follows the recursion from a by G up to n.
Follows(g, n, a, G) == g[0] = a /\ \A k \in 1 .. n : g[k] = G[k][g[k - 1]]

\* Two functions that follow the same recursion agree.
LEMMA FollowsUnique ==
  ASSUME NEW a, NEW G, NEW g, NEW h, NEW n \in Nat, NEW m \in Nat,
         Follows(g, n, a, G), Follows(h, m, a, G)
  PROVE  \A k \in Nat : k <= n /\ k <= m => g[k] = h[k]
<1> DEFINE T == {k \in Nat : k <= n /\ k <= m => g[k] = h[k]}
<1>1. 0 \in T
  BY DEF Follows
<1>2. ASSUME NEW k \in Nat, k \in T PROVE k + 1 \in T
  <2> SUFFICES ASSUME k + 1 <= n, k + 1 <= m PROVE g[k + 1] = h[k + 1]
    OBVIOUS
  <2>1. g[k] = h[k]
    BY <1>2
  <2>2. k + 1 \in 1 .. n /\ k + 1 \in 1 .. m /\ (k + 1) - 1 = k
    OBVIOUS
  <2> QED BY <2>1, <2>2 DEF Follows
<1>3. \A k \in Nat : k \in T
  <2> HIDE DEF T
  <2> QED BY <1>1, <1>2, SetInduction
<1> QED BY <1>3

LEMMA FollowsExists ==
  ASSUME NEW S, NEW a \in S, NEW G \in [Nat \ {0} -> [S -> S]]
  PROVE  \A n \in Nat : \E g \in [0 .. n -> S] : Follows(g, n, a, G)
<1> DEFINE T == {n \in Nat : \E g \in [0 .. n -> S] : Follows(g, n, a, G)}
<1>1. 0 \in T
  <2> DEFINE g == [k \in 0 .. 0 |-> a]
  <2>1. g \in [0 .. 0 -> S] /\ g[0] = a
    OBVIOUS
  <2>2. Follows(g, 0, a, G)
    BY <2>1 DEF Follows
  <2> QED BY <2>1, <2>2
<1>2. ASSUME NEW n \in Nat, n \in T PROVE n + 1 \in T
  <2>1. PICK g \in [0 .. n -> S] : Follows(g, n, a, G)
    BY <1>2
  <2> DEFINE h == [k \in 0 .. n + 1 |-> IF k = n + 1 THEN G[n + 1][g[n]] ELSE g[k]]
  <2>2. G[n + 1] \in [S -> S] /\ g[n] \in S
    OBVIOUS
  <2>3. G[n + 1][g[n]] \in S
    BY <2>2
  <2>4. h \in [0 .. n + 1 -> S]
    <3>1. ASSUME NEW k \in 0 .. n + 1, k # n + 1 PROVE g[k] \in S
      BY <3>1
    <3> QED BY <2>3, <3>1
  <2>5. h[0] = a
    BY <2>1 DEF Follows
  <2>6. ASSUME NEW k \in 1 .. n + 1 PROVE h[k] = G[k][h[k - 1]]
    <3>1. k - 1 \in 0 .. n + 1 /\ k - 1 # n + 1
      OBVIOUS
    <3>2. h[k - 1] = g[k - 1]
      BY <3>1
    <3>3. CASE k = n + 1
      BY <3>2, <3>3
    <3>4. CASE k # n + 1
      <4>1. k \in 1 .. n /\ k \in 0 .. n + 1
        BY <3>4
      <4>2. g[k] = G[k][g[k - 1]]
        BY <2>1, <4>1 DEF Follows
      <4> QED BY <3>2, <3>4, <4>1, <4>2
    <3> QED BY <3>3, <3>4
  <2>7. Follows(h, n + 1, a, G)
    <3> HIDE DEF h
    <3> QED BY <2>5, <2>6 DEF Follows
  <2> HIDE DEF h
  <2> QED BY <2>4, <2>7
<1>3. \A n \in Nat : n \in T
  <2> HIDE DEF T
  <2> QED BY <1>1, <1>2, SetInduction
<1> QED BY <1>3

\* f is the function the recursion from a by G defines.
Unfolds(f, a, G) == f = [n \in Nat |-> IF n = 0 THEN a ELSE G[n][f[n - 1]]]

\* Recursion over the naturals defines a function.
LEMMA RecursionExists ==
  ASSUME NEW S, NEW a \in S, NEW G \in [Nat \ {0} -> [S -> S]]
  PROVE  \E f \in [Nat -> S] : Unfolds(f, a, G)
<1> DEFINE part(n) == CHOOSE g \in [0 .. n -> S] : Follows(g, n, a, G)
           f == [n \in Nat |-> part(n)[n]]
<1>1. ASSUME NEW n \in Nat PROVE part(n) \in [0 .. n -> S] /\ Follows(part(n), n, a, G)
  BY FollowsExists, Zenon
<1> HIDE DEF part
<1>2. f \in [Nat -> S]
  <2>1. ASSUME NEW n \in Nat PROVE part(n)[n] \in S
    BY <1>1
  <2> QED BY <2>1
<1>3. ASSUME NEW n \in Nat PROVE f[n] = IF n = 0 THEN a ELSE G[n][f[n - 1]]
  <2>1. CASE n = 0
    <3>1. part(0)[0] = a
      BY <1>1 DEF Follows
    <3> QED BY <2>1, <3>1
  <2>2. CASE n # 0
    <3>1. n - 1 \in Nat /\ n \in 1 .. n /\ n - 1 <= n
      BY <2>2
    <3> DEFINE m == n - 1
    <3>2. f[n] = part(n)[n] /\ f[m] = part(m)[m]
      BY <3>1
    <3>3. part(n)[n] = G[n][part(n)[m]]
      BY <1>1, <3>1 DEF Follows
    <3>4. Follows(part(n), n, a, G) /\ Follows(part(m), m, a, G)
      BY <1>1, <3>1
    <3>5. m \in Nat /\ m <= n /\ m <= m
      BY <3>1
    <3> HIDE DEF m
    <3>6. part(n)[m] = part(m)[m]
      BY <3>4, <3>5, FollowsUnique
    <3> QED BY <2>2, <3>2, <3>3, <3>6 DEF m
  <2> QED BY <2>1, <2>2
<1>4. f = [n \in Nat |-> IF n = 0 THEN a ELSE G[n][f[n - 1]]]
  <2>1. f = [n \in Nat |-> f[n]]
    OBVIOUS
  <2> HIDE DEF f
  <2> QED BY <1>3, <2>1
<1> HIDE DEF f
<1> QED BY <1>2, <1>4 DEF Unfolds

\* ... also when every step keeps a bound of its own.
LEMMA RunExists ==
  ASSUME NEW S, NEW count \in Nat, NEW A, NEW start, NEW F,
         \A n \in 0 .. count : A[n] \subseteq S,
         start \in A[0],
         \A n \in 1 .. count : \A r \in A[n - 1] : F[n][r] \in A[n]
  PROVE  \E f \in [0 .. count -> S] : Follows(f, count, start, F) /\ \A n \in 0 .. count : f[n] \in A[n]
<1> DEFINE G == [n \in Nat \ {0} |-> [r \in S |-> IF F[n][r] \in S THEN F[n][r] ELSE r]]
<1>1. G \in [Nat \ {0} -> [S -> S]] /\ start \in S
  OBVIOUS
<1>2. \A n \in Nat \ {0}, r \in S : F[n][r] \in S => G[n][r] = F[n][r]
  OBVIOUS
<1> HIDE DEF G
<1>3. PICK g \in [0 .. count -> S] : Follows(g, count, start, G)
  BY <1>1, FollowsExists
<1> DEFINE T == {n \in Nat : n <= count => g[n] \in A[n] /\ (n # 0 => g[n] = F[n][g[n - 1]])}
<1>4. 0 \in T
  BY <1>3 DEF Follows
<1>5. ASSUME NEW n \in Nat, n \in T PROVE n + 1 \in T
  <2> SUFFICES ASSUME n + 1 <= count
               PROVE  g[n + 1] \in A[n + 1] /\ g[n + 1] = F[n + 1][g[(n + 1) - 1]]
    OBVIOUS
  <2>1. /\ n \in 0 .. count /\ n + 1 \in 0 .. count /\ n + 1 \in 1 .. count /\ (n + 1) - 1 = n
        /\ n + 1 \in Nat \ {0}
    OBVIOUS
  <2>2. g[n] \in A[n] /\ g[n] \in S
    BY <1>5, <2>1
  <2>3. F[n + 1][g[n]] \in A[n + 1]
    BY <2>1, <2>2
  <2>4. F[n + 1][g[n]] \in S
    BY <2>1, <2>3
  <2>5. G[n + 1][g[n]] = F[n + 1][g[n]]
    BY <1>2, <2>1, <2>2, <2>4
  <2>6. g[n + 1] = G[n + 1][g[(n + 1) - 1]]
    BY <1>3, <2>1 DEF Follows
  <2> QED BY <2>1, <2>3, <2>5, <2>6
<1>6. \A n \in Nat : n \in T
  <2> HIDE DEF T
  <2> QED BY <1>4, <1>5, SetInduction
<1>7. \A n \in 0 .. count : g[n] \in A[n]
  BY <1>6
<1>8. Follows(g, count, start, F)
  BY <1>3, <1>6 DEF Follows
<1> QED BY <1>7, <1>8

\* A power is positive, and the next one is so much larger.
LEMMA PowerFacts ==
  ASSUME NEW b \in Nat \ {0}
  PROVE  /\ Power(b, 0) = 1
         /\ \A n \in Nat : /\ Power(b, n) \in Nat \ {0}
                           /\ Power(b, n + 1) = b * Power(b, n)
<1> DEFINE P == Nat \ {0}
           G == [n \in Nat \ {0} |-> [v \in P |-> b * v]]
           Is(f) == f = [n \in Nat |-> IF n = 0 THEN 1 ELSE b * f[n - 1]]
           power == CHOOSE f : Is(f)
<1>1. \A v \in P : b * v \in P
  OBVIOUS
<1> HIDE DEF P
<1>2. G \in [Nat \ {0} -> [P -> P]] /\ 1 \in P
  BY <1>1 DEF P
<1>3. PICK f \in [Nat -> P] : Unfolds(f, 1, G)
  <2> HIDE DEF G
  <2> QED BY <1>2, RecursionExists
<1>4. Is(f)
  <2>1. ASSUME NEW n \in Nat, n # 0 PROVE G[n][f[n - 1]] = b * f[n - 1]
    <3>1. n - 1 \in Nat
      BY <2>1
    <3> QED BY <2>1, <3>1
  <2> HIDE DEF G
  <2> QED BY <1>3, <2>1 DEF Unfolds
<1>5. Is(power)
  <2> HIDE DEF Is
  <2> QED BY <1>4, Zenon
<1>6. \A n : Power(b, n) = power[n]
  BY Zenon DEF Power
<1> HIDE DEF power
<1>7. power[0] = 1 /\ \A n \in Nat : power[n + 1] = b * power[n]
  <2>1. power = [n \in Nat |-> IF n = 0 THEN 1 ELSE b * power[n - 1]]
    BY <1>5
  <2>2. ASSUME NEW n \in Nat PROVE power[n + 1] = b * power[n]
    <3>1. n + 1 \in Nat /\ n + 1 # 0 /\ (n + 1) - 1 = n
      OBVIOUS
    <3>2. power[n + 1] = IF n + 1 = 0 THEN 1 ELSE b * power[(n + 1) - 1]
      BY <2>1, <3>1, Zenon
    <3> QED BY <3>1, <3>2
  <2> QED BY <2>1, <2>2
<1>8. \A n \in Nat : power[n] \in P
  <2> DEFINE T == {n \in Nat : power[n] \in P}
  <2>1. 0 \in T /\ \A n \in Nat : n \in T => n + 1 \in T
    BY <1>1, <1>7 DEF P
  <2>2. \A n \in Nat : n \in T
    <3> HIDE DEF T
    <3> QED BY <2>1, SetInduction
  <2> QED BY <2>2
<1> QED BY <1>6, <1>7, <1>8 DEF P

-----------------------------------------------------------------------------
(* Columns.                                                                *)

\* A column of a limb sequence is a limb.
LEMMA ColumnType ==
  ASSUME NEW x \in Seq(Limb), NEW i \in Nat \ {0}
  PROVE  Column(x, i) \in Limb
<1> USE BaseAssumption
<1>1. CASE i <= Len(x)
  BY <1>1, LenProperties DEF Column
<1>2. CASE ~ (i <= Len(x))
  BY <1>2 DEF Column, Limb
<1> QED BY <1>1, <1>2

LEMMA LimbBounds ==
  ASSUME NEW a \in Limb
  PROVE  a \in Int /\ 0 <= a /\ a <= Base - 1 /\ Base \in Nat /\ Base >= 2
BY BaseAssumption DEF Limb

\* A residue modulo the base is a limb.
LEMMA ResidueType ==
  ASSUME NEW a \in Int
  PROVE  a % Base \in Limb
<1>1. Base \in Nat /\ Base > 0  BY BaseAssumption
<1>2. a % Base \in 0 .. Base - 1  BY <1>1
<1> QED BY <1>2 DEF Limb

-----------------------------------------------------------------------------
(* Carries.                                                                *)

LEMMA CarryType == ASSUME NEW x, NEW y, NEW i PROVE CarryInto(x, y, i) \in {0, 1}
BY DEF CarryInto

LEMMA NoCarryIn == ASSUME NEW x, NEW y PROVE CarryInto(x, y, 1) = 0
BY DEF CarryInto

\* The carry out of a column: what carrying_add computes from the carry into it.
LEMMA CarryRecurrence ==
  ASSUME NEW x \in Seq(Limb), NEW y \in Seq(Limb), NEW i \in Nat \ {0}
  PROVE  CarryInto(x, y, i + 1) =
           IF Column(x, i) + Column(y, i) + CarryInto(x, y, i) >= Base THEN 1 ELSE 0
<1> DEFINE a == Column(x, i)
           b == Column(y, i)
           chain(j, m) == Generates(x, y, j) /\ \A k \in j + 1 .. m - 1 : Propagates(x, y, k)
<1>1. a \in Int /\ b \in Int /\ Base \in Nat /\ Base >= 2
  BY ColumnType, LimbBounds
<1>2. Generates(x, y, i) <=> a + b >= Base
  BY DEF Generates
<1>3. Propagates(x, y, i) <=> a + b >= Base - 1
  BY DEF Propagates
<1>4. \A m : CarryInto(x, y, m) = 1 <=> \E j \in 1 .. m - 1 : chain(j, m)
  BY DEF CarryInto
<1>5. \A m : CarryInto(x, y, m) \in {0, 1}
  BY CarryType
<1>6. ASSUME CarryInto(x, y, i + 1) = 1
      PROVE  a + b + CarryInto(x, y, i) >= Base
  <2>1. PICK j \in 1 .. i : chain(j, i + 1)
    BY <1>4, <1>6
  <2>2. CASE j = i
    BY <2>1, <2>2, <1>1, <1>2, <1>5
  <2>3. CASE j # i
    <3>1. j \in 1 .. i - 1  BY <2>3
    <3>2. Propagates(x, y, i)  BY <2>1, <3>1
    <3>3. \A k \in j + 1 .. i - 1 : k \in j + 1 .. i  OBVIOUS
    <3>4. chain(j, i)  BY <2>1, <3>3
    <3>5. CarryInto(x, y, i) = 1  BY <3>1, <3>4, <1>4
    <3> QED BY <3>2, <3>5, <1>1, <1>3
  <2> QED BY <2>2, <2>3
<1>7. ASSUME a + b + CarryInto(x, y, i) >= Base
      PROVE  CarryInto(x, y, i + 1) = 1
  <2>1. CASE a + b >= Base
    <3>1. chain(i, i + 1)  BY <2>1, <1>2
    <3> QED BY <3>1, <1>4
  <2>2. CASE ~ (a + b >= Base)
    <3>1. CarryInto(x, y, i) = 1 /\ a + b >= Base - 1
      BY <1>1, <1>5, <1>7, <2>2
    <3>2. PICK j \in 1 .. i - 1 : chain(j, i)
      BY <3>1, <1>4
    <3>3. \A k \in j + 1 .. i : k = i \/ k \in j + 1 .. i - 1  OBVIOUS
    <3>4. chain(j, i + 1)  BY <3>1, <3>2, <3>3, <1>3
    <3> QED BY <3>4, <1>4
  <2> QED BY <2>1, <2>2
<1> HIDE DEF a, b
<1> QED BY <1>5, <1>6, <1>7 DEF a, b

\* Once no carry comes into a column above the shorter operand, none does above.
LEMMA CarryAbsorbed ==
  ASSUME NEW x \in Seq(Limb), NEW y \in Seq(Limb), NEW i \in Nat \ {0}, NEW m \in Nat,
         m >= i, CarryInto(x, y, i) = 0,
         \A k \in Nat : k >= i => Column(x, k) = 0 \/ Column(y, k) = 0
  PROVE  CarryInto(x, y, m) = 0
<1> SUFFICES ASSUME CarryInto(x, y, m) = 1 PROVE FALSE
  BY CarryType
<1>1. PICK j \in 1 .. m - 1 : Generates(x, y, j) /\ \A k \in j + 1 .. m - 1 : Propagates(x, y, k)
  BY DEF CarryInto
<1>2. j < i
  <2> SUFFICES ASSUME j >= i PROVE FALSE  OBVIOUS
  <2>1. Column(x, j) \in Limb /\ Column(y, j) \in Limb  BY ColumnType
  <2>2. Column(x, j) = 0 \/ Column(y, j) = 0  OBVIOUS
  <2>3. ~ (Column(x, j) + Column(y, j) >= Base)  BY <2>1, <2>2, LimbBounds
  <2> QED BY <1>1, <2>3 DEF Generates
<1>3. j \in 1 .. i - 1 /\ \A k \in j + 1 .. i - 1 : k \in j + 1 .. m - 1
  BY <1>2
<1>4. CarryInto(x, y, i) = 1  BY <1>1, <1>3 DEF CarryInto
<1> QED BY <1>4

\* A top column below B - 1 lets no carry out, whatever comes into it.
LEMMA CarryNeverEscapes ==
  ASSUME NEW x \in Seq(Limb), NEW y \in Seq(Limb), NEW n \in Nat \ {0},
         Column(x, n) < Complement(Column(y, n))
  PROVE  CarryOut(x, y, n) = 0
<1>1. Column(x, n) \in Limb /\ Column(y, n) \in Limb  BY ColumnType
<1>2. CarryInto(x, y, n) \in {0, 1}  BY CarryType
<1>3. ~ (Column(x, n) + Column(y, n) + CarryInto(x, y, n) >= Base)
  BY <1>1, <1>2, LimbBounds DEF Complement, LimbMax
<1> QED BY <1>3, CarryRecurrence DEF CarryOut

LEMMA SumLimbType ==
  ASSUME NEW x \in Seq(Limb), NEW y \in Seq(Limb), NEW i \in Nat \ {0}
  PROVE  SumLimb(x, y, i) \in Limb
<1>1. Column(x, i) \in Int /\ Column(y, i) \in Int  BY ColumnType, LimbBounds
<1>2. CarryInto(x, y, i) \in {0, 1}  BY CarryType
<1>3. Column(x, i) + Column(y, i) + CarryInto(x, y, i) \in Int  BY <1>1, <1>2
<1> QED BY <1>3, ResidueType DEF SumLimb

-----------------------------------------------------------------------------
(* Borrows.                                                                *)

LEMMA BorrowType == ASSUME NEW x, NEW y, NEW i PROVE BorrowInto(x, y, i) \in {0, 1}
BY DEF BorrowInto

LEMMA NoBorrowIn == ASSUME NEW x, NEW y PROVE BorrowInto(x, y, 1) = 0
BY DEF BorrowInto

\* The borrow out of a column: what borrowing_sub computes from the one into it.
LEMMA BorrowRecurrence ==
  ASSUME NEW x \in Seq(Limb), NEW y \in Seq(Limb), NEW i \in Nat \ {0}
  PROVE  BorrowInto(x, y, i + 1) =
           IF Column(x, i) - Column(y, i) - BorrowInto(x, y, i) < 0 THEN 1 ELSE 0
<1> DEFINE a == Column(x, i)
           b == Column(y, i)
           chain(j, m) == /\ Column(x, j) < Column(y, j)
                          /\ \A k \in j + 1 .. m - 1 : Column(x, k) <= Column(y, k)
<1>1. a \in Int /\ b \in Int
  BY ColumnType, LimbBounds
<1>4. \A m : BorrowInto(x, y, m) = 1 <=> \E j \in 1 .. m - 1 : chain(j, m)
  BY DEF BorrowInto
<1>5. \A m : BorrowInto(x, y, m) \in {0, 1}
  BY BorrowType
<1>6. ASSUME BorrowInto(x, y, i + 1) = 1
      PROVE  a - b - BorrowInto(x, y, i) < 0
  <2>1. PICK j \in 1 .. i : chain(j, i + 1)
    BY <1>4, <1>6
  <2>2. CASE j = i
    <3>1. a < b  BY <2>1, <2>2
    <3> HIDE DEF a, b
    <3> QED BY <3>1, <1>1, <1>5
  <2>3. CASE j # i
    <3>1. j \in 1 .. i - 1  BY <2>3
    <3>2. a <= b  BY <2>1, <3>1
    <3>3. \A k \in j + 1 .. i - 1 : k \in j + 1 .. i  OBVIOUS
    <3>4. chain(j, i)  BY <2>1, <3>3
    <3>5. BorrowInto(x, y, i) = 1  BY <3>1, <3>4, <1>4
    <3> HIDE DEF a, b
    <3> QED BY <3>2, <3>5, <1>1
  <2> QED BY <2>2, <2>3
<1>7. ASSUME a - b - BorrowInto(x, y, i) < 0
      PROVE  BorrowInto(x, y, i + 1) = 1
  <2>1. CASE a < b
    <3>1. chain(i, i + 1)  BY <2>1
    <3> QED BY <3>1, <1>4
  <2>2. CASE ~ (a < b)
    <3>1. BorrowInto(x, y, i) = 1 /\ a <= b
      <4> HIDE DEF a, b
      <4> QED BY <1>1, <1>5, <1>7, <2>2
    <3>2. PICK j \in 1 .. i - 1 : chain(j, i)
      BY <3>1, <1>4
    <3>3. \A k \in j + 1 .. i : k = i \/ k \in j + 1 .. i - 1  OBVIOUS
    <3>4. chain(j, i + 1)  BY <3>1, <3>2, <3>3
    <3> QED BY <3>4, <1>4
  <2> QED BY <2>1, <2>2
<1> HIDE DEF a, b
<1> QED BY <1>5, <1>6, <1>7 DEF a, b

\* Above the right operand a borrow that is absorbed does not come back.
LEMMA BorrowAbsorbed ==
  ASSUME NEW x \in Seq(Limb), NEW y \in Seq(Limb), NEW i \in Nat \ {0}, NEW m \in Nat,
         m >= i, BorrowInto(x, y, i) = 0, i > Len(y)
  PROVE  BorrowInto(x, y, m) = 0
<1> SUFFICES ASSUME BorrowInto(x, y, m) = 1 PROVE FALSE
  BY BorrowType
<1>1. PICK j \in 1 .. m - 1 :
        /\ Column(x, j) < Column(y, j)
        /\ \A k \in j + 1 .. m - 1 : Column(x, k) <= Column(y, k)
  BY DEF BorrowInto
<1>2. j < i
  <2> SUFFICES ASSUME j >= i PROVE FALSE  OBVIOUS
  <2>1. Column(x, j) \in Limb  BY ColumnType
  <2>2. Column(y, j) = 0  BY LenProperties DEF Column
  <2> QED BY <1>1, <2>1, <2>2, LimbBounds
<1>3. j \in 1 .. i - 1 /\ \A k \in j + 1 .. i - 1 : k \in j + 1 .. m - 1
  BY <1>2
<1>4. BorrowInto(x, y, i) = 1  BY <1>1, <1>3 DEF BorrowInto
<1> QED BY <1>4

LEMMA DifferenceLimbType ==
  ASSUME NEW x \in Seq(Limb), NEW y \in Seq(Limb), NEW i \in Nat \ {0}
  PROVE  DifferenceLimb(x, y, i) \in Limb
<1>1. Column(x, i) \in Int /\ Column(y, i) \in Int  BY ColumnType, LimbBounds
<1>2. BorrowInto(x, y, i) \in {0, 1}  BY BorrowType
<1>3. Column(x, i) - Column(y, i) - BorrowInto(x, y, i) \in Int  BY <1>1, <1>2
<1> QED BY <1>3, ResidueType DEF DifferenceLimb

-----------------------------------------------------------------------------
(* Numbers.                                                                *)

\* A further column adds its limb times its weight.
LEMMA LowestFacts ==
  ASSUME NEW x \in Seq(Limb)
  PROVE  /\ Lowest(x, 0) = 0
         /\ \A n \in Nat :
              /\ Lowest(x, n) \in Int
              /\ Lowest(x, n + 1) = Lowest(x, n) + Column(x, n + 1) * Power(Base, n)
<1> DEFINE term(n) == Column(x, n) * Power(Base, n - 1)
           G == [n \in Nat \ {0} |-> [v \in Int |-> v + term(n)]]
           Is(f) == f = [n \in Nat |-> IF n = 0 THEN 0 ELSE f[n - 1] + term(n)]
           lowest == CHOOSE f : Is(f)
<1>1. ASSUME NEW n \in Nat \ {0} PROVE term(n) \in Int
  <2>1. Column(x, n) \in Int
    BY ColumnType, LimbBounds
  <2>2. n - 1 \in Nat /\ Base \in Nat \ {0}
    BY BaseAssumption
  <2>3. Power(Base, n - 1) \in Int
    BY <2>2, PowerFacts
  <2> QED BY <2>1, <2>3
<1>6. \A n : Lowest(x, n) = lowest[n]
  BY Zenon DEF Lowest
<1> HIDE DEF term
<1>2. G \in [Nat \ {0} -> [Int -> Int]] /\ 0 \in Int
  BY <1>1
<1>3. PICK f \in [Nat -> Int] : Unfolds(f, 0, G)
  <2> HIDE DEF G
  <2> QED BY <1>2, RecursionExists
<1>4. Is(f)
  <2>1. ASSUME NEW n \in Nat, n # 0 PROVE G[n][f[n - 1]] = f[n - 1] + term(n)
    <3>1. n - 1 \in Nat
      BY <2>1
    <3> QED BY <2>1, <3>1
  <2> HIDE DEF G
  <2> QED BY <1>3, <2>1 DEF Unfolds
<1>5. Is(lowest)
  <2> HIDE DEF Is
  <2> QED BY <1>4, Zenon
<1> HIDE DEF lowest
<1>z. lowest[0] = 0
  BY <1>5
<1>7. \A n \in Nat : lowest[n + 1] = lowest[n] + term(n + 1)
  <2>1. lowest = [n \in Nat |-> IF n = 0 THEN 0 ELSE lowest[n - 1] + term(n)]
    BY <1>5
  <2>2. ASSUME NEW n \in Nat PROVE lowest[n + 1] = lowest[n] + term(n + 1)
    <3>1. n + 1 \in Nat /\ n + 1 # 0 /\ (n + 1) - 1 = n
      OBVIOUS
    <3>2. lowest[n + 1] = IF n + 1 = 0 THEN 0 ELSE lowest[(n + 1) - 1] + term(n + 1)
      BY <2>1, <3>1, Zenon
    <3> QED BY <3>1, <3>2
  <2> QED BY <2>1, <2>2
<1>8. \A n \in Nat : lowest[n] \in Int
  <2> DEFINE T == {n \in Nat : lowest[n] \in Int}
  <2>1. 0 \in T
    BY <1>z
  <2>2. ASSUME NEW n \in Nat, n \in T PROVE n + 1 \in T
    <3>1. lowest[n] \in Int
      BY <2>2
    <3>2. term(n + 1) \in Int
      BY <1>1
    <3>3. lowest[n + 1] = lowest[n] + term(n + 1)
      BY <1>7
    <3>4. lowest[n + 1] \in Int
      BY <3>1, <3>2, <3>3
    <3> QED BY <3>4
  <2>3. \A n \in Nat : n \in T
    <3> HIDE DEF T
    <3> QED BY <2>1, <2>2, SetInduction
  <2> QED BY <2>3
<1>9. \A n \in Nat : term(n + 1) = Column(x, n + 1) * Power(Base, n)
  BY DEF term
<1> QED BY <1>6, <1>z, <1>7, <1>8, <1>9

LEMMA WeightType == \A n \in Nat : /\ Power(Base, n) \in Nat /\ Power(Base, n) >= 1
                                   /\ Power(Base, n + 1) = Base * Power(Base, n)
<1>1. Base \in Nat \ {0}
  BY BaseAssumption
<1>2. \A n \in Nat : Power(Base, n) \in Nat \ {0} /\ Power(Base, n + 1) = Base * Power(Base, n)
  BY <1>1, PowerFacts
<1> HIDE DEF Power
<1> QED BY <1>2

\* Columns stand for less than the weight of the next one.
LEMMA LowestBound ==
  ASSUME NEW x \in Seq(Limb)
  PROVE  \A n \in Nat : 0 <= Lowest(x, n) /\ Lowest(x, n) < Power(Base, n)
<1> DEFINE T == {n \in Nat : 0 <= Lowest(x, n) /\ Lowest(x, n) < Power(Base, n)}
<1>1. 0 \in T
  <2>1. Lowest(x, 0) = 0 /\ Power(Base, 0) >= 1 /\ Power(Base, 0) \in Nat
    BY LowestFacts, WeightType
  <2> QED BY <2>1
<1>2. ASSUME NEW n \in Nat, n \in T PROVE n + 1 \in T
  <2> DEFINE l == Lowest(x, n)
             c == Column(x, n + 1)
             p == Power(Base, n)
  <2>1. l \in Int /\ 0 <= l /\ l < p
    BY <1>2, LowestFacts
  <2>2. c \in Int /\ 0 <= c /\ c <= Base - 1 /\ Base \in Nat
    BY ColumnType, LimbBounds
  <2>3. p \in Nat /\ Power(Base, n + 1) = Base * p
    BY WeightType
  <2>4. Lowest(x, n + 1) = l + c * p
    BY LowestFacts
  <2> HIDE DEF l, c, p
  <2>5. 0 <= c * p /\ c * p <= (Base - 1) * p /\ c * p \in Int
    BY <2>2, <2>3
  <2>6. (Base - 1) * p = Base * p - p /\ Base * p \in Int
    BY <2>2, <2>3
  <2>7. 0 <= l + c * p /\ l + c * p < Base * p
    BY <2>1, <2>3, <2>5, <2>6
  <2> QED BY <2>3, <2>4, <2>7
<1>3. \A n \in Nat : n \in T
  <2> HIDE DEF T
  <2> QED BY <1>1, <1>2, SetInduction
<1> QED BY <1>3

\* Columns above the highest limb stand for nothing.
LEMMA LowestBeyond ==
  ASSUME NEW x \in Seq(Limb)
  PROVE  \A n \in Nat : n >= Len(x) => Lowest(x, n) = Value(x)
<1> DEFINE T == {n \in Nat : Lowest(x, Len(x) + n) = Value(x)}
<1>0. Len(x) \in Nat
  BY LenProperties
<1>1. 0 \in T
  BY <1>0 DEF Value
<1>2. ASSUME NEW n \in Nat, n \in T PROVE n + 1 \in T
  <2> DEFINE m == Len(x) + n
  <2>1. m \in Nat /\ Len(x) + (n + 1) = m + 1
    BY <1>0
  <2>2. Column(x, m + 1) = 0
    BY <1>0 DEF Column
  <2>3. /\ Lowest(x, m + 1) = Lowest(x, m) + Column(x, m + 1) * Power(Base, m)
        /\ Lowest(x, m) \in Int /\ Power(Base, m) \in Nat
    BY <2>1, LowestFacts, WeightType
  <2>4. Lowest(x, m) = Value(x)
    BY <1>2
  <2> HIDE DEF m
  <2>5. Lowest(x, m + 1) = Value(x)
    BY <2>2, <2>3, <2>4
  <2> QED BY <2>1, <2>5
<1>3. \A n \in Nat : n \in T
  <2> HIDE DEF T
  <2> QED BY <1>1, <1>2, SetInduction
<1>4. ASSUME NEW n \in Nat, n >= Len(x) PROVE Lowest(x, n) = Value(x)
  <2>1. n - Len(x) \in Nat /\ Len(x) + (n - Len(x)) = n
    BY <1>0, <1>4
  <2> QED BY <1>3, <2>1
<1> QED BY <1>4

\* The number depends on the columns only: not on zeros above them, not on
\* where they are stored.
LEMMA ValueOfColumns ==
  ASSUME NEW x \in Seq(Limb), NEW y \in Seq(Limb),
         \A i \in Nat \ {0} : Column(x, i) = Column(y, i)
  PROVE  Value(x) = Value(y)
<1> DEFINE T == {n \in Nat : Lowest(x, n) = Lowest(y, n)}
<1>1. 0 \in T
  BY LowestFacts
<1>2. ASSUME NEW n \in Nat, n \in T PROVE n + 1 \in T
  <2>1. Column(x, n + 1) = Column(y, n + 1)
    OBVIOUS
  <2> QED BY <1>2, <2>1, LowestFacts
<1>3. \A n \in Nat : n \in T
  <2> HIDE DEF T
  <2> QED BY <1>1, <1>2, SetInduction
<1>4. Len(x) \in Nat /\ Len(y) \in Nat
  BY LenProperties
<1>5. PICK n \in Nat : n >= Len(x) /\ n >= Len(y)
  <2>1. Len(x) + Len(y) \in Nat /\ Len(x) + Len(y) >= Len(x) /\ Len(x) + Len(y) >= Len(y)
    BY <1>4
  <2> QED BY <2>1
<1> QED BY <1>3, <1>5, LowestBeyond

LEMMA ValueBound ==
  ASSUME NEW x \in Seq(Limb), NEW n \in Nat, Len(x) <= n
  PROVE  Value(x) \in Nat /\ Value(x) < Power(Base, n)
<1>1. Lowest(x, n) = Value(x) /\ Lowest(x, n) \in Int
  BY LowestBeyond, LowestFacts, LenProperties
<1>2. 0 <= Lowest(x, n) /\ Lowest(x, n) < Power(Base, n)
  BY LowestBound
<1> QED BY <1>1, <1>2

-----------------------------------------------------------------------------
(* The columns of a sum and of a difference.                               *)

\* The limb a column keeps and the carry it hands on are its sum.
LEMMA SumLimbExact ==
  ASSUME NEW x \in Seq(Limb), NEW y \in Seq(Limb), NEW i \in Nat \ {0}
  PROVE  SumLimb(x, y, i) + Base * CarryInto(x, y, i + 1)
           = Column(x, i) + Column(y, i) + CarryInto(x, y, i)
<1> DEFINE a == Column(x, i)
           b == Column(y, i)
           c == CarryInto(x, y, i)
           t == a + b + c
<1>1. /\ a \in Int /\ 0 <= a /\ a <= Base - 1 /\ b \in Int /\ 0 <= b /\ b <= Base - 1
      /\ Base \in Nat /\ Base >= 2
  BY ColumnType, LimbBounds
<1>2. c \in {0, 1}
  BY CarryType
<1>3. /\ CarryInto(x, y, i + 1) = IF t >= Base THEN 1 ELSE 0
      /\ SumLimb(x, y, i) = t % Base
  BY CarryRecurrence DEF SumLimb
<1> HIDE DEF a, b, c
<1>4. t \in 0 .. 2 * Base - 1
  BY <1>1, <1>2
<1> HIDE DEF t
<1>5. CASE t >= Base
  <2>1. t % Base = t - Base
    BY <1>1, <1>4, <1>5
  <2> QED BY <1>1, <1>3, <1>4, <1>5, <2>1 DEF t, a, b, c
<1>6. CASE ~ (t >= Base)
  <2>1. t % Base = t
    BY <1>1, <1>4, <1>6
  <2> QED BY <1>1, <1>3, <1>4, <1>6, <2>1 DEF t, a, b, c
<1> QED BY <1>5, <1>6

LEMMA DifferenceLimbExact ==
  ASSUME NEW x \in Seq(Limb), NEW y \in Seq(Limb), NEW i \in Nat \ {0}
  PROVE  DifferenceLimb(x, y, i) - Base * BorrowInto(x, y, i + 1)
           = Column(x, i) - Column(y, i) - BorrowInto(x, y, i)
<1> DEFINE a == Column(x, i)
           b == Column(y, i)
           c == BorrowInto(x, y, i)
           t == a - b - c
<1>1. /\ a \in Int /\ 0 <= a /\ a <= Base - 1 /\ b \in Int /\ 0 <= b /\ b <= Base - 1
      /\ Base \in Nat /\ Base >= 2
  BY ColumnType, LimbBounds
<1>2. c \in {0, 1}
  BY BorrowType
<1>3. /\ BorrowInto(x, y, i + 1) = IF t < 0 THEN 1 ELSE 0
      /\ DifferenceLimb(x, y, i) = t % Base
  BY BorrowRecurrence DEF DifferenceLimb
<1> HIDE DEF a, b, c
<1>4. t \in 0 - Base .. Base - 1
  BY <1>1, <1>2
<1> HIDE DEF t
<1>5. CASE t < 0
  <2>1. t % Base = t + Base
    BY <1>1, <1>4, <1>5
  <2> QED BY <1>1, <1>3, <1>4, <1>5, <2>1 DEF t, a, b, c
<1>6. CASE ~ (t < 0)
  <2>1. t % Base = t
    BY <1>1, <1>4, <1>6
  <2> QED BY <1>1, <1>3, <1>4, <1>6, <2>1 DEF t, a, b, c
<1> QED BY <1>5, <1>6

\* The lowest n columns of a sum, whatever sequence holds them, and the carry
\* out of them.
LEMMA SumOfLowest ==
  ASSUME NEW x \in Seq(Limb), NEW y \in Seq(Limb), NEW s \in Seq(Limb), NEW m \in Nat,
         \A i \in 1 .. m : Column(s, i) = SumLimb(x, y, i)
  PROVE  \A n \in 0 .. m : Lowest(s, n) + CarryOut(x, y, n) * Power(Base, n)
                             = Lowest(x, n) + Lowest(y, n)
<1> DEFINE T == {n \in Nat : n <= m => Lowest(s, n) + CarryOut(x, y, n) * Power(Base, n)
                                         = Lowest(x, n) + Lowest(y, n)}
<1>1. 0 \in T
  <2>1. CarryOut(x, y, 0) = 0 /\ Power(Base, 0) \in Nat
    BY NoCarryIn, WeightType DEF CarryOut
  <2>2. Lowest(s, 0) = 0 /\ Lowest(x, 0) = 0 /\ Lowest(y, 0) = 0
    BY LowestFacts
  <2> QED BY <2>1, <2>2
<1>2. ASSUME NEW n \in Nat, n \in T PROVE n + 1 \in T
  <2> SUFFICES ASSUME n + 1 <= m
               PROVE  Lowest(s, n + 1) + CarryOut(x, y, n + 1) * Power(Base, n + 1)
                        = Lowest(x, n + 1) + Lowest(y, n + 1)
    OBVIOUS
  <2> DEFINE p == Power(Base, n)
             a == Column(x, n + 1)
             b == Column(y, n + 1)
             c == CarryOut(x, y, n)
             d == CarryOut(x, y, n + 1)
             l == SumLimb(x, y, n + 1)
  <2>1. n + 1 \in 1 .. m /\ n + 1 \in Nat \ {0} /\ (n + 1) + 1 = n + 2
    OBVIOUS
  <2>2. Column(s, n + 1) = l
    BY <2>1
  <2>3. /\ a \in Int /\ b \in Int /\ l \in Int /\ Base \in Nat
    BY <2>1, ColumnType, SumLimbType, LimbBounds
  <2>4. c \in Int /\ d \in Int
    BY CarryType DEF CarryOut
  <2>5. l + Base * d = a + b + c
    BY <2>1, SumLimbExact DEF CarryOut
  <2>6. p \in Nat /\ Power(Base, n + 1) = Base * p
    BY WeightType
  <2>7. /\ Lowest(s, n + 1) = Lowest(s, n) + l * p
        /\ Lowest(x, n + 1) = Lowest(x, n) + a * p
        /\ Lowest(y, n + 1) = Lowest(y, n) + b * p
        /\ Lowest(s, n) \in Int /\ Lowest(x, n) \in Int /\ Lowest(y, n) \in Int
    BY <2>2, LowestFacts
  <2>8. Lowest(s, n) + c * p = Lowest(x, n) + Lowest(y, n)
    BY <1>2
  <2> HIDE DEF p, a, b, c, d, l
  <2>9. l * p + d * (Base * p) = a * p + b * p + c * p
    <3>1. (l + Base * d) * p = (a + b + c) * p
      BY <2>5
    <3>2. (l + Base * d) * p = l * p + d * (Base * p)
      BY <2>3, <2>4, <2>6
    <3>3. (a + b + c) * p = a * p + b * p + c * p
      BY <2>3, <2>4, <2>6
    <3> QED BY <3>1, <3>2, <3>3
  <2>10. /\ l * p \in Int /\ d * (Base * p) \in Int /\ a * p \in Int /\ b * p \in Int
         /\ c * p \in Int
    BY <2>3, <2>4, <2>6
  <2> DEFINE lp == l * p
             dp == d * (Base * p)
             ap == a * p
             bp == b * p
             cp == c * p
             ls == Lowest(s, n)
             lx == Lowest(x, n)
             ly == Lowest(y, n)
  <2>11. /\ lp \in Int /\ dp \in Int /\ ap \in Int /\ bp \in Int /\ cp \in Int
         /\ ls \in Int /\ lx \in Int /\ ly \in Int
         /\ lp + dp = ap + bp + cp
         /\ ls + cp = lx + ly
    BY <2>7, <2>8, <2>9, <2>10
  <2>12. d * Power(Base, n + 1) = dp
    BY <2>6
  <2>13. /\ Lowest(s, n + 1) = ls + lp
         /\ Lowest(x, n + 1) = lx + ap
         /\ Lowest(y, n + 1) = ly + bp
    BY <2>7
  <2> HIDE DEF lp, dp, ap, bp, cp, ls, lx, ly
  <2>14. (ls + lp) + dp = (lx + ap) + (ly + bp)
    BY <2>11
  <2> QED BY <2>12, <2>13, <2>14 DEF d
<1>3. \A n \in Nat : n \in T
  <2> HIDE DEF T
  <2> QED BY <1>1, <1>2, SetInduction
<1> QED BY <1>3

LEMMA DifferenceOfLowest ==
  ASSUME NEW x \in Seq(Limb), NEW y \in Seq(Limb), NEW s \in Seq(Limb), NEW m \in Nat,
         \A i \in 1 .. m : Column(s, i) = DifferenceLimb(x, y, i)
  PROVE  \A n \in 0 .. m : Lowest(s, n) - BorrowOut(x, y, n) * Power(Base, n)
                             = Lowest(x, n) - Lowest(y, n)
<1> DEFINE T == {n \in Nat : n <= m => Lowest(s, n) - BorrowOut(x, y, n) * Power(Base, n)
                                         = Lowest(x, n) - Lowest(y, n)}
<1>1. 0 \in T
  <2>1. BorrowOut(x, y, 0) = 0 /\ Power(Base, 0) \in Nat
    BY NoBorrowIn, WeightType DEF BorrowOut
  <2>2. Lowest(s, 0) = 0 /\ Lowest(x, 0) = 0 /\ Lowest(y, 0) = 0
    BY LowestFacts
  <2> QED BY <2>1, <2>2
<1>2. ASSUME NEW n \in Nat, n \in T PROVE n + 1 \in T
  <2> SUFFICES ASSUME n + 1 <= m
               PROVE  Lowest(s, n + 1) - BorrowOut(x, y, n + 1) * Power(Base, n + 1)
                        = Lowest(x, n + 1) - Lowest(y, n + 1)
    OBVIOUS
  <2> DEFINE p == Power(Base, n)
             a == Column(x, n + 1)
             b == Column(y, n + 1)
             c == BorrowOut(x, y, n)
             d == BorrowOut(x, y, n + 1)
             l == DifferenceLimb(x, y, n + 1)
  <2>1. n + 1 \in 1 .. m /\ n + 1 \in Nat \ {0} /\ (n + 1) + 1 = n + 2
    OBVIOUS
  <2>2. Column(s, n + 1) = l
    BY <2>1
  <2>3. /\ a \in Int /\ b \in Int /\ l \in Int /\ Base \in Nat
    BY <2>1, ColumnType, DifferenceLimbType, LimbBounds
  <2>4. c \in Int /\ d \in Int
    BY BorrowType DEF BorrowOut
  <2>5. l - Base * d = a - b - c
    BY <2>1, DifferenceLimbExact DEF BorrowOut
  <2>6. p \in Nat /\ Power(Base, n + 1) = Base * p
    BY WeightType
  <2>7. /\ Lowest(s, n + 1) = Lowest(s, n) + l * p
        /\ Lowest(x, n + 1) = Lowest(x, n) + a * p
        /\ Lowest(y, n + 1) = Lowest(y, n) + b * p
        /\ Lowest(s, n) \in Int /\ Lowest(x, n) \in Int /\ Lowest(y, n) \in Int
    BY <2>2, LowestFacts
  <2>8. Lowest(s, n) - c * p = Lowest(x, n) - Lowest(y, n)
    BY <1>2
  <2> HIDE DEF p, a, b, c, d, l
  <2>9. l * p - d * (Base * p) = a * p - b * p - c * p
    <3>1. (l - Base * d) * p = (a - b - c) * p
      BY <2>5
    <3>2. (l - Base * d) * p = l * p - d * (Base * p)
      BY <2>3, <2>4, <2>6
    <3>3. (a - b - c) * p = a * p - b * p - c * p
      BY <2>3, <2>4, <2>6
    <3> QED BY <3>1, <3>2, <3>3
  <2>10. /\ l * p \in Int /\ d * (Base * p) \in Int /\ a * p \in Int /\ b * p \in Int
         /\ c * p \in Int
    BY <2>3, <2>4, <2>6
  <2> DEFINE lp == l * p
             dp == d * (Base * p)
             ap == a * p
             bp == b * p
             cp == c * p
             ls == Lowest(s, n)
             lx == Lowest(x, n)
             ly == Lowest(y, n)
  <2>11. /\ lp \in Int /\ dp \in Int /\ ap \in Int /\ bp \in Int /\ cp \in Int
         /\ ls \in Int /\ lx \in Int /\ ly \in Int
         /\ lp - dp = ap - bp - cp
         /\ ls - cp = lx - ly
    BY <2>7, <2>8, <2>9, <2>10
  <2>12. d * Power(Base, n + 1) = dp
    BY <2>6
  <2>13. /\ Lowest(s, n + 1) = ls + lp
         /\ Lowest(x, n + 1) = lx + ap
         /\ Lowest(y, n + 1) = ly + bp
    BY <2>7
  <2> HIDE DEF lp, dp, ap, bp, cp, ls, lx, ly
  <2>14. (ls + lp) - dp = (lx + ap) - (ly + bp)
    BY <2>11
  <2> QED BY <2>12, <2>13, <2>14 DEF d
<1>3. \A n \in Nat : n \in T
  <2> HIDE DEF T
  <2> QED BY <1>1, <1>2, SetInduction
<1> QED BY <1>3

\* The quotient and the remainder are the only ones.
LEMMA DivisionUnique ==
  ASSUME NEW a \in Int, NEW m \in Nat \ {0}, NEW q \in Int, NEW r \in 0 .. m - 1,
         a = q * m + r
  PROVE  a % m = r /\ a \div m = q
<1> DEFINE s == a % m
           p == a \div m
<1>1. s \in 0 .. m - 1 /\ p \in Int /\ a = m * p + s
  OBVIOUS
<1> HIDE DEF s, p
<1>2. (p - q) * m = r - s
  <2>1. (p - q) * m = m * p - q * m
    BY <1>1
  <2>2. m * p \in Int /\ q * m \in Int
    BY <1>1
  <2> QED BY <1>1, <2>1, <2>2
<1>3. p = q
  <2>1. CASE p > q
    <3>1. p - q >= 1 /\ p - q \in Int
      BY <1>1, <2>1
    <3>2. (p - q) * m >= m
      BY <3>1
    <3> QED BY <1>1, <1>2, <3>2
  <2>2. CASE p < q
    <3>1. q - p >= 1 /\ q - p \in Int
      BY <1>1, <2>2
    <3>2. (q - p) * m >= m
      BY <3>1
    <3>3. (p - q) * m = 0 - ((q - p) * m) /\ (q - p) * m \in Int
      BY <1>1
    <3> QED BY <1>1, <1>2, <3>2, <3>3
  <2> QED BY <1>1, <2>1, <2>2
<1>4. (p - q) * m = 0
  BY <1>1, <1>3
<1> QED BY <1>1, <1>2, <1>3, <1>4 DEF s, p

\* Every integer is a multiple of m and a remainder.
LEMMA DivisionExists ==
  ASSUME NEW a \in Int, NEW m \in Nat \ {0}
  PROVE  \E q \in Int : a = q * m + (a % m) /\ a % m \in 0 .. m - 1
<1>1. a % m \in 0 .. m - 1 /\ a \div m \in Int /\ a = m * (a \div m) + (a % m)
  OBVIOUS
<1>2. m * (a \div m) = (a \div m) * m
  BY <1>1
<1> QED BY <1>1, <1>2

\* Multiples of m leave the remainder.
LEMMA RemainderShift ==
  ASSUME NEW a \in Int, NEW m \in Nat \ {0}, NEW k \in Int, NEW b \in Int, b = a + k * m
  PROVE  b % m = a % m
<1>1. PICK q \in Int : a = q * m + (a % m) /\ a % m \in 0 .. m - 1
  BY DivisionExists
<1> DEFINE r == a % m
<1>2. r \in 0 .. m - 1 /\ a = q * m + r
  BY <1>1
<1> HIDE DEF r
<1>3. b = (q + k) * m + r
  <2>1. (q + k) * m = q * m + k * m /\ q * m \in Int /\ k * m \in Int
    OBVIOUS
  <2> QED BY <1>2, <2>1
<1>4. q + k \in Int
  OBVIOUS
<1>5. b % m = r
  BY <1>2, <1>3, <1>4, DivisionUnique
<1> QED BY <1>5 DEF r

\* Reducing by a multiple of m first changes nothing.
LEMMA RemainderOfMultiple ==
  ASSUME NEW a \in Int, NEW m \in Nat \ {0}, NEW s \in Nat \ {0}, NEW t, t = s * m
  PROVE  (a % t) % m = a % m
<1>1. t \in Nat \ {0}
  OBVIOUS
<1>2. ASSUME NEW r \in Int, NEW j \in Int, a = r + j * m  PROVE r % m = a % m
  BY <1>2, RemainderShift, ZenonT(30)
<1>3. PICK q \in Int : a = q * t + (a % t) /\ a % t \in 0 .. t - 1
  BY <1>1, DivisionExists
<1>4. a % t \in Int
  BY <1>3
<1>5. a = (a % t) + (q * s) * m /\ q * s \in Int
  <2>1. q * t = (q * s) * m /\ q * s \in Int /\ q * t \in Int
    BY <1>1
  <2> QED BY <1>3, <1>4, <2>1
<1> QED BY <1>2, <1>4, <1>5

LEMMA PowerSum ==
  ASSUME NEW b \in Nat \ {0}, NEW m \in Nat
  PROVE  \A n \in Nat : Power(b, m + n) = Power(b, m) * Power(b, n)
<1> DEFINE T == {n \in Nat : Power(b, m + n) = Power(b, m) * Power(b, n)}
<1>1. 0 \in T
  <2>1. Power(b, 0) = 1 /\ Power(b, m) \in Nat
    BY PowerFacts
  <2> QED BY <2>1
<1>2. ASSUME NEW n \in Nat, n \in T PROVE n + 1 \in T
  <2> DEFINE p == Power(b, m)
             r == Power(b, n)
  <2>0. m + n \in Nat /\ m + (n + 1) = (m + n) + 1
    OBVIOUS
  <2>1. /\ p \in Nat /\ r \in Nat /\ Power(b, n + 1) = b * r
        /\ Power(b, (m + n) + 1) = b * Power(b, m + n)
    BY <2>0, PowerFacts
  <2>2. Power(b, m + n) = p * r
    BY <1>2
  <2> HIDE DEF p, r
  <2>3. b * (p * r) = p * (b * r)
    BY <2>1
  <2>4. Power(b, m + (n + 1)) = p * Power(b, n + 1)
    BY <2>0, <2>1, <2>2, <2>3
  <2> QED BY <2>4 DEF p
<1>3. \A n \in Nat : n \in T
  <2> HIDE DEF T
  <2> QED BY <1>1, <1>2, SetInduction
<1> QED BY <1>3

LEMMA PowerOfPower ==
  ASSUME NEW b \in Nat \ {0}, NEW m \in Nat
  PROVE  \A n \in Nat : Power(Power(b, m), n) = Power(b, n * m)
<1> DEFINE c == Power(b, m)
           T == {n \in Nat : Power(c, n) = Power(b, n * m)}
<1>0. c \in Nat \ {0}
  BY PowerFacts
<1> HIDE DEF c
<1>1. 0 \in T
  <2>1. Power(c, 0) = 1 /\ Power(b, 0) = 1 /\ 0 * m = 0
    BY <1>0, PowerFacts
  <2> QED BY <2>1
<1>2. ASSUME NEW n \in Nat, n \in T PROVE n + 1 \in T
  <2>1. Power(c, n + 1) = c * Power(c, n)
    BY <1>0, PowerFacts
  <2>2. Power(c, n) = Power(b, n * m)
    BY <1>2
  <2>3. (n + 1) * m = m + n * m /\ n * m \in Nat
    OBVIOUS
  <2>4. Power(b, m + n * m) = Power(b, m) * Power(b, n * m)
    BY <2>3, PowerSum
  <2>5. Power(c, n + 1) = Power(b, (n + 1) * m)
    BY <2>1, <2>2, <2>3, <2>4 DEF c
  <2> QED BY <2>5
<1>3. \A n \in Nat : n \in T
  <2> HIDE DEF T
  <2> QED BY <1>1, <1>2, SetInduction
<1> QED BY <1>3 DEF c

\* Powers grow with the exponent.
LEMMA PowerGrows ==
  ASSUME NEW b \in Nat \ {0}, NEW m \in Nat, NEW n \in Nat, m <= n
  PROVE  Power(b, m) <= Power(b, n)
<1> DEFINE p == Power(b, m)
           r == Power(b, n - m)
<1>1. n - m \in Nat /\ m + (n - m) = n
  OBVIOUS
<1>2. Power(b, n) = p * r
  BY <1>1, PowerSum
<1>3. p \in Nat \ {0} /\ r \in Nat \ {0}
  BY <1>1, PowerFacts
<1> HIDE DEF p, r
<1>4. p <= p * r
  BY <1>3
<1> QED BY <1>2, <1>4 DEF p

\* What lies above n columns is a multiple of their weight.
LEMMA LowestSplit ==
  ASSUME NEW x \in Seq(Limb), NEW n \in Nat
  PROVE  \A d \in Nat : \E k \in Nat :
           Lowest(x, n + d) = Lowest(x, n) + k * Power(Base, n)
<1> DEFINE p == Power(Base, n)
           T == {d \in Nat : \E k \in Nat : Lowest(x, n + d) = Lowest(x, n) + k * p}
<1>0. p \in Nat /\ Lowest(x, n) \in Int
  BY WeightType, LowestFacts
<1>1. 0 \in T
  <2>1. Lowest(x, n + 0) = Lowest(x, n) + 0 * p
    BY <1>0
  <2> QED BY <2>1
<1>2. ASSUME NEW d \in Nat, d \in T PROVE d + 1 \in T
  <2>1. PICK k \in Nat : Lowest(x, n + d) = Lowest(x, n) + k * p
    BY <1>2
  <2> DEFINE c == Column(x, (n + d) + 1)
             r == Power(Base, d)
             l == Lowest(x, n)
             j == k + c * r
  <2>2. Lowest(x, (n + d) + 1) = Lowest(x, n + d) + c * Power(Base, n + d)
    BY LowestFacts
  <2>3. Power(Base, n + d) = p * r
    BY BaseAssumption, PowerSum
  <2>4. c \in Nat /\ r \in Nat
    <3>1. (n + d) + 1 \in Nat \ {0}
      OBVIOUS
    <3>2. c \in Limb
      BY <3>1, ColumnType
    <3>3. c \in Int /\ 0 <= c
      BY <3>2, LimbBounds
    <3>4. r \in Nat
      BY WeightType
    <3> QED BY <3>3, <3>4
  <2>5. l \in Int
    BY <1>0
  <2> HIDE DEF p, c, r, l
  <2>6. c * (p * r) = (c * r) * p /\ (k + c * r) * p = k * p + (c * r) * p
        /\ c * r \in Nat /\ (c * r) * p \in Nat /\ k * p \in Nat
    BY <1>0, <2>4
  <2>7. Lowest(x, n + d) = l + k * p
    BY <2>1 DEF l
  <2>8. Lowest(x, (n + d) + 1) = (l + k * p) + c * (p * r)
    BY <2>2, <2>3, <2>7
  <2>9. Lowest(x, (n + d) + 1) = l + j * p /\ j \in Nat
    BY <2>4, <2>5, <2>6, <2>8, SMTT(30)
  <2>10. n + (d + 1) = (n + d) + 1
    OBVIOUS
  <2> HIDE DEF j
  <2>11. Lowest(x, n + (d + 1)) = Lowest(x, n) + j * p
    BY <2>9, <2>10 DEF l
  <2> QED BY <2>9, <2>11
<1>3. \A d \in Nat : d \in T
  <2> HIDE DEF T
  <2> QED BY <1>1, <1>2, SetInduction
<1> QED BY <1>3

LEMMA ValueSplit ==
  ASSUME NEW x \in Seq(Limb), NEW n \in Nat
  PROVE  \E k \in Nat : Value(x) = Lowest(x, n) + k * Power(Base, n)
<1>1. Len(x) \in Nat /\ n + Len(x) >= Len(x) /\ n + Len(x) \in Nat
  BY LenProperties
<1>2. Value(x) = Lowest(x, n + Len(x))
  BY <1>1, LowestBeyond
<1>3. \E k \in Nat : Lowest(x, n + Len(x)) = Lowest(x, n) + k * Power(Base, n)
  BY <1>1, LowestSplit
<1> QED BY <1>2, <1>3

\* A limb above n columns that is not zero makes the number at least their weight.
LEMMA ValueOfCanonical ==
  ASSUME NEW x \in Seq(Limb), Canonical(x), NEW n \in Nat, n < Len(x)
  PROVE  Value(x) >= Power(Base, n)
<1> DEFINE m == Len(x) - 1
           c == Column(x, m + 1)
           p == Power(Base, m)
<1>1. Len(x) \in Nat /\ m \in Nat /\ m + 1 = Len(x) /\ n <= m
  BY LenProperties
<1>2. c \in Int /\ c >= 1
  <2>1. x # <<>>
    BY <1>1
  <2>2. c # 0
    BY <1>1, <2>1 DEF Canonical, Column
  <2>3. c \in Limb
    BY <1>1, ColumnType
  <2> QED BY <2>2, <2>3, LimbBounds
<1>3. Value(x) = Lowest(x, m) + c * p
  <2>1. Lowest(x, m + 1) = Lowest(x, m) + c * p
    BY <1>1, LowestFacts
  <2> QED BY <1>1, <2>1 DEF Value
<1>4. p \in Nat /\ Lowest(x, m) \in Int /\ 0 <= Lowest(x, m)
  BY <1>1, WeightType, LowestFacts, LowestBound
<1>5. Power(Base, n) <= p /\ Power(Base, n) \in Nat
  <2>1. Base \in Nat \ {0}
    BY BaseAssumption
  <2>2. Power(Base, n) <= p
    BY <1>1, <2>1, PowerGrows
  <2> QED BY <2>2, WeightType
<1> HIDE DEF c, p
<1>6. c * p >= p /\ c * p \in Int
  BY <1>2, <1>4
<1> QED BY <1>3, <1>4, <1>5, <1>6

\* The lowest columns stand for the same number wherever they are.
LEMMA LowestOfColumns ==
  ASSUME NEW x \in Seq(Limb), NEW y \in Seq(Limb), NEW m \in Nat,
         \A i \in 1 .. m : Column(x, i) = Column(y, i)
  PROVE  Lowest(x, m) = Lowest(y, m)
<1> DEFINE T == {n \in Nat : n <= m => Lowest(x, n) = Lowest(y, n)}
<1>1. 0 \in T
  BY LowestFacts
<1>2. ASSUME NEW n \in Nat, n \in T PROVE n + 1 \in T
  <2> SUFFICES ASSUME n + 1 <= m PROVE Lowest(x, n + 1) = Lowest(y, n + 1)
    OBVIOUS
  <2>1. n + 1 \in 1 .. m /\ n <= m
    OBVIOUS
  <2>2. Column(x, n + 1) = Column(y, n + 1) /\ Lowest(x, n) = Lowest(y, n)
    BY <1>2, <2>1
  <2> QED BY <2>2, LowestFacts
<1>3. \A n \in Nat : n \in T
  <2> HIDE DEF T
  <2> QED BY <1>1, <1>2, SetInduction
<1> QED BY <1>3

-----------------------------------------------------------------------------
(* The least and the greatest of a set of naturals.                        *)

LEMMA LeastOf ==
  ASSUME NEW S, S \subseteq Nat, S # {}
  PROVE  Min(S) \in S /\ \A n \in S : Min(S) <= n
<1>1. PICK n \in S : \A m \in S : ~ (<< m, n >> \in OpToRel(<, Nat))
  BY NatLessThanWellFounded, WFMin, Zenon
<1>2. \A m \in S : n <= m
  <2> TAKE m \in S
  <2>1. ~ (<< m, n >> \in OpToRel(<, Nat))
    BY <1>1
  <2>2. m \in Nat /\ n \in Nat
    OBVIOUS
  <2>3. ~ (m < n)
    BY <2>1, <2>2 DEF OpToRel
  <2> QED BY <2>2, <2>3
<1> QED BY <1>1, <1>2 DEF Min

LEMMA GreatestOf ==
  ASSUME NEW k \in Nat, NEW S, S \subseteq 0 .. k, S # {}
  PROVE  Max(S) \in S /\ \A n \in S : n <= Max(S)
<1> DEFINE D == {k - n : n \in S}
<1>1. D \subseteq Nat /\ D # {}
  <2>1. \A n \in S : k - n \in Nat
    OBVIOUS
  <2> QED BY <2>1
<1>2. PICK d \in D : \A e \in D : d <= e
  <2> HIDE DEF D
  <2> QED BY <1>1, LeastOf
<1>3. PICK n \in S : d = k - n
  BY <1>2
<1>4. \A m \in S : n >= m
  <2> TAKE m \in S
  <2>1. k - m \in D
    OBVIOUS
  <2>2. d <= k - m
    BY <1>2, <2>1
  <2> QED BY <1>3, <2>2
<1>5. Max(S) \in S /\ \A m \in S : Max(S) >= m
  BY <1>4 DEF Max
<1> QED BY <1>5

-----------------------------------------------------------------------------
(* Blocks.                                                                 *)

\* The blocks b take m limbs together: left is what they leave, one by one.
Leaves(left, b, m) ==
  /\ left \in [0 .. Len(b) -> Nat]
  /\ left[0] = m
  /\ left[Len(b)] = 0
  /\ \A k \in 1 .. Len(b) : left[k - 1] = left[k] + b[k]

Covers(b, m) == b \in Seq(Nat) /\ \E left : Leaves(left, b, m)

LEMMA CoversNothing ==
  /\ Covers(<<>>, 0)
  /\ \A m : Covers(<<>>, m) => m = 0
<1>1. <<>> \in Seq(Nat) /\ Len(<<>>) = 0
  OBVIOUS
<1>2. Leaves([k \in 0 .. 0 |-> 0], <<>>, 0)
  BY <1>1 DEF Leaves
<1> QED BY <1>1, <1>2 DEF Covers, Leaves

\* The first block lies within the limbs, and the others take the rest.
LEMMA CoversNext ==
  ASSUME NEW b, NEW m, Covers(b, m), b # <<>>
  PROVE  Head(b) \in Nat /\ Head(b) <= m /\ Covers(Tail(b), m - Head(b))
<1>1. PICK left : Leaves(left, b, m)
  BY DEF Covers
<1>2. /\ b \in Seq(Nat) /\ Len(b) \in Nat /\ Len(b) >= 1 /\ Head(b) = b[1] /\ b[1] \in Nat
      /\ Tail(b) \in Seq(Nat) /\ Len(Tail(b)) = Len(b) - 1
      /\ \A k \in 1 .. Len(Tail(b)) : Tail(b)[k] = b[k + 1]
  BY LenProperties, HeadTailProperties DEF Covers
<1> DEFINE rest == [k \in 0 .. Len(b) - 1 |-> left[k + 1]]
<1>3. /\ left \in [0 .. Len(b) -> Nat] /\ left[0] = m /\ left[Len(b)] = 0
      /\ \A k \in 1 .. Len(b) : left[k - 1] = left[k] + b[k]
  BY <1>1 DEF Leaves
<1>4. left[0] = left[1] + b[1] /\ left[1] \in Nat
  <2>1. 1 \in 1 .. Len(b) /\ 1 - 1 = 0 /\ 1 \in 0 .. Len(b)
    BY <1>2
  <2> QED BY <1>3, <2>1
<1>5. rest[0] = m - Head(b)
  <2>1. 0 \in 0 .. Len(b) - 1 /\ 0 + 1 = 1
    BY <1>2
  <2> QED BY <1>2, <1>3, <1>4, <2>1
<1>6. rest \in [0 .. Len(Tail(b)) -> Nat]
  BY <1>2, <1>3
<1>7. rest[Len(Tail(b))] = 0
  BY <1>2, <1>3
<1>8. ASSUME NEW k \in 1 .. Len(Tail(b)) PROVE rest[k - 1] = rest[k] + Tail(b)[k]
  <2>1. /\ k - 1 \in 0 .. Len(b) - 1 /\ (k - 1) + 1 = k /\ k \in 0 .. Len(b) - 1
        /\ k + 1 \in 1 .. Len(b) /\ (k + 1) - 1 = k
    BY <1>2
  <2>2. rest[k - 1] = left[k] /\ rest[k] = left[k + 1]
    BY <2>1
  <2>3. left[k] = left[k + 1] + b[k + 1]
    BY <1>3, <2>1
  <2> QED BY <1>2, <2>2, <2>3
<1> HIDE DEF rest
<1>9. Leaves(rest, Tail(b), m - Head(b))
  BY <1>5, <1>6, <1>7, <1>8 DEF Leaves
<1> QED BY <1>2, <1>3, <1>4, <1>9 DEF Covers

\* n blocks of one size.
LEMMA CoversRun ==
  ASSUME NEW n \in Nat, NEW size \in Nat
  PROVE  Covers([r \in 1 .. n |-> size], n * size)
<1> DEFINE b == [r \in 1 .. n |-> size]
           left == [k \in 0 .. n |-> (n - k) * size]
<1>1. b \in Seq(Nat) /\ Len(b) = n /\ \A r \in 1 .. n : b[r] = size
  OBVIOUS
<1>2. \A col, j \in Nat : col * j \in Nat
  OBVIOUS
<1>3. left \in [0 .. n -> Nat]
  <2>1. \A k \in 0 .. n : n - k \in Nat
    OBVIOUS
  <2> QED BY <1>2, <2>1
<1>4. left[0] = n * size /\ left[n] = 0
  <2>1. n - 0 = n /\ n - n = 0 /\ 0 * size = 0 /\ 0 \in 0 .. n /\ n \in 0 .. n
    OBVIOUS
  <2> QED BY <2>1
<1>5. ASSUME NEW k \in 1 .. n PROVE left[k - 1] = left[k] + b[k]
  <2>1. k - 1 \in 0 .. n /\ k \in 0 .. n /\ n - (k - 1) = (n - k) + 1 /\ n - k \in Nat
    OBVIOUS
  <2>2. \A col \in Nat : (col + 1) * size = col * size + size
    OBVIOUS
  <2>3. left[k - 1] = (n - (k - 1)) * size /\ left[k] = (n - k) * size
    BY <2>1
  <2> HIDE DEF left
  <2> QED BY <1>1, <2>1, <2>2, <2>3
<1> HIDE DEF left, b
<1>6. Leaves(left, b, n * size)
  BY <1>1, <1>3, <1>4, <1>5 DEF Leaves
<1>7. Covers(b, n * size)
  BY <1>1, <1>6 DEF Covers
<1> QED BY <1>7 DEF b

LEMMA CoversBoth ==
  ASSUME NEW b, NEW c, NEW m \in Nat, NEW n \in Nat, Covers(b, m), Covers(c, n)
  PROVE  Covers(b \o c, m + n)
<1>1. PICK f : Leaves(f, b, m)
  BY DEF Covers
<1>2. PICK g : Leaves(g, c, n)
  BY DEF Covers
<1>3. /\ b \in Seq(Nat) /\ c \in Seq(Nat) /\ Len(b) \in Nat /\ Len(c) \in Nat
      /\ b \o c \in Seq(Nat) /\ Len(b \o c) = Len(b) + Len(c)
      /\ \A col \in 1 .. Len(b) + Len(c) :
           (b \o c)[col] = IF col <= Len(b) THEN b[col] ELSE c[col - Len(b)]
  BY LenProperties, ConcatProperties DEF Covers
<1> DEFINE p == Len(b)
           q == Len(c)
           left == [k \in 0 .. p + q |-> IF k <= p THEN f[k] + n ELSE g[k - p]]
<1>4. /\ f \in [0 .. p -> Nat] /\ f[0] = m /\ f[p] = 0
      /\ \A k \in 1 .. p : f[k - 1] = f[k] + b[k]
      /\ g \in [0 .. q -> Nat] /\ g[0] = n /\ g[q] = 0
      /\ \A k \in 1 .. q : g[k - 1] = g[k] + c[k]
  BY <1>1, <1>2 DEF Leaves
<1> HIDE DEF p, q
<1>5. p \in Nat /\ q \in Nat
  BY <1>3 DEF p, q
<1>6. \A k \in 0 .. p + q : left[k] = IF k <= p THEN f[k] + n ELSE g[k - p]
  OBVIOUS
<1>7. left \in [0 .. p + q -> Nat]
  <2>1. ASSUME NEW k \in 0 .. p + q
        PROVE  (IF k <= p THEN f[k] + n ELSE g[k - p]) \in Nat
    <3>1. CASE k <= p
      <4>1. k \in 0 .. p
        BY <1>5, <3>1
      <4>2. f[k] \in Nat
        BY <1>4, <4>1
      <4> QED BY <3>1, <4>2
    <3>2. CASE ~ (k <= p)
      <4>1. k - p \in 0 .. q
        BY <1>5, <3>2
      <4>2. g[k - p] \in Nat
        BY <1>4, <4>1
      <4> QED BY <3>2, <4>2
    <3> QED BY <3>1, <3>2
  <2> QED BY <2>1
<1> HIDE DEF left
<1>8. left[0] = m + n
  <2>1. 0 \in 0 .. p + q /\ 0 <= p
    BY <1>5
  <2> QED BY <1>4, <1>6, <2>1
<1>9. left[p + q] = 0
  <2>1. p + q \in 0 .. p + q
    BY <1>5
  <2>2. CASE q = 0
    <3>1. n = 0 /\ p + q = p /\ p <= p
      BY <1>4, <1>5, <2>2
    <3> QED BY <1>4, <1>6, <2>1, <3>1
  <2>3. CASE q # 0
    <3>1. ~ (p + q <= p) /\ (p + q) - p = q
      BY <1>5, <2>3
    <3>2. left[p + q] = g[(p + q) - p]
      BY <1>6, <2>1, <3>1
    <3> QED BY <1>4, <3>1, <3>2
  <2> QED BY <2>2, <2>3
<1>10. ASSUME NEW k \in 1 .. p + q PROVE left[k - 1] = left[k] + (b \o c)[k]
  <2>1. k - 1 \in 0 .. p + q /\ k \in 0 .. p + q
    BY <1>5
  <2>2. CASE k <= p
    <3>1. k \in 1 .. p /\ k - 1 <= p /\ k - 1 \in 0 .. p /\ k \in 0 .. p
      BY <1>5, <2>2
    <3>2. left[k - 1] = f[k - 1] + n /\ left[k] = f[k] + n
      BY <1>6, <2>1, <2>2, <3>1
    <3>3. (b \o c)[k] = b[k] /\ b[k] \in Nat
      <4>1. k \in 1 .. Len(b) + Len(c)
        BY DEF p, q
      <4>2. (b \o c)[k] = b[k]
        BY <1>3, <2>2, <4>1 DEF p
      <4>3. b[k] \in Nat
        BY <1>3, <3>1 DEF p
      <4> QED BY <4>2, <4>3
    <3>4. f[k - 1] = f[k] + b[k] /\ f[k] \in Nat
      BY <1>4, <3>1
    <3> QED BY <3>2, <3>3, <3>4
  <2>3. CASE ~ (k <= p)
    <3> DEFINE j == k - p
    <3>1. j \in 1 .. q /\ j - 1 = (k - 1) - p /\ j \in 0 .. q
      BY <1>5, <2>3
    <3>2. left[k] = g[j]
      BY <1>6, <2>1, <2>3
    <3>3. left[k - 1] = g[j - 1]
      <4>1. CASE k - 1 <= p
        <5>1. k - 1 = p /\ j - 1 = 0
          BY <1>5, <2>3, <4>1
        <5>2. left[k - 1] = f[k - 1] + n
          BY <1>6, <2>1, <4>1
        <5> HIDE DEF j
        <5> QED BY <1>4, <5>1, <5>2
      <4>2. CASE ~ (k - 1 <= p)
        BY <1>6, <2>1, <3>1, <4>2
      <4> QED BY <4>1, <4>2
    <3>4. (b \o c)[k] = c[j]
      <4>1. k \in 1 .. Len(b) + Len(c)
        BY DEF p, q
      <4>2. ~ (k <= Len(b))
        BY <2>3 DEF p
      <4>3. (b \o c)[k] = c[k - Len(b)]
        BY <1>3, <4>1, <4>2
      <4> QED BY <4>3 DEF p
    <3>5. g[j - 1] = g[j] + c[j]
      BY <1>4, <3>1
    <3> HIDE DEF j
    <3> QED BY <3>2, <3>3, <3>4, <3>5
  <2> QED BY <2>2, <2>3
<1>11. Leaves(left, b \o c, m + n)
  <2>1. Len(b \o c) = p + q
    BY <1>3 DEF p, q
  <2> QED BY <1>7, <1>8, <1>9, <1>10, <2>1 DEF Leaves
<1> QED BY <1>3, <1>11 DEF Covers

-----------------------------------------------------------------------------
(* Schedules.                                                              *)

Shapes ==
  {OneByOne, TwoThenOne, FourThenOne, EightThenOne, FourThenRest, FourBeforeEight, Halving}
\* FlattenSeq joins the runs of the phases, of which no kernel has more than four.
Joins(f, seqs, n) ==
  /\ FlattenSeq(seqs) = f[n]
  /\ f[1] = seqs[1]
  /\ \A col \in 2 .. n : f[col] = f[col - 1] \o seqs[col]

LEMMA FlattenUnfolds ==
  ASSUME NEW n, NEW seqs, n \in 1 .. 4, Len(seqs) = n
  PROVE  \E f : Joins(f, seqs, n)
<1> DEFINE Is(f) == f = [col \in 1 .. n |-> IF col = 1 THEN seqs[col] ELSE f[col - 1] \o seqs[col]]
           flatten == CHOOSE f : Is(f)
           Join(b, c) == b \o c
           two == Join(seqs[1], seqs[2])
           three == Join(two, seqs[3])
           witness == [col \in 1 .. n |-> IF col = 1 THEN seqs[1] ELSE IF col = 2 THEN two
                                       ELSE IF col = 3 THEN three ELSE Join(three, seqs[4])]
<1>1. Is(witness)
  <2>1. ASSUME NEW col \in 1 .. n
        PROVE  witness[col] = IF col = 1 THEN seqs[col] ELSE Join(witness[col - 1], seqs[col])
    <3> HIDE DEF Join
    <3>1. col \in {1, 2, 3, 4} /\ 1 \in 1 .. n
      OBVIOUS
    <3>2. CASE col = 1
      BY <3>1, <3>2
    <3>3. CASE col = 2
      <4>1. col - 1 = 1
        BY <3>3
      <4> QED BY <3>1, <3>3, <4>1
    <3>4. CASE col = 3
      <4>1. col - 1 = 2 /\ 2 \in 1 .. n
        BY <3>4
      <4> QED BY <3>1, <3>4, <4>1
    <3>5. CASE col = 4
      <4>1. col - 1 = 3 /\ 3 \in 1 .. n
        BY <3>5
      <4> QED BY <3>1, <3>5, <4>1
    <3> QED BY <3>1, <3>2, <3>3, <3>4, <3>5
  <2>2. witness = [col \in 1 .. n |-> witness[col]]
    OBVIOUS
  <2> HIDE DEF witness
  <2> QED BY <2>1, <2>2
<1> HIDE DEF witness
<1>2. Is(flatten)
  <2> HIDE DEF Is
  <2> QED BY <1>1, Zenon
<1>3. FlattenSeq(seqs) = flatten[n]
  BY n # 0, Zenon DEF FlattenSeq
<1> HIDE DEF flatten
<1>4. \A col \in 1 .. n : flatten[col] = IF col = 1 THEN seqs[col] ELSE flatten[col - 1] \o seqs[col]
  BY <1>2, Zenon
<1>5. flatten[1] = seqs[1]
  BY <1>4
<1>6. ASSUME NEW col \in 2 .. n PROVE flatten[col] = flatten[col - 1] \o seqs[col]
  <2>1. col \in 1 .. n /\ col # 1
    OBVIOUS
  <2> QED BY <1>4, <2>1, Zenon
<1> QED BY <1>3, <1>5, <1>6 DEF Joins

BlockSizes == {1, 2, 4, 8}
Bounds == {0, 2, 4, 8}

\* The limbs a phase of blocks takes.
Takes(block, below, len) ==
  ((IF below = 0 THEN len ELSE len % below) \div block) * block

LEMMA PhaseRun ==
  ASSUME NEW block \in BlockSizes, NEW below \in Bounds, NEW len \in Nat
  PROVE  /\ Rounds(Phase(block, below), len) \in Nat
         /\ Size(Phase(block, below), len) = block
         /\ Takes(block, below, len) \in Nat
         /\ Takes(block, below, len) = Rounds(Phase(block, below), len) * block
<1> USE DEF BlockSizes, Bounds
<1> DEFINE share == IF below = 0 THEN len ELSE len % below
<1>1. share \in Nat
  <2>1. CASE below = 0
    BY <2>1
  <2>2. CASE below # 0
    <3>1. below \in Nat \ {0}
      BY <2>2
    <3>2. len % below \in 0 .. below - 1
      BY <3>1
    <3> QED BY <2>2, <3>2
  <2> QED BY <2>1, <2>2
<1>2. /\ Share(Phase(block, below), len) = share
      /\ Size(Phase(block, below), len) = block
      /\ Rounds(Phase(block, below), len) = share \div block
  BY DEF Phase, Share, Size, Rounds
<1> HIDE DEF share
<1>3. share \div block \in Nat
  BY <1>1
<1>4. (share \div block) * block \in Nat
  BY <1>3
<1>5. Takes(block, below, len) = (share \div block) * block
  BY DEF Takes, share
<1> QED BY <1>2, <1>3, <1>4, <1>5

\* A phase whose loop is entered with a round to run.
LEMMA PhaseCovers ==
  ASSUME NEW block \in BlockSizes, NEW below \in Bounds, NEW len \in Nat
  PROVE  Covers([r \in 1 .. Rounds(Phase(block, below), len) |-> Size(Phase(block, below), len)],
                Takes(block, below, len))
<1> DEFINE rounds == Rounds(Phase(block, below), len)
           size == Size(Phase(block, below), len)
           takes == Takes(block, below, len)
<1>1. rounds \in Nat /\ size = block /\ takes = rounds * block
  BY PhaseRun
<1>2. block \in Nat
  BY DEF BlockSizes
<1> HIDE DEF rounds, size, takes
<1>3. Covers([r \in 1 .. rounds |-> size], takes)
  BY <1>1, <1>2, CoversRun
<1> QED BY <1>3 DEF rounds, size, takes

\* A last phase that takes what is left in one block, when there is any.
LEMMA RestCovers ==
  ASSUME NEW below \in {4}, NEW len \in Nat
  PROVE  Covers([r \in 1 .. Rounds(Rest(below), len) |-> Size(Rest(below), len)], len % below)
<1> DEFINE share == len % below
<1>1. share \in Nat
  OBVIOUS
<1>2. /\ Size(Rest(below), len) = share
      /\ Rounds(Rest(below), len) = IF share = 0 THEN 0 ELSE share \div share
  BY DEF Rest, Phase, Share, Size, Rounds
<1> HIDE DEF share
<1>3. CASE share = 0
  <2>1. Covers([r \in 1 .. 0 |-> share], 0 * share)
    BY <1>1, CoversRun
  <2> QED BY <1>2, <1>3, <2>1 DEF share
<1>4. CASE share # 0
  <2>1. share = 1 * share + 0 /\ 0 \in 0 .. share - 1 /\ share \in Nat \ {0} /\ share \in Int
    BY <1>1, <1>4
  <2>2. share \div share = 1
    BY <2>1, DivisionUnique
  <2>3. Covers([r \in 1 .. 1 |-> share], 1 * share)
    BY <1>1, CoversRun
  <2> QED BY <1>2, <1>4, <2>1, <2>2, <2>3 DEF share
<1> QED BY <1>3, <1>4

\* The blocks of the phases share the limbs out.
LEMMA ShareOut ==
  ASSUME NEW len \in Nat
  PROVE  /\ Takes(1, 0, len) = len
         /\ Takes(2, 0, len) + Takes(1, 2, len) = len
         /\ Takes(4, 0, len) + Takes(1, 4, len) = len
         /\ Takes(8, 0, len) + Takes(1, 8, len) = len
         /\ Takes(4, 8, len) + Takes(8, 0, len) + Takes(1, 4, len) = len
         /\ Takes(8, 0, len) + Takes(4, 8, len) + Takes(2, 4, len) + Takes(1, 2, len) = len
BY DEF Takes

\* A schedule whose first loop has a round, or tests for one, covers the span.
LEMMA ScheduleCovers ==
  ASSUME NEW phases \in Shapes, NEW tested \in BOOLEAN, NEW len \in Nat,
         ~tested => phases \in {FourThenOne, TwoThenOne, FourThenRest} /\ len >= 4
  PROVE  Covers(Schedule(phases, tested, len), len)
<1> DEFINE Run(p) == [r \in 1 .. Rounds(p, len) |-> Size(p, len)]
           Times(n) == LET p == phases[n]
                       IN  IF Rounds(p, len) = 0 /\ n = 1 /\ ~tested THEN 1 ELSE Rounds(p, len)
           runs == [n \in 1 .. Len(phases) |-> [r \in 1 .. Times(n) |-> Size(phases[n], len)]]
<1>1. Schedule(phases, tested, len) = FlattenSeq(runs)
  BY Zenon DEF Schedule
<1>2. ~tested => Rounds(phases[1], len) # 0
  <2>1. SUFFICES ASSUME ~tested PROVE Rounds(phases[1], len) # 0
    OBVIOUS
  <2>2. CASE phases = FourThenOne
    <3>1. phases[1] = Phase(4, 0)
      BY <2>2 DEF FourThenOne
    <3>2. Rounds(Phase(4, 0), len) = len \div 4
      BY DEF Phase, Share, Size, Rounds
    <3> QED BY <2>1, <3>1, <3>2
  <2>3. CASE phases = TwoThenOne
    <3>1. phases[1] = Phase(2, 0)
      BY <2>3 DEF TwoThenOne
    <3>2. Rounds(Phase(2, 0), len) = len \div 2
      BY DEF Phase, Share, Size, Rounds
    <3> QED BY <2>1, <3>1, <3>2
  <2>4. CASE phases = FourThenRest
    <3>1. phases[1] = Phase(4, 0)
      BY <2>4 DEF FourThenRest
    <3>2. Rounds(Phase(4, 0), len) = len \div 4
      BY DEF Phase, Share, Size, Rounds
    <3> QED BY <2>1, <3>1, <3>2
  <2> QED BY <2>1, <2>2, <2>3, <2>4
<1>3. Len(runs) = Len(phases) /\ \A n \in 1 .. Len(phases) : runs[n] = Run(phases[n])
  <2>1. \A n \in 1 .. Len(phases) : Times(n) = Rounds(phases[n], len)
    BY <1>2
  <2>2. Len(phases) \in Nat
    BY DEF Shapes, OneByOne, TwoThenOne, FourThenOne, EightThenOne, FourThenRest, FourBeforeEight,
           Halving
  <2> HIDE DEF Times
  <2>3. Len(runs) = Len(phases)
    BY <2>2
  <2> QED BY <2>1, <2>3
<1> HIDE DEF runs
<1>4. ASSUME NEW n \in 1 .. Len(phases), NEW block \in BlockSizes, NEW below \in Bounds,
             phases[n] = Phase(block, below)
      PROVE  Covers(runs[n], Takes(block, below, len))
  <2>1. Covers(Run(phases[n]), Takes(block, below, len))
    BY <1>4, PhaseCovers, Zenon
  <2> QED BY <1>3, <2>1
<1>5. /\ 1 \in BlockSizes /\ 2 \in BlockSizes /\ 4 \in BlockSizes /\ 8 \in BlockSizes
      /\ 0 \in Bounds /\ 2 \in Bounds /\ 4 \in Bounds /\ 8 \in Bounds
  BY DEF BlockSizes, Bounds
<1>6. \A block \in BlockSizes, below \in Bounds : Takes(block, below, len) \in Nat
  BY PhaseRun
<1> HIDE DEF Run
<1>7. CASE phases = OneByOne
  <2>1. Len(phases) = 1 /\ phases[1] = Phase(1, 0)
    BY <1>7 DEF OneByOne
  <2>2. FlattenSeq(runs) = runs[1]
    <3>1. 1 \in 1 .. 4 /\ Len(runs) = 1
      BY <1>3, <2>1
    <3>2. PICK f : Joins(f, runs, 1)
      BY <3>1, FlattenUnfolds
    <3> QED BY <3>2 DEF Joins
  <2>3. Covers(runs[1], Takes(1, 0, len))
    BY <1>4, <1>5, <2>1
  <2> QED BY <1>1, <2>2, <2>3, ShareOut
<1>8. ASSUME NEW a \in {2, 4, 8}, phases = <<Phase(a, 0), Phase(1, a)>>,
             Takes(a, 0, len) + Takes(1, a, len) = len
      PROVE  Covers(FlattenSeq(runs), len)
  <2>1. Len(phases) = 2 /\ phases[1] = Phase(a, 0) /\ phases[2] = Phase(1, a)
    BY <1>8
  <2>2. PICK f : Joins(f, runs, 2)
    <3>1. 2 \in 1 .. 4 /\ Len(runs) = 2
      BY <1>3, <2>1
    <3> QED BY <3>1, FlattenUnfolds
  <2>3. /\ FlattenSeq(runs) = f[2] /\ f[1] = runs[1]
        /\ f[2] = f[1] \o runs[2]
    <3>1. 2 \in 2 .. 2 /\ 2 - 1 = 1
      OBVIOUS
    <3> QED BY <2>2, <3>1 DEF Joins
  <2>4. Covers(runs[1], Takes(a, 0, len)) /\ Covers(runs[2], Takes(1, a, len))
    BY <1>4, <1>5, <2>1
  <2>5. Covers(runs[1] \o runs[2], Takes(a, 0, len) + Takes(1, a, len))
    BY <1>6, <1>5, <2>4, CoversBoth
  <2> QED BY <1>8, <2>2, <2>3, <2>5
<1>9. CASE phases = TwoThenOne
  BY <1>1, <1>8, <1>9, ShareOut DEF TwoThenOne
<1>10. CASE phases = FourThenOne
  BY <1>1, <1>8, <1>10, ShareOut DEF FourThenOne
<1>13. CASE phases = EightThenOne
  BY <1>1, <1>8, <1>13, ShareOut DEF EightThenOne
<1>14. CASE phases = FourThenRest
  <2>1. Len(phases) = 2 /\ phases[1] = Phase(4, 0) /\ phases[2] = Rest(4)
    BY <1>14 DEF FourThenRest
  <2>2. PICK f : Joins(f, runs, 2)
    <3>1. 2 \in 1 .. 4 /\ Len(runs) = 2
      BY <1>3, <2>1
    <3> QED BY <3>1, FlattenUnfolds
  <2>3. /\ FlattenSeq(runs) = f[2] /\ f[1] = runs[1]
        /\ f[2] = f[1] \o runs[2]
    <3>1. 2 \in 2 .. 2 /\ 2 - 1 = 1
      OBVIOUS
    <3> QED BY <2>2, <3>1 DEF Joins
  <2>4. Covers(runs[1], Takes(4, 0, len))
    BY <1>4, <1>5, <2>1
  <2>5. Covers(runs[2], len % 4)
    <3>1. runs[2] = Run(Rest(4))
      BY <1>3, <2>1
    <3> QED BY <3>1, RestCovers DEF Run
  <2>6. Takes(4, 0, len) + (len % 4) = len /\ len % 4 \in Nat
    BY ShareOut DEF Takes
  <2>7. Covers(runs[1] \o runs[2], Takes(4, 0, len) + (len % 4))
    BY <1>6, <1>5, <2>4, <2>5, <2>6, CoversBoth
  <2> QED BY <1>1, <2>2, <2>3, <2>6, <2>7
<1>11. CASE phases = FourBeforeEight
  <2>1. /\ Len(phases) = 3 /\ phases[1] = Phase(4, 8) /\ phases[2] = Phase(8, 0)
        /\ phases[3] = Phase(1, 4)
    BY <1>11 DEF FourBeforeEight
  <2>2. PICK f : Joins(f, runs, 3)
    <3>1. 3 \in 1 .. 4 /\ Len(runs) = 3
      BY <1>3, <2>1
    <3> QED BY <3>1, FlattenUnfolds
  <2>3. /\ FlattenSeq(runs) = f[3] /\ f[1] = runs[1]
        /\ f[2] = f[1] \o runs[2] /\ f[3] = f[2] \o runs[3]
    <3>1. 2 \in 2 .. 3 /\ 2 - 1 = 1 /\ 3 \in 2 .. 3 /\ 3 - 1 = 2
      OBVIOUS
    <3> QED BY <2>2, <3>1 DEF Joins
  <2>4. /\ Covers(runs[1], Takes(4, 8, len)) /\ Covers(runs[2], Takes(8, 0, len))
        /\ Covers(runs[3], Takes(1, 4, len))
    BY <1>4, <1>5, <2>1
  <2> DEFINE t1 == Takes(4, 8, len)
             t2 == Takes(8, 0, len)
             t3 == Takes(1, 4, len)
  <2>5. t1 \in Nat /\ t2 \in Nat /\ t3 \in Nat /\ t1 + t2 \in Nat
    BY <1>6, <1>5
  <2>6. t1 + t2 + t3 = len
    BY ShareOut
  <2> HIDE DEF t1, t2, t3
  <2>7. Covers(f[2], t1 + t2)
    BY <2>3, <2>4, <2>5, CoversBoth DEF t1, t2
  <2>8. Covers(f[3], t1 + t2 + t3)
    BY <2>3, <2>4, <2>5, <2>7, CoversBoth DEF t3
  <2> QED BY <1>1, <2>3, <2>6, <2>8
<1>12. CASE phases = Halving
  <2>1. /\ Len(phases) = 4 /\ phases[1] = Phase(8, 0) /\ phases[2] = Phase(4, 8)
        /\ phases[3] = Phase(2, 4) /\ phases[4] = Phase(1, 2)
    BY <1>12 DEF Halving
  <2>2. PICK f : Joins(f, runs, 4)
    <3>1. 4 \in 1 .. 4 /\ Len(runs) = 4
      BY <1>3, <2>1
    <3> QED BY <3>1, FlattenUnfolds
  <2>3. /\ FlattenSeq(runs) = f[4] /\ f[1] = runs[1]
        /\ f[2] = f[1] \o runs[2] /\ f[3] = f[2] \o runs[3] /\ f[4] = f[3] \o runs[4]
    <3>1. 2 \in 2 .. 4 /\ 2 - 1 = 1 /\ 3 \in 2 .. 4 /\ 3 - 1 = 2 /\ 4 \in 2 .. 4 /\ 4 - 1 = 3
      OBVIOUS
    <3> QED BY <2>2, <3>1 DEF Joins
  <2>4. /\ Covers(runs[1], Takes(8, 0, len)) /\ Covers(runs[2], Takes(4, 8, len))
        /\ Covers(runs[3], Takes(2, 4, len)) /\ Covers(runs[4], Takes(1, 2, len))
    BY <1>4, <1>5, <2>1
  <2> DEFINE t1 == Takes(8, 0, len)
             t2 == Takes(4, 8, len)
             t3 == Takes(2, 4, len)
             t4 == Takes(1, 2, len)
  <2>5. /\ t1 \in Nat /\ t2 \in Nat /\ t3 \in Nat /\ t4 \in Nat
        /\ t1 + t2 \in Nat /\ t1 + t2 + t3 \in Nat
    BY <1>6, <1>5
  <2>6. t1 + t2 + t3 + t4 = len
    BY ShareOut
  <2> HIDE DEF t1, t2, t3, t4
  <2>7. Covers(f[2], t1 + t2)
    BY <2>3, <2>4, <2>5, CoversBoth DEF t1, t2
  <2>8. Covers(f[3], t1 + t2 + t3)
    BY <2>3, <2>4, <2>5, <2>7, CoversBoth DEF t3
  <2>9. Covers(f[4], t1 + t2 + t3 + t4)
    BY <2>3, <2>4, <2>5, <2>8, CoversBoth DEF t4
  <2> QED BY <1>1, <2>3, <2>6, <2>9
<1> QED BY <1>7, <1>9, <1>10, <1>11, <1>12, <1>13, <1>14 DEF Shapes
=============================================================================

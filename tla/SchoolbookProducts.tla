------------------------- MODULE SchoolbookProducts -------------------------
(***************************************************************************)
(* math/mul/basecase.rs over math/arch/mul_basecase_unchecked and           *)
(* sqr_basecase_unchecked: complete quadratic products and squares, written  *)
(* row by row into a destination that may be uninitialized.  A step is a row, *)
(* a pair of rows, or a pass over the triangle of a square.                  *)
(***************************************************************************)
EXTENDS SharedEvaluation

CONSTANT Calls      \* records of operands x and y, and same: are they one slice?

CallsAssumption == \A c \in Calls : c.same => c.x = c.y

VARIABLES
  kernel,     \* the selected backend
  call,
  dst,        \* the destination, its limbs dirty at first
  known,      \* how many of its low limbs are initialized
  rows,       \* rows of the outer operand in dst
  plan,       \* passes still to run
  sound       \* no uninitialized limb is read, no dropped carry is set

vars == <<kernel, call, dst, known, rows, plan, sound>>

Kernels == {"paired", "single", "bmi2", "adx"}

\* The shorter operand is the outer one; its limbs are the scalars.
Outer == IF Len(call.x) <= Len(call.y) THEN call.x ELSE call.y
Inner == IF Len(call.x) <= Len(call.y) THEN call.y ELSE call.x
N == Len(Inner)

Times(n, pass) == [i \in 1 .. n |-> pass]

\* Widths 2, 3, 4 and 8 are fixed; the rows of the others go in pairs, or alone
\* where a single row is faster.
ProductPlan(n, width) ==
  LET fixed == n = width /\ (n = 3 \/ (n \in {4, 8} /\ kernel # "adx"))
  IN IF n = 0 THEN <<>>
     ELSE IF n = 1 \/ fixed THEN << "one row" >> \o Times(n - 1, "add row")
     ELSE IF n = 2 /\ width = 2 THEN << "two by two" >>
     ELSE IF kernel \in {"paired", "bmi2"}
     THEN << "two rows" >> \o Times((n - 2) \div 2, "add two rows") \o Times(n % 2, "add row")
     ELSE << "two rows" >> \o Times(n - 2, "add row")

SquarePlan(n) ==
  CASE n = 0 -> <<>>
    [] n = 1 -> << "one row" >>
    [] n \in 2 .. 6 -> << "columns" >>
    [] n = 8 -> << "halves" >>
    [] OTHER ->
         IF kernel = "adx" /\ n > 8
         THEN << "triangle row" >> \o Times((n - 1) \div 2, "triangle pair") \o << "two chains" >>
         ELSE << "triangle row" >> \o Times(n - 2, "triangle add")
                \o (IF kernel = "bmi2" /\ n > 8 THEN << "double", "diagonals" >> ELSE << "sweep" >>)

Init ==
  /\ kernel \in Kernels
  /\ call \in Calls
  /\ dst = [i \in 1 .. Len(call.x) + Len(call.y) |-> LimbMax]
  /\ known = 0
  /\ rows = 0
  /\ plan = IF Outer = <<>> THEN <<>> ELSE IF call.same THEN SquarePlan(N) ELSE ProductPlan(Len(Outer), N)
  /\ sound = TRUE

Pass(pass) == plan # <<>> /\ Head(plan) = pass /\ plan' = Tail(plan)

\* y is written above start; limbs of dst up to reads are read.
Store(y, start, reads) ==
  /\ dst' = Splice(dst, start, y)
  /\ known' = IF start + Len(y) > known THEN start + Len(y) ELSE known
  /\ sound' = (sound /\ reads <= known)

Limbs2(x, at) == SubSeq(x, at + 1, at + N)

-----------------------------------------------------------------------------
(* Rows.                                                                    *)

\* mul_limb_unchecked, and the first row of a fixed width.
RowTimes(x, scalar) == Append(AddMul(Zeroes(Len(x)), x, scalar), AddMulCarry(Zeroes(Len(x)), x, scalar))

OneRow ==
  /\ Pass("one row")
  /\ Store(RowTimes(Inner, Outer[1]), 0, 0)
  /\ rows' = 1
  /\ UNCHANGED <<kernel, call>>

\* mul_2x2: three columns of double limbs.
TwoByTwo ==
  /\ Pass("two by two")
  /\ LET p(i, j) == LimbProduct(Outer[i], Inner[j], 0)
         column1 == p(1, 1)[2] + p(1, 2)[1] + p(2, 1)[1]
         column2 == p(1, 2)[2] + p(2, 1)[2] + p(2, 2)[1] + column1 \div Base
     IN Store(<< p(1, 1)[1], column1 % Base, column2 % Base, p(2, 2)[2] + column2 \div Base >>, 0, 0)
  /\ rows' = 2
  /\ UNCHANGED <<kernel, call>>

Low(wide) == wide % Base
High(wide) == wide \div Base

\* The fixed rows of the ADX backend: CF takes the destination and OF the high
\* limb before up to thirteen limbs, and the other way round from fourteen.
FlagRow(d, x, scalar) ==
  LET destinationFirst == Len(x) <= 13
      run[i \in 0 .. Len(x)] ==
        IF i = 0 THEN [limbs |-> <<>>, high |-> 0, cf |-> 0, of |-> 0]
        ELSE LET below == run[i - 1]
                 product == LimbProduct(x[i], scalar, 0)
                 inCf == IF destinationFirst THEN d[i] ELSE below.high
                 inOf == IF destinationFirst THEN below.high ELSE d[i]
                 first == product[1] + inCf + below.cf
                 second == Low(first) + inOf + below.of
             IN [limbs |-> Append(below.limbs, Low(second)), high |-> product[2],
                 cf |-> High(first), of |-> High(second)]
      last == run[Len(x)]
  IN Append(last.limbs, Low(last.high + last.cf + last.of))

AddRowTo(d, x, scalar) ==
  IF kernel = "adx" /\ Len(x) \in 4 .. 17 THEN FlagRow(d, x, scalar)
  ELSE Append(AddMul(d, x, scalar), AddMulCarry(d, x, scalar))

\* The carry of a row initializes the next limb.
AddRow ==
  /\ Pass("add row")
  /\ Store(AddRowTo(Limbs2(dst, rows), Inner, Outer[rows + 1]), rows, rows + N)
  /\ rows' = rows + 1
  /\ UNCHANGED <<kernel, call>>

\* mul_2_limbs: the second row starts the limb the first one reads a column
\* later; the first carry joins the last of them.
TwoRows ==
  /\ Pass("two rows")
  /\ LET run[i \in 0 .. N] ==
           IF i = 0 THEN [limbs |-> <<>>, waits |-> 0, carry0 |-> 0, carry1 |-> 0]
           ELSE LET below == run[i - 1]
                    first == LimbProduct(Inner[i], Outer[1], below.carry0 + below.waits)
                    second == LimbProduct(Inner[i], Outer[2], below.carry1)
                IN [limbs |-> Append(below.limbs, first[1]), waits |-> second[1],
                    carry0 |-> first[2], carry1 |-> second[2]]
         last == run[N]
         top == last.waits + last.carry0
     IN Store(last.limbs \o << Low(top), Low(last.carry1 + High(top)) >>, 0, 0)
  /\ rows' = 2
  /\ UNCHANGED <<kernel, call>>

\* add_mul_2_limbs on N limbs and the one above: two carries come back.
AddTwo(d, x, s0, s1) ==
  LET first == Sum(Prefix(d, N), x, s0)
      second == Sum(SubSeq(first.limbs, 2, N) \o << d[N + 1] >>, x, s1)
  IN [limbs |-> << first.limbs[1] >> \o second.limbs, carry0 |-> first.carry, carry1 |-> second.carry]

\* The limb above the rows is cleared first, and takes the first carry last.
AddTwoRows_KeepsOldLimb ==
  /\ Pass("add two rows")
  /\ LET both == AddTwo(SubSeq(dst, rows + 1, rows + N + 1), Inner, Outer[rows + 1], Outer[rows + 2])
         top == both.limbs[N + 1] + both.carry0
     IN Store(Append(Prefix(both.limbs, N), Low(top)) \o << Low(both.carry1 + High(top)) >>, rows, rows + N + 1)
  /\ rows' = rows + 2
  /\ UNCHANGED <<kernel, call>>

AddTwoRows ==
  /\ Pass("add two rows")
  /\ LET both == AddTwo(Append(Limbs2(dst, rows), 0), Inner, Outer[rows + 1], Outer[rows + 2])
         top == both.limbs[N + 1] + both.carry0
     IN Store(Append(Prefix(both.limbs, N), Low(top)) \o << Low(both.carry1 + High(top)) >>, rows, rows + N)
  /\ rows' = rows + 2
  /\ UNCHANGED <<kernel, call>>

-----------------------------------------------------------------------------
(* Squares: the strict triangle, doubled, and the diagonal.                 *)

\* sqr_2 to sqr_6: column c of the triangle takes the low halves of its own
\* products, the high halves of those below and one carry.
TriangleColumns(a) ==
  LET n == Len(a)
      Products(c, half) == MapThenSumSet(LAMBDA p : LimbProduct(a[p[1]], a[p[2]], 0)[half],
                                         {p \in (1 .. n) \X (1 .. n) : p[1] < p[2] /\ p[1] + p[2] = c + 2})
      run[c \in 0 .. 2 * n - 1] ==
        IF c = 0 THEN [limbs |-> << 0 >>, carry |-> 0]
        ELSE LET below == run[c - 1]
                 column == Products(c, 1) + Products(c - 1, 2) + below.carry
             IN [limbs |-> Append(below.limbs, Low(column)), carry |-> High(column)]
  IN run[2 * n - 1].limbs

Diagonal(a, i) == LimbProduct(a[i \div 2 + 1], a[i \div 2 + 1], 0)[(i % 2) + 1]

\* Column by column: the limb shifted by one bit, the half of a diagonal square
\* and the carry.  The limbs of the square, then its carry.
DoubledWithDiagonal(t, a) ==
  LET n == 2 * Len(a)
      TopBit(i) == IF i = 0 THEN 0 ELSE t[i] \div (Base \div 2)
      run[i \in 0 .. n] ==
        IF i = 0 THEN [limbs |-> <<>>, carry |-> 0]
        ELSE LET below == run[i - 1]
                 sum == Low(2 * t[i]) + TopBit(i - 1) + Diagonal(a, i - 1) + below.carry
             IN [limbs |-> Append(below.limbs, Low(sum)), carry |-> High(sum)]
  IN run[n]

Square(a) == DoubledWithDiagonal(TriangleColumns(a), a)

Columns ==
  /\ Pass("columns")
  /\ dst' = Square(Inner).limbs
  /\ known' = 2 * N
  /\ sound' = (sound /\ Square(Inner).carry = 0)
  /\ UNCHANGED <<kernel, call, rows>>

\* sqr_8: two squares of four limbs and twice the product between them, with the
\* two carries rippling on by hand.
Halves ==
  /\ Pass("halves")
  /\ LET s0 == Square(Prefix(Inner, 4)).limbs
         s1 == Square(From(Inner, 4)).limbs
         m == ProductLimbs(Prefix(Inner, 4), From(Inner, 4))
         d == Append(Doubled(m), AddMulCarry(m, m, 1))
         c1 == AddMulCarry(From(s0, 4), Prefix(d, 4), 1)
         joined == AddTo(Prefix(s1, 4), SubSeq(d, 5, 8))
         b2 == AddTo(joined, << c1 >>)
         c2 == AddMulCarry(Prefix(s1, 4), SubSeq(d, 5, 8), 1) + AddMulCarry(joined, << c1 >>, 1)
         b3 == << d[9] + c2 >>
     IN /\ dst' = Prefix(s0, 4) \o AddTo(From(s0, 4), Prefix(d, 4)) \o b2 \o AddTo(From(s1, 4), b3)
        /\ sound' = (sound /\ AddMulCarry(From(s1, 4), b3, 1) = 0)
  /\ known' = 2 * N
  /\ UNCHANGED <<kernel, call, rows>>

TriangleRow ==
  /\ Pass("triangle row")
  /\ Store(<< 0 >> \o RowTimes(From(Inner, 1), Inner[1]), 0, 0)
  /\ rows' = 1
  /\ UNCHANGED <<kernel, call>>

TriangleAdd ==
  /\ Pass("triangle add")
  /\ LET start == 2 * rows + 1
         above == From(Inner, rows + 1)
         d == SubSeq(dst, start + 1, rows + N)
     IN Store(Append(AddMul(d, above, Inner[rows + 1]), AddMulCarry(d, above, Inner[rows + 1])), start, rows + N)
  /\ rows' = rows + 1
  /\ UNCHANGED <<kernel, call>>

\* add_triangle_pair: two rows share the limbs above them.  CF takes the product
\* of the low scalar, OF the limb and the product of the high one; both must be
\* clear after the last word.
PairColumn(d, s, s0, s1, below) ==
  LET p0 == LimbProduct(s, s0, 0)
      p1 == LimbProduct(s, s1, 0)
      lowCf == below.low + p0[1]
      lowOf == Low(lowCf) + d
      highCf == below.high + p0[2] + High(lowCf)
      highOf == Low(highCf) + p1[1] + High(lowOf)
      top == p1[2] + High(highCf) + High(highOf)
  IN [limbs |-> Append(below.limbs, Low(lowOf)), low |-> Low(highOf), high |-> Low(top),
      clear |-> below.clear /\ top < Base]

\* The product of the two scalars comes first.
TrianglePair ==
  /\ Pass("triangle pair")
  /\ LET s0 == Inner[rows + 1]
         s1 == Inner[rows + 2]
         start == 2 * rows + 1
         above == From(Inner, rows + 2)
         cross == dst[start + 1] + LimbProduct(s1, s0, 0)[1]
         run[i \in 0 .. Len(above)] ==
           IF i = 0 THEN [limbs |-> << Low(cross) >>, low |-> LimbProduct(s1, s0, 0)[2] + High(cross),
                          high |-> 0, clear |-> TRUE]
           ELSE LET below == run[i - 1] IN PairColumn(dst[start + 1 + i], above[i], s0, s1, below)
         last == run[Len(above)]
     IN /\ dst' = Splice(dst, start, last.limbs \o << last.low, last.high >>)
        /\ known' = rows + N + 2
        /\ sound' = (sound /\ last.clear /\ rows + N <= known)
  /\ rows' = rows + 2
  /\ UNCHANGED <<kernel, call>>

\* The last limb is doubled from nothing: it need not be initialized.
Sweep ==
  /\ Pass("sweep")
  /\ LET swept == DoubledWithDiagonal(Append(Prefix(dst, 2 * N - 1), 0), Inner)
     IN /\ dst' = swept.limbs
        /\ known' = 2 * N
        /\ sound' = (sound /\ 2 * N - 1 <= known /\ swept.carry = 0)
  /\ UNCHANGED <<kernel, call, rows>>

\* double_triangle_and_diagonals_adx: CF doubles, OF adds the diagonal; the first
\* limb is stored, the last one closes both.
TwoChains ==
  /\ Pass("two chains")
  /\ LET run[i \in 0 .. 2 * N] ==
           CASE i = 0 -> [limbs |-> <<>>, cf |-> 0, of |-> 0]
             [] i = 1 -> [limbs |-> << Diagonal(Inner, 0) >>, cf |-> 0, of |-> 0]
             [] OTHER ->
                  LET below == run[i - 1]
                      doubled == 2 * (IF i = 2 * N THEN 0 ELSE dst[i]) + below.cf
                      sum == Low(doubled) + Diagonal(Inner, i - 1) + below.of
                  IN [limbs |-> Append(below.limbs, Low(sum)), cf |-> High(doubled), of |-> High(sum)]
         last == run[2 * N]
     IN /\ dst' = last.limbs
        /\ known' = 2 * N
        /\ sound' = (sound /\ 2 * N - 1 <= known /\ last.cf = 0 /\ last.of = 0)
  /\ UNCHANGED <<kernel, call, rows>>

\* double_triangle_asm: the carry out of the triangle initializes the last limb.
DoubleTriangle ==
  /\ Pass("double")
  /\ LET triangle == SubSeq(dst, 2, 2 * N - 1)
     IN Store(Append(Doubled(triangle), AddMulCarry(triangle, triangle, 1)), 1, 2 * N - 1)
  /\ UNCHANGED <<kernel, call, rows>>

\* add_diagonal_squares_bmi2
AddDiagonals ==
  /\ Pass("diagonals")
  /\ LET run[i \in 0 .. 2 * N] ==
           IF i = 0 THEN [limbs |-> <<>>, carry |-> 0]
           ELSE LET below == run[i - 1]
                    sum == dst[i] + Diagonal(Inner, i - 1) + below.carry
                IN [limbs |-> Append(below.limbs, Low(sum)), carry |-> High(sum)]
     IN /\ dst' = run[2 * N].limbs
        /\ sound' = (sound /\ 2 * N <= known /\ run[2 * N].carry = 0)
  /\ UNCHANGED <<kernel, call, rows, known>>

Next ==
  \/ OneRow \/ TwoByTwo \/ AddRow \/ TwoRows \/ AddTwoRows
  \/ Columns \/ Halves
  \/ TriangleRow \/ TriangleAdd \/ TrianglePair
  \/ Sweep \/ TwoChains \/ DoubleTriangle \/ AddDiagonals

Spec == Init /\ [][Next]_vars

-----------------------------------------------------------------------------
(* Properties.                                                              *)

\* Whatever the backend, the first rows of a product are complete after each of
\* its passes, no limb is read before it is written, no chain is closed with a
\* flag set, and the product or square is exact when the passes end.
SchoolbookExact ==
  /\ sound
  /\ ~call.same /\ rows > 0 => Prefix(dst, rows + N) = ProductLimbs(Prefix(Outer, rows), Inner)
  /\ plan = <<>> /\ Outer # <<>> => known = Len(dst) /\ dst = ProductLimbs(call.x, call.y)
=============================================================================

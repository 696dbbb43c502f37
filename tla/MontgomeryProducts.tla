------------------------- MODULE MontgomeryProducts -------------------------
(***************************************************************************)
(* math/modular: products divided by the radix R = Base^n modulo an odd     *)
(* modulus of n limbs, by every engine: rows of the kernels of              *)
(* arch/monty_redc_unchecked (mul_into_with_scratch), cancellation of a     *)
(* finished product (reduce_scalar), the same at a fixed width (inline.rs), *)
(* one limb (LimbMontgomery), and the product with a radix inverse          *)
(* (reduce_into).  A step is a row.                                         *)
(***************************************************************************)
EXTENDS Limbs, LoopShapes

CONSTANT Calls      \* records of limbs: the factors a and b, the modulus m

-----------------------------------------------------------------------------
(* The kernels.                                                             *)

\* Both rows in one loop, or one after the other in blocks.
OneLoop == [engine |-> "rows", loops |-> 1, flags |-> FALSE, phases |-> OneByOne]
TwoLoops(flags, phases) == [engine |-> "rows", loops |-> 2, flags |-> flags, phases |-> phases]

Redc_Fallback == OneLoop
Redc_LoongArch64 == OneLoop
Redc_RiscV64 == OneLoop
Redc_S390x == OneLoop
Redc_AArch64 == TwoLoops(FALSE, OneByOne)
Redc_PowerPC64 == TwoLoops(FALSE, OneByOne)
Redc_Bmi2 == TwoLoops(FALSE, FourThenOne)
Redc_Adx == TwoLoops(TRUE, FourThenOne)

Kernels == {Redc_Fallback, Redc_LoongArch64, Redc_RiscV64, Redc_S390x,
            Redc_AArch64, Redc_PowerPC64, Redc_Bmi2, Redc_Adx}
Engines == Kernels \union {[engine |-> e] : e \in {"cancel", "inline", "limb", "inverse"}}

\* -m[0]^-1 modulo the limb radix, by modular_inverse_limb.
InverseLimb(m0) == CHOOSE x \in Limb : (x * m0) % Base = 1
NegativeInverse(m0) == WrappingNeg(InverseLimb(m0))

NoCarry == [limb |-> 0, high |-> 0, cf |-> 0, of |-> 0]

\* A column of d + s * scalar at double width; the order of its additions does
\* not show.
SumColumn(st, d, s, scalar) ==
  LET wide == d + s * scalar + st.high
  IN [NoCarry EXCEPT !.limb = wide % Base, !.high = wide \div Base]

\* adcx, adox: the low half and the high word each in a chain of its own.
FlagsColumn(st, d, s, scalar) ==
  LET product == s * scalar
      first == d + (product % Base) + st.cf
      second == (first % Base) + st.high + st.of
  IN [limb |-> second % Base, high |-> product \div Base, cf |-> first \div Base, of |-> second \div Base]

ColumnStep(kernel, st, d, s, scalar) ==
  IF kernel.flags THEN FlagsColumn(st, d, s, scalar) ELSE SumColumn(st, d, s, scalar)

\* dec counts the blocks and spoils OF, so that it joins the high word before.
CloseBlock(st) == [st EXCEPT !.high = (@ + st.of) % Base, !.of = 0]

\* The row limbs + x * scalar from a column on, and the word carried out of it.
Stored(run, i, st) == [run EXCEPT !.limbs[i] = st.limb, !.st = st, !.next = i + 1]
RowEnd(run) == [limbs |-> run.limbs, word |-> (run.st.high + run.st.cf) % Base]
Row(kernel, limbs, x, scalar, from, entering) ==
  LET column(run, i) == Stored(run, i, ColumnStep(kernel, run.st, run.limbs[i], x[i], scalar))
      block(run, size) ==
        [FoldLeft(column, run, [j \in 1 .. size |-> run.next + j - 1]) EXCEPT !.st = CloseBlock(@)]
  IN RowEnd(FoldLeft(block, [limbs |-> limbs, st |-> entering, next |-> from],
                     Schedule(kernel.phases, TRUE, Len(limbs) - from + 1)))

\* Both words leave the row together; a limb comes down by one column.
Shifted(limbs, carryB, carryM) ==
  [limbs |-> Append(Tail(limbs), (carryB + carryM) % Base), carry |-> (carryB + carryM) \div Base]

\* What makes the lowest limb vanish.
Quotient(limb, m) == (limb * NegativeInverse(m[1])) % Base

Together(word, reduction) == Shifted(reduction.limbs, word, reduction.word)
ReduceLoop(kernel, product, m, q) ==
  Together(product.word,
           Row(kernel, product.limbs, m, q, 2, ColumnStep(kernel, NoCarry, product.limbs[1], m[1], q)))
AfterProduct(kernel, product, m) == ReduceLoop(kernel, product, m, Quotient(product.limbs[1], m))
StepTwoLoops(kernel, out, b, m, scalar) ==
  AfterProduct(kernel, Row(kernel, out, b, scalar, 1, NoCarry), m)

Both(r, i, p, s) == [limbs |-> [r.limbs EXCEPT ![i] = s.limb], p |-> p, s |-> s]
Lowered(row) == Shifted(row.limbs, row.p.high, row.s.high)
OneLoopFrom(first, q, out, b, m, scalar) ==
  LET reduce(r, i, p) == Both(r, i, p, SumColumn(r.s, p.limb, m[i], q))
      both(r, i) == reduce(r, i, SumColumn(r.p, out[i], b[i], scalar))
  IN Lowered(FoldLeft(both, [limbs |-> out, p |-> first, s |-> SumColumn(NoCarry, first.limb, m[1], q)],
                      [i \in 1 .. Len(out) - 1 |-> i + 1]))
StepOneLoop(out, b, m, scalar) ==
  LET first == SumColumn(NoCarry, out[1], b[1], scalar)
  IN OneLoopFrom(first, Quotient(first.limb, m), out, b, m, scalar)

MontyRedcStep(kernel, out, b, m, scalar) ==
  IF kernel.loops = 1 THEN StepOneLoop(out, b, m, scalar) ELSE StepTwoLoops(kernel, out, b, m, scalar)

-----------------------------------------------------------------------------

VARIABLES
  engine, call,
  limbs,       \* out, or the product t
  pending,     \* the carry above the limbs written so far
  row,         \* the rows done
  pc, result

vars == <<engine, call, limbs, pending, row, pc, result>>

n == Len(call.m)
R == Base ^ n
M == Value(call.m)
T == Value(call.a) * Value(call.b)

\* Low limbs of a number.
Digits(x, width) == [i \in 1 .. width |-> (x \div Base ^ (i - 1)) % Base]

\* a and b are residues, or a any number below R and b the square of R; a
\* product already formed is a square or a residue to be decoded.
Callable(e, c) ==
  CASE e.engine = "cancel" -> c.a = c.b \/ Value(c.b) = 1
    [] e.engine = "inline" -> Len(c.m) \in 2 .. 4
    [] e.engine = "limb" -> Len(c.m) = 1 /\ Value(c.m) > 1
    [] e.engine = "inverse" -> Len(c.m) >= 2
    [] OTHER -> TRUE

Init ==
  /\ engine \in Engines
  /\ call \in Calls
  /\ Callable(engine, call)
  /\ limbs = IF engine \in Kernels THEN [i \in 1 .. n |-> 0] ELSE Digits(T, 2 * n)
  /\ pending = 0
  /\ row = 0
  /\ pc = "rows"
  /\ result = 0

Finish(x) ==
  /\ pc' = "done"
  /\ result' = x
  /\ UNCHANGED <<engine, call, limbs, pending, row>>

\* mul_into_with_scratch: the carry of the row before is due in the highest
\* limb of this one.
CiosRow_ForgetsCarry ==
  /\ pc = "rows" /\ engine \in Kernels /\ row < n
  /\ LET step == MontyRedcStep(engine, limbs, call.b, call.m, Column(call.a, row + 1))
     IN /\ limbs' = step.limbs
        /\ pending' = step.carry
  /\ row' = row + 1
  /\ UNCHANGED <<engine, call, pc, result>>

DueInTop(step, due) ==
  LET top == step.limbs[n] + due
  IN /\ limbs' = [step.limbs EXCEPT ![n] = top % Base]
     /\ pending' = step.carry + top \div Base

CiosRow ==
  /\ pc = "rows" /\ engine \in Kernels /\ row < n
  /\ DueInTop(MontyRedcStep(engine, limbs, call.b, call.m, Column(call.a, row + 1)), pending)
  /\ row' = row + 1
  /\ UNCHANGED <<engine, call, pc, result>>

CiosFinish ==
  /\ pc = "rows" /\ engine \in Kernels /\ row = n
  /\ LET out == Value(limbs) + pending * R
     IN Finish(IF out >= M THEN out - M ELSE out)

\* A product of zero is its own reduction.
NothingToReduce ==
  /\ pc = "rows" /\ engine.engine \in {"cancel", "inverse"} /\ row = 0
  /\ T = 0
  /\ Finish(0)

\* reduce_scalar and the rows of inline.rs: the row cancels a low limb, and the
\* carry out of it meets the deferred one a column higher.  Inline leaves the
\* cancelled limb as it is, and knows its carry without adding.
Cancelled(coefficient) ==
  IF engine.engine = "cancel"
  THEN Row(Redc_AArch64, SubSeq(limbs, row + 1, row + n), call.m, coefficient, 1, NoCarry)
  ELSE Row(Redc_AArch64, SubSeq(limbs, row + 1, row + n), call.m, coefficient, 2,
           [NoCarry EXCEPT !.high = (coefficient * call.m[1]) \div Base
                                      + (IF limbs[row + 1] # 0 THEN 1 ELSE 0)])
Settle(sum) ==
  LET top == limbs[row + n + 1] + sum.word + pending
  IN /\ limbs' = [i \in 1 .. 2 * n |->
                    CASE i \in row + 1 .. row + n -> sum.limbs[i - row]
                      [] i = row + n + 1 -> top % Base
                      [] OTHER -> limbs[i]]
     /\ pending' = top \div Base

CancelRow ==
  /\ pc = "rows" /\ engine.engine \in {"cancel", "inline"} /\ row < n
  /\ engine.engine = "cancel" => T # 0
  /\ Settle(Cancelled(Quotient(limbs[row + 1], call.m)))
  /\ row' = row + 1
  /\ UNCHANGED <<engine, call, pc, result>>

High == Value(SubSeq(limbs, n + 1, 2 * n))

CancelFinish ==
  /\ pc = "rows" /\ engine.engine = "cancel" /\ row = n
  /\ Finish(IF pending # 0 \/ High >= M THEN (High - M) % R ELSE High)

\* The subtraction is right exactly when its borrow consumes the pending bit.
InlineFinish ==
  /\ pc = "rows" /\ engine.engine = "inline" /\ row = n
  /\ Finish(IF pending = (IF High < M THEN 1 ELSE 0) THEN (High - M) % R ELSE High)

\* LimbMontgomery::multiply, on the positive inverse.
LimbMultiply ==
  /\ pc = "rows" /\ engine.engine = "limb"
  /\ LET correction == ((((T % Base) * InverseLimb(M)) % Base) * M) \div Base
         value == (T \div Base - correction) % Base
     IN Finish(IF T \div Base < correction THEN (value + M) % Base ELSE value)

\* correction_product, cyclic: q * M is known modulo Base^w - 1, zero in either
\* form, and modulo R.  The digits above w come from the low ones by
\* subtraction, and their borrow leaves from the next digits.
Unwrapped(cyclic, low, w) ==
  LET r == Base ^ (2 * n - w)
      tail == ((cyclic % r) - (low % r)) % r
      borrow == IF cyclic % r < low % r THEN 1 ELSE 0
  IN cyclic + tail * Base ^ w - borrow * r

CyclicForms(product, w) ==
  LET ring == Base ^ w - 1
  IN IF product % ring = 0 /\ product # 0 THEN {0, ring} ELSE {product % ring}

InverseReduce ==
  /\ pc = "rows" /\ engine.engine = "inverse"
  /\ T # 0
  /\ LET low == T % R
         q == (low * (CHOOSE x \in 1 .. R : (x * M) % R = 1)) % R
         corrections == {(q * M) \div R} \union
           {Unwrapped(y[1], low, y[2]) \div R :
              y \in UNION {CyclicForms(q * M, w) \X {w} : w \in n .. 2 * n - 1}}
     IN \E correction \in corrections :
          Finish(IF T \div R < correction THEN (T \div R - correction + M) % R
                 ELSE T \div R - correction)

Next == CiosRow \/ CiosFinish \/ NothingToReduce \/ CancelRow \/ CancelFinish
          \/ InlineFinish \/ LimbMultiply \/ InverseReduce
Spec == Init /\ [][Next]_vars

-----------------------------------------------------------------------------
(* Properties.                                                              *)

Congruent(x, y) == (x - y) % M = 0

\* After each row of CIOS the limbs and the carry above them are the factor
\* limbs so far times b over the radix of as many limbs, below b + m, and the
\* carry is a bit; after each cancelling row the limbs not yet cancelled and the
\* deferred carry stand for the product.
RowsStayCongruent ==
  /\ engine \in Kernels =>
       LET out == Value(limbs) + pending * R
       IN /\ pending \in {0, 1}
          /\ out < Value(call.b) + M
          /\ Congruent(out * Base ^ row, Value(SubSeq(call.a, 1, IF row < Len(call.a) THEN row ELSE Len(call.a))) * Value(call.b))
  /\ engine.engine \in {"cancel", "inline"} =>
       /\ pending \in {0, 1}
       /\ Congruent((Value(SubSeq(limbs, row + 1, 2 * n)) + pending * R) * Base ^ row, T)

\* Whatever the engine, the result is the one residue r below m with
\* r * R = a * b modulo m.
MontgomeryExact ==
  pc = "done" => result \in 0 .. M - 1 /\ Congruent(result * R, T)

Montgomery == RowsStayCongruent /\ MontgomeryExact
=============================================================================

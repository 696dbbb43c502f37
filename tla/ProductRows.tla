----------------------------- MODULE ProductRows -----------------------------
(***************************************************************************)
(* math/arch: the assembly kernels of a product row, dst + src * scalar and *)
(* dst - src * scalar in place.  Between two limbs a kernel carries the     *)
(* high word of the last product, a borrow, and on some processors one or   *)
(* two flags; a word that absorbs a flag wraps like any other.              *)
(*                                                                         *)
(* A step is a block of limbs.  Registers and addresses are left out.       *)
(***************************************************************************)
EXTENDS Limbs, LoopShapes

CONSTANT Calls       \* records of dst, src, both of one length, and scalar

CallsAssumption ==
  \A c \in Calls :
    /\ c.dst \in Seq(Limb) /\ c.src \in Seq(Limb) /\ Len(c.dst) = Len(c.src)
    /\ c.scalar \in Limb

-----------------------------------------------------------------------------

\* below: the lengths under it go one limb at a time, with columns of their
\* own.  tested: whether the first loop of the others is skipped when empty.
AddRow(column, below, phases) ==
  [op |-> "add", column |-> column, short |-> column, below |-> below,
   tested |-> TRUE, phases |-> phases]
SubRow(short, column, phases) ==
  [op |-> "sub", column |-> column, short |-> short, below |-> 4,
   tested |-> FALSE, phases |-> phases]

(* add_mul_limbs_unchecked *)

AddMul_X86 == AddRow("sums", 0, FourThenOne)
AddMul_X86_64 == AddRow("sums", 0, FourThenOne)
AddMul_Bmi2 == AddRow("sums", 4, FourThenOne)
AddMul_Adx == AddRow("flags", 0, EightThenOne)
AddMul_AArch64 == AddRow("sums", 0, FourThenOne)
AddMul_Arm == AddRow("sums", 0, FourThenOne)
AddMul_PowerPC == AddRow("sums", 0, FourThenOne)
AddMul_PowerPC64 == AddRow("sums", 0, FourThenOne)
AddMul_Power9 == AddRow("fused", 0, FourThenOne)
AddMul_S390x == AddRow("sums", 0, TwoThenOne)
AddMul_RiscV32 == AddRow("sums", 0, TwoThenOne)
AddMul_RiscV64 == AddRow("sums", 0, FourThenOne)
AddMul_LoongArch32 == AddRow("sums", 0, TwoThenOne)
AddMul_LoongArch64 == AddRow("sums", 0, TwoThenOne)
AddMul_Mips == AddRow("sums", 0, TwoThenOne)
AddMul_Mips64 == AddRow("sums", 0, TwoThenOne)

(* sub_mul_limbs_unchecked *)

SubMul_X86 == SubRow("borrow in", "borrow in", FourThenOne)
SubMul_X86_64 == SubRow("borrow added", "borrow added", FourThenOne)
SubMul_Bmi2 == SubRow("borrow added", "borrow added", FourThenOne)
SubMul_Adx == SubRow("flags", "flags", FourThenRest)
SubMul_AArch64 == SubRow("borrow in", "borrow in", TwoThenOne)
SubMul_Arm == SubRow("borrow in", "borrow in", FourThenOne)
SubMul_PowerPC == SubRow("borrow in", "borrow in", FourThenOne)
SubMul_PowerPC64 == SubRow("borrow in", "borrow in", FourThenOne)
SubMul_S390x == SubRow("borrow added", "borrow apart", TwoThenOne)
SubMul_RiscV32 == SubRow("borrow apart", "borrow apart", TwoThenOne)
SubMul_RiscV64 == SubRow("borrow apart", "borrow apart", TwoThenOne)
SubMul_LoongArch32 == SubRow("borrow apart", "borrow apart", TwoThenOne)
SubMul_LoongArch64 == SubRow("borrow apart", "borrow apart", TwoThenOne)
SubMul_Mips == SubRow("borrow apart", "borrow apart", TwoThenOne)
SubMul_Mips64 == SubRow("borrow apart", "borrow apart", TwoThenOne)

Rows ==
  {AddMul_X86, AddMul_X86_64, AddMul_Bmi2, AddMul_Adx, AddMul_AArch64, AddMul_Arm,
   AddMul_PowerPC, AddMul_PowerPC64, AddMul_Power9, AddMul_S390x, AddMul_RiscV32,
   AddMul_RiscV64, AddMul_LoongArch32, AddMul_LoongArch64, AddMul_Mips, AddMul_Mips64,
   SubMul_X86, SubMul_X86_64, SubMul_Bmi2, SubMul_Adx, SubMul_AArch64, SubMul_Arm,
   SubMul_PowerPC, SubMul_PowerPC64, SubMul_S390x, SubMul_RiscV32, SubMul_RiscV64,
   SubMul_LoongArch32, SubMul_LoongArch64, SubMul_Mips, SubMul_Mips64}

-----------------------------------------------------------------------------
(* One column.  st carries the words and flags between columns: the high    *)
(* word of the last product, the borrow or the flag CF, and the flag OF.    *)

Low(wide) == wide % Base
High(wide) == wide \div Base
Bit(p) == IF p THEN 1 ELSE 0

\* adc $0, word: the carry out of the word is dropped.
Absorb(word, bits) == (word + bits) % Base

\* The product takes the high word, then its low half the limb.
SumsColumn(st, d, s, scalar) ==
  LET product == s * scalar
      low == Low(product) + st.high
      sum == Low(low) + d
  IN [limb |-> Low(sum), high |-> Absorb(High(product), High(low) + High(sum)),
      cf |-> st.cf, of |-> st.of]

\* maddld, maddhdu: the product takes the limb at full width.
FusedColumn(st, d, s, scalar) ==
  LET product == s * scalar + d
      low == Low(product) + st.high
  IN [limb |-> Low(low), high |-> Absorb(High(product), High(low)), cf |-> st.cf, of |-> st.of]

\* adcx, adox: a chain of its own for each addition; OF is open until the block
\* ends.
FlagsColumn(st, d, s, scalar) ==
  LET product == s * scalar
      first == d + Low(product) + st.cf
      second == Low(first) + st.high + st.of
  IN [limb |-> Low(second), high |-> High(product), cf |-> High(first), of |-> High(second)]

\* The term to subtract, and the high word after it.
Term(st, s, scalar) == Low(Low(s * scalar) + st.high)
TermHigh(st, s, scalar) == Absorb(High(s * scalar), High(Low(s * scalar) + st.high))

\* The borrow joins the term, which may wrap; then the limb may borrow.
BorrowAddedColumn(st, d, s, scalar) ==
  LET term == Term(st, s, scalar) + st.cf
  IN [limb |-> (d - Low(term)) % Base, high |-> TermHigh(st, s, scalar),
      cf |-> High(term) + Bit(d < Low(term)), of |-> st.of]

\* The term and then the borrow leave the limb; either may borrow.
BorrowApartColumn(st, d, s, scalar) ==
  LET term == Term(st, s, scalar)
      difference == (d - term) % Base
  IN [limb |-> (difference - st.cf) % Base, high |-> TermHigh(st, s, scalar),
      cf |-> Bit(d < term \/ difference < st.cf), of |-> st.of]

\* sbb: both at once.
BorrowInColumn(st, d, s, scalar) ==
  LET term == Term(st, s, scalar)
  IN [limb |-> (d - term - st.cf) % Base, high |-> TermHigh(st, s, scalar),
      cf |-> Bit(d < term + st.cf), of |-> st.of]

\* adox collects the products while sbb borrows in CF.
SubFlagsColumn(st, d, s, scalar) ==
  LET term == Low(s * scalar) + st.high + st.of
  IN [limb |-> (d - Low(term) - st.cf) % Base, high |-> High(s * scalar),
      cf |-> Bit(d < Low(term) + st.cf), of |-> High(term)]

RowColumn(row, column, st, d, s, scalar) ==
  CASE column = "sums" -> SumsColumn(st, d, s, scalar)
    [] column = "fused" -> FusedColumn(st, d, s, scalar)
    [] column = "flags" /\ row.op = "add" -> FlagsColumn(st, d, s, scalar)
    [] column = "flags" /\ row.op = "sub" -> SubFlagsColumn(st, d, s, scalar)
    [] column = "borrow added" -> BorrowAddedColumn(st, d, s, scalar)
    [] column = "borrow apart" -> BorrowApartColumn(st, d, s, scalar)
    [] column = "borrow in" -> BorrowInColumn(st, d, s, scalar)

-----------------------------------------------------------------------------

VARIABLES
  row, call,     \* the kernel and what it was called with
  dst,           \* the limbs of the destination
  done,          \* how many are written
  st,            \* between columns
  blocks,        \* the blocks still to run
  pc, result     \* result: the high word, and the borrow of a subtraction

vars == <<row, call, dst, done, st, blocks, pc, result>>

Short == Len(call.src) < row.below

Init ==
  /\ row \in Rows
  /\ call \in Calls
  /\ dst = call.dst
  /\ done = 0
  /\ st = [limb |-> 0, high |-> 0, cf |-> 0, of |-> 0]
  /\ blocks = IF Short THEN Schedule(OneByOne, TRUE, Len(call.src))
              ELSE Schedule(row.phases, row.tested, Len(call.src))
  /\ pc = "loop"
  /\ result = <<0, 0>>

\* A column of the row, after the limbs and words before it.
Multiply(before, i) ==
  LET next == RowColumn(row, IF Short THEN row.short ELSE row.column,
                        before.st, before.limbs[i], call.src[i], call.scalar)
  IN  [limbs |-> [before.limbs EXCEPT ![i] = next.limb], st |-> next]

\* The columns of a block.
Columns(count) ==
  LET run[n \in 0 .. count] ==
        IF n = 0 THEN [limbs |-> dst, st |-> st] ELSE Multiply(run[n - 1], done + n)
  IN  run[count]

\* The open chain of OF closes into the high word before the count, which
\* clears it: dec sets OF, and only CF survives to the next block.
CloseBlock_OpenChain(s) == [limb |-> s.limb, high |-> s.high, cf |-> s.cf, of |-> 0]

CloseBlock(s) == [limb |-> s.limb, high |-> Absorb(s.high, s.of), cf |-> s.cf, of |-> 0]

Block ==
  /\ pc = "loop"
  /\ blocks # <<>>
  /\ LET run == Columns(Head(blocks))
     IN /\ dst' = run.limbs
        /\ st' = CloseBlock(run.st)
  /\ done' = done + Head(blocks)
  /\ blocks' = Tail(blocks)
  /\ UNCHANGED <<row, call, pc, result>>

\* An addition adds the carry that is left to the word it returns.
Return ==
  /\ pc = "loop"
  /\ blocks = <<>>
  /\ pc' = "returned"
  /\ result' = IF row.op = "add" THEN <<Absorb(st.high, st.cf), 0>> ELSE <<st.high, st.cf>>
  /\ UNCHANGED <<row, call, dst, done, st, blocks>>

Next == Block \/ Return
Spec == Init /\ [][Next]_vars

-----------------------------------------------------------------------------
(* Properties.                                                             *)

Prefix(x) == Lowest(x, done)
Product == call.scalar * Prefix(call.src)

\* Between two blocks of any kernel, the written limbs and the words and flags
\* in flight are together the old limbs and the products so far: no carry is
\* dropped where a word absorbs one, none is counted twice, and the next block
\* lies within the spans.
RowIsExact ==
  /\ pc = "loop" =>
       LET flight == (st.high + st.cf) * Power(Base, done)
       IN /\ row.op = "add" => Prefix(dst) + flight = Prefix(call.dst) + Product
          /\ row.op = "sub" => Prefix(dst) - flight = Prefix(call.dst) - Product
          /\ blocks # <<>> => done + Head(blocks) <= Len(dst)
  /\ \A i \in done + 1 .. Len(dst) : dst[i] = call.dst[i]

\* What is returned completes the row, in one limb and one borrow.
RowReturns ==
  pc = "returned" =>
    LET n == Len(dst) IN
    /\ done = n
    /\ result[1] \in Limb /\ result[2] \in {0, 1}
    /\ Value(dst) + (IF row.op = "add" THEN result[1] ELSE -(result[1] + result[2])) * Power(Base, n)
         = Value(call.dst) + (IF row.op = "add" THEN Product ELSE -Product)
=============================================================================

----------------------------- MODULE MCProducts -----------------------------
(***************************************************************************)
(* One product of any kind: the blocked product with its workers, quadratic  *)
(* products and squares, Karatsuba, the evaluation tiers from Toom-3-by-2 to *)
(* Toom-8, and the truncated products.  Limbs are wide enough for the carries *)
(* of each: four bits, six for the high products, sixteen for the tiers.     *)
(***************************************************************************)
EXTENDS BlockedProduct, SequencesExt

VARIABLES
  family,      \* whose product it is; the variables of the others are None
  kernel, call, known, rows, plan, sound, mem, promised, stack, steps, buffer, flip, out, work, reserved, returned,
  result, scratch, guarded

None == "none"

-----------------------------------------------------------------------------
(* Operands. *)

\* Full, sparse, heavy at either end or in every other part, and mixed.
Pattern(base, kind, n, part) ==
  [i \in 1 .. n |->
    CASE kind = "full" -> base - 1
      [] kind = "ends" -> IF i \in {1, n} THEN base - 1 ELSE 0
      [] kind = "top bits" -> base \div 2 + (i % 2)
      [] kind = "high" -> IF i > n \div 2 THEN base - 1 ELSE 0
      [] kind = "low" -> IF i <= n \div 2 THEN base - 1 ELSE 1
      [] kind = "sparse low" -> IF i <= n \div 2 THEN base - 1 ELSE IF i = n THEN 1 ELSE 0
      [] kind = "top" -> IF i = n THEN 1 ELSE 0
      [] kind = "lowest" -> IF i = 1 THEN base - 1 ELSE IF i = n THEN 1 ELSE 0
      [] kind = "even" -> IF ((i - 1) \div part) % 2 = 0 THEN base - 1 ELSE 0
      [] kind = "odd" -> IF ((i - 1) \div part) % 2 = 1 THEN base - 1 ELSE IF i = n THEN 1 ELSE 0
      [] kind = "mixed" /\ base < 65536 -> (i * i * 7 + 3 * i + 5) % base
      [] kind = "mixed" /\ base = 65536 -> (i * 20261 + i * i * 777 + 3) % base]

Equal(widths) == {<<n, n>> : n \in widths}
UpTo(n) == {w \in (1 .. n) \X (1 .. n) : w[2] <= w[1]}

\* Two to seven blocks, with and without a short tail, for operands the blocked
\* product is chosen for.
BlockedShapes ==
  {s \in [larger : 3 .. 14, smaller : 1 .. 3, block : 2 .. 3,
          parallelism : {1, 2, 4}, regions : {1, 2, 3, 4}] :
     s.larger > s.block /\ s.smaller <= s.block /\ 3 * s.larger >= 4 * s.smaller}

\* Every width of a fixed path on both sides and the general ones around them.
SchoolbookWidths ==
  {<<0, 2>>, <<1, 1>>, <<1, 4>>, <<5, 1>>, <<3, 4>>, <<6, 5>>, <<3, 13>>, <<4, 14>>, <<3, 15>>, <<3, 16>>, <<4, 17>>,
   <<3, 18>>} \union Equal(2 .. 9)

SchoolbookCalls ==
  LET Kinds == {"full", "ends", "top bits", "mixed"}
  IN {[x |-> Pattern(16, k, w[1], 1), y |-> Pattern(16, h, w[2], 1), same |-> FALSE] :
        k \in Kinds, h \in Kinds, w \in SchoolbookWidths}
       \union
     {[x |-> Pattern(16, k, n, 1), y |-> Pattern(16, k, n, 1), same |-> TRUE] : k \in Kinds, n \in 0 .. 12}

\* All small shapes, the widths with fixed workspaces and those just below a
\* power of two.
KaratsubaWidths ==
  UpTo(5) \union {<<2, 5>>, <<7, 9>>, <<17, 12>>, <<22, 21>>} \union Equal({13, 14, 20, 23, 24, 32, 48})

KaratsubaCalls ==
  LET Kinds == {"full", "high", "low", "mixed"}
  IN {[x |-> Pattern(16, k, w[1], 1), y |-> Pattern(16, h, w[2], 1), square |-> FALSE] :
        k \in Kinds, h \in Kinds, w \in KaratsubaWidths}
       \union
     {[x |-> Pattern(16, k, n, 1), y |-> Pattern(16, k, n, 1), square |-> TRUE] : k \in Kinds, n \in 1 .. 14}

\* Every shape of up to five limbs with every cut, and wide shapes of two
\* levels of blocks.
HighCalls ==
  LET Kinds == {"full", "sparse low", "mixed"}
      Shapes_ == ((1 .. 5) \X (1 .. 5)) \union {<<6, 6>>, <<7, 9>>, <<13, 6>>, <<18, 18>>, <<20, 23>>}
  IN {[a |-> Pattern(64, k, w[1], 1), b |-> Pattern(64, h, w[2], 1), skip |-> s] :
        k \in Kinds, h \in Kinds, <<w, s>> \in {p \in Shapes_ \X (0 .. 45) : p[2] < p[1][1] + p[1][2]}}

\* Every width up to that of a whole product; the threshold is low enough for
\* three levels of blocks.
LowCalls ==
  LET Kinds == {"full", "sparse low", "mixed"}
      Guarded == UpTo(11) \union ((1 .. 11) \X {0}) \union {<<36, 3>>, <<35, 31>>, <<40, 40>>}
  IN {[op |-> "low", a |-> Pattern(16, k, n, 1), b |-> Pattern(16, h, n, 1)] :
        k \in Kinds, h \in Kinds, n \in 0 .. 38}
       \union
     {[op |-> "guard", a |-> Pattern(16, k, w[1], 1), b |-> Pattern(16, h, w[2], 1)] :
        k \in Kinds, h \in Kinds, w \in Guarded}

\* The plan of a sum-form product, as Karatsuba's.
SumFormScratchLen(len) == 2 * len

-----------------------------------------------------------------------------
(* The tiers: widths that give every split, full and short tops; products and *)
(* squares, with and without the paired kernels, and splits below and above   *)
(* those whose coefficients are computed in the destination.                  *)

Shaped == INSTANCE TierPrograms

TierCall(tier, w, part, k, h, square, fast) ==
  [tier |-> tier, a |-> Pattern(65536, k, w[1], part), b |-> Pattern(65536, h, w[2], part),
   square |-> square, fast |-> fast]

SmallTierCalls ==
  LET Kinds == {"full", "top", "lowest", "even", "odd", "mixed"}
      Of(tier, parts, widths) ==
        {TierCall(tier, w, Shaped!Ceil(Shaped!Wider(w[1], w[2]), parts), k, h, FALSE, FALSE) : k \in Kinds, h \in Kinds, w \in widths}
      Squares(tier, parts, widths) ==
        {TierCall(tier, w, Shaped!Ceil(w[1], parts), k, k, TRUE, FALSE) : k \in Kinds, w \in widths}
      \* Toom-3 with a full, a short and an empty high part, one or both, and with
      \* an operand of a single part.
      Toom3Widths == {<<3, 3>>, <<6, 5>>, <<8, 7>>, <<4, 4>>, <<6, 4>>, <<6, 3>>, <<8, 3>>, <<5, 8>>, <<10, 4>>}
  IN Of("toom32", 3, {<<3, 2>>, <<5, 3>>, <<8, 4>>, <<8, 6>>})
       \union Of("toom3", 3, Toom3Widths)
       \union Squares("toom3", 3, Equal({3, 4, 6, 8}))
       \union Of("toom43", 4, {<<4, 3>>, <<7, 5>>, <<8, 6>>})
       \union Of("toom4", 4, {<<4, 4>>, <<7, 7>>, <<8, 7>>, <<7, 8>>})
       \union Squares("toom4", 4, Equal({4, 7, 8}))

LargeTierCalls ==
  LET Pairs == {<<"full", "full">>, <<"full", "odd">>, <<"odd", "lowest">>, <<"odd", "odd">>, <<"lowest", "mixed">>}
      Of(tier, Part(_), widths) ==
        {TierCall(tier, w, Part(w), p[1], p[2], FALSE, f) : p \in Pairs, w \in widths, f \in BOOLEAN}
          \union
        {TierCall(tier, w, Part(w), k, k, TRUE, f) :
           k \in {"full", "odd", "mixed"}, w \in {v \in widths : v[1] = v[2]}, f \in BOOLEAN}
      SixParts(w) == IF Shaped!Toom6Shape(w[1], w[2]) = "half" THEN Shaped!Toom6HalfSplit(w[1], w[2])
                     ELSE Shaped!Ceil(w[1], 6)
      EightParts(w) == IF Shaped!Toom8Shape(w[1], w[2]) = "half" THEN Shaped!Toom8HalfSplit(w[1], w[2])
                       ELSE Shaped!Ceil(w[1], 8)
  IN Of("toom6", SixParts, {<<6, 6>>, <<7, 6>>, <<12, 12>>, <<18, 17>>, <<14, 12>>})
       \union Of("toom8", EightParts, {<<8, 8>>, <<9, 8>>, <<32, 32>>, <<36, 32>>})

TierCalls == SmallTierCalls \union LargeTierCalls

-----------------------------------------------------------------------------

Schoolbook == INSTANCE SchoolbookProducts WITH Base <- 16, LimbBits <- 4, HalfBase <- 4, Calls <- SchoolbookCalls

Karatsuba == INSTANCE KaratsubaProducts
  WITH Base <- 16, LimbBits <- 4, HalfBase <- 4, Calls <- KaratsubaCalls, Slack <- 40,
       KARATSUBA_THRESHOLD <- 3, SQR_KARATSUBA_THRESHOLD <- 2

Tiers == INSTANCE EvaluationTiers WITH Base <- 65536, LimbBits <- 16, HalfBase <- 256, Calls <- TierCalls

High == INSTANCE HighProducts
  WITH Base <- 64, LimbBits <- 6, HalfBase <- 8, Calls <- HighCalls, Slack <- 30,
       Thresholds <- [karatsuba |-> 5, toom |-> 100, toom4 |-> 0, toom6 |-> 0, toom85 |-> 0]

Low == INSTANCE LowProducts
  WITH Base <- 16, LimbBits <- 4, HalfBase <- 4, Calls <- LowCalls, PlanScratchLen <- SumFormScratchLen,
       Thresholds <- [karatsuba |-> 8, toom |-> 26, toom4 |-> 29, toom6 |-> 0, toom85 |-> 0],
       LOW_PRODUCT_RECURSIVE_THRESHOLD <- 4, LOW_PRODUCT_FULL_THRESHOLD <- 37, TRANSFORM_WIDTH <- 40

ASSUME ProductAssumptions ==
  /\ Schoolbook!WordAssumption /\ Schoolbook!CallsAssumption
  /\ Karatsuba!KaratsubaAssumption
  /\ Tiers!WordAssumption /\ Tiers!TierAssumption
  /\ High!WordAssumption /\ High!CallsAssumption
  /\ Low!CallsAssumption /\ Low!RecursiveThresholdAssumption

\* What only one of them keeps.
ofBlocked == <<shape, region, jobs, running, batch, added>>
ofSchoolbook == <<kernel, known, rows, plan>>
ofKaratsuba == promised
ofTiers == <<steps, buffer, flip>>
ofHigh == <<out, work, reserved, returned>>
ofLow == <<scratch, guarded>>
shared == <<dst, pc, call, sound, mem, stack, result>>

allVars ==
  <<family, ofBlocked, ofSchoolbook, ofKaratsuba, ofTiers, ofHigh, ofLow, shared>>

\* No worker holds a region.
NoBlocked == shape = None /\ region = None /\ jobs = {} /\ running = {} /\ batch = None /\ added = None
NoSchoolbook == kernel = None /\ known = None /\ rows = None /\ plan = None
NoKaratsuba == promised = None
NoTiers == steps = None /\ buffer = None /\ flip = None
NoHigh == out = None /\ work = None /\ reserved = None /\ returned = None
NoLow == scratch = None /\ guarded = None

CallInit ==
  \/ /\ family = "blocked" /\ ProductInit
     /\ NoSchoolbook /\ NoKaratsuba /\ NoTiers /\ NoHigh /\ NoLow
     /\ call = None /\ sound = None /\ mem = None /\ stack = None /\ result = None
  \/ /\ family = "schoolbook" /\ Schoolbook!Init
     /\ NoBlocked /\ NoKaratsuba /\ NoTiers /\ NoHigh /\ NoLow
     /\ pc = None /\ mem = None /\ stack = None /\ result = None
  \/ /\ family = "karatsuba" /\ Karatsuba!Init
     /\ NoBlocked /\ NoSchoolbook /\ NoTiers /\ NoHigh /\ NoLow
     /\ dst = None /\ pc = None /\ result = None
  \/ /\ family = "tiers" /\ Tiers!Init
     /\ NoBlocked /\ NoSchoolbook /\ NoKaratsuba /\ NoHigh /\ NoLow
     /\ pc = None /\ mem = None /\ stack = None /\ result = None
  \/ /\ family = "high" /\ High!Init
     /\ NoBlocked /\ NoSchoolbook /\ NoKaratsuba /\ NoTiers /\ NoLow
     /\ dst = None /\ mem = None
  \/ /\ family = "low" /\ Low!Init
     /\ NoBlocked /\ NoSchoolbook /\ NoKaratsuba /\ NoTiers /\ NoHigh
     /\ mem = None /\ result = None

BlockedNext ==
  /\ family = "blocked" /\ ProductNext
  /\ UNCHANGED <<family, ofSchoolbook, ofKaratsuba, ofTiers, ofHigh, ofLow, call, sound, mem, stack, result>>

CallNext ==
  \/ BlockedNext
  \/ /\ family = "schoolbook" /\ Schoolbook!Next
     /\ UNCHANGED <<family, ofBlocked, ofKaratsuba, ofTiers, ofHigh, ofLow, pc, mem, stack, result>>
  \/ /\ family = "karatsuba" /\ Karatsuba!Next
     /\ UNCHANGED <<family, ofBlocked, ofSchoolbook, ofTiers, ofHigh, ofLow, dst, pc, result>>
  \/ /\ family = "tiers" /\ Tiers!Next
     /\ UNCHANGED <<family, ofBlocked, ofSchoolbook, ofKaratsuba, ofHigh, ofLow, pc, mem, stack, result>>
  \/ /\ family = "high" /\ High!Next
     /\ UNCHANGED <<family, ofBlocked, ofSchoolbook, ofKaratsuba, ofTiers, ofLow, dst, mem>>
  \/ /\ family = "low" /\ Low!Next
     /\ UNCHANGED <<family, ofBlocked, ofSchoolbook, ofKaratsuba, ofTiers, ofHigh, mem, result>>

\* Workers and the joining thread run until the call returns.
CallSpec == CallInit /\ [][CallNext]_allVars /\ WF_allVars(BlockedNext)

-----------------------------------------------------------------------------
(* WorkersApart, and what each kind of product promises.                    *)

\* Every blocked product returns, and by then every block is in the product.
BlockedReturns ==
  family = "blocked" ~>
    (pc = "done" /\ \A i \in DOMAIN dst : dst[i] = Columns(BlockCount, i))

\* A quadratic product writes every limb of its dirty destination before it reads
\* it, and ends with the exact product.
SchoolbookSound == family = "schoolbook" => Schoolbook!SchoolbookExact

\* A recursive product stays within the scratch it promised and is exact.
KaratsubaSound == family = "karatsuba" => Karatsuba!KaratsubaExact

\* A tier's evaluations fit their guards, its exact divisions leave no remainder,
\* and its interpolation is the product.
TiersSound == family = "tiers" => Tiers!TierExact

\* A high product is the exact quotient by a radix power, whatever it left out;
\* a low product is exact modulo one, in a scratch of the promised size.
TruncatedSound ==
  /\ family = "high" => High!HighProductExact
  /\ family = "low" => Low!LowProductExact
=============================================================================

-------------------------- MODULE KernelSelection --------------------------
(***************************************************************************)
(* math/arch: which backend of a kernel runs.  What is compiled follows from *)
(* predicates on the target, spread over three macros; what is left to run   *)
(* time is chosen once per kernel, from one classification of the CPU that   *)
(* is made once per process, by whichever thread calls first.                *)
(***************************************************************************)
EXTENDS Integers, FiniteSets, Sequences

CONSTANTS
  CallingThreads,
  Programs,    \* records: a build (std, miri, arch, width and the features enabled at
               \* compile time) and the call, an op and a kernel, of each thread
  Cpus,        \* sets of x86 features
  Requests     \* what MP_ANAFIS_TEST_BACKEND may hold, "none" included

-----------------------------------------------------------------------------
(* The kernels.                                                             *)

Carries == {"add_limbs_3", "add_limbs", "sub_limbs_3", "sub_limbs"}
Propagations == {"propagate_carry", "propagate_borrow"}
Butterflies == {"add_sub", "add_reverse_sub", "add_two"}
ShiftsInto == {"lshift_into", "rshift_into"}
ShiftsInPlace == {"lshift", "rshift"}
Composites == {"mul_basecase", "mul_4x4", "sqr_basecase"}
Others == {"add_mul", "add_mul_2", "mul_2", "sub_mul", "divrem_1", "monty_redc", "sub_shifted_high",
           "add_sub_from", "lshift_overlapping"}
Kernels == Carries \union Propagations \union Butterflies \union ShiftsInto \union ShiftsInPlace \union Composites \union Others

Wide16 == {"add_sub_from", "sub_shifted_high", "lshift_overlapping"}   \* absent on 16-bit targets

Policy(k) ==
  CASE k \in Carries \union Propagations \union {"divrem_1"} -> "baseline"
    [] k \in Butterflies -> "adx"
    [] k \in ShiftsInto -> "sse2, avx2, avx512, small"
    [] k = "lshift_overlapping" -> "sse2, avx2, avx512"
    [] k \in ShiftsInPlace -> "sse2, avx2"
    [] k = "add_sub_from" -> "fallback, adx"
    [] k = "sub_shifted_high" -> "fallback, bmi2"
    [] k = "monty_redc" -> "fallback, bmi2, adx_bmi2"
    [] k \in {"add_mul", "sub_mul"} -> "bmi2, adx_bmi2"
    [] k \in {"add_mul_2", "mul_2"} -> "bmi2"
    [] k \in Composites -> k

PowerPolicy(k) ==
  CASE k \in {"add_mul", "add_mul_2"} -> "power8, power9"
    [] k \in Carries \union {"sub_mul", "mul_2", "monty_redc", "sub_shifted_high"} -> "baseline"
    [] OTHER -> "none"

\* A backend's predicate: an architecture, a width or any, features with and without.
Backend(name, arch, width, needs, without) ==
  [name |-> name, arch |-> arch, width |-> width, needs |-> needs, without |-> without]
On(name, width) == Backend(name, name, width, {}, {})
AnyWidth == 0

Scalar == {On("x86", 32), On("aarch64", 64), On("powerpc", AnyWidth), On("s390x", AnyWidth),
           On("loongarch64", AnyWidth), On("loongarch32", AnyWidth), On("mips64", AnyWidth), On("mips", AnyWidth)}
ArmBackend(needs) == Backend("arm", "arm", AnyWidth, needs, {"thumb-mode"})
RiscV(width64, needs) == {Backend("riscv64", "riscv64", width64, needs, {}), Backend("riscv32", "riscv32", AnyWidth, needs, {})}

HalfLimb == {<<"aarch64", 64>>, <<"arm64ec", 64>>, <<"arm", 32>>, <<"bpf", 64>>, <<"csky", 32>>, <<"hexagon", 32>>,
             <<"loongarch32", 32>>, <<"loongarch64", 64>>, <<"m68k", 32>>, <<"mips", 32>>, <<"mips64", 64>>,
             <<"nvptx64", 64>>, <<"powerpc", 32>>, <<"powerpc64", 64>>, <<"riscv32", 32>>, <<"riscv64", 64>>,
             <<"sparc", 32>>, <<"sparc64", 64>>, <<"wasm32", 32>>, <<"wasm64", 64>>, <<"xtensa", 32>>}

Backends(k) ==
  CASE k \in Carries -> Scalar \union {ArmBackend({})} \union RiscV(AnyWidth, {})
    [] k \in {"add_mul", "sub_mul"} -> Scalar \union {ArmBackend({})} \union RiscV(AnyWidth, {"m"})
    [] k = "add_mul_2" -> (Scalar \ {On("loongarch64", AnyWidth)}) \union {On("loongarch64", 64), ArmBackend({"v6"})} \union RiscV(64, {"m"})
    [] k = "mul_2" -> {On("x86", 32), On("aarch64", 64), On("s390x", 64), ArmBackend({"v6"}),
                       Backend("riscv64", "riscv64", 64, {"m"}, {})}
    [] k = "monty_redc" -> {On("aarch64", 64), On("loongarch64", 64), On("s390x", AnyWidth),
                            Backend("riscv64", "riscv64", 64, {"m"}, {})}
    [] k = "sub_shifted_high" -> {On("aarch64", 64), On("s390x", AnyWidth), On("powerpc", 32)}
    [] k \in Propagations -> {On("aarch64", 64), On("s390x", AnyWidth)}
    [] k \in ShiftsInto \union ShiftsInPlace -> {On("aarch64", 64)}
    [] k = "divrem_1" -> {Backend("half_limb", h[1], h[2], {}, {}) : h \in HalfLimb} \union {On("s390x", 64), On("x86", 32)}
    [] OTHER -> {}

\* special_coverage: what the x86-64 and POWER policies answer for.
Covers(k, b) ==
  \/ b.arch = "x86_64" /\ b.width = 64 /\ Policy(k) # "adx"
  \/ b.arch = "powerpc64" /\ PowerPolicy(k) # "none" /\ (b.width = 64 \/ k \notin {"mul_2", "sub_shifted_high"})

Admits(a, b) ==
  /\ ~b.miri
  /\ b.arch = a.arch /\ a.width \in {AnyWidth, b.width}
  /\ a.needs \subseteq b.features /\ a.without \intersect b.features = {}

\* The fallback answers for whatever no backend covers.
Generic(k, b) == b.miri \/ ~((\E a \in Backends(k) : Admits(a, b)) \/ Covers(k, b))

\* The compiler enables AVX2 wherever it enables AVX-512, and has no powerpc64
\* target of another width, which the POWER predicates leave out.
ASSUME BuildsAssumption ==
  \A p \in Programs :
    /\ p.build.std \in BOOLEAN /\ p.build.miri \in BOOLEAN
    /\ "avx512f" \in p.build.features => "avx2" \in p.build.features
    /\ p.build.arch = "powerpc64" => p.build.width = 64

\* Threads run kernels; the flag is that of the first butterfly.
ASSUME CallsAssumption ==
  \A p \in Programs :
    /\ p.calls \in [CallingThreads -> [op : {"run", "flag"}, kernel : Kernels]]
    /\ \A t \in CallingThreads : p.calls[t].op = "flag" => p.calls[t].kernel = "add_sub"

-----------------------------------------------------------------------------
(* What is compiled: items under a predicate, the modules they declare and   *)
(* the backend they select, or the run-time choice.                          *)

Item(when, modules, selects) == [when |-> when, modules |-> modules, selects |-> selects]
Selects(when, module) == Item(when, {module}, module)
Only(modules, when) == Item(when, modules, "nothing")

X64(b) == ~b.miri /\ b.arch = "x86_64" /\ b.width = 64
Has(b, feature) == feature \in b.features
Both(b) == Has(b, "adx") /\ Has(b, "bmi2")
Dispatches(b) == X64(b) /\ b.std /\ ~Both(b)

\* @single_items
Single(k, b, module, feature) ==
  LET native == X64(b) /\ Has(b, feature)
      plain == X64(b) /\ ~Has(b, feature)
  IN << Only({"fallback"}, Generic(k, b) \/ plain),
        Only({module}, X64(b) /\ (b.std \/ Has(b, feature))),
        Item(plain /\ b.std, {}, "dispatch"),
        Item(native, {}, module),
        Item(Generic(k, b) \/ (plain /\ ~b.std), {}, "fallback") >>

\* @simd_pair, with the AVX-512 module of the policies that have one.
SimdPair(k, b, avx512) ==
  LET native512 == avx512 /\ Has(b, "avx512f")
  IN << Only({"fallback"}, Generic(k, b)),
        Only({"x86_64_avx512"}, avx512 /\ X64(b) /\ (b.std \/ Has(b, "avx512f"))),
        Only({"x86_64"}, X64(b) /\ (b.std \/ ~Has(b, "avx2"))),
        Only({"x86_64_avx2"}, X64(b) /\ (b.std \/ (Has(b, "avx2") /\ ~native512))),
        Item(X64(b) /\ b.std, {}, "dispatch"),
        Item(X64(b) /\ ~b.std /\ native512, {}, "x86_64_avx512"),
        Item(X64(b) /\ ~b.std /\ Has(b, "avx2") /\ ~native512, {}, "x86_64_avx2"),
        Item(X64(b) /\ ~b.std /\ ~Has(b, "avx2"), {}, "x86_64"),
        Item(Generic(k, b), {}, "fallback") >>

Bmi2Alone(b) == X64(b) /\ ~b.std /\ Has(b, "bmi2") /\ ~Has(b, "adx")
Plain(b) == X64(b) /\ ~b.std /\ ~Has(b, "bmi2")

MontyItems(k, b) ==
  << Only({"fallback"}, Generic(k, b) \/ Dispatches(b) \/ Plain(b)),
     Only({"x86_64_adx"}, X64(b) /\ (b.std \/ Both(b))),
     Only({"x86_64_bmi2"}, Dispatches(b) \/ Bmi2Alone(b)),
     Item(Dispatches(b), {}, "dispatch"),
     Item(X64(b) /\ Both(b), {}, "x86_64_adx"),
     Item(Bmi2Alone(b), {}, "x86_64_bmi2"),
     Item(Generic(k, b) \/ Plain(b), {}, "fallback") >>

\* @direct_x86 [adx]
ButterflyItems(b) ==
  LET native == X64(b) /\ Has(b, "adx")
      dispatch == X64(b) /\ b.std /\ ~Has(b, "adx")
  IN << Only({"fallback"}, ~native),
        Only({"x86_64_adx"}, X64(b) /\ (b.std \/ Has(b, "adx"))),
        Item(dispatch, {}, "dispatch"),
        Item(native, {}, "x86_64_adx"),
        Item(~(native \/ dispatch), {}, "fallback") >>

\* The composites of backend_providers.rs.
MulItems(b) ==
  << Only({"portable"}, TRUE),
     Only({"direct"}, ~Dispatches(b)),
     Only({"x86_64_adx"}, X64(b) /\ (b.std \/ Both(b))),
     Item(~Dispatches(b), {}, "direct"),
     Item(Dispatches(b), {}, "dispatch") >>

Mul4Items(b) ==
  << Only({"portable"}, TRUE),
     Only({"x86_64_adx"}, X64(b) /\ (b.std \/ Both(b))),
     Item(X64(b) /\ Both(b), {}, "x86_64_adx"),
     Item(~(X64(b) /\ (b.std \/ Both(b))), {}, "portable"),
     Item(Dispatches(b), {}, "dispatch") >>

SqrItems(b) ==
  LET dispatch == X64(b) /\ b.std /\ ~Has(b, "bmi2")
  IN << Only({"direct"}, TRUE),
        Only({"x86_64_adx"}, X64(b) /\ (Both(b) \/ dispatch)),
        Only({"x86_64_bmi2"}, X64(b) /\ ~Both(b) /\ (b.std \/ Has(b, "bmi2"))),
        Item(X64(b) /\ Both(b), {}, "x86_64_adx"),
        Item(X64(b) /\ Has(b, "bmi2") /\ ~Has(b, "adx"), {}, "x86_64_bmi2"),
        Item(dispatch, {}, "dispatch"),
        Item(~((X64(b) /\ Has(b, "bmi2")) \/ dispatch), {}, "direct") >>

\* A selectable kernel; a run-time choice keeps every tier.
BaselineItems(k, b) == << Selects(X64(b), "x86_64"), Selects(Generic(k, b), "fallback") >>

MulLimbItems(k, b) ==
  << Selects(X64(b) /\ Both(b), "x86_64_adx"), Selects(Bmi2Alone(b), "x86_64_bmi2"), Selects(Plain(b), "x86_64"),
     Item(Dispatches(b), {"x86_64", "x86_64_adx", "x86_64_bmi2"}, "dispatch"), Selects(Generic(k, b), "fallback") >>

TwoLimbItems(k, b) ==
  << Selects(X64(b) /\ Both(b), "x86_64_bmi2"), Selects(Plain(b), "x86_64"), Selects(Bmi2Alone(b), "x86_64_bmi2"),
     Only({"x86_64", "x86_64_bmi2"}, Dispatches(b)), Selects(Generic(k, b), "fallback") >>

PowerItems(k, b) ==
  LET power == ~b.miri /\ b.arch = "powerpc64"
  IN CASE PowerPolicy(k) = "none" -> <<>>
       [] PowerPolicy(k) = "baseline" -> << Selects(power, "powerpc64") >>
       [] OTHER -> << Selects(power /\ Has(b, "power9-vector"), "powerpc64_p9"),
                      Selects(power /\ ~Has(b, "power9-vector"), "powerpc64") >>

X86Items(k, b) ==
  LET p == Policy(k)
  IN CASE p = "baseline" -> BaselineItems(k, b)
       [] p = "bmi2, adx_bmi2" -> MulLimbItems(k, b)
       [] p = "bmi2" -> TwoLimbItems(k, b)
       [] p = "adx" -> ButterflyItems(b)
       [] p = "fallback, adx" -> Single(k, b, "x86_64_adx", "adx")
       [] p = "fallback, bmi2" -> Single(k, b, "x86_64_bmi2", "bmi2")
       [] p = "fallback, bmi2, adx_bmi2" -> MontyItems(k, b)
       [] p = "sse2, avx2" -> SimdPair(k, b, FALSE)
       [] p = "mul_basecase" -> MulItems(b)
       [] p = "mul_4x4" -> Mul4Items(b)
       [] p = "sqr_basecase" -> SqrItems(b)
       [] OTHER -> SimdPair(k, b, TRUE)

\* The backends of the other architectures each come under their own predicate.
BackendItems(k, b) == {Selects(TRUE, a.name) : a \in {x \in Backends(k) : Admits(x, b)}}

\* The items a build takes, each told by its place.
Taken(from, items) == {[from |-> from, at |-> i, item |-> items[i]] : i \in {j \in DOMAIN items : items[j].when}}

Active(k, b) ==
  Taken("powerpc64", PowerItems(k, b)) \union Taken("x86_64", X86Items(k, b))
    \union {[from |-> "backends", at |-> 0, item |-> x] : x \in BackendItems(k, b)}

\* A kernel is absent, or has no surface where its callers choose for it.
Surface(k, b) == ~(k \in Wide16 /\ b.width = 16) /\ ~(Policy(k) = "bmi2" /\ Dispatches(b))

Declared(k, b) == UNION {x.item.modules : x \in Active(k, b)}
Selections(k, b) == {x \in Active(k, b) : x.item.selects # "nothing"}
Selected(k, b) == (CHOOSE x \in Selections(k, b) : TRUE).item.selects

-----------------------------------------------------------------------------
(* Run time.                                                                *)

ArithmeticTier(cpu, request) ==
  LET adx == "adx" \in cpu
      bmi2 == "bmi2" \in cpu
  IN IF request # "none"
     THEN CASE request = "adx" /\ adx /\ bmi2 -> "AdxBmi2"
            [] request = "adx" /\ adx /\ ~bmi2 -> "Adx"
            [] request = "bmi2" /\ bmi2 -> "Bmi2"
            [] OTHER -> "Baseline"
     ELSE IF adx /\ bmi2 THEN "AdxBmi2" ELSE IF adx THEN "Adx" ELSE IF bmi2 THEN "Bmi2" ELSE "Baseline"

SimdTier(cpu, request) ==
  LET avx2 == "avx2" \in cpu
      avx512 == "avx512f" \in cpu
  IN IF request # "none"
     THEN IF request = "avx512" /\ avx2 /\ avx512 THEN "Avx512" ELSE IF request = "avx2" /\ avx2 THEN "Avx2" ELSE "Sse2"
     ELSE IF avx2 /\ avx512 THEN "Avx512" ELSE IF avx2 THEN "Avx2" ELSE "Sse2"

IsShift(k) == k \in ShiftsInto \union ShiftsInPlace \union {"lshift_overlapping"}
TierCell(k) == IF IsShift(k) THEN "simd" ELSE "arithmetic"

\* select_kernel of the dispatched kernels.
ShiftChoice(k, tier) ==
  IF tier = "Sse2" THEN "x86_64" ELSE IF tier = "Avx512" /\ k \notin ShiftsInPlace THEN "x86_64_avx512" ELSE "x86_64_avx2"

Slowest(k) ==
  CASE k \in {"add_mul", "sub_mul"} -> "x86_64" [] k = "sqr_basecase" -> "direct" [] k = "monty_redc" -> "fallback"

Choice_SharesAdxArm(k, tier) ==
  CASE IsShift(k) -> ShiftChoice(k, tier)
    [] k \in Butterflies \union {"add_sub_from"} -> IF tier \in {"AdxBmi2", "Adx"} THEN "x86_64_adx" ELSE "fallback"
    [] k = "sub_shifted_high" -> IF tier \in {"AdxBmi2", "Bmi2"} THEN "x86_64_bmi2" ELSE "fallback"
    [] k = "mul_4x4" -> IF tier = "AdxBmi2" THEN "x86_64_adx" ELSE "portable"
    [] k = "mul_basecase" ->
         IF tier \in {"AdxBmi2", "Adx"} THEN "x86_64_adx" ELSE IF tier = "Bmi2" THEN "bmi2_rows" ELSE "vanilla_rows"
    [] k \in {"add_mul", "sub_mul", "sqr_basecase", "monty_redc"} ->
         IF tier \in {"AdxBmi2", "Adx"} THEN "x86_64_adx" ELSE IF tier = "Bmi2" THEN "x86_64_bmi2" ELSE Slowest(k)

Choice(k, tier) ==
  CASE IsShift(k) -> ShiftChoice(k, tier)
    [] k \in Butterflies \union {"add_sub_from"} -> IF tier \in {"AdxBmi2", "Adx"} THEN "x86_64_adx" ELSE "fallback"
    [] k = "sub_shifted_high" -> IF tier \in {"AdxBmi2", "Bmi2"} THEN "x86_64_bmi2" ELSE "fallback"
    [] k = "mul_4x4" -> IF tier = "AdxBmi2" THEN "x86_64_adx" ELSE "portable"
    [] k = "mul_basecase" ->
         IF tier = "AdxBmi2" THEN "x86_64_adx" ELSE IF tier = "Bmi2" THEN "bmi2_rows" ELSE "vanilla_rows"
    [] k \in {"add_mul", "sub_mul", "sqr_basecase", "monty_redc"} ->
         IF tier = "AdxBmi2" THEN "x86_64_adx" ELSE IF tier = "Bmi2" THEN "x86_64_bmi2" ELSE Slowest(k)

\* The modules a choice reaches: the wide overlapping tiers keep the narrower
\* ones for short spans, and the rows of a product are the backends of others.
Reaches(k, module) ==
  CASE k = "lshift_overlapping" /\ module = "x86_64_avx512" -> {<<k, "x86_64_avx512">>, <<k, "x86_64_avx2">>, <<k, "x86_64">>}
    [] k \in ShiftsInPlace \union {"lshift_overlapping"} /\ module = "x86_64_avx2" -> {<<k, "x86_64_avx2">>, <<k, "x86_64">>}
    [] k = "mul_basecase" /\ module = "x86_64_adx" -> {<<k, "x86_64_adx">>, <<"mul_2", "x86_64_bmi2">>, <<"add_mul", "x86_64_adx">>}
    [] k = "mul_basecase" /\ module = "bmi2_rows" -> {<<m, "x86_64_bmi2">> : m \in {"mul_2", "add_mul_2", "add_mul"}}
    [] k = "mul_basecase" /\ module = "vanilla_rows" -> {<<m, "x86_64">> : m \in {"mul_2", "add_mul_2", "add_mul"}}
    [] OTHER -> {<<k, module>>}

\* Instructions a module holds.
Needs(k, module) ==
  CASE module = "x86_64_adx" -> IF k \in Butterflies \union {"add_sub_from"} THEN {"adx"} ELSE {"adx", "bmi2"}
    [] module = "x86_64_bmi2" -> {"bmi2"}
    [] module = "x86_64_avx2" -> {"avx2"}
    [] module = "x86_64_avx512" -> {"avx512f"}
    [] OTHER -> {}

Tiers(k) == IF IsShift(k) THEN {"Avx512", "Avx2", "Sse2"} ELSE {"AdxBmi2", "Adx", "Bmi2", "Baseline"}

VARIABLES
  build, cpu, request,
  calls,       \* each thread's call
  once,        \* the OnceLocks: the two tiers and one per kernel
  stage,       \* call, select (its kernel's cell claimed), detect (a tier's), run, done
  module,      \* what a thread is about to run
  answers      \* what the calls saw: modules run, and the butterfly flag

selectionVars == <<build, cpu, request, calls, once, stage, module, answers>>

Empty == "empty"
Running == "running"
Cells == Kernels \union {"simd", "arithmetic"}

\* A program only runs on a CPU with the features it is compiled for.
SelectionInit ==
  /\ \E p \in Programs :
       /\ build = p.build /\ calls = p.calls
       /\ \A t \in CallingThreads : Surface(p.calls[t].kernel, p.build)
       /\ cpu \in IF p.build.arch = "x86_64" THEN {c \in Cpus : p.build.features \subseteq c} ELSE {{}}
  /\ request \in Requests
  /\ once = [c \in Cells |-> Empty]
  /\ stage = [t \in CallingThreads |-> "call"]
  /\ module = [t \in CallingThreads |-> "none"]
  /\ answers = {}

Kernel(t) == calls[t].kernel
Go(t, to) == stage' = [stage EXCEPT ![t] = to]
Take(t, m) == module' = [module EXCEPT ![t] = m] /\ Go(t, "run")

\* A backend fixed at compile time needs no cell.
CallSelected(t) ==
  /\ stage[t] = "call" /\ Selected(Kernel(t), build) # "dispatch"
  /\ Take(t, Selected(Kernel(t), build))
  /\ UNCHANGED <<build, cpu, request, calls, once, answers>>

CallChosen(t) ==
  /\ stage[t] = "call" /\ Selected(Kernel(t), build) = "dispatch"
  /\ once[Kernel(t)] \notin {Empty, Running}
  /\ Take(t, once[Kernel(t)])
  /\ UNCHANGED <<build, cpu, request, calls, once, answers>>

\* get_or_init: one thread runs the initializer, the others wait.
ClaimKernel(t) ==
  /\ stage[t] = "call" /\ Selected(Kernel(t), build) = "dispatch"
  /\ once[Kernel(t)] = Empty
  /\ once' = [once EXCEPT ![Kernel(t)] = Running]
  /\ Go(t, "select")
  /\ UNCHANGED <<build, cpu, request, calls, module, answers>>

SelectKernel(t) ==
  /\ stage[t] = "select" /\ once[TierCell(Kernel(t))] \notin {Empty, Running}
  /\ LET chosen == Choice(Kernel(t), once[TierCell(Kernel(t))])
     IN once' = [once EXCEPT ![Kernel(t)] = chosen] /\ Take(t, chosen)
  /\ UNCHANGED <<build, cpu, request, calls, answers>>

ClaimTier(t) ==
  /\ stage[t] = "select" /\ once[TierCell(Kernel(t))] = Empty
  /\ once' = [once EXCEPT ![TierCell(Kernel(t))] = Running]
  /\ Go(t, "detect")
  /\ UNCHANGED <<build, cpu, request, calls, module, answers>>

Detect_KeepsCell(t) ==
  /\ stage[t] = "detect"
  /\ Go(t, "select")
  /\ UNCHANGED <<build, cpu, request, calls, once, module, answers>>

Detect(t) ==
  /\ stage[t] = "detect"
  /\ once' = [once EXCEPT ![TierCell(Kernel(t))] =
                IF IsShift(Kernel(t)) THEN SimdTier(cpu, request) ELSE ArithmeticTier(cpu, request)]
  /\ Go(t, "select")
  /\ UNCHANGED <<build, cpu, request, calls, module, answers>>

\* fast_add_sub_limbs_available reads the flag stored beside the kernel.
Answer(t) ==
  IF calls[t].op = "flag" THEN [op |-> "flag", kernel |-> Kernel(t), module |-> IF module[t] = "x86_64_adx" THEN "x86_64_adx" ELSE "fallback"]
  ELSE [op |-> "run", kernel |-> Kernel(t), module |-> module[t]]

Run(t) ==
  /\ stage[t] = "run"
  /\ answers' = answers \union {Answer(t)}
  /\ Go(t, "done")
  /\ UNCHANGED <<build, cpu, request, calls, once, module>>

\* The environment may change under a debug build (a change before the first
\* call is another initial state, one after the last is read by nobody).
ChangeRequest ==
  /\ \E t \in CallingThreads : stage[t] \notin {"call", "done"}
  /\ request' \in Requests \ {request}
  /\ UNCHANGED <<build, cpu, calls, once, stage, module, answers>>

SelectionNext ==
  \/ \E t \in CallingThreads :
       CallSelected(t) \/ CallChosen(t) \/ ClaimKernel(t) \/ SelectKernel(t) \/ ClaimTier(t) \/ Detect(t) \/ Run(t)
  \/ ChangeRequest

Progress(t) ==
  CallSelected(t) \/ CallChosen(t) \/ ClaimKernel(t) \/ SelectKernel(t) \/ ClaimTier(t) \/ Detect(t) \/ Run(t)

Fairness == \A t \in CallingThreads : WF_selectionVars(Progress(t))
SelectionSpec == SelectionInit /\ [][SelectionNext]_selectionVars /\ Fairness

-----------------------------------------------------------------------------
(* Properties.                                                              *)

\* Every build has exactly one definition of every kernel's surface, declares a
\* module once, and declares what it selects and whatever any tier may choose.
ResolvedOnce(k, b) ==
  /\ \A m \in Declared(k, b) : Cardinality({x \in Active(k, b) : m \in x.item.modules}) = 1
  /\ Surface(k, b) =>
       /\ Cardinality(Selections(k, b)) = 1
       /\ Selected(k, b) # "dispatch" => Selected(k, b) \in Declared(k, b)
       /\ Selected(k, b) = "dispatch" =>
            \A tier \in Tiers(k) : \A r \in Reaches(k, Choice(k, tier)) : r[2] \in Declared(r[1], b)

\* Whatever the threads call first and however the request changes, a thread only
\* runs instructions this CPU has, every dispatched kernel follows the one tier,
\* and the butterfly flag speaks of the kernel that runs.
SelectionSound ==
  /\ (\A t \in CallingThreads : stage[t] = "call") => \A k \in Kernels : ResolvedOnce(k, build)
  /\ \A a \in answers : a.op = "run" /\ build.arch = "x86_64" =>
       \A r \in Reaches(a.kernel, a.module) : Needs(r[1], r[2]) \subseteq cpu
  /\ \A k \in Kernels : once[k] \notin {Empty, Running} => once[k] = Choice(k, once[TierCell(k)])
  /\ \A a, c \in answers : a.kernel = c.kernel => a.module = c.module

\* Nested initializers never wait for each other: every call returns.
CallsReturn == \A t \in CallingThreads : <>(stage[t] = "done")

-----------------------------------------------------------------------------
(* The instance that is checked: every kernel on every kind of target,      *)
(* compile-time features included; pairs of threads on kernels that share a *)
(* cell or a tier.                                                          *)

Build(std, miri, arch, width, features) ==
  [std |-> std, miri |-> miri, arch |-> arch, width |-> width, features |-> features]

FeatureSets == {f \in SUBSET {"adx", "bmi2", "avx2", "avx512f"} : "avx512f" \in f => "avx2" \in f}

Others64 == {<<"x86_64", 32>>, <<"x86", 32>>, <<"aarch64", 64>>, <<"aarch64", 32>>, <<"arm", 32>>, <<"powerpc", 32>>,
             <<"powerpc64", 64>>, <<"s390x", 64>>, <<"riscv64", 64>>, <<"riscv32", 32>>, <<"loongarch64", 64>>,
             <<"loongarch32", 32>>, <<"mips64", 64>>, <<"mips", 32>>, <<"wasm32", 32>>, <<"msp430", 16>>, <<"arm64ec", 64>>}

OtherFeatures(arch) ==
  CASE arch = "arm" -> SUBSET {"v6", "thumb-mode"}
    [] arch = "powerpc64" -> SUBSET {"power9-vector"}
    [] arch \in {"riscv64", "riscv32"} -> SUBSET {"m"}
    [] OTHER -> {{}}

\* What builds are told the processor has: what a tier needs, or a part of it.
Enabled == {{}, {"bmi2"}, {"adx", "bmi2"}, {"avx2"}, {"adx", "bmi2", "avx2", "avx512f"}}

DispatchingBuilds == {Build(TRUE, FALSE, "x86_64", 64, f) : f \in Enabled}
OtherBuilds ==
  ({Build(s, m, "x86_64", 64, f) : s \in BOOLEAN, m \in BOOLEAN, f \in FeatureSets}
     \ {Build(TRUE, FALSE, "x86_64", 64, f) : f \in FeatureSets})
  \union UNION {{Build(TRUE, m, t[1], t[2], f) : m \in BOOLEAN, f \in OtherFeatures(t[1])} : t \in Others64}

MCCpus == Enabled \union {{"adx"}, {"adx", "bmi2", "avx2"}}
MCRequests == {"none", "adx", "bmi2", "avx512"}

KernelCall(op, k) == [op |-> op, kernel |-> k]
Pair(first, second) == [t \in CallingThreads |-> IF t = "t1" THEN first ELSE second]
MCCalls ==
  {Pair(KernelCall("run", "add_mul"), KernelCall("run", "add_mul")), Pair(KernelCall("run", "sub_mul"), KernelCall("run", "mul_basecase")),
   Pair(KernelCall("run", "sqr_basecase"), KernelCall("run", "mul_4x4")), Pair(KernelCall("flag", "add_sub"), KernelCall("run", "add_sub")),
   Pair(KernelCall("run", "monty_redc"), KernelCall("run", "sub_shifted_high")), Pair(KernelCall("run", "add_two"), KernelCall("run", "add_sub_from")),
   Pair(KernelCall("run", "lshift"), KernelCall("run", "lshift_overlapping")), Pair(KernelCall("run", "rshift_into"), KernelCall("run", "divrem_1"))}

\* Builds without a run-time choice only need their definitions looked at.
MCPrograms ==
  {[build |-> b, calls |-> c] : b \in DispatchingBuilds, c \in MCCalls}
  \union {[build |-> b, calls |-> Pair(KernelCall("run", "add_mul"), KernelCall("run", "lshift"))] : b \in OtherBuilds}
=============================================================================

------------------------- MODULE TuneSessionProofs -------------------------
(***************************************************************************)
(* tools/tune, for every number of sessions, modes, stamps and mishaps: what *)
(* the disk holds after any crash or loss of power, and what stands behind   *)
(* an installed profile.                                                     *)
(*                                                                           *)
(* A session is steady at every stage: its binaries are of sources between   *)
(* the ones it captured and those there are now, its evidence of the         *)
(* captured ones, and past the verdict it has every comparison.  The files   *)
(* rest on two further facts: a temporary file is changed only by its owner, *)
(* whose name nobody else has, and whoever publishes has renamed its report, *)
(* so that in the order of the renames the report comes first.               *)
(***************************************************************************)
EXTENDS TuneSession, TLAPS, SequenceTheorems, WellFoundedInduction

-----------------------------------------------------------------------------
(* Types.                                                                   *)

Profiles == {"defaults", "other"}
Stages == {"idle", "search", "confirm", "format", "validate", "judge", "finish", "report", "publish", "ended", "dead"}
StepNames == {"none", "check", "build", "recheck", "judge", "create", "fill", "rename"}

Scores == [key : [of : Scored, profile : Profiles, context : Nat], built : SUBSET Int]
Evidence == [round : Nat, profile : Profiles, built : Int, seen : Nat]

Records ==
  [mode : Modes \union OtherModes \union {"none"}, stage : Stages, step : StepNames, captured : Nat, failed : BOOLEAN,
   profile : Profiles, built : [Profiles -> Int], scores : SUBSET Scores, formatted : BOOLEAN, round : Nat,
   passed : BOOLEAN, evidence : SUBSET Evidence, broken : BOOLEAN, ordinal : Nat, tag : Stamps \union Nat]

Files == [there : BOOLEAN, whole : BOOLEAN, synced : BOOLEAN, data : SUBSET (Scores \union Sessions)]
Renames == [path : Paths, file : Files]
Temporaries == [path : Paths, tag : Stamps \union Nat, file : Files]

TypeOK ==
  /\ sources \in Nat /\ faults \in Nat
  /\ disk \in [Paths -> Files]
  /\ journal \in Seq(Renames)
  /\ temps \in SUBSET Temporaries
  /\ session \in [Sessions -> Records]

-----------------------------------------------------------------------------
(* One session.                                                             *)

Ending == {"finish", "report", "publish"}
StagesAt(step) ==
  CASE step = "none" -> {"idle", "ended", "dead"}
    [] step \in {"check", "build", "recheck"} -> Measured
    [] step = "judge" -> {"judge"}
    [] OTHER -> Scored \union Ending

\* Every score a session has is of the sources it was measured on.
Sourced(scores) == \A e \in scores : e.built = {e.key.context}

\* A binary is of sources there were between the capture and now, and those are
\* one and the same as long as the context holds.
Binaries(built, captured, now) ==
  \A p \in Profiles : built[p] = NotBuilt \/ (captured <= built[p] /\ built[p] <= now)
AllBuilt(built, profiles) == \A p \in profiles : built[p] # NotBuilt

Measurements(evidence, captured) == \A e \in evidence : e.built = captured /\ e.seen = captured

Compares(evidence, profile, n) ==
  \A round \in 1 .. n, p \in {"defaults", profile} : \E e \in evidence : e.round = round /\ e.profile = p

\* What a session that measures keeps.
Core(r, now) ==
  /\ r \in Records /\ r.mode # "ProfileFor"
  /\ Sourced(r.scores)
  /\ r.captured <= now /\ Binaries(r.built, r.captured, now) /\ Measurements(r.evidence, r.captured)

\* What a profile has behind it at each stage on its way to an installation.
Vetting(r) ==
  /\ r.stage \in Measured \union {"judge"} /\ r.broken => r.failed
  /\ r.stage \in {"search", "confirm", "format", "judge"} => r.round = 1
  /\ r.stage = "validate" /\ r.mode \in CompleteModes => r.formatted
  /\ r.stage = "validate" => r.round >= 1 /\ (r.passed => ~ r.broken /\ Compares(r.evidence, r.profile, r.round - 1))
  /\ r.stage \in Ending /\ r.mode \in CompleteModes /\ r.passed =>
       r.formatted /\ ~ r.broken /\ Compares(r.evidence, r.profile, Comparisons)

Measuring(r, now) ==
  /\ Core(r, now) /\ Vetting(r)
  /\ r.step = "recheck" => AllBuilt(r.built, Compiled(r))

\* A session that installs a built-in profile measures nothing.
Steady(r, now) ==
  /\ r.stage \in StagesAt(r.step)
  /\ r.mode # "ProfileFor" => Measuring(r, now)
  /\ r.mode = "ProfileFor" => r.stage = "publish"

-----------------------------------------------------------------------------
(* Files.                                                                   *)

\* A file that is there is complete, would survive a loss of power, and says
\* what its name promises.
Sound(path, file) ==
  /\ file.there => file.whole /\ file.synced
  /\ path = Cache => file.data \subseteq Scores /\ Sourced(file.data)
  /\ path = Profile => file.data \subseteq Sessions
  /\ \A s \in Sessions : path = Report(s) /\ file.there => s \in file.data

FilesKept ==
  /\ \A p \in Paths : Sound(p, disk[p])
  /\ \A i \in 1 .. Len(journal) : Sound(journal[i].path, journal[i].file) /\ journal[i].file.there

\* The report of s is durable once the first n renames are.
Reported(s, n, durable, renames) == durable[Report(s)].there \/ \E j \in 1 .. n : renames[j].path = Report(s)

\* No profile comes before the report of who measured it.
Ordered(durable, renames) ==
  /\ \A s \in durable[Profile].data : durable[Report(s)].there
  /\ \A i \in 1 .. Len(renames) : renames[i].path = Profile =>
       \A s \in renames[i].file.data : Reported(s, i, durable, renames)

ReportsFirst ==
  /\ Ordered(disk, journal)
  /\ \A s \in Sessions :
       session[s].stage = "publish" /\ session[s].mode # "ProfileFor" => Reported(s, Len(journal), disk, journal)

\* Whoever fills or renames a temporary file has it for itself.
Writes(s) == session[s].step \in {"fill", "rename"}
Owned(t, s) == t.path = Target(s) /\ t.tag = session[s].tag

TemporariesOwned ==
  /\ \A t, u \in temps : t.path = u.path /\ t.tag = u.tag => t = u
  /\ \A s \in Sessions : Writes(s) =>
       \E t \in temps :
         /\ Owned(t, s) /\ t.file.there /\ t.file.data = Content(s)
         /\ session[s].step = "rename" => t.file.whole /\ t.file.synced
  /\ \A s, u \in Sessions : s # u /\ Writes(s) /\ Writes(u) => ~ (Target(s) = Target(u) /\ session[s].tag = session[u].tag)

SessionInv ==
  /\ TypeOK
  /\ \A s \in Sessions : Steady(session[s], sources)
  /\ FilesKept /\ ReportsFirst /\ TemporariesOwned

-----------------------------------------------------------------------------
(* What a session becomes.                                                  *)

\* A record that differs from r in where the session is.
Moved(r, n, stage) ==
  /\ n \in Records
  /\ n.stage = stage /\ n.mode = r.mode /\ n.passed = r.passed
  /\ n.captured = r.captured /\ n.failed = r.failed /\ n.profile = r.profile /\ n.built = r.built
  /\ n.scores = r.scores /\ n.formatted = r.formatted /\ n.round = r.round
  /\ n.evidence = r.evidence /\ n.broken = r.broken

\* A session between two files: it holds none and has not begun to publish.
Quiet(n, now) == n \in Records /\ Steady(n, now) /\ n.step \notin {"fill", "rename"} /\ n.stage # "publish"

LEMMA IdleTyped ==
  /\ Idle \in Records /\ Ended \in Records /\ Dead \in Records
  /\ Idle.stage = "idle" /\ Ended.stage = "ended" /\ Dead.stage = "dead"
  /\ \A n \in {Idle, Ended, Dead} : n.step = "none" /\ n.mode = "none" /\ n.scores = {} /\ n.evidence = {}
       /\ n.captured = 0 /\ n.built = [p \in Profiles |-> NotBuilt]
<1>1. Idle \in Records
  BY DEF Idle, Records, Stages, StepNames, Profiles, NotBuilt
<1>2. Ended \in Records /\ Dead \in Records
  BY <1>1 DEF Ended, Dead, Records, Stages
<1>3. Ended.stage = "ended" /\ Dead.stage = "dead" /\ Idle.stage = "idle"
  BY <1>1 DEF Ended, Dead, Records, Idle
<1>4. Idle.step = "none" /\ Idle.mode = "none" /\ Idle.scores = {} /\ Idle.evidence = {} /\ Idle.captured = 0
      /\ Idle.built = [p \in Profiles |-> NotBuilt]
  BY DEF Idle, Profiles
<1>5. /\ Ended.step = Idle.step /\ Ended.mode = Idle.mode /\ Ended.scores = Idle.scores
      /\ Ended.evidence = Idle.evidence /\ Ended.captured = Idle.captured /\ Ended.built = Idle.built
  BY <1>1 DEF Ended, Records
<1>6. /\ Dead.step = Idle.step /\ Dead.mode = Idle.mode /\ Dead.scores = Idle.scores
      /\ Dead.evidence = Idle.evidence /\ Dead.captured = Idle.captured /\ Dead.built = Idle.built
  BY <1>1 DEF Dead, Records
<1> QED
  BY <1>1, <1>2, <1>3, <1>4, <1>5, <1>6

LEMMA RestSteady ==
  ASSUME sources \in Nat
  PROVE  \A n \in {Idle, Ended, Dead} : Steady(n, sources)
<1> SUFFICES ASSUME NEW n, n \in {Idle, Ended, Dead} PROVE Steady(n, sources)
  OBVIOUS
<1>1. /\ n \in Records /\ n.step = "none" /\ n.mode = "none" /\ n.scores = {} /\ n.evidence = {}
      /\ n.captured = 0 /\ n.built = [p \in Profiles |-> NotBuilt] /\ n.stage \in {"idle", "ended", "dead"}
  BY IdleTyped
<1>2. Core(n, sources)
  BY <1>1 DEF Core, Sourced, Binaries, Measurements
<1>3. Vetting(n)
  BY <1>1 DEF Vetting, Measured, Ending
<1> QED
  BY <1>1, <1>2, <1>3 DEF Steady, StagesAt, Measuring

LEMMA EnterMoves ==
  ASSUME NEW r \in Records, NEW stage \in Stages, stage \notin {"report", "idle", "ended", "dead"}
  PROVE  /\ Moved(r, Enter(r, stage), stage)
         /\ stage \in {"search", "confirm", "format", "validate"} => Enter(r, stage).step = "check"
         /\ stage = "judge" => Enter(r, stage).step = "judge"
         /\ stage \in {"finish", "publish"} => Enter(r, stage).step = "create"
<1> DEFINE first == CASE stage \in {"search", "confirm", "format", "validate"} -> "check"
                       [] stage \in {"finish", "report", "publish"} -> "create"
                       [] OTHER -> stage
           n == [r EXCEPT !.stage = stage, !.tag = 0, !.step = first]
<1>1. Enter(r, stage) = n
  BY DEF Enter
<1>2. /\ first \in StepNames
      /\ stage \in {"search", "confirm", "format", "validate"} => first = "check"
      /\ stage = "judge" => first = "judge"
      /\ stage \in {"finish", "publish"} => first = "create"
  BY DEF Stages, StepNames
<1> HIDE DEF first
<1>3. n \in Records /\ n.stage = stage /\ n.step = first
  BY <1>2 DEF Records
<1>4. /\ n.mode = r.mode /\ n.passed = r.passed
      /\ n.captured = r.captured /\ n.failed = r.failed /\ n.profile = r.profile /\ n.built = r.built
  BY DEF Records
<1>5. /\ n.scores = r.scores /\ n.formatted = r.formatted /\ n.round = r.round
      /\ n.evidence = r.evidence /\ n.broken = r.broken
  BY DEF Records
<1> QED
  BY <1>1, <1>2, <1>3, <1>4, <1>5 DEF Moved

LEMMA EnterReport ==
  ASSUME NEW r \in Records
  PROVE  LET n == Enter(r, "report") IN
         /\ n \in Records /\ n.stage = "report" /\ n.step = "create" /\ n.mode = r.mode /\ n.passed = r.passed
         /\ n.scores = {} /\ n.built = [p \in Profiles |-> NotBuilt]
         /\ n.formatted = (r.passed /\ r.formatted) /\ n.broken = (r.passed /\ r.broken)
         /\ n.evidence = IF r.passed THEN r.evidence ELSE {}
         /\ n.profile = IF r.passed THEN r.profile ELSE "defaults"
         /\ n.captured = IF r.passed THEN r.captured ELSE 0
<1> DEFINE f == Forgetting(r)
           n == [f EXCEPT !.stage = "report", !.tag = 0, !.step = "create"]
<1>1. Enter(r, "report") = n
  BY DEF Enter
<1>0. Idle.built = [p \in Profiles |-> NotBuilt] /\ Idle.built \in [Profiles -> Int]
  BY IdleTyped DEF NotBuilt
<1>2. f \in Records
  <2> DEFINE formatted == r.passed /\ r.formatted
             broken == r.passed /\ r.broken
             evidence == IF r.passed THEN r.evidence ELSE {}
             profile == IF r.passed THEN r.profile ELSE "defaults"
             captured == IF r.passed THEN r.captured ELSE 0
             built == Idle.built
  <2>1. formatted \in BOOLEAN /\ broken \in BOOLEAN /\ evidence \in SUBSET Evidence
        /\ profile \in Profiles /\ captured \in Nat /\ built \in [Profiles -> Int]
    BY <1>0 DEF Records, Profiles
  <2>2. f = [r EXCEPT !.built = built, !.scores = {}, !.failed = FALSE, !.formatted = formatted, !.round = 1,
                      !.evidence = evidence, !.broken = broken, !.profile = profile, !.captured = captured]
    BY DEF Forgetting
  <2> HIDE DEF formatted, broken, evidence, profile, captured, built, f
  <2> QED
    BY <2>1, <2>2 DEF Records
<1>3. /\ f.mode = r.mode /\ f.passed = r.passed /\ f.scores = {} /\ f.built = Idle.built
      /\ f.formatted = (r.passed /\ r.formatted) /\ f.broken = (r.passed /\ r.broken)
  BY DEF Forgetting, Records
<1>4. /\ f.evidence = IF r.passed THEN r.evidence ELSE {}
      /\ f.profile = IF r.passed THEN r.profile ELSE "defaults"
      /\ f.captured = IF r.passed THEN r.captured ELSE 0
  BY DEF Forgetting, Records
<1> HIDE DEF f
<1>5. /\ n \in Records /\ n.stage = "report" /\ n.step = "create" /\ n.mode = f.mode /\ n.passed = f.passed
      /\ n.scores = f.scores /\ n.built = f.built /\ n.formatted = f.formatted /\ n.broken = f.broken
  BY <1>2 DEF Records, Stages, StepNames
<1>6. n.evidence = f.evidence /\ n.profile = f.profile /\ n.captured = f.captured
  BY <1>2 DEF Records
<1> QED
  BY <1>0, <1>1, <1>3, <1>4, <1>5, <1>6

\* Stages before a verdict need only that a failed worker is remembered.
LEMMA EnterSearching ==
  ASSUME NEW r, Core(r, sources), r.broken => r.failed, r.round = 1,
         NEW stage, stage \in {"search", "confirm", "format", "judge"}
  PROVE  Quiet(Enter(r, stage), sources)
<1> DEFINE n == Enter(r, stage)
<1>1. stage \in Stages /\ stage \notin {"report", "idle", "ended", "dead"}
  BY DEF Stages
<1>2. Moved(r, n, stage) /\ n.step \in {"check", "judge"} /\ (stage = "judge" => n.step = "judge")
      /\ (stage # "judge" => n.step = "check")
  BY <1>1, EnterMoves DEF Core
<1> HIDE DEF n
<1>3. Core(n, sources)
  BY <1>2 DEF Core, Moved
<1>4. Vetting(n)
  BY <1>2 DEF Vetting, Moved, Measured, Ending
<1>5. n.stage \in StagesAt(n.step)
  BY <1>2 DEF StagesAt, Moved, Measured
<1>6. Steady(n, sources)
  BY <1>2, <1>3, <1>4, <1>5 DEF Steady, Measuring, Core
<1> QED
  BY <1>2, <1>6 DEF Quiet, Moved, n

LEMMA EnterValidating ==
  ASSUME NEW r, Core(r, sources), r.broken => r.failed, r.mode \in CompleteModes => r.formatted,
         r.round >= 1, r.passed => ~ r.broken /\ Compares(r.evidence, r.profile, r.round - 1)
  PROVE  Quiet(Enter(r, "validate"), sources)
<1> DEFINE n == Enter(r, "validate")
<1>2. Moved(r, n, "validate") /\ n.step = "check"
  BY EnterMoves DEF Core, Stages
<1> HIDE DEF n
<1>3. Core(n, sources)
  BY <1>2 DEF Core, Moved
<1>4. Vetting(n)
  BY <1>2 DEF Vetting, Moved, Measured, Ending
<1>5. n.stage \in StagesAt(n.step)
  BY <1>2 DEF StagesAt, Moved, Measured
<1>6. Steady(n, sources)
  BY <1>2, <1>3, <1>4, <1>5 DEF Steady, Measuring, Core
<1> QED
  BY <1>2, <1>6 DEF Quiet, Moved, n

\* After the verdict a complete session that passed has its comparisons.
LEMMA EnterEnding ==
  ASSUME NEW r, Core(r, sources), sources \in Nat,
         r.mode \in CompleteModes /\ r.passed =>
           r.formatted /\ ~ r.broken /\ Compares(r.evidence, r.profile, Comparisons),
         NEW stage, stage \in Ending
  PROVE  LET n == Enter(r, stage) IN
         Steady(n, sources) /\ n \in Records /\ n.stage = stage /\ n.mode = r.mode /\ n.step = "create"
<1> DEFINE n == Enter(r, stage)
<1>1. CASE stage = "report"
  <2>1. /\ n \in Records /\ n.stage = "report" /\ n.step = "create" /\ n.mode = r.mode /\ n.passed = r.passed
        /\ n.scores = {} /\ n.built = [p \in Profiles |-> NotBuilt]
        /\ n.formatted = (r.passed /\ r.formatted) /\ n.broken = (r.passed /\ r.broken)
        /\ n.evidence = IF r.passed THEN r.evidence ELSE {}
        /\ n.profile = IF r.passed THEN r.profile ELSE "defaults"
        /\ n.captured = IF r.passed THEN r.captured ELSE 0
    BY <1>1, EnterReport DEF Core
  <2> HIDE DEF n
  <2>2. Core(n, sources)
    BY <2>1 DEF Core, Sourced, Binaries, Measurements
  <2>3. Vetting(n)
    BY <2>1 DEF Vetting, Measured, Ending
  <2>4. n.stage \in StagesAt(n.step)
    BY <2>1 DEF StagesAt, Ending
  <2>5. Steady(n, sources)
    BY <2>1, <2>2, <2>3, <2>4 DEF Steady, Measuring, Core
  <2> QED
    BY <1>1, <2>1, <2>5 DEF n
<1>2. CASE stage # "report"
  <2>0. stage \in Stages /\ stage \notin {"report", "idle", "ended", "dead"} /\ stage \in {"finish", "publish"}
    BY <1>2 DEF Stages, Ending
  <2>1. Moved(r, n, stage) /\ n.step = "create"
    BY <2>0, EnterMoves DEF Core
  <2> HIDE DEF n
  <2>2. Core(n, sources)
    BY <2>1 DEF Core, Moved
  <2>3. Vetting(n)
    BY <2>0, <2>1 DEF Vetting, Moved, Measured, Ending
  <2>4. n.stage \in StagesAt(n.step)
    BY <2>0, <2>1 DEF StagesAt, Moved, Ending
  <2>5. Steady(n, sources)
    BY <2>1, <2>2, <2>3, <2>4 DEF Steady, Measuring, Core
  <2> QED
    BY <2>0, <2>1, <2>5 DEF Moved, n
<1> QED
  BY <1>1, <1>2

LEMMA CoreKept ==
  ASSUME NEW r, Core(r, sources), NEW n \in Records, n.mode = r.mode, n.scores = r.scores, n.captured = r.captured,
         n.built = r.built, n.evidence = r.evidence
  PROVE  Core(n, sources)
BY DEF Core

LEMMA AfterSearchQuiet ==
  ASSUME NEW r, Core(r, sources), r.broken => r.failed, r.round = 1
  PROVE  Quiet(AfterSearch(r), sources)
BY EnterSearching DEF AfterSearch

LEMMA ScreenedQuiet ==
  ASSUME NEW r, Core(r, sources), r.broken => r.failed, r.round = 1
  PROVE  \A n \in Screened(r) : Quiet(n, sources)
BY AfterSearchQuiet, EnterSearching DEF Screened

LEMMA EnterFinish ==
  ASSUME NEW r, Core(r, sources), sources \in Nat,
         r.mode \in CompleteModes /\ r.passed =>
           r.formatted /\ ~ r.broken /\ Compares(r.evidence, r.profile, Comparisons)
  PROVE  Quiet(Enter(r, "finish"), sources)
<1>1. "finish" \in Ending
  BY DEF Ending
<1> QED
  BY <1>1, EnterEnding DEF Quiet

LEMMA NothingQuiet ==
  ASSUME NEW r, Core(r, sources), sources \in Nat, r.stage \in Measured, r.broken => r.failed,
         r.stage # "validate" => r.round = 1
  PROVE  Quiet(Nothing(r), sources)
<1>0. r \in Records
  BY DEF Core
<1>1. CASE r.stage \in {"search", "confirm"}
  BY <1>1, AfterSearchQuiet DEF Nothing, Measured
<1>2. CASE r.stage = "format"
  <2> DEFINE n == [r EXCEPT !.formatted = FALSE]
  <2>1. n \in Records /\ n.mode = r.mode /\ n.scores = r.scores /\ n.captured = r.captured
        /\ n.built = r.built /\ n.evidence = r.evidence /\ n.broken = r.broken /\ n.failed = r.failed /\ n.round = r.round
    BY <1>0 DEF Records
  <2>2. Nothing(r) = Enter(n, "judge")
    BY <1>2 DEF Nothing
  <2> HIDE DEF n
  <2>3. Core(n, sources)
    BY <2>1, CoreKept
  <2> QED
    BY <1>2, <2>1, <2>2, <2>3, EnterSearching
<1>3. CASE r.stage = "validate"
  <2> DEFINE n == [r EXCEPT !.passed = FALSE]
  <2>1. n \in Records /\ n.mode = r.mode /\ n.scores = r.scores /\ n.captured = r.captured
        /\ n.built = r.built /\ n.evidence = r.evidence /\ n.passed = FALSE
    BY <1>0 DEF Records
  <2>2. Nothing(r) = Enter(n, "finish")
    BY <1>3 DEF Nothing
  <2> HIDE DEF n
  <2>3. Core(n, sources)
    BY <2>1, CoreKept
  <2> QED
    BY <2>1, <2>2, <2>3, EnterFinish
<1> QED
  BY <1>1, <1>2, <1>3 DEF Measured

\* A comparison that counts has its measurements; one that does not ends the
\* session's chances.
LEMMA ComparedQuiet ==
  ASSUME NEW r, Core(r, sources), sources \in Nat, r.broken => r.failed, r.mode \in CompleteModes => r.formatted,
         r.round >= 1, NEW ok \in BOOLEAN,
         r.passed /\ ok => ~ r.broken /\ Compares(r.evidence, r.profile, r.round)
  PROVE  Quiet(Compared(r, ok), sources)
<1> DEFINE passed == r.passed /\ ok
           rounds == IF r.mode = "ValidateParallelOnly" THEN 1 ELSE Comparisons
           n == [r EXCEPT !.passed = passed]
           later == r.round + 1
           m == [r EXCEPT !.passed = passed, !.round = later]
           ends == r.round = rounds \/ (r.round = rounds - 1 /\ ~ passed)
<1>0. r \in Records /\ r.round \in Nat /\ r.round + 1 \in Nat /\ passed \in BOOLEAN
  BY DEF Core, Records
<1>1. Compared(r, ok) = IF ends THEN Enter(n, "finish") ELSE Enter(m, "validate")
  BY DEF Compared
<1>2. passed => r.passed /\ ok
  OBVIOUS
<1> HIDE DEF passed
<1>3. CASE ends
  <2>1. n \in Records /\ n.mode = r.mode /\ n.scores = r.scores /\ n.captured = r.captured /\ n.profile = r.profile
        /\ n.built = r.built /\ n.evidence = r.evidence /\ n.passed = passed /\ n.broken = r.broken
        /\ n.formatted = r.formatted
    BY <1>0 DEF Records
  <2> HIDE DEF n
  <2>2. Core(n, sources)
    BY <2>1, CoreKept
  <2>3. r.mode \in CompleteModes /\ passed => r.round = Comparisons
    BY <1>3 DEF CompleteModes
  <2> QED
    BY <1>1, <1>2, <1>3, <2>1, <2>2, <2>3, EnterFinish
<1>4. CASE ~ ends
  <2>1. m \in Records /\ m.mode = r.mode /\ m.scores = r.scores /\ m.captured = r.captured /\ m.profile = r.profile
    BY <1>0 DEF Records
  <2>2. m.built = r.built /\ m.evidence = r.evidence /\ m.passed = passed /\ m.broken = r.broken
        /\ m.formatted = r.formatted /\ m.failed = r.failed
    BY <1>0 DEF Records
  <2>3. m.round = r.round + 1
    BY <1>0 DEF Records
  <2> HIDE DEF m
  <2>4. Core(m, sources)
    BY <2>1, <2>2, CoreKept
  <2>5. m.round >= 1 /\ m.round - 1 = r.round
    BY <1>0, <2>3
  <2> QED
    BY <1>1, <1>2, <1>4, <2>1, <2>2, <2>4, <2>5, EnterValidating
<1> QED
  BY <1>3, <1>4

LEMMA GivenQuiet ==
  ASSUME NEW r, Core(r, sources), sources \in Nat, r.stage \in Measured, r.broken => r.failed,
         r.stage # "validate" => r.round = 1, r.stage = "validate" /\ r.mode \in CompleteModes => r.formatted
  PROVE  Quiet(Given(r), sources)
<1>1. CASE r.stage = "validate" /\ r.round > 1
  <2>1. Given(r) = Compared(r, FALSE)
    BY <1>1 DEF Given
  <2>2. r.round >= 1
    BY <1>1 DEF Core, Records
  <2> QED
    BY <1>1, <2>1, <2>2, ComparedQuiet
<1>2. CASE ~ (r.stage = "validate" /\ r.round > 1)
  BY <1>2, NothingQuiet DEF Given
<1> QED
  BY <1>1, <1>2

LEMMA CheckedFacts ==
  ASSUME NEW r, Core(r, sources), sources \in Nat
  PROVE  LET n == Checked(r) IN
         /\ Core(n, sources) /\ n.stage = r.stage /\ n.step = r.step /\ n.passed = r.passed /\ n.formatted = r.formatted
         /\ n.mode = r.mode /\ n.round = r.round /\ n.profile = r.profile /\ n.evidence = r.evidence
         /\ n.broken = r.broken /\ n.failed = (r.failed \/ sources # r.captured)
<1> DEFINE n == Checked(r)
           failed == r.failed \/ sources # r.captured
<1>0. r \in Records /\ failed \in BOOLEAN
  BY DEF Core, Records
<1>1. n = [r EXCEPT !.failed = failed]
  BY DEF Checked
<1> HIDE DEF failed
<1>2. /\ n \in Records /\ n.stage = r.stage /\ n.step = r.step /\ n.passed = r.passed /\ n.formatted = r.formatted
      /\ n.mode = r.mode /\ n.round = r.round /\ n.profile = r.profile /\ n.evidence = r.evidence
  BY <1>0, <1>1 DEF Records
<1>3. n.broken = r.broken /\ n.failed = failed /\ n.scores = r.scores /\ n.captured = r.captured /\ n.built = r.built
  BY <1>0, <1>1 DEF Records
<1>4. Core(n, sources)
  BY <1>2, <1>3, CoreKept
<1> QED
  BY <1>2, <1>3, <1>4 DEF failed

-----------------------------------------------------------------------------
(* Steps that touch no file.                                                *)

\* Whatever a session that holds no temporary file becomes, if it does not begin
\* to publish what it measured.
LEMMA LightStep ==
  ASSUME SessionInv, NEW s \in Sessions, ~ Writes(s),
         NEW n \in Records, Steady(n, sources), n.step \notin {"fill", "rename"},
         n.stage = "publish" /\ n.mode # "ProfileFor" => session[s].stage = "publish" /\ session[s].mode # "ProfileFor",
         Become(s, n), UNCHANGED <<sources, disk, journal, temps>>, faults' \in Nat
  PROVE  SessionInv'
<1>1. /\ session' \in [Sessions -> Records] /\ session'[s] = n
      /\ \A u \in Sessions : u # s => session'[u] = session[u]
  BY DEF SessionInv, TypeOK, Become
<1>2. TypeOK'
  BY <1>1 DEF SessionInv, TypeOK
<1>3. \A u \in Sessions : Steady(session'[u], sources')
  BY <1>1 DEF SessionInv
<1>4. FilesKept'
  BY DEF SessionInv, FilesKept
<1>5. ReportsFirst'
  BY <1>1 DEF SessionInv, ReportsFirst
<1>6. TemporariesOwned'
  <2>1. ~ Writes(s)' /\ \A u \in Sessions : Writes(u)' => u # s /\ Writes(u)
    BY <1>1 DEF Writes
  <2>2. \A u \in Sessions : u # s => Target(u)' = Target(u) /\ Content(u)' = Content(u)
    BY <1>1 DEF Target, Content
  <2>3. \A t, u \in temps' : t.path = u.path /\ t.tag = u.tag => t = u
    BY DEF SessionInv, TemporariesOwned
  <2>4. ASSUME NEW u \in Sessions, Writes(u)'
        PROVE  \E t \in temps' :
                 /\ Owned(t, u)' /\ t.file.there /\ t.file.data = Content(u)'
                 /\ session'[u].step = "rename" => t.file.whole /\ t.file.synced
    <3>1. u # s /\ Writes(u) /\ session'[u] = session[u]
      BY <1>1, <2>1, <2>4
    <3> QED
      BY <2>2, <3>1 DEF SessionInv, TemporariesOwned, Owned
  <2>5. ASSUME NEW u \in Sessions, NEW v \in Sessions, u # v, Writes(u)', Writes(v)'
        PROVE  ~ (Target(u)' = Target(v)' /\ session'[u].tag = session'[v].tag)
    <3>1. u # s /\ v # s /\ Writes(u) /\ Writes(v) /\ session'[u] = session[u] /\ session'[v] = session[v]
      BY <1>1, <2>1, <2>5
    <3> QED
      BY <2>2, <2>5, <3>1 DEF SessionInv, TemporariesOwned
  <2> QED
    BY <2>3, <2>4, <2>5 DEF TemporariesOwned
<1> QED
  BY <1>2, <1>3, <1>4, <1>5, <1>6 DEF SessionInv

LEMMA QuietStep ==
  ASSUME SessionInv, NEW s \in Sessions, ~ Writes(s), NEW n, Quiet(n, sources), Become(s, n),
         UNCHANGED <<sources, disk, journal, temps>>, faults' \in Nat
  PROVE  SessionInv'
BY LightStep DEF Quiet

\* What is known of a session that measures.
LEMMA MeasuringFacts ==
  ASSUME SessionInv, NEW s \in Sessions, session[s].stage \in Measured \union {"judge"},
         session[s].step \in {"check", "build", "recheck", "judge"}
  PROVE  LET r == session[s] IN
         /\ sources \in Nat /\ faults \in Nat /\ r \in Records /\ ~ Writes(s)
         /\ Core(r, sources) /\ Vetting(r) /\ (r.broken => r.failed) /\ r.mode # "ProfileFor"
         /\ r.step = "recheck" => AllBuilt(r.built, Compiled(r))
<1> DEFINE r == session[s]
<1>1. r \in Records /\ Steady(r, sources) /\ sources \in Nat /\ faults \in Nat
  BY DEF SessionInv, TypeOK
<1>2. r.mode # "ProfileFor"
  BY <1>1 DEF Steady, Measured
<1>3. Core(r, sources) /\ Vetting(r) /\ (r.step = "recheck" => AllBuilt(r.built, Compiled(r)))
  BY <1>1, <1>2 DEF Steady, Measuring
<1>4. r.broken => r.failed
  BY <1>3 DEF Vetting
<1>5. ~ Writes(s)
  BY DEF Writes
<1> QED
  BY <1>1, <1>2, <1>3, <1>4, <1>5

\* Among some of the first n numbers, one is the greatest.
LEMMA Latest ==
  ASSUME NEW n \in Nat, NEW hits, hits \subseteq 1 .. n, hits # {}
  PROVE  \E i \in hits : \A j \in hits : j <= i
<1> DEFINE bounds == {k \in Nat : \A i \in hits : i <= k}
<1>1. \A k : k \in bounds <=> k \in Nat /\ \A i \in hits : i <= k
  OBVIOUS
<1>2. n \in bounds /\ bounds \subseteq Nat
  OBVIOUS
<1> HIDE DEF bounds
<1>3. bounds # {}
  BY <1>2
<1>4. PICK k \in bounds : \A m \in bounds : ~ (<< m, k >> \in OpToRel(<, Nat))
  BY <1>2, <1>3, NatLessThanWellFounded, WFMin, Zenon
<1>5. k \in Nat /\ \A i \in hits : i <= k
  BY <1>1, <1>4
<1>6. CASE k \in hits
  BY <1>5, <1>6
<1>7. CASE k \notin hits
  <2>0. PICK h \in hits : TRUE
    OBVIOUS
  <2>1. k > 0
    <3>1. h \in 1 .. n /\ h <= k
      BY <1>5
    <3> QED
      BY <1>5, <3>1
  <2> DEFINE m == k - 1
  <2>2. m \in Nat /\ m < k
    BY <1>5, <2>1
  <2>3. \A i \in hits : i <= m
    BY <1>5, <1>7
  <2> HIDE DEF m
  <2>4. m \in bounds
    BY <1>1, <2>2, <2>3
  <2>5. << m, k >> \in OpToRel(<, Nat)
    BY <1>5, <2>2 DEF OpToRel
  <2> QED
    BY <1>4, <2>4, <2>5
<1> QED
  BY <1>6, <1>7

\* A reader finds the durable file or that of the last rename to its path.
LEMMA LastRename ==
  ASSUME NEW renames, NEW n \in Nat, NEW path
  PROVE  \/ /\ \A i \in 1 .. n : renames[i].path # path
            /\ FileAfter(n, renames, path) = disk[path]
         \/ \E i \in 1 .. n : renames[i].path = path /\ FileAfter(n, renames, path) = renames[i].file
<1> DEFINE hits == {i \in 1 .. n : renames[i].path = path}
           last == CHOOSE i \in hits : \A j \in hits : j <= i
<1>1. CASE hits = {}
  BY <1>1 DEF FileAfter
<1>2. CASE hits # {}
  <2>1. hits \subseteq 1 .. n
    OBVIOUS
  <2>2. \E i \in hits : \A j \in hits : j <= i
    <3> HIDE DEF hits
    <3> QED
      BY <1>2, <2>1, Latest
  <2>3. last \in hits
    BY <2>2
  <2>4. FileAfter(n, renames, path) = renames[last].file
    BY <1>2 DEF FileAfter
  <2>5. last \in 1 .. n /\ renames[last].path = path
    BY <2>3
  <2> HIDE DEF last
  <2> QED
    BY <2>4, <2>5
<1> QED
  BY <1>1, <1>2

\* Whatever is durable of sound renames to a sound disk is sound.
LEMMA AfterSound ==
  ASSUME disk \in [Paths -> Files], \A p \in Paths : Sound(p, disk[p]),
         NEW renames \in Seq(Renames), \A i \in 1 .. Len(renames) : Sound(renames[i].path, renames[i].file),
         NEW n \in 0 .. Len(renames), NEW path \in Paths
  PROVE  Sound(path, After(n, renames)[path]) /\ After(n, renames)[path] \in Files
<1>1. After(n, renames)[path] = FileAfter(n, renames, path)
  BY DEF After
<1>2. CASE FileAfter(n, renames, path) = disk[path]
  BY <1>1, <1>2
<1>3. CASE \E i \in 1 .. n : renames[i].path = path /\ FileAfter(n, renames, path) = renames[i].file
  <2>1. PICK i \in 1 .. n : renames[i].path = path /\ FileAfter(n, renames, path) = renames[i].file
    BY <1>3
  <2>2. i \in 1 .. Len(renames) /\ renames[i] \in Renames
    OBVIOUS
  <2> QED
    BY <1>1, <2>1, <2>2 DEF Renames
<1> QED
  BY <1>2, <1>3, LastRename

\* A report that is durable or renamed by then is there.
LEMMA ReportThere ==
  ASSUME NEW renames \in Seq(Renames), \A i \in 1 .. Len(renames) : renames[i].file.there,
         NEW n \in 0 .. Len(renames), NEW s \in Sessions, Reported(s, n, disk, renames)
  PROVE  After(n, renames)[Report(s)].there
<1>1. Report(s) \in Paths
  BY DEF Paths
<1>2. After(n, renames)[Report(s)] = FileAfter(n, renames, Report(s))
  BY <1>1 DEF After
<1> DEFINE path == Report(s)
<1> HIDE DEF path
<1>3. CASE /\ \A i \in 1 .. n : renames[i].path # path
           /\ FileAfter(n, renames, path) = disk[path]
  BY <1>2, <1>3 DEF Reported, path
<1>4. CASE \E i \in 1 .. n : renames[i].path = path /\ FileAfter(n, renames, path) = renames[i].file
  BY <1>2, <1>4 DEF path
<1> QED
  BY <1>3, <1>4, LastRename DEF path

\* The order of reports and profiles outlives any renames that become durable.
LEMMA LaterReported ==
  ASSUME NEW renames \in Seq(Renames), \A i \in 1 .. Len(renames) : renames[i].file.there,
         NEW n \in 0 .. Len(renames), NEW s \in Sessions, NEW i \in n .. Len(renames), Reported(s, i, disk, renames)
  PROVE  Reported(s, i - n, After(n, renames), SubSeq(renames, n + 1, Len(renames)))
<1> DEFINE later == SubSeq(renames, n + 1, Len(renames))
<1>1. \A k \in 1 .. Len(renames) - n : later[k] = renames[k + n]
  OBVIOUS
<1> HIDE DEF later
<1>2. CASE disk[Report(s)].there \/ \E j \in 1 .. n : renames[j].path = Report(s)
  BY <1>2, ReportThere DEF Reported, later
<1>3. CASE \E j \in n + 1 .. i : renames[j].path = Report(s)
  <2>1. PICK j \in n + 1 .. i : renames[j].path = Report(s)
    BY <1>3
  <2>2. j - n \in 1 .. i - n /\ later[j - n] = renames[j]
    BY <1>1
  <2> QED
    BY <2>1, <2>2 DEF Reported, later
<1>4. disk[Report(s)].there \/ \E j \in 1 .. i : renames[j].path = Report(s)
  BY DEF Reported
<1>5. \A j \in 1 .. i : j \in 1 .. n \/ j \in n + 1 .. i
  OBVIOUS
<1> QED
  BY <1>2, <1>3, <1>4, <1>5

LEMMA AfterOrdered ==
  ASSUME disk \in [Paths -> Files], \A p \in Paths : Sound(p, disk[p]),
         NEW renames \in Seq(Renames),
         \A i \in 1 .. Len(renames) : Sound(renames[i].path, renames[i].file) /\ renames[i].file.there,
         NEW n \in 0 .. Len(renames), Ordered(disk, renames)
  PROVE  Ordered(After(n, renames), SubSeq(renames, n + 1, Len(renames)))
<1> DEFINE durable == After(n, renames)
           later == SubSeq(renames, n + 1, Len(renames))
<1>1. Profile \in Paths /\ Sound(Profile, durable[Profile]) /\ durable[Profile] = FileAfter(n, renames, Profile)
  BY AfterSound DEF Paths, After
<1>2. ASSUME NEW s \in durable[Profile].data
      PROVE  durable[Report(s)].there
  <2>1. s \in Sessions
    BY <1>1 DEF Sound
  <2>2. Reported(s, n, disk, renames)
    <3>1. CASE FileAfter(n, renames, Profile) = disk[Profile]
      BY <1>1, <3>1 DEF Ordered, Reported
    <3>2. CASE \E i \in 1 .. n : renames[i].path = Profile /\ FileAfter(n, renames, Profile) = renames[i].file
      <4>1. PICK i \in 1 .. n : renames[i].path = Profile /\ FileAfter(n, renames, Profile) = renames[i].file
        BY <3>2
      <4>2. Reported(s, i, disk, renames)
        BY <1>1, <4>1 DEF Ordered
      <4> QED
        BY <4>2 DEF Reported
    <3> QED
      BY <3>1, <3>2, LastRename
  <2> QED
    BY <2>1, <2>2, ReportThere
<1>3. ASSUME NEW i \in 1 .. Len(later), later[i].path = Profile, NEW s \in later[i].file.data
      PROVE  Reported(s, i, durable, later)
  <2> DEFINE k == i + n
  <2>1. Len(later) = Len(renames) - n /\ later[i] = renames[k] /\ k \in 1 .. Len(renames) /\ k \in n .. Len(renames)
    OBVIOUS
  <2>2. k - n = i
    OBVIOUS
  <2> HIDE DEF later, k
  <2>3. Sound(renames[k].path, renames[k].file)
    BY <2>1
  <2>4. s \in Sessions
    BY <1>3, <2>1, <2>3 DEF Sound
  <2>5. Reported(s, k, disk, renames)
    BY <1>3, <2>1 DEF Ordered
  <2>6. Reported(s, k - n, durable, later)
    BY <2>1, <2>4, <2>5, LaterReported DEF later
  <2> QED
    BY <2>2, <2>6
<1> HIDE DEF durable, later
<1>4. Ordered(durable, later)
  BY <1>2, <1>3 DEF Ordered
<1> QED
  BY <1>4 DEF durable, later

LEMMA StartStep ==
  ASSUME SessionInv, NEW s \in Sessions, NEW mode \in Modes \union OtherModes, Start(s, mode)
  PROVE  SessionInv'
<1>0. ~ Writes(s) /\ sources \in Nat /\ faults \in Nat
  <2>1. Steady(session[s], sources) /\ session[s].stage = "idle"
    BY DEF SessionInv, Start
  <2> QED
    BY <2>1 DEF Steady, StagesAt, Measured, Scored, Ending, Writes, SessionInv, TypeOK
<1>1. Idle \in Records /\ Idle.scores = {} /\ Idle.evidence = {} /\ Idle.built = [p \in Profiles |-> NotBuilt]
      /\ Idle.step = "none"
  BY IdleTyped
<1>2. CASE mode = "ProfileFor"
  <2> DEFINE r == [Idle EXCEPT !.mode = mode]
             n == Enter(r, "publish")
  <2>1. r \in Records /\ r.mode = mode
    BY <1>1 DEF Records
  <2>2. Moved(r, n, "publish") /\ n.step = "create"
    BY <2>1, EnterMoves DEF Stages
  <2>3. Become(s, n)
    BY <1>2 DEF Start, FirstStage
  <2> HIDE DEF n
  <2>4. n.step \notin {"fill", "rename"} /\ n \in Records /\ n.mode = "ProfileFor" /\ n.stage = "publish"
    BY <1>2, <2>1, <2>2 DEF Moved
  <2>5. Steady(n, sources)
    BY <2>2, <2>4 DEF Steady, StagesAt, Ending
  <2> QED
    BY <1>0, <2>3, <2>4, <2>5, LightStep DEF Start
<1>3. CASE mode # "ProfileFor"
  <2> DEFINE scores == IF Visible(Cache).whole THEN Visible(Cache).data ELSE {}
             profile == IF mode \in StartingModes THEN "other" ELSE "defaults"
             r == [Idle EXCEPT !.mode = mode, !.captured = sources, !.scores = scores, !.profile = profile]
             stage == FirstStage(mode)
  <2>1. scores \in SUBSET Scores /\ Sourced(scores)
    <3>1. Cache \in Paths /\ Len(journal) \in 0 .. Len(journal)
      BY DEF Paths, SessionInv, TypeOK
    <3>2. Sound(Cache, Visible(Cache))
      <4>1. disk \in [Paths -> Files] /\ journal \in Seq(Renames) /\ FilesKept
        BY DEF SessionInv, TypeOK
      <4>2. Sound(Cache, After(Len(journal), journal)[Cache])
        BY <3>1, <4>1, AfterSound DEF FilesKept
      <4> QED
        BY <3>1, <4>2 DEF Visible, After
    <3> QED
      BY <3>2 DEF Sound, Sourced
  <2>2. profile \in Profiles
    BY DEF Profiles
  <2>3. Opened(mode) = r
    BY DEF Opened
  <2> HIDE DEF scores, profile
  <2>4. /\ r \in Records /\ r.mode = mode /\ r.captured = sources /\ r.scores = scores
        /\ r.evidence = {} /\ r.built = [p \in Profiles |-> NotBuilt]
    BY <1>0, <1>1, <2>1, <2>2 DEF Records
  <2>5. r.broken = FALSE /\ r.round = 1 /\ r.failed = FALSE
    BY <1>1 DEF Idle, Records
  <2> HIDE DEF r
  <2>6. Core(r, sources)
    BY <1>0, <1>3, <2>1, <2>4 DEF Core, Binaries, Measurements
  <2>7. Become(s, Enter(r, stage))
    BY <1>3, <2>3 DEF Start
  <2>8. CASE mode = "ValidateParallelOnly"
    <3>1. r.round >= 1 /\ Compares(r.evidence, r.profile, r.round - 1)
      BY <2>5 DEF Compares
    <3>2. mode \notin CompleteModes /\ stage = "validate"
      BY <2>8 DEF CompleteModes, FirstStage
    <3> QED
      BY <1>0, <2>4, <2>5, <2>6, <2>7, <3>1, <3>2, EnterValidating, QuietStep DEF Start
  <2>9. CASE mode # "ValidateParallelOnly"
    <3>1. stage \in {"search", "confirm", "format", "judge"}
      BY <1>3, <2>9 DEF FirstStage
    <3> HIDE DEF stage
    <3>2. Quiet(Enter(r, stage), sources)
      BY <2>5, <2>6, <3>1, EnterSearching
    <3> QED
      BY <1>0, <2>7, <3>2, QuietStep DEF Start
  <2> QED
    BY <2>8, <2>9
<1> QED
  BY <1>2, <1>3

\* Where a session is within a measurement says nothing of its past.
LEMMA Stays ==
  ASSUME NEW r, Core(r, sources), Vetting(r), NEW n, Moved(r, n, r.stage), r.stage \in StagesAt(n.step),
         n.step = "recheck" => AllBuilt(r.built, Compiled(r))
  PROVE  Steady(n, sources)
<1>1. Core(n, sources)
  BY CoreKept DEF Moved
<1>2. Vetting(n)
  BY DEF Vetting, Moved
<1>3. Compiled(n) = Compiled(r) /\ n.built = r.built
  BY DEF Compiled, Moved
<1> QED
  BY <1>1, <1>2, <1>3 DEF Steady, Measuring, Moved, Core

LEMMA StepMoves ==
  ASSUME NEW r \in Records, NEW step \in StepNames
  PROVE  LET n == [r EXCEPT !.step = step] IN Moved(r, n, r.stage) /\ n.step = step
<1> DEFINE n == [r EXCEPT !.step = step]
<1>1. n \in Records /\ n.stage = r.stage /\ n.step = step
  BY DEF Records
<1>2. /\ n.mode = r.mode /\ n.passed = r.passed
      /\ n.captured = r.captured /\ n.failed = r.failed /\ n.profile = r.profile /\ n.built = r.built
  BY DEF Records
<1>3. /\ n.scores = r.scores /\ n.formatted = r.formatted /\ n.round = r.round
      /\ n.evidence = r.evidence /\ n.broken = r.broken
  BY DEF Records
<1> QED
  BY <1>1, <1>2, <1>3 DEF Moved

\* A context that does not hold any more.
LEMMA RefusedStep ==
  ASSUME SessionInv, NEW s \in Sessions, session[s].stage \in Measured, session[s].step \in {"check", "recheck"},
         Become(s, Given(Checked(session[s]))), UNCHANGED <<sources, disk, journal, temps, faults>>
  PROVE  SessionInv'
<1> DEFINE r == session[s]
           n == Checked(r)
<1>1. /\ sources \in Nat /\ faults \in Nat /\ ~ Writes(s) /\ Core(r, sources) /\ Vetting(r) /\ (r.broken => r.failed)
  BY MeasuringFacts
<1>2. Core(n, sources) /\ n.stage = r.stage /\ n.round = r.round /\ n.formatted = r.formatted /\ n.mode = r.mode
      /\ (n.broken => n.failed)
  BY <1>1, CheckedFacts
<1>3. (r.stage # "validate" => r.round = 1) /\ (r.stage = "validate" /\ r.mode \in CompleteModes => r.formatted)
  BY <1>1 DEF Vetting, Measured, Scored
<1> HIDE DEF r, n
<1>4. Quiet(Given(n), sources)
  BY <1>1, <1>2, <1>3, GivenQuiet DEF r
<1> QED
  BY <1>1, <1>4, QuietStep DEF n, r

LEMMA CheckBeforeStep ==
  ASSUME SessionInv, NEW s \in Sessions, CheckBefore(s)
  PROVE  SessionInv'
<1> DEFINE r == session[s]
<1>0. r.stage \in Measured /\ r.step = "check"
  BY DEF CheckBefore, At
<1>1. /\ sources \in Nat /\ faults \in Nat /\ faults' \in Nat /\ ~ Writes(s) /\ r \in Records /\ Core(r, sources)
      /\ Vetting(r) /\ (r.broken => r.failed)
  BY <1>0, MeasuringFacts DEF CheckBefore
<1>2. UNCHANGED <<sources, disk, journal, temps, faults>>
  BY DEF CheckBefore
<1>3. CASE r.stage = "format" /\ Become(s, Enter([r EXCEPT !.formatted = TRUE], "judge"))
  <2> DEFINE n == [r EXCEPT !.formatted = TRUE]
  <2>1. n \in Records /\ n.mode = r.mode /\ n.scores = r.scores /\ n.captured = r.captured /\ n.built = r.built
        /\ n.evidence = r.evidence /\ n.broken = r.broken /\ n.failed = r.failed /\ n.round = r.round
    BY <1>1 DEF Records
  <2>2. r.round = 1
    BY <1>1, <1>3 DEF Vetting
  <2> HIDE DEF n
  <2>3. Core(n, sources)
    BY <1>1, <2>1, CoreKept
  <2>4. Quiet(Enter(n, "judge"), sources)
    BY <1>1, <2>1, <2>2, <2>3, EnterSearching
  <2> QED
    BY <1>1, <1>2, <1>3, <2>4, QuietStep DEF n
<1>4. CASE Become(s, Given(Checked(r)))
  BY <1>0, <1>2, <1>4, RefusedStep
<1>5. CASE r.stage = "search" /\ \E next \in Screened(r) : Become(s, next)
  <2>1. r.round = 1
    BY <1>1, <1>5 DEF Vetting
  <2>2. \A next \in Screened(r) : Quiet(next, sources)
    BY <1>1, <2>1, ScreenedQuiet
  <2> QED
    BY <1>1, <1>2, <1>5, <2>2, QuietStep
<1>6. CASE Become(s, [r EXCEPT !.step = "build"])
  <2> DEFINE n == [r EXCEPT !.step = "build"]
  <2>1. Moved(r, n, r.stage) /\ n.step = "build"
    BY <1>1, StepMoves DEF StepNames
  <2> HIDE DEF n
  <2>2. Steady(n, sources)
    BY <1>0, <1>1, <2>1, Stays DEF StagesAt
  <2>3. Quiet(n, sources)
    BY <1>0, <2>1, <2>2 DEF Quiet, Moved, Measured, Scored
  <2> QED
    BY <1>1, <1>2, <1>6, <2>3, QuietStep DEF n
<1> QED
  BY <1>3, <1>4, <1>5, <1>6 DEF CheckBefore

LEMMA BuildStep ==
  ASSUME SessionInv, NEW s \in Sessions, Build(s)
  PROVE  SessionInv'
<1> DEFINE r == session[s]
           missing == {p \in Compiled(r) : r.built[p] = NotBuilt}
<1>0. r.stage \in Measured /\ r.step = "build"
  BY DEF Build, At
<1>1. /\ sources \in Nat /\ faults \in Nat /\ faults' \in Nat /\ ~ Writes(s) /\ r \in Records /\ Core(r, sources)
      /\ Vetting(r) /\ (r.broken => r.failed)
  BY <1>0, MeasuringFacts DEF Build
<1>2. UNCHANGED <<sources, disk, journal, temps, faults>>
  BY DEF Build
<1>3. Compiled(r) \subseteq Profiles
  BY <1>0, <1>1 DEF Compiled, Measured, Scored, Records, Profiles
<1>4. CASE missing = {} /\ Become(s, [r EXCEPT !.step = "recheck"])
  <2> DEFINE n == [r EXCEPT !.step = "recheck"]
  <2>1. Moved(r, n, r.stage) /\ n.step = "recheck"
    BY <1>1, StepMoves DEF StepNames
  <2>2. AllBuilt(r.built, Compiled(r))
    BY <1>4 DEF AllBuilt
  <2> HIDE DEF n
  <2>3. Steady(n, sources)
    BY <1>0, <1>1, <2>1, <2>2, Stays DEF StagesAt
  <2>4. Quiet(n, sources)
    BY <1>0, <2>1, <2>3 DEF Quiet, Moved, Measured, Scored
  <2> QED
    BY <1>1, <1>2, <1>4, <2>4, QuietStep DEF n
<1>5. ASSUME NEW p \in missing,
             Become(s, [r EXCEPT !.built[p] = sources, !.step = IF missing = {p} THEN "recheck" ELSE "build"])
      PROVE  SessionInv'
  <2> DEFINE step == IF missing = {p} THEN "recheck" ELSE "build"
             built == [r.built EXCEPT ![p] = sources]
             n == [r EXCEPT !.built = built, !.step = step]
  <2>1. p \in Profiles /\ step \in StepNames /\ step \in {"build", "recheck"}
    BY <1>3 DEF StepNames
  <2>2. built \in [Profiles -> Int] /\ built[p] = sources /\ \A q \in Profiles : q # p => built[q] = r.built[q]
    BY <1>1, <2>1 DEF Records
  <2>3. step = "recheck" => \A q \in Compiled(r) : q # p => r.built[q] # NotBuilt
    OBVIOUS
  <2>4. Become(s, n)
    BY <1>5
  <2> HIDE DEF step, built, missing
  <2>5. n \in Records /\ n.stage = r.stage /\ n.step = step /\ n.built = built
    BY <1>1, <2>1, <2>2 DEF Records
  <2>6. /\ n.mode = r.mode /\ n.passed = r.passed /\ n.captured = r.captured /\ n.failed = r.failed
        /\ n.profile = r.profile /\ n.scores = r.scores /\ n.formatted = r.formatted /\ n.round = r.round
    BY <1>1, <2>1, <2>2 DEF Records
  <2>7. n.evidence = r.evidence /\ n.broken = r.broken
    BY <1>1, <2>1, <2>2 DEF Records
  <2> HIDE DEF n
  <2>8. Binaries(n.built, n.captured, sources)
    BY <1>1, <2>1, <2>2, <2>5, <2>6 DEF Core, Binaries
  <2>9. Core(n, sources)
    BY <1>1, <2>5, <2>6, <2>7, <2>8 DEF Core
  <2>10. Vetting(n)
    BY <1>1, <2>5, <2>6, <2>7 DEF Vetting
  <2>11. step = "recheck" => AllBuilt(n.built, Compiled(n))
    <3>1. Compiled(n) = Compiled(r)
      BY <2>5, <2>6 DEF Compiled
    <3> QED
      BY <1>1, <1>3, <2>1, <2>2, <2>3, <2>5, <3>1 DEF AllBuilt, NotBuilt
  <2>12. Quiet(n, sources)
    BY <1>0, <2>1, <2>5, <2>6, <2>9, <2>10, <2>11 DEF Quiet, Steady, Measuring, StagesAt, Measured, Scored, Core
  <2> QED
    BY <1>1, <1>2, <2>4, <2>12, QuietStep
<1> QED
  BY <1>4, <1>5 DEF Build

LEMMA WorkerFailsStep ==
  ASSUME SessionInv, NEW s \in Sessions, WorkerFails(s)
  PROVE  SessionInv'
<1> DEFINE r == session[s]
           n == [r EXCEPT !.failed = TRUE, !.broken = TRUE]
<1>0. r.stage \in Measured /\ r.step = "build"
  BY DEF WorkerFails, At
<1>1. /\ sources \in Nat /\ faults' \in Nat /\ ~ Writes(s) /\ r \in Records /\ Core(r, sources) /\ Vetting(r)
  BY <1>0, MeasuringFacts DEF WorkerFails
<1>2. /\ n \in Records /\ n.mode = r.mode /\ n.scores = r.scores /\ n.captured = r.captured /\ n.built = r.built
      /\ n.evidence = r.evidence
  BY <1>1 DEF Records
<1>3. n.stage = r.stage /\ n.round = r.round /\ n.formatted = r.formatted /\ n.failed = TRUE
  BY <1>1 DEF Records
<1>4. (r.stage # "validate" => r.round = 1) /\ (r.stage = "validate" /\ r.mode \in CompleteModes => r.formatted)
  BY <1>0, <1>1 DEF Vetting, Measured, Scored
<1> HIDE DEF n
<1>5. Core(n, sources)
  BY <1>1, <1>2, CoreKept
<1>6. Quiet(Given(n), sources)
  BY <1>0, <1>1, <1>2, <1>3, <1>4, <1>5, GivenQuiet
<1> QED
  BY <1>1, <1>6, QuietStep DEF WorkerFails, n

\* A context that holds has the binaries of the sources it captured, and those
\* are the ones there are now.
LEMMA HeldFacts ==
  ASSUME NEW r, Core(r, sources), sources \in Nat, r.stage \in Measured, AllBuilt(r.built, Compiled(r)), Holds(r)
  PROVE  /\ sources = r.captured /\ r.failed = FALSE /\ Compiled(r) \subseteq Profiles /\ Compiled(r) # {}
         /\ \A p \in Compiled(r) : r.built[p] = r.captured
<1>1. r.failed = FALSE /\ sources = r.captured
  BY CheckedFacts DEF Holds, Core, Records
<1>2. Compiled(r) \subseteq Profiles /\ Compiled(r) # {}
  BY DEF Compiled, Measured, Scored, Core, Records, Profiles
<1>3. ASSUME NEW p \in Compiled(r)
      PROVE  r.built[p] = r.captured
  <2>1. p \in Profiles /\ r.built[p] # NotBuilt
    BY <1>2 DEF AllBuilt
  <2>2. r.captured <= r.built[p] /\ r.built[p] <= sources
    BY <2>1 DEF Core, Binaries
  <2>3. r.built[p] \in Int
    BY <2>1 DEF Core, Records
  <2> QED
    BY <1>1, <2>2, <2>3
<1> QED
  BY <1>1, <1>2, <1>3

LEMMA InsertedSourced ==
  ASSUME NEW r, Core(r, sources), sources \in Nat, r.stage \in Scored, AllBuilt(r.built, Compiled(r)), Holds(r)
  PROVE  Inserted(r) \in SUBSET Scores /\ Sourced(Inserted(r))
<1> DEFINE key == Key(r)
           binaries == {r.built[p] : p \in Compiled(r)}
           new == [key |-> key, built |-> binaries]
<1>1. \A p \in Compiled(r) : r.built[p] = r.captured
  BY HeldFacts DEF Measured, Scored
<1>2. Compiled(r) # {}
  BY HeldFacts DEF Measured, Scored
<1>3. binaries = {r.captured}
  BY <1>1, <1>2
<1>4. r \in Records /\ r.captured \in Nat /\ r.profile \in Profiles /\ r.scores \in SUBSET Scores /\ Sourced(r.scores)
  BY DEF Core, Records
<1>5. key \in [of : Scored, profile : Profiles, context : Nat] /\ key.context = r.captured
  BY <1>4 DEF Key, Profiles
<1>6. Inserted(r) = {e \in r.scores : e.key # key} \union {new}
  BY DEF Inserted
<1> HIDE DEF key, binaries
<1>7. new \in Scores /\ new.built = {new.key.context}
  BY <1>3, <1>4, <1>5 DEF Scores
<1> HIDE DEF new
<1> QED
  BY <1>4, <1>6, <1>7 DEF Sourced

\* A comparison that found its context unchanged is evidence of its round.
LEMMA ExtendedEvidence ==
  ASSUME NEW r, Core(r, sources), sources \in Nat, r.stage = "validate", AllBuilt(r.built, Compiled(r)), Holds(r),
         NEW evidence,
         evidence = r.evidence \union {[round |-> r.round, profile |-> p, built |-> r.built[p], seen |-> sources] : p \in Compiled(r)}
  PROVE  /\ evidence \in SUBSET Evidence /\ Measurements(evidence, r.captured)
         /\ r.round >= 1 /\ Compares(r.evidence, r.profile, r.round - 1) => Compares(evidence, r.profile, r.round)
<1>1. /\ sources = r.captured /\ Compiled(r) \subseteq Profiles
      /\ \A p \in Compiled(r) : r.built[p] = r.captured
  BY HeldFacts DEF Measured
<1>2. Compiled(r) = {"defaults", r.profile}
  BY DEF Compiled
<1>3. r.round \in Nat /\ r.captured \in Nat /\ r.evidence \in SUBSET Evidence /\ Measurements(r.evidence, r.captured)
  BY DEF Core, Records
<1> DEFINE new(p) == [round |-> r.round, profile |-> p, built |-> r.built[p], seen |-> sources]
<1>4. \A p \in Compiled(r) : new(p) \in Evidence /\ new(p).built = r.captured /\ new(p).seen = r.captured
        /\ new(p).round = r.round /\ new(p).profile = p
  BY <1>1, <1>3 DEF Evidence
<1>5. \A e : e \in evidence <=> e \in r.evidence \/ \E p \in Compiled(r) : e = new(p)
  OBVIOUS
<1> HIDE DEF new
<1>6. evidence \in SUBSET Evidence /\ Measurements(evidence, r.captured)
  BY <1>3, <1>4, <1>5 DEF Measurements
<1>7. ASSUME r.round >= 1, Compares(r.evidence, r.profile, r.round - 1)
      PROVE  Compares(evidence, r.profile, r.round)
  <2> SUFFICES ASSUME NEW round \in 1 .. r.round, NEW p \in {"defaults", r.profile}
               PROVE  \E e \in evidence : e.round = round /\ e.profile = p
    BY DEF Compares
  <2>1. CASE round = r.round
    <3>1. new(p) \in evidence /\ new(p).round = round /\ new(p).profile = p
      BY <1>2, <1>4, <1>5, <2>1
    <3> QED
      BY <3>1
  <2>2. CASE round # r.round
    <3>1. round \in 1 .. r.round - 1
      BY <1>3, <2>2
    <3>2. \E e \in r.evidence : e.round = round /\ e.profile = p
      BY <1>7, <3>1 DEF Compares
    <3> QED
      BY <1>5, <3>2
  <2> QED
    BY <2>1, <2>2
<1> QED
  BY <1>6, <1>7

LEMMA CheckAfterStep ==
  ASSUME SessionInv, NEW s \in Sessions, CheckAfter(s)
  PROVE  SessionInv'
<1> DEFINE r == session[s]
<1>0. r.stage \in Measured /\ r.step = "recheck"
  BY DEF CheckAfter, At
<1>1. /\ sources \in Nat /\ faults \in Nat /\ faults' \in Nat /\ ~ Writes(s) /\ r \in Records /\ Core(r, sources)
      /\ Vetting(r) /\ (r.broken => r.failed) /\ AllBuilt(r.built, Compiled(r))
  BY <1>0, MeasuringFacts DEF CheckAfter
<1>2. UNCHANGED <<sources, disk, journal, temps, faults>>
  BY DEF CheckAfter
<1>3. CASE Become(s, Given(Checked(r)))
  BY <1>0, <1>2, <1>3, RefusedStep
<1>4. CASE Holds(r) /\ r.stage \in Scored /\ Become(s, [r EXCEPT !.scores = Inserted(r), !.step = "create"])
  <2> DEFINE scores == Inserted(r)
             n == [r EXCEPT !.scores = scores, !.step = "create"]
  <2>1. scores \in SUBSET Scores /\ Sourced(scores)
    BY <1>1, <1>4, InsertedSourced
  <2> HIDE DEF scores
  <2>2. /\ n \in Records /\ n.stage = r.stage /\ n.step = "create" /\ n.scores = scores /\ n.mode = r.mode
        /\ n.captured = r.captured /\ n.built = r.built
    BY <1>1, <2>1 DEF Records, StepNames
  <2>3. /\ n.evidence = r.evidence /\ n.broken = r.broken /\ n.failed = r.failed /\ n.round = r.round
        /\ n.formatted = r.formatted /\ n.passed = r.passed /\ n.profile = r.profile
    BY <1>1, <2>1 DEF Records, StepNames
  <2>4. Become(s, n)
    BY <1>4 DEF scores
  <2> HIDE DEF n
  <2>5. Core(n, sources) /\ Vetting(n)
    BY <1>1, <2>1, <2>2, <2>3 DEF Core, Vetting
  <2>6. Steady(n, sources)
    BY <1>4, <2>2, <2>5 DEF Steady, Measuring, Core, StagesAt
  <2>7. Quiet(n, sources)
    BY <1>4, <2>2, <2>6 DEF Quiet, Scored
  <2> QED
    BY <1>1, <1>2, <2>4, <2>7, QuietStep
<1>5. CASE /\ Holds(r) /\ r.stage = "confirm"
           /\ \E p \in {"defaults", "other"} : Become(s, AfterSearch([r EXCEPT !.profile = p]))
  <2> PICK p \in {"defaults", "other"} : Become(s, AfterSearch([r EXCEPT !.profile = p]))
    BY <1>5
  <2> DEFINE n == [r EXCEPT !.profile = p]
  <2>1. /\ n \in Records /\ n.mode = r.mode /\ n.scores = r.scores /\ n.captured = r.captured /\ n.built = r.built
        /\ n.evidence = r.evidence /\ n.broken = r.broken /\ n.failed = r.failed /\ n.round = r.round
    BY <1>1 DEF Records, Profiles
  <2>2. r.round = 1
    BY <1>1, <1>5 DEF Vetting
  <2> HIDE DEF n
  <2>3. Core(n, sources)
    BY <1>1, <2>1, CoreKept
  <2>4. Quiet(AfterSearch(n), sources)
    BY <1>1, <2>1, <2>2, <2>3, AfterSearchQuiet
  <2> QED
    BY <1>1, <1>2, <2>4, QuietStep DEF n
<1>6. ASSUME Holds(r), r.stage = "validate", NEW ok \in BOOLEAN,
             Become(s, Compared([r EXCEPT !.evidence = @ \union
                                     {[round |-> r.round, profile |-> p, built |-> r.built[p], seen |-> sources] : p \in Compiled(r)}], ok))
      PROVE  SessionInv'
  <2> DEFINE evidence == r.evidence \union
                           {[round |-> r.round, profile |-> p, built |-> r.built[p], seen |-> sources] : p \in Compiled(r)}
             n == [r EXCEPT !.evidence = evidence]
  <2>1. /\ evidence \in SUBSET Evidence /\ Measurements(evidence, r.captured)
        /\ r.round >= 1 /\ Compares(r.evidence, r.profile, r.round - 1) => Compares(evidence, r.profile, r.round)
    BY <1>1, <1>6, ExtendedEvidence
  <2>2. Become(s, Compared(n, ok))
    BY <1>6
  <2> HIDE DEF evidence
  <2>3. /\ n \in Records /\ n.mode = r.mode /\ n.scores = r.scores /\ n.captured = r.captured /\ n.built = r.built
        /\ n.evidence = evidence /\ n.broken = r.broken /\ n.failed = r.failed /\ n.round = r.round
    BY <1>1, <2>1 DEF Records
  <2>4. n.formatted = r.formatted /\ n.passed = r.passed /\ n.profile = r.profile
    BY <1>1, <2>1 DEF Records
  <2> HIDE DEF n
  <2>5. Core(n, sources)
    BY <1>1, <2>1, <2>3 DEF Core
  <2>6. /\ r.mode \in CompleteModes => r.formatted
        /\ r.round >= 1 /\ (r.passed => ~ r.broken /\ Compares(r.evidence, r.profile, r.round - 1))
    BY <1>1, <1>6 DEF Vetting
  <2>7. Quiet(Compared(n, ok), sources)
    BY <1>1, <2>1, <2>3, <2>4, <2>5, <2>6, ComparedQuiet
  <2> QED
    BY <1>1, <1>2, <2>2, <2>7, QuietStep
<1> QED
  BY <1>3, <1>4, <1>5, <1>6 DEF CheckAfter

LEMMA JudgeStep ==
  ASSUME SessionInv, NEW s \in Sessions, Judge(s)
  PROVE  SessionInv'
<1> DEFINE r == Checked(session[s])
           n == [r EXCEPT !.passed = FALSE]
<1>0. session[s].stage = "judge" /\ session[s].step = "judge"
  BY DEF Judge, At
<1>1. /\ sources \in Nat /\ faults \in Nat /\ faults' \in Nat /\ ~ Writes(s) /\ Core(session[s], sources)
      /\ Vetting(session[s]) /\ (session[s].broken => session[s].failed)
  BY <1>0, MeasuringFacts DEF Judge
<1>2. Core(r, sources) /\ r.round = 1 /\ (r.broken => r.failed) /\ r \in Records
  BY <1>0, <1>1, CheckedFacts DEF Vetting, Core
<1>3. \/ ~ r.failed /\ r.formatted /\ Become(s, Enter(r, "validate"))
      \/ Become(s, Enter(n, "finish"))
  BY DEF Judge
<1> HIDE DEF r
<1>4. CASE ~ r.failed /\ r.formatted /\ Become(s, Enter(r, "validate"))
  <2>1. Compares(r.evidence, r.profile, r.round - 1)
    BY <1>2 DEF Compares
  <2>2. Quiet(Enter(r, "validate"), sources)
    BY <1>2, <1>4, <2>1, EnterValidating
  <2> QED
    BY <1>1, <1>4, <2>2, QuietStep DEF Judge
<1>5. CASE Become(s, Enter(n, "finish"))
  <2>1. n \in Records /\ n.mode = r.mode /\ n.scores = r.scores /\ n.captured = r.captured
        /\ n.built = r.built /\ n.evidence = r.evidence /\ n.passed = FALSE
    BY <1>2 DEF Records
  <2> HIDE DEF n
  <2>2. Core(n, sources)
    BY <1>2, <2>1, CoreKept
  <2>3. Quiet(Enter(n, "finish"), sources)
    BY <1>1, <2>1, <2>2, EnterFinish
  <2> QED
    BY <1>1, <1>5, <2>3, QuietStep DEF Judge
<1> QED
  BY <1>3, <1>4, <1>5

-----------------------------------------------------------------------------
(* Steps that write a file.                                                 *)

Saving == {"create", "fill", "rename"}

LEMMA SaverFacts ==
  ASSUME SessionInv, NEW s \in Sessions, session[s].step \in Saving
  PROVE  LET r == session[s] IN
         /\ sources \in Nat /\ faults \in Nat /\ r \in Records /\ Steady(r, sources)
         /\ r.stage \in {"search", "format", "finish", "report", "publish"}
         /\ r.mode # "ProfileFor" => Core(r, sources) /\ Vetting(r)
         /\ r.mode = "ProfileFor" => r.stage = "publish"
<1>1. /\ sources \in Nat /\ faults \in Nat /\ session[s] \in Records /\ Steady(session[s], sources)
  BY DEF SessionInv, TypeOK
<1>2. session[s].stage \in Scored \union Ending
  BY <1>1 DEF Steady, StagesAt, Saving
<1> QED
  BY <1>1, <1>2 DEF Steady, Measuring, Scored, Ending

LEMMA TargetFacts ==
  ASSUME SessionInv, NEW s \in Sessions, session[s].step \in Saving
  PROVE  LET r == session[s] IN
         /\ Target(s) \in Paths /\ Content(s) \in SUBSET (Scores \union Sessions)
         /\ r.stage \in {"search", "format", "finish"} => Target(s) = Cache /\ Content(s) = r.scores
         /\ r.stage = "report" => Target(s) = Report(s) /\ Content(s) = {s}
         /\ r.stage = "publish" =>
              Target(s) \in {Profile, Candidate(s)} /\ Content(s) = IF r.mode = "ProfileFor" THEN {} ELSE {s}
<1> DEFINE r == session[s]
<1>1. /\ r \in Records /\ r.stage \in {"search", "format", "finish", "report", "publish"}
      /\ (r.mode = "ProfileFor" => r.stage = "publish")
  BY SaverFacts
<1>2. Profile # Cache /\ Candidate(s) # Cache /\ Report(s) # Cache
  BY DEF Profile, Cache, Candidate, Report
<1>3. CASE r.stage \in {"search", "format", "finish"}
  <2>1. Target(s) = Cache
    BY <1>3 DEF Target, Scored
  <2>2. Content(s) = r.scores
    BY <2>1 DEF Content
  <2> QED
    BY <1>1, <1>3, <2>1, <2>2 DEF Paths, Records
<1>4. CASE r.stage = "report"
  <2>1. Target(s) = Report(s)
    BY <1>4 DEF Target, Scored
  <2>2. Content(s) = {s}
    BY <1>1, <1>2, <1>4, <2>1 DEF Content
  <2> QED
    BY <1>4, <2>1, <2>2 DEF Paths
<1>5. CASE r.stage = "publish"
  <2>1. Target(s) \in {Profile, Candidate(s)}
    BY <1>5 DEF Target, Scored
  <2>2. Content(s) = IF r.mode = "ProfileFor" THEN {} ELSE {s}
    BY <1>2, <2>1 DEF Content
  <2> QED
    BY <1>5, <2>1, <2>2 DEF Paths
<1> QED
  BY <1>1, <1>3, <1>4, <1>5

\* What a session becomes after a save never holds a file, and publishes only
\* after a report that was written.
LEMMA SavedFacts ==
  ASSUME SessionInv, NEW s \in Sessions, session[s].step \in Saving, NEW ok \in BOOLEAN, NEW n \in Saved(session[s], ok)
  PROVE  /\ n \in Records /\ Steady(n, sources) /\ n.step \notin {"fill", "rename"}
         /\ n.stage = "publish" => ok /\ session[s].stage = "report"
<1> DEFINE r == session[s]
<1>0. /\ sources \in Nat /\ r \in Records /\ r.stage \in {"search", "format", "finish", "report", "publish"}
      /\ (r.mode # "ProfileFor" => Core(r, sources) /\ Vetting(r)) /\ (r.mode = "ProfileFor" => r.stage = "publish")
  BY SaverFacts
<1>1. \A m \in {Idle, Ended, Dead} : m \in Records /\ Steady(m, sources) /\ m.step \notin {"fill", "rename"}
                                       /\ m.stage # "publish"
  BY <1>0, IdleTyped, RestSteady
<1>2. CASE r.stage = "search"
  <2>1. Core(r, sources) /\ (r.broken => r.failed) /\ r.round = 1
    BY <1>0, <1>2 DEF Vetting, Measured, Scored
  <2>2. n \in Screened(r)
    BY <1>2 DEF Saved
  <2> QED
    BY <2>1, <2>2, ScreenedQuiet DEF Quiet
<1>3. CASE r.stage = "format"
  <2>1. Core(r, sources) /\ (r.broken => r.failed) /\ r.round = 1
    BY <1>0, <1>3 DEF Vetting, Measured, Scored
  <2> DEFINE m == [r EXCEPT !.formatted = TRUE]
  <2>2. m \in Records /\ m.mode = r.mode /\ m.scores = r.scores /\ m.captured = r.captured /\ m.built = r.built
        /\ m.evidence = r.evidence /\ m.broken = r.broken /\ m.failed = r.failed /\ m.round = r.round
    BY <1>0 DEF Records
  <2>3. n = Enter(m, "judge")
    BY <1>3 DEF Saved
  <2> HIDE DEF m
  <2>4. Core(m, sources)
    BY <2>1, <2>2, CoreKept
  <2>5. Quiet(n, sources)
    BY <2>1, <2>2, <2>3, <2>4, EnterSearching
  <2> QED
    BY <2>5 DEF Quiet
<1>4. ASSUME NEW stage \in {"report", "publish"}, r.stage \in {"finish", "report"}, n = Enter(r, stage)
      PROVE  n \in Records /\ Steady(n, sources) /\ n.stage = stage /\ n.step = "create"
  <2>1. Core(r, sources) /\ stage \in Ending
    BY <1>0, <1>4 DEF Ending
  <2>2. r.mode \in CompleteModes /\ r.passed =>
          r.formatted /\ ~ r.broken /\ Compares(r.evidence, r.profile, Comparisons)
    BY <1>0, <1>4 DEF Vetting, Ending
  <2> QED
    BY <1>0, <1>4, <2>1, <2>2, EnterEnding
<1>5. CASE r.stage = "finish"
  <2>1. n = Enter(r, "report")
    BY <1>5 DEF Saved
  <2> QED
    BY <1>4, <1>5, <2>1
<1>6. CASE r.stage = "report"
  <2>1. n = IF ok THEN Enter(r, "publish") ELSE Ended
    BY <1>6 DEF Saved
  <2> QED
    BY <1>1, <1>4, <1>6, <2>1
<1>7. CASE r.stage = "publish"
  BY <1>1, <1>7 DEF Saved
<1> QED
  BY <1>0, <1>2, <1>3, <1>5, <1>6, <1>7

\* A session that goes on with the same file.
LEMMA KeepsSaving ==
  ASSUME SessionInv, NEW s \in Sessions, session[s].step \in Saving,
         NEW n, Moved(session[s], n, session[s].stage), n.step \in Saving
  PROVE  Steady(n, sources) /\ n \in Records
<1> DEFINE r == session[s]
<1>1. Steady(r, sources) /\ r \in Records /\ (r.mode # "ProfileFor" => Core(r, sources) /\ Vetting(r))
  BY SaverFacts
<1>2. r.stage \in StagesAt(n.step)
  BY <1>1 DEF Steady, StagesAt, Saving
<1>3. CASE r.mode # "ProfileFor"
  BY <1>1, <1>2, <1>3, Stays DEF Saving, Moved
<1>4. CASE r.mode = "ProfileFor"
  BY <1>1, <1>2, <1>4 DEF Steady, Moved
<1> QED
  BY <1>3, <1>4 DEF Moved

\* The temporary files once s has made, changed or given up its own, w.
LEMMA OwnedStep ==
  ASSUME SessionInv, NEW s \in Sessions, \A u \in Sessions : u # s => session'[u] = session[u],
         NEW kept, kept \subseteq temps, \A t \in temps : t \notin kept => Writes(s) /\ Owned(t, s),
         NEW w, \A t \in kept : ~ (t.path = w.path /\ t.tag = w.tag),
         temps' = kept \/ temps' = kept \union {w},
         Writes(s)' => /\ w \in temps' /\ w.path = Target(s)' /\ w.tag = session'[s].tag /\ w.file.there /\ w.file.data = Content(s)'
                       /\ session'[s].step = "rename" => w.file.whole /\ w.file.synced
  PROVE  TemporariesOwned'
<1>0. TemporariesOwned
  BY DEF SessionInv
<1>1. \A u \in Sessions : u # s =>
        /\ (Writes(u)' <=> Writes(u)) /\ Target(u)' = Target(u) /\ Content(u)' = Content(u)
        /\ \A t : Owned(t, u)' <=> Owned(t, u)
  <2> TAKE u \in Sessions
  <2> HAVE u # s
  <2>1. session'[u] = session[u]
    OBVIOUS
  <2>2. (Writes(u)' <=> Writes(u)) /\ Target(u)' = Target(u)
    BY <2>1 DEF Writes, Target
  <2>3. Content(u)' = Content(u)
    BY <2>1, <2>2 DEF Content
  <2> QED
    BY <2>1, <2>2, <2>3 DEF Owned
<1>2. \A t, u \in temps' : t.path = u.path /\ t.tag = u.tag => t = u
  BY <1>0 DEF TemporariesOwned
<1>3. ASSUME NEW u \in Sessions, u # s, Writes(u)
      PROVE  \E t \in kept :
               /\ Owned(t, u) /\ t.file.there /\ t.file.data = Content(u)
               /\ session[u].step = "rename" => t.file.whole /\ t.file.synced
  <2>1. PICK t \in temps :
          /\ Owned(t, u) /\ t.file.there /\ t.file.data = Content(u)
          /\ session[u].step = "rename" => t.file.whole /\ t.file.synced
    BY <1>0, <1>3 DEF TemporariesOwned
  <2>2. t \in kept
    <3>1. SUFFICES ASSUME t \notin kept PROVE FALSE
      OBVIOUS
    <3>2. Writes(s) /\ Owned(t, s)
      BY <3>1
    <3>3. Target(s) = Target(u) /\ session[s].tag = session[u].tag
      BY <2>1, <3>2 DEF Owned
    <3> QED
      BY <1>0, <1>3, <3>2, <3>3 DEF TemporariesOwned
  <2> QED
    BY <2>1, <2>2
<1>4. ASSUME NEW u \in Sessions, Writes(u)'
      PROVE  \E t \in temps' :
               /\ Owned(t, u)' /\ t.file.there /\ t.file.data = Content(u)'
               /\ session'[u].step = "rename" => t.file.whole /\ t.file.synced
  <2>1. CASE u = s
    BY <1>4, <2>1 DEF Owned
  <2>2. CASE u # s
    <3>1. Writes(u) /\ session'[u] = session[u]
      BY <1>1, <1>4, <2>2
    <3>2. PICK t \in kept :
            /\ Owned(t, u) /\ t.file.there /\ t.file.data = Content(u)
            /\ session[u].step = "rename" => t.file.whole /\ t.file.synced
      BY <1>3, <2>2, <3>1
    <3>3. t \in temps' /\ Owned(t, u)' /\ t.file.data = Content(u)'
      BY <1>1, <2>2, <3>2
    <3> QED
      BY <3>1, <3>2, <3>3
  <2> QED
    BY <2>1, <2>2
<1>5. ASSUME NEW u \in Sessions, u # s, Writes(u), Writes(s)'
      PROVE  ~ (Target(s)' = Target(u) /\ session'[s].tag = session[u].tag)
  <2>1. PICK t \in kept : Owned(t, u)
    BY <1>3, <1>5
  <2>2. w.path = Target(s)' /\ w.tag = session'[s].tag
    BY <1>5
  <2> QED
    BY <2>1, <2>2 DEF Owned
<1>6. ASSUME NEW u \in Sessions, NEW v \in Sessions, u # v, Writes(u)', Writes(v)'
      PROVE  ~ (Target(u)' = Target(v)' /\ session'[u].tag = session'[v].tag)
  <2>1. CASE u # s /\ v # s
    <3>1. Writes(u) /\ Writes(v) /\ Target(u)' = Target(u) /\ Target(v)' = Target(v)
          /\ session'[u] = session[u] /\ session'[v] = session[v]
      BY <1>1, <1>6, <2>1
    <3> QED
      BY <1>0, <1>6, <3>1 DEF TemporariesOwned
  <2>2. CASE u = s
    <3>1. Writes(v) /\ Target(v)' = Target(v) /\ session'[v] = session[v] /\ v # s
      BY <1>1, <1>6, <2>2
    <3> QED
      BY <1>5, <1>6, <2>2, <3>1
  <2>3. CASE v = s
    <3>1. Writes(u) /\ Target(u)' = Target(u) /\ session'[u] = session[u] /\ u # s
      BY <1>1, <1>6, <2>3
    <3> QED
      BY <1>5, <1>6, <2>3, <3>1
  <2> QED
    BY <2>1, <2>2, <2>3
<1> QED
  BY <1>2, <1>4, <1>6 DEF TemporariesOwned

LEMMA OwnFacts ==
  ASSUME SessionInv, NEW s \in Sessions, Writes(s)
  PROVE  /\ Own(s) \in temps /\ Owned(Own(s), s) /\ Own(s) \in Temporaries
         /\ Own(s).file.there /\ Own(s).file.data = Content(s)
         /\ session[s].step = "rename" => Own(s).file.whole /\ Own(s).file.synced
         /\ \A t \in temps \ {Own(s)} : ~ (t.path = Own(s).path /\ t.tag = Own(s).tag)
<1>1. PICK t \in temps :
         /\ Owned(t, s) /\ t.file.there /\ t.file.data = Content(s)
         /\ session[s].step = "rename" => t.file.whole /\ t.file.synced
  BY DEF SessionInv, TemporariesOwned
<1>2. Own(s) \in temps /\ Owned(Own(s), s)
  BY <1>1 DEF Own, Owned
<1>3. Own(s) = t
  BY <1>1, <1>2 DEF Owned, SessionInv, TemporariesOwned
<1> QED
  BY <1>1, <1>2, <1>3 DEF SessionInv, TypeOK, TemporariesOwned

\* A step of s that leaves the disk alone.
LEMMA OwnerStep ==
  ASSUME SessionInv, NEW s \in Sessions, NEW n \in Records, Steady(n, sources), Become(s, n),
         n.stage = "publish" /\ n.mode # "ProfileFor" => session[s].stage = "publish" /\ session[s].mode # "ProfileFor",
         UNCHANGED <<sources, disk, journal>>, faults' \in Nat, temps' \in SUBSET Temporaries, TemporariesOwned'
  PROVE  SessionInv'
<1>1. /\ session' \in [Sessions -> Records] /\ session'[s] = n
      /\ \A u \in Sessions : u # s => session'[u] = session[u]
  BY DEF SessionInv, TypeOK, Become
<1>2. TypeOK'
  BY <1>1 DEF SessionInv, TypeOK
<1>3. \A u \in Sessions : Steady(session'[u], sources')
  BY <1>1 DEF SessionInv
<1>4. FilesKept'
  BY DEF SessionInv, FilesKept
<1>5. ReportsFirst'
  BY <1>1 DEF SessionInv, ReportsFirst
<1> QED
  BY <1>2, <1>3, <1>4, <1>5 DEF SessionInv

LEMMA CreateStep ==
  ASSUME SessionInv, NEW s \in Sessions, CreateTemporary(s)
  PROVE  SessionInv'
<1> DEFINE r == session[s]
<1>0. r.step = "create" /\ r.step \in Saving /\ ~ Writes(s) /\ UNCHANGED <<sources, disk, journal, faults>>
  BY DEF CreateTemporary, Saving, Writes
<1>1. /\ sources \in Nat /\ faults' \in Nat /\ r \in Records /\ temps \in SUBSET Temporaries
  BY <1>0, SaverFacts DEF SessionInv, TypeOK
<1>2. Target(s) \in Paths /\ Content(s) \in SUBSET (Scores \union Sessions)
  BY <1>0, TargetFacts
<1>3. Used(s) \in Nat
  BY <1>1 DEF Used, Records
<1>4. PICK tag \in Names(s) :
         IF ~ Taken(Target(s), tag)
         THEN /\ temps' = temps \union {[path |-> Target(s), tag |-> tag, file |-> Created(Content(s))]}
              /\ Become(s, [session[s] EXCEPT !.step = "fill", !.tag = tag, !.ordinal = Used(s)])
         ELSE /\ UNCHANGED temps
              /\ IF session[s].stage = "publish" THEN Become(s, [session[s] EXCEPT !.ordinal = Used(s)])
                 ELSE \E next \in Saved(session[s], FALSE) : Become(s, next)
  BY DEF CreateTemporary, Create
<1>5. tag \in Stamps \union Nat
  BY <1>1 DEF Names, Records
<1>6. CASE ~ Taken(Target(s), tag)
  <2> DEFINE ordinal == Used(s)
             w == [path |-> Target(s), tag |-> tag, file |-> Created(Content(s))]
             n == [r EXCEPT !.step = "fill", !.tag = tag, !.ordinal = ordinal]
  <2>1. temps' = temps \union {w} /\ Become(s, n)
    BY <1>4, <1>6
  <2>2. w.path = Target(s) /\ w.tag = tag /\ w.file.there /\ w.file.data = Content(s)
    BY DEF Created
  <2>3. Created(Content(s)) \in Files
    BY <1>2 DEF Created, Files
  <2>4. w \in Temporaries
    BY <1>2, <1>5, <2>3 DEF Temporaries
  <2>5. \A t \in temps : ~ (t.path = w.path /\ t.tag = w.tag)
    BY <1>6, <2>2 DEF Taken
  <2> HIDE DEF w, ordinal
  <2>6. ordinal \in Nat
    BY <1>3 DEF ordinal
  <2>7. n \in Records /\ n.stage = r.stage /\ n.step = "fill" /\ n.mode = r.mode /\ n.passed = r.passed /\ n.tag = tag
    BY <1>1, <1>5, <2>6 DEF Records, StepNames
  <2>8. /\ n.captured = r.captured /\ n.failed = r.failed /\ n.profile = r.profile /\ n.built = r.built
        /\ n.scores = r.scores
    BY <1>1, <1>5, <2>6 DEF Records, StepNames
  <2>9. n.formatted = r.formatted /\ n.round = r.round /\ n.evidence = r.evidence /\ n.broken = r.broken
    BY <1>1, <1>5, <2>6 DEF Records, StepNames
  <2> HIDE DEF n
  <2>10. Moved(r, n, r.stage)
    BY <2>7, <2>8, <2>9 DEF Moved
  <2>11. Steady(n, sources)
    BY <1>0, <2>7, <2>10, KeepsSaving DEF Saving
  <2>12. session'[s] = n /\ \A u \in Sessions : u # s => session'[u] = session[u]
    BY <2>1 DEF Become, SessionInv, TypeOK
  <2>13. Target(s)' = Target(s)
    BY <2>7, <2>12 DEF Target, Installs
  <2>14. Content(s)' = Content(s)
    BY <2>7, <2>8, <2>12, <2>13 DEF Content
  <2>15. w.path = Target(s)' /\ w.tag = session'[s].tag
    BY <2>2, <2>7, <2>12, <2>13
  <2>16. TemporariesOwned'
    <3>1. session'[s].step # "rename" /\ w \in temps' /\ w.file.data = Content(s)'
      BY <2>1, <2>2, <2>7, <2>12, <2>14
    <3>2. Writes(s)' => /\ w \in temps' /\ w.path = Target(s)' /\ w.tag = session'[s].tag
                        /\ w.file.there /\ w.file.data = Content(s)'
                        /\ session'[s].step = "rename" => w.file.whole /\ w.file.synced
      BY <2>2, <2>15, <3>1
    <3>3. temps \subseteq temps /\ \A t \in temps : t \notin temps => Writes(s) /\ Owned(t, s)
      OBVIOUS
    <3> QED
      BY <2>1, <2>5, <2>12, <3>2, <3>3, OwnedStep
  <2> QED
    BY <1>0, <1>1, <2>1, <2>4, <2>7, <2>11, <2>16, OwnerStep
<1>7. CASE Taken(Target(s), tag) /\ r.stage = "publish"
  <2> DEFINE ordinal == Used(s)
             n == [r EXCEPT !.ordinal = ordinal]
  <2>1. UNCHANGED temps /\ Become(s, n)
    BY <1>4, <1>7
  <2> HIDE DEF ordinal
  <2>2. ordinal \in Nat
    BY <1>3 DEF ordinal
  <2>3. n \in Records /\ n.stage = r.stage /\ n.step = r.step /\ n.mode = r.mode /\ n.passed = r.passed
    BY <1>1, <2>2 DEF Records
  <2>4. /\ n.captured = r.captured /\ n.failed = r.failed /\ n.profile = r.profile /\ n.built = r.built
        /\ n.scores = r.scores
    BY <1>1, <2>2 DEF Records
  <2>5. n.formatted = r.formatted /\ n.round = r.round /\ n.evidence = r.evidence /\ n.broken = r.broken
    BY <1>1, <2>2 DEF Records
  <2> HIDE DEF n
  <2>6. Moved(r, n, r.stage)
    BY <2>3, <2>4, <2>5 DEF Moved
  <2>7. Steady(n, sources)
    BY <1>0, <2>3, <2>6, KeepsSaving
  <2> QED
    BY <1>0, <1>1, <1>7, <2>1, <2>3, <2>7, LightStep
<1>8. CASE Taken(Target(s), tag) /\ r.stage # "publish"
  <2>1. PICK next \in Saved(r, FALSE) : UNCHANGED temps /\ Become(s, next)
    BY <1>4, <1>8
  <2>2. next \in Records /\ Steady(next, sources) /\ next.step \notin {"fill", "rename"} /\ next.stage # "publish"
    BY <1>0, SavedFacts
  <2> QED
    BY <1>0, <1>1, <2>1, <2>2, LightStep
<1> QED
  BY <1>6, <1>7, <1>8

LEMMA FillStep ==
  ASSUME SessionInv, NEW s \in Sessions, FillTemporary(s)
  PROVE  SessionInv'
<1> DEFINE r == session[s]
           o == Own(s)
           w == [o EXCEPT !.file = Filled(o.file)]
           kept == temps \ {o}
           n == [r EXCEPT !.step = "rename"]
<1>0. r.step = "fill" /\ r.step \in Saving /\ Writes(s)
  BY DEF FillTemporary, Saving, Writes
<1>1. sources \in Nat /\ faults \in Nat /\ r \in Records /\ temps \in SUBSET Temporaries
  BY <1>0, SaverFacts DEF SessionInv, TypeOK
<1>2. /\ temps' = kept \union {w} /\ Become(s, n) /\ UNCHANGED <<sources, disk, journal, faults>>
  BY DEF FillTemporary
<1>3. /\ o \in temps /\ Owned(o, s) /\ o \in Temporaries /\ o.file.there /\ o.file.data = Content(s)
      /\ \A t \in kept : ~ (t.path = o.path /\ t.tag = o.tag)
  BY <1>0, OwnFacts
<1> HIDE DEF o
<1>4. /\ Filled(o.file) \in Files /\ Filled(o.file).there /\ Filled(o.file).data = Content(s)
      /\ Filled(o.file).whole /\ Filled(o.file).synced
  BY <1>3 DEF Filled, Files, Temporaries
<1>5. w \in Temporaries /\ w.path = o.path /\ w.tag = o.tag /\ w.file = Filled(o.file)
  BY <1>3, <1>4 DEF Temporaries
<1>6. Moved(r, n, r.stage) /\ n.step = "rename"
  BY <1>1, StepMoves DEF StepNames
<1>7. n.tag = r.tag
  BY <1>1 DEF Records
<1> HIDE DEF w, n
<1>8. Steady(n, sources)
  BY <1>0, <1>6, KeepsSaving DEF Saving
<1>9. session'[s] = n /\ \A u \in Sessions : u # s => session'[u] = session[u]
  BY <1>2 DEF Become, SessionInv, TypeOK
<1>10. Target(s)' = Target(s)
  BY <1>6, <1>9 DEF Target, Installs, Moved
<1>11. Content(s)' = Content(s)
  BY <1>6, <1>9, <1>10 DEF Content, Moved
<1>12. w.path = Target(s)' /\ w.tag = session'[s].tag
  BY <1>3, <1>5, <1>7, <1>9, <1>10 DEF Owned
<1>13. \A t \in kept : ~ (t.path = w.path /\ t.tag = w.tag)
  BY <1>3, <1>5
<1>14. w \in temps' /\ w.file.there /\ w.file.data = Content(s)' /\ w.file.whole /\ w.file.synced
  BY <1>2, <1>4, <1>5, <1>11
<1>15. kept \subseteq temps /\ \A t \in temps : t \notin kept => Writes(s) /\ Owned(t, s)
  BY <1>0, <1>3
<1>16. temps' \in SUBSET Temporaries
  BY <1>1, <1>2, <1>5
<1> HIDE DEF kept
<1>17. TemporariesOwned'
  BY <1>2, <1>9, <1>12, <1>13, <1>14, <1>15, OwnedStep
<1> QED
  BY <1>1, <1>2, <1>6, <1>8, <1>16, <1>17, OwnerStep DEF Moved

\* A session that gives its temporary file up, or leaves w in its place.
LEMMA GivesUp ==
  ASSUME SessionInv, NEW s \in Sessions, Writes(s), NEW n \in Records, Become(s, n), n.step \notin {"fill", "rename"},
         NEW w, w.path = Own(s).path, w.tag = Own(s).tag,
         temps' = temps \ {Own(s)} \/ temps' = (temps \ {Own(s)}) \union {w}
  PROVE  TemporariesOwned'
<1> DEFINE kept == temps \ {Own(s)}
<1>1. Owned(Own(s), s) /\ \A t \in kept : ~ (t.path = w.path /\ t.tag = w.tag)
  BY OwnFacts
<1>2. kept \subseteq temps /\ \A t \in temps : t \notin kept => Writes(s) /\ Owned(t, s)
  BY <1>1
<1>3. session'[s] = n /\ \A u \in Sessions : u # s => session'[u] = session[u]
  BY DEF Become, SessionInv, TypeOK
<1>4. ~ Writes(s)'
  BY <1>3 DEF Writes
<1>5. temps' = kept \/ temps' = kept \union {w}
  OBVIOUS
<1> HIDE DEF kept
<1> QED
  BY <1>1, <1>2, <1>3, <1>4, <1>5, OwnedStep

LEMMA FailStep ==
  ASSUME SessionInv, NEW s \in Sessions, FileOperationFails(s)
  PROVE  SessionInv'
<1> DEFINE r == session[s]
<1>0. r.step \in Saving /\ UNCHANGED <<sources, disk, journal>> /\ faults' = faults + 1
  BY DEF FileOperationFails, Saving
<1>1. sources \in Nat /\ faults' \in Nat /\ r \in Records /\ temps \in SUBSET Temporaries
  BY <1>0, SaverFacts DEF SessionInv, TypeOK
<1>2. PICK n \in Saved(r, FALSE) : Become(s, n)
  BY DEF FileOperationFails
<1>3. n \in Records /\ Steady(n, sources) /\ n.step \notin {"fill", "rename"} /\ n.stage # "publish"
  BY <1>0, SavedFacts
<1>4. CASE r.step = "create"
  <2>1. ~ Writes(s) /\ UNCHANGED temps
    BY <1>4 DEF Writes, FileOperationFails
  <2> QED
    BY <1>0, <1>1, <1>2, <1>3, <2>1, LightStep
<1>5. CASE r.step # "create"
  <2>1. Writes(s) /\ temps' = temps \ {Own(s)}
    BY <1>0, <1>5 DEF Writes, FileOperationFails, Saving
  <2>2. TemporariesOwned'
    BY <1>2, <1>3, <2>1, GivesUp
  <2>3. temps' \in SUBSET Temporaries
    BY <1>1, <2>1
  <2> QED
    BY <1>0, <1>1, <1>2, <1>3, <2>2, <2>3, OwnerStep
<1> QED
  BY <1>4, <1>5

LEMMA LeftoverTyped ==
  ASSUME NEW t \in Temporaries
  PROVE  Leftover(t) \in Temporaries /\ Leftover(t).path = t.path /\ Leftover(t).tag = t.tag
<1> DEFINE file == Created({})
<1>1. file \in Files
  BY DEF Created, Files
<1>2. Leftover(t) = [t EXCEPT !.file = file]
  BY DEF Leftover
<1> HIDE DEF file
<1> QED
  BY <1>1, <1>2 DEF Temporaries

LEMMA CrashStep ==
  ASSUME SessionInv, NEW s \in Sessions, Crash(s)
  PROVE  SessionInv'
<1>1. sources \in Nat /\ faults \in Nat /\ temps \in SUBSET Temporaries
  BY DEF SessionInv, TypeOK
<1>2. Dead \in Records /\ Steady(Dead, sources) /\ Dead.step = "none" /\ Dead.stage = "dead"
  BY <1>1, IdleTyped, RestSteady
<1>3. Become(s, Dead) /\ UNCHANGED <<sources, disk, journal, faults>>
  BY DEF Crash
<1>4. CASE Writes(s)
  <2>1. temps' = (temps \ {Own(s)}) \union {Leftover(Own(s))}
    BY <1>4 DEF Crash, Writes
  <2>2. /\ Leftover(Own(s)) \in Temporaries /\ Leftover(Own(s)).path = Own(s).path
        /\ Leftover(Own(s)).tag = Own(s).tag
    BY <1>4, OwnFacts, LeftoverTyped
  <2>3. TemporariesOwned'
    BY <1>2, <1>3, <1>4, <2>1, <2>2, GivesUp
  <2>4. temps' \in SUBSET Temporaries
    BY <1>1, <2>1, <2>2
  <2> QED
    BY <1>1, <1>2, <1>3, <2>3, <2>4, OwnerStep
<1>5. CASE ~ Writes(s)
  <2>1. UNCHANGED temps
    BY <1>5 DEF Crash, Writes
  <2> QED
    BY <1>1, <1>2, <1>3, <1>5, <2>1, LightStep
<1> QED
  BY <1>4, <1>5

\* The file that s renames says what its name promises.
LEMMA OwnSound ==
  ASSUME SessionInv, NEW s \in Sessions, session[s].step = "rename"
  PROVE  Sound(Target(s), Own(s).file)
<1> DEFINE r == session[s]
           file == Own(s).file
<1>0. Writes(s) /\ r.step \in Saving
  BY DEF Writes, Saving
<1>1. file.there /\ file.whole /\ file.synced /\ file.data = Content(s)
  BY <1>0, OwnFacts
<1> HIDE DEF file
<1>2. /\ r.stage \in {"search", "format", "finish", "report", "publish"}
      /\ (r.mode # "ProfileFor" => Core(r, sources)) /\ (r.mode = "ProfileFor" => r.stage = "publish")
      /\ r \in Records
  BY <1>0, SaverFacts
<1>3. /\ r.stage \in {"search", "format", "finish"} => Target(s) = Cache /\ Content(s) = r.scores
      /\ r.stage = "report" => Target(s) = Report(s) /\ Content(s) = {s}
      /\ r.stage = "publish" =>
           Target(s) \in {Profile, Candidate(s)} /\ Content(s) = IF r.mode = "ProfileFor" THEN {} ELSE {s}
  BY <1>0, TargetFacts
<1>4. CASE r.stage \in {"search", "format", "finish"}
  <2>1. r.scores \subseteq Scores /\ Sourced(r.scores)
    BY <1>2, <1>4 DEF Core, Records
  <2>2. Cache # Profile /\ \A u : Cache # Report(u)
    BY DEF Cache, Profile, Report
  <2> QED
    BY <1>1, <1>3, <1>4, <2>1, <2>2 DEF Sound, file
<1>5. CASE r.stage = "report"
  <2>1. Report(s) # Cache /\ Report(s) # Profile /\ \A u : Report(s) = Report(u) => u = s
    BY DEF Cache, Profile, Report
  <2> QED
    BY <1>1, <1>3, <1>5, <2>1 DEF Sound, file
<1>6. CASE r.stage = "publish"
  <2>1. Target(s) # Cache /\ \A u : Target(s) # Report(u)
    BY <1>3, <1>6 DEF Cache, Profile, Candidate, Report
  <2> QED
    BY <1>1, <1>3, <1>6, <2>1 DEF Sound, file
<1> QED
  BY <1>2, <1>4, <1>5, <1>6

LEMMA RenameStep ==
  ASSUME SessionInv, NEW s \in Sessions, RenameTemporary(s)
  PROVE  SessionInv'
<1> DEFINE r == session[s]
           file == Own(s).file
           entry == [path |-> Target(s), file |-> file]
           renames == Append(journal, entry)
           settled == IF Len(renames) > MaxPending THEN 1 ELSE 0
           durable == After(settled, renames)
           later == SubSeq(renames, settled + 1, Len(renames))
<1>0. r.step = "rename" /\ r.step \in Saving /\ Writes(s)
  BY DEF RenameTemporary, Saving, Writes
<1>1. /\ sources \in Nat /\ faults \in Nat /\ r \in Records /\ temps \in SUBSET Temporaries
      /\ disk \in [Paths -> Files] /\ journal \in Seq(Renames)
      /\ \A p \in Paths : Sound(p, disk[p])
      /\ \A i \in 1 .. Len(journal) : Sound(journal[i].path, journal[i].file) /\ journal[i].file.there
  BY <1>0, SaverFacts DEF SessionInv, TypeOK, FilesKept
<1>2. disk' = durable /\ journal' = later /\ temps' = temps \ {Own(s)} /\ UNCHANGED <<sources, faults>>
  BY DEF RenameTemporary
<1>3. PICK n \in Saved(r, TRUE) : Become(s, n)
  BY DEF RenameTemporary
<1>4. /\ n \in Records /\ Steady(n, sources) /\ n.step \notin {"fill", "rename"}
      /\ n.stage = "publish" => r.stage = "report"
  BY <1>0, SavedFacts
<1>5. session'[s] = n /\ session' \in [Sessions -> Records] /\ \A u \in Sessions : u # s => session'[u] = session[u]
  BY <1>3, <1>4 DEF Become, SessionInv, TypeOK
<1>6. file \in Files /\ file.there
  BY <1>0, OwnFacts DEF Temporaries
<1>7. Sound(Target(s), file) /\ Target(s) \in Paths
  BY <1>0, OwnSound, TargetFacts
<1> HIDE DEF file
<1>8. entry \in Renames /\ entry.path = Target(s) /\ entry.file = file
  BY <1>6, <1>7 DEF Renames
<1> HIDE DEF entry
<1>9. /\ renames \in Seq(Renames) /\ Len(renames) = Len(journal) + 1 /\ renames[Len(renames)] = entry
      /\ \A i \in 1 .. Len(journal) : renames[i] = journal[i]
  BY <1>1, <1>8
<1> HIDE DEF renames
<1>10. \A i \in 1 .. Len(renames) : Sound(renames[i].path, renames[i].file) /\ renames[i].file.there
  <2> TAKE i \in 1 .. Len(renames)
  <2>1. i \in 1 .. Len(journal) \/ i = Len(renames)
    BY <1>1, <1>9
  <2> QED
    BY <1>1, <1>6, <1>7, <1>8, <1>9, <2>1
<1>11. settled \in 0 .. Len(renames) /\ Len(renames) \in Nat /\ Len(journal) \in Nat
  BY <1>1, <1>9
<1> HIDE DEF settled
<1>12. /\ later \in Seq(Renames) /\ Len(later) = Len(renames) - settled
       /\ \A i \in 1 .. Len(later) : later[i] = renames[i + settled] /\ i + settled \in 1 .. Len(renames)
  BY <1>9, <1>11
<1> HIDE DEF later
<1>13. \A p \in Paths : Sound(p, durable[p]) /\ durable[p] \in Files
  BY <1>1, <1>9, <1>10, <1>11, AfterSound
<1>14. durable \in [Paths -> Files]
  BY <1>13 DEF After
<1> HIDE DEF durable
<1>15. \A u \in Sessions : Reported(u, Len(journal), disk, journal) => Reported(u, Len(renames), disk, renames)
  BY <1>9, <1>11 DEF Reported
<1>16. Ordered(disk, renames)
  <2>0. Ordered(disk, journal)
    BY DEF SessionInv, ReportsFirst
  <2>1. ASSUME NEW i \in 1 .. Len(renames), renames[i].path = Profile, NEW u \in renames[i].file.data
        PROVE  Reported(u, i, disk, renames)
    <3>1. CASE i \in 1 .. Len(journal)
      <4>1. Reported(u, i, disk, journal)
        BY <1>9, <2>0, <2>1, <3>1 DEF Ordered
      <4>2. \A j \in 1 .. i : renames[j] = journal[j]
        BY <1>9, <1>11, <3>1
      <4> QED
        BY <4>1, <4>2 DEF Reported
    <3>2. CASE i = Len(renames)
      <4>1. Target(s) = Profile /\ u \in Content(s)
        BY <1>0, <1>8, <1>9, <2>1, <3>2, OwnFacts DEF file
      <4>2. r.stage = "publish"
        <5>1. Profile # Cache /\ Profile # Report(s)
          BY DEF Profile, Cache, Report
        <5> QED
          BY <1>0, <4>1, <5>1, TargetFacts, SaverFacts
      <4>3. u = s /\ r.mode # "ProfileFor"
        BY <1>0, <4>1, <4>2, TargetFacts
      <4>4. Reported(s, Len(journal), disk, journal)
        BY <4>2, <4>3 DEF SessionInv, ReportsFirst
      <4> QED
        BY <1>15, <3>2, <4>3, <4>4
    <3> QED
      BY <1>9, <1>11, <3>1, <3>2
  <2> QED
    BY <2>0, <2>1 DEF Ordered
<1>17. TypeOK'
  BY <1>1, <1>2, <1>5, <1>12, <1>14 DEF TypeOK
<1>18. \A u \in Sessions : Steady(session'[u], sources')
  BY <1>2, <1>4, <1>5 DEF SessionInv
<1>19. FilesKept'
  BY <1>2, <1>10, <1>12, <1>13 DEF FilesKept
<1>20. Ordered(durable, later)
  BY <1>1, <1>9, <1>10, <1>11, <1>16, AfterOrdered DEF durable, later
<1>21. ASSUME NEW u \in Sessions, session'[u].stage = "publish", session'[u].mode # "ProfileFor"
       PROVE  Reported(u, Len(later), durable, later)
  <2>1. Reported(u, Len(renames), disk, renames)
    <3>1. CASE u # s
      <4>1. Reported(u, Len(journal), disk, journal)
        BY <1>5, <1>21, <3>1 DEF SessionInv, ReportsFirst
      <4> QED
        BY <1>15, <4>1
    <3>2. CASE u = s
      <4>1. r.stage = "report"
        BY <1>4, <1>5, <1>21, <3>2
      <4>2. entry.path = Report(s)
        BY <1>0, <1>8, <4>1, TargetFacts
      <4>3. Len(renames) \in 1 .. Len(renames)
        BY <1>9, <1>11
      <4> QED
        BY <1>9, <3>2, <4>2, <4>3 DEF Reported
    <3> QED
      BY <3>1, <3>2
  <2>2. Len(renames) \in settled .. Len(renames)
    BY <1>11
  <2>3. Reported(u, Len(renames) - settled, durable, later)
    BY <1>9, <1>10, <1>11, <2>1, <2>2, LaterReported DEF durable, later
  <2> QED
    BY <1>12, <2>3
<1>22. ReportsFirst'
  BY <1>2, <1>20, <1>21 DEF ReportsFirst
<1>23. TemporariesOwned'
  BY <1>0, <1>2, <1>3, <1>4, GivesUp
<1> QED
  BY <1>17, <1>18, <1>19, <1>22, <1>23 DEF SessionInv

-----------------------------------------------------------------------------
(* Steps of the surroundings.                                               *)

\* An edit only moves the sources away from what was captured and built.
LEMMA EditStep ==
  ASSUME SessionInv, Edit
  PROVE  SessionInv'
<1>0. sources \in Nat /\ faults \in Nat /\ sources' = sources + 1 /\ UNCHANGED <<disk, journal, temps, session, faults>>
  BY DEF SessionInv, TypeOK, Edit
<1>1. TypeOK'
  BY <1>0 DEF SessionInv, TypeOK
<1>2. ASSUME NEW s \in Sessions
      PROVE  Steady(session[s], sources')
  <2> DEFINE r == session[s]
  <2>1. Steady(r, sources) /\ r \in Records
    BY DEF SessionInv, TypeOK
  <2>2. ASSUME Core(r, sources)
        PROVE  Core(r, sources')
    <3>1. r.captured \in Nat /\ r.built \in [Profiles -> Int]
      BY <2>1 DEF Records
    <3>2. r.captured <= sources'
      BY <1>0, <2>2, <3>1 DEF Core
    <3>3. Binaries(r.built, r.captured, sources')
      BY <1>0, <2>2, <3>1 DEF Core, Binaries
    <3> HIDE DEF r
    <3> QED
      BY <2>2, <3>2, <3>3 DEF Core
  <2> HIDE DEF r
  <2>3. Steady(r, sources')
    BY <2>1, <2>2 DEF Steady, Measuring
  <2> QED
    BY <2>3 DEF r
<1>3. FilesKept' /\ ReportsFirst'
  BY <1>0 DEF SessionInv, FilesKept, ReportsFirst
<1>4. TemporariesOwned'
  <2>1. \A s \in Sessions : Writes(s)' = Writes(s) /\ Target(s)' = Target(s) /\ Content(s)' = Content(s)
    BY <1>0 DEF Writes, Target, Content
  <2>2. TemporariesOwned
    BY DEF SessionInv
  <2> QED
    BY <1>0, <2>1, <2>2 DEF TemporariesOwned, Owned
<1> QED
  BY <1>0, <1>1, <1>2, <1>3, <1>4 DEF SessionInv

LEMMA TornSound ==
  ASSUME NEW path, NEW file \in Files, Sound(path, file)
  PROVE  Sound(path, Torn(file)) /\ Torn(file) \in Files /\ Torn(file).data = file.data /\ Torn(file).there = file.there
<1>1. Torn(file) \in Files /\ Torn(file).data = file.data /\ Torn(file).there = file.there
  BY DEF Torn, Files
<1>2. file.there => Torn(file) = file
  BY DEF Torn, Sound
<1> HIDE DEF Torn
<1> QED
  BY <1>1, <1>2 DEF Sound

LEMMA PowerLossStep ==
  ASSUME SessionInv, PowerLoss
  PROVE  SessionInv'
<1>0. /\ sources \in Nat /\ faults \in Nat /\ temps \in SUBSET Temporaries /\ disk \in [Paths -> Files]
      /\ journal \in Seq(Renames) /\ session \in [Sessions -> Records]
      /\ \A p \in Paths : Sound(p, disk[p])
      /\ \A i \in 1 .. Len(journal) : Sound(journal[i].path, journal[i].file) /\ journal[i].file.there
      /\ Ordered(disk, journal)
  BY DEF SessionInv, TypeOK, FilesKept, ReportsFirst
<1>1. PICK n \in 0 .. Len(journal) : disk' = [p \in Paths |-> Torn(After(n, journal)[p])]
  BY DEF PowerLoss
<1>2. /\ journal' = <<>> /\ temps' = {Leftover(t) : t \in temps} /\ UNCHANGED <<sources, faults>>
      /\ session' = [s \in Sessions |-> IF Running(s) THEN Dead ELSE session[s]]
  BY DEF PowerLoss
<1>3. \A p \in Paths : Sound(p, After(n, journal)[p]) /\ After(n, journal)[p] \in Files
  BY <1>0, AfterSound
<1>4. \A p \in Paths : /\ Sound(p, disk'[p]) /\ disk'[p] \in Files
                       /\ disk'[p].data = After(n, journal)[p].data /\ disk'[p].there = After(n, journal)[p].there
  BY <1>1, <1>3, TornSound
<1>5. Dead \in Records /\ Steady(Dead, sources) /\ Dead.step = "none" /\ Dead.stage = "dead"
  BY <1>0, IdleTyped, RestSteady
<1>6. \A s \in Sessions : /\ session'[s] \in Records /\ Steady(session'[s], sources)
                          /\ session'[s].stage \in {"idle", "ended", "dead"}
  <2> TAKE s \in Sessions
  <2>1. session'[s] = IF Running(s) THEN Dead ELSE session[s]
    BY <1>2
  <2> QED
    BY <1>0, <1>5, <2>1 DEF Running, SessionInv
<1>7. TypeOK'
  <2>1. \A t \in temps : Leftover(t) \in Temporaries
    BY <1>0, LeftoverTyped
  <2>2. temps' \in SUBSET Temporaries
    BY <1>2, <2>1
  <2>3. disk' \in [Paths -> Files]
    BY <1>1, <1>4
  <2>4. session' \in [Sessions -> Records]
    BY <1>2, <1>6
  <2>5. journal' \in Seq(Renames)
    BY <1>2
  <2> QED
    BY <1>0, <1>2, <2>2, <2>3, <2>4, <2>5 DEF TypeOK
<1>8. FilesKept'
  BY <1>2, <1>4 DEF FilesKept
<1>9. ReportsFirst'
  <2>1. Ordered(After(n, journal), SubSeq(journal, n + 1, Len(journal)))
    BY <1>0, AfterOrdered
  <2>2. \A s \in After(n, journal)[Profile].data : After(n, journal)[Report(s)].there
    BY <2>1 DEF Ordered
  <2>3. Profile \in Paths /\ \A s \in Sessions : Report(s) \in Paths
    BY DEF Paths
  <2>4. \A s \in disk'[Profile].data : s \in Sessions
    BY <1>4, <2>3 DEF Sound
  <2>5. \A s \in disk'[Profile].data : disk'[Report(s)].there
    BY <1>4, <2>2, <2>3, <2>4
  <2>6. Len(journal') = 0
    BY <1>2
  <2>7. Ordered(disk', journal')
    BY <2>5, <2>6 DEF Ordered
  <2> QED
    BY <1>6, <2>7 DEF ReportsFirst
<1>10. TemporariesOwned'
  <2>1. \A s \in Sessions : ~ Writes(s)'
    BY <1>6 DEF Writes, Steady, StagesAt, Scored, Ending
  <2>2. ASSUME NEW t \in temps', NEW u \in temps', t.path = u.path, t.tag = u.tag
        PROVE  t = u
    <3>1. PICK v \in temps : t = Leftover(v)
      BY <1>2
    <3>2. PICK w \in temps : u = Leftover(w)
      BY <1>2
    <3>3. v.path = w.path /\ v.tag = w.tag
      BY <1>0, <2>2, <3>1, <3>2, LeftoverTyped
    <3> QED
      BY <3>1, <3>2, <3>3 DEF SessionInv, TemporariesOwned
  <2> QED
    BY <2>1, <2>2 DEF TemporariesOwned
<1> QED
  BY <1>2, <1>6, <1>7, <1>8, <1>9, <1>10 DEF SessionInv

-----------------------------------------------------------------------------
(* The theorems.                                                            *)

LEMMA Initially == Init => SessionInv
<1> SUFFICES ASSUME Init PROVE SessionInv
  OBVIOUS
<1>1. /\ sources = 0 /\ faults = 0 /\ disk = [p \in Paths |-> Absent] /\ journal = <<>> /\ temps = {}
      /\ session = [s \in Sessions |-> Idle]
  BY DEF Init
<1>2. Absent \in Files /\ Absent.there = FALSE /\ Absent.data = {}
  BY DEF Absent, Files
<1>3. Idle \in Records /\ Idle.stage = "idle" /\ Idle.step = "none"
  BY IdleTyped
<1>4. TypeOK
  BY <1>1, <1>2, <1>3 DEF TypeOK
<1>5. \A s \in Sessions : Steady(session[s], sources)
  BY <1>1, RestSteady
<1>6. FilesKept
  BY <1>1, <1>2 DEF FilesKept, Sound, Sourced
<1>7. ReportsFirst
  <2>1. Profile \in Paths
    BY DEF Paths
  <2> QED
    BY <1>1, <1>2, <1>3, <2>1 DEF ReportsFirst, Ordered
<1>8. TemporariesOwned
  BY <1>1, <1>3 DEF TemporariesOwned, Writes
<1> QED
  BY <1>4, <1>5, <1>6, <1>7, <1>8 DEF SessionInv

LEMMA NextKeeps == SessionInv /\ [Next]_vars => SessionInv'
<1> SUFFICES ASSUME SessionInv, [Next]_vars PROVE SessionInv'
  OBVIOUS
<1>1. ASSUME NEW s \in Sessions, Steps(s)
      PROVE  SessionInv'
  BY <1>1, StartStep, CheckBeforeStep, BuildStep, WorkerFailsStep, CheckAfterStep, JudgeStep, CreateStep, FillStep,
     RenameStep, FailStep DEF Steps
<1>2. ASSUME NEW s \in Sessions, Crash(s)
      PROVE  SessionInv'
  BY <1>2, CrashStep
<1>3. CASE Edit
  BY <1>3, EditStep
<1>4. CASE PowerLoss
  BY <1>4, PowerLossStep
<1>5. CASE UNCHANGED vars
  <2>1. UNCHANGED <<sources, disk, journal, temps, session, faults>>
    BY <1>5 DEF vars
  <2>2. TypeOK' /\ FilesKept' /\ ReportsFirst' /\ \A s \in Sessions : Steady(session'[s], sources')
    BY <2>1 DEF SessionInv, TypeOK, FilesKept, ReportsFirst
  <2>3. \A s \in Sessions : Writes(s)' = Writes(s) /\ Target(s)' = Target(s) /\ Content(s)' = Content(s)
    BY <2>1 DEF Writes, Target, Content
  <2>4. TemporariesOwned'
    BY <2>1, <2>3 DEF SessionInv, TemporariesOwned, Owned
  <2> QED
    BY <2>2, <2>4 DEF SessionInv
<1> QED
  BY <1>1, <1>2, <1>3, <1>4, <1>5 DEF Next

\* The inductive invariant of any number of sessions that share a checkout:
\* types, what every stage of a session has established, sound files, reports
\* before profiles, and temporary files that only their owner touches.
THEOREM SessionsInvariant == Spec => []SessionInv
<1> QED
  BY Initially, NextKeeps, PTL DEF Spec

LEMMA InvSound == SessionInv => FilesSound
<1> SUFFICES ASSUME SessionInv, NEW n \in 0 .. Len(journal)
             PROVE  LET file == After(n, journal) IN
                    /\ \A p \in Paths : file[p].there => file[p].whole
                    /\ \A e \in file[Cache].data : e.built = {e.key.context}
                    /\ \A s \in file[Profile].data : file[Report(s)].there /\ s \in file[Report(s)].data
  BY DEF FilesSound
<1> DEFINE file == After(n, journal)
<1>0. /\ disk \in [Paths -> Files] /\ journal \in Seq(Renames) /\ \A p \in Paths : Sound(p, disk[p])
      /\ \A i \in 1 .. Len(journal) : Sound(journal[i].path, journal[i].file) /\ journal[i].file.there
      /\ Ordered(disk, journal)
  BY DEF SessionInv, TypeOK, FilesKept, ReportsFirst
<1>1. \A p \in Paths : Sound(p, file[p])
  BY <1>0, AfterSound
<1>2. Ordered(file, SubSeq(journal, n + 1, Len(journal)))
  BY <1>0, AfterOrdered
<1>3. Cache \in Paths /\ Profile \in Paths /\ \A s \in Sessions : Report(s) \in Paths
  BY DEF Paths
<1> HIDE DEF file
<1>4. ASSUME NEW s \in file[Profile].data
      PROVE  file[Report(s)].there /\ s \in file[Report(s)].data
  <2>1. s \in Sessions
    BY <1>1, <1>3 DEF Sound
  <2>2. file[Report(s)].there
    BY <1>2 DEF Ordered
  <2> QED
    BY <1>1, <1>3, <2>1, <2>2 DEF Sound
<1>5. (\A p \in Paths : file[p].there => file[p].whole) /\ \A e \in file[Cache].data : e.built = {e.key.context}
  BY <1>1, <1>3 DEF Sound, Sourced
<1> QED
  BY <1>4, <1>5 DEF file

\* Whatever prefix of the renames a loss of power leaves (tools/tune), every
\* file is complete, every kept score is of the sources it was measured on, and
\* a measured profile has its report.
THEOREM FilesAlwaysSound == Spec => []FilesSound
<1> QED
  BY SessionsInvariant, InvSound, PTL

LEMMA PublishesVetted ==
  SessionInv => \A s \in Sessions : session[s].step = "rename" /\ Target(s) = Profile =>
                  session[s].mode = "ProfileFor" \/ Vetted(session[s])
<1> SUFFICES ASSUME SessionInv, NEW s \in Sessions, session[s].step = "rename", Target(s) = Profile,
                    session[s].mode # "ProfileFor"
             PROVE  Vetted(session[s])
  OBVIOUS
<1> DEFINE r == session[s]
<1>1. Core(r, sources) /\ Vetting(r) /\ r.stage \in {"search", "format", "finish", "report", "publish"}
  BY SaverFacts DEF Saving
<1>2. Profile # Cache /\ Profile # Report(s) /\ Profile # Candidate(s)
  BY DEF Profile, Cache, Report, Candidate
<1>3. r.stage = "publish" /\ Installs(r)
  BY <1>1, <1>2, TargetFacts DEF Saving, Target, Scored
<1>4. r.mode \in CompleteModes /\ r.passed
  BY <1>3 DEF Installs
<1>5. r.formatted /\ ~ r.broken /\ Compares(r.evidence, r.profile, Comparisons)
  BY <1>1, <1>3, <1>4 DEF Vetting, Ending
<1> QED
  BY <1>1, <1>4, <1>5 DEF Vetted, Compares, Core, Measurements

\* The local profile changes hands only to a built-in one or to one that passed
\* every comparison on binaries of the sources its session started with.
THEOREM InstallationsVetted == Spec => InstallsVetted
<1>1. SessionInv /\ [Next]_vars =>
        [\A s \in Sessions : Changes(s) => session[s].mode = "ProfileFor" \/ Vetted(session[s])]_vars
  BY PublishesVetted DEF Changes
<1> QED
  BY <1>1, SessionsInvariant, PTL DEF Spec, InstallsVetted
=============================================================================

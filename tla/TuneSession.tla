---------------------------- MODULE TuneSession ----------------------------
(***************************************************************************)
(* tools/tune: sessions of the hardware tuner that measure candidates, keep  *)
(* scores for later sessions, and publish a report and a profile the build   *)
(* reads.  Sessions share a checkout, whose sources may be edited under them *)
(* and whose disk may fail; they crash, and the power may go.                *)
(*                                                                           *)
(* Process ids are not assumed distinct: containers that share a checkout    *)
(* and sessions after a reboot may have the same one, so a temporary name is *)
(* its ordinal or its time stamp.  The file system is external: a rename is  *)
(* seen at once, and renames become durable in the order they were made;     *)
(* contents survive a loss of power only when they were synchronised.        *)
(***************************************************************************)
EXTENDS Integers, Sequences

CONSTANTS
  Sessions,     \* positive numbers
  Modes,        \* the modes a first session is started in
  OtherModes,   \* a bound: those of a session beside or after another
  Stamps,       \* clock readings that name temporary caches
  Comparisons,  \* validation comparisons before an installation
  MaxPending,   \* a bound: renames that may not be durable yet
  MaxMishaps    \* a bound: edits of the sources, failed workers and file operations

ASSUME ComparisonsAssumption == Comparisons >= 2

VARIABLES
  sources,      \* the contents of the workspace; every edit makes new ones
  disk,         \* the durable directory: the file at every path
  journal,      \* renames that are seen and not yet durable, oldest first
  temps,        \* temporary files, leftovers included
  session,
  faults

vars == <<sources, disk, journal, temps, session, faults>>

Profile == <<"profile", 0>>         \* src/int/tuned_thresholds.rs
Cache == <<"cache", 0>>             \* score-cache.json
Report(s) == <<"report", s>>        \* report.json in the session's own directory
Candidate(s) == <<"candidate", s>>  \* the profile kept there when it is not installed
Paths == {Profile, Cache} \union {Report(s) : s \in Sessions} \union {Candidate(s) : s \in Sessions}

Absent == [there |-> FALSE, whole |-> FALSE, synced |-> FALSE, data |-> {}]
Created(data) == [there |-> TRUE, whole |-> FALSE, synced |-> FALSE, data |-> data]

\* The directory once the first n of the renames are durable; a reader sees it
\* after all of them.
FileAfter(n, renames, path) ==
  LET hits == {i \in 1 .. n : renames[i].path = path}
  IN IF hits = {} THEN disk[path] ELSE renames[CHOOSE i \in hits : \A j \in hits : j <= i].file
After(n, renames) == [p \in Paths |-> FileAfter(n, renames, p)]
Visible(path) == FileAfter(Len(journal), journal, path)

NotBuilt == -1

\* Profiles are the built-in one of the target and one other.
Idle ==
  [mode |-> "none", stage |-> "idle", step |-> "none", captured |-> 0, failed |-> FALSE, profile |-> "defaults",
   built |-> [p \in {"defaults", "other"} |-> NotBuilt], scores |-> {}, formatted |-> FALSE, round |-> 1,
   passed |-> TRUE, evidence |-> {}, broken |-> FALSE, ordinal |-> 0, tag |-> 0]
Ended == [Idle EXCEPT !.stage = "ended"]
Dead == [Idle EXCEPT !.stage = "dead"]

Init ==
  /\ sources = 0
  /\ disk = [p \in Paths |-> Absent]
  /\ journal = <<>>
  /\ temps = {}
  /\ session = [s \in Sessions |-> Idle]
  /\ faults = 0

Become(s, r) == session' = [session EXCEPT ![s] = r]
At(s, stages, step) == session[s].stage \in stages /\ session[s].step = step

\* What nothing reads any more is forgotten: it would only tell states apart.
Forgetting(r) ==
  [r EXCEPT !.built = Idle.built, !.scores = {}, !.failed = FALSE, !.formatted = r.passed /\ r.formatted, !.round = 1,
            !.evidence = IF r.passed THEN @ ELSE {}, !.broken = r.passed /\ r.broken,
            !.profile = IF r.passed THEN @ ELSE "defaults", !.captured = IF r.passed THEN @ ELSE 0]

Enter(r, stage) ==
  [(IF stage = "report" THEN Forgetting(r) ELSE r) EXCEPT
            !.stage = stage, !.tag = 0,
            !.step = CASE stage \in {"search", "confirm", "format", "validate"} -> "check"
                       [] stage \in {"finish", "report", "publish"} -> "create"
                       [] OTHER -> stage]

-----------------------------------------------------------------------------
(* CandidateHarness::check_context: a change or a failure is remembered.    *)

Checked_Forgets(r) == [r EXCEPT !.failed = sources # r.captured]

Checked(r) == [r EXCEPT !.failed = r.failed \/ sources # r.captured]
Holds(r) == ~Checked(r).failed

-----------------------------------------------------------------------------
(* TuneSession::start and the order of the phases.                          *)

CompleteModes == {"All", "ValidateOnly"}
StartingModes == {"ValidateOnly", "ValidateParallelOnly"}   \* need a starting profile

FirstStage(mode) ==
  CASE mode = "ProfileFor" -> "publish"
    [] mode = "ValidateOnly" -> "format"
    [] mode = "ValidateParallelOnly" -> "validate"
    [] OTHER -> "search"

\* A session captures the sources and loads the scores of earlier ones; a cache
\* that is missing or malformed counts as empty.  --profile-for installs a
\* built-in profile and measures nothing.  Which session starts first makes no
\* difference.
Opened(mode) ==
  [Idle EXCEPT !.mode = mode, !.captured = sources, !.scores = IF Visible(Cache).whole THEN Visible(Cache).data ELSE {},
               !.profile = IF mode \in StartingModes THEN "other" ELSE "defaults"]

Start(s, mode) ==
  /\ session[s].stage = "idle"
  /\ \A t \in Sessions : t < s => session[t].stage # "idle"
  /\ mode \in IF \A t \in Sessions : t >= s THEN Modes ELSE OtherModes
  /\ Become(s, Enter(IF mode = "ProfileFor" THEN [Idle EXCEPT !.mode = mode] ELSE Opened(mode), FirstStage(mode)))
  /\ UNCHANGED <<sources, disk, journal, temps, faults>>

AfterSearch(r) == Enter(r, IF r.mode \in {"All", "FormattingOnly"} THEN "format" ELSE "judge")

\* A score or a comparison that gave nothing: the search keeps the profile it
\* had, boundaries are not validated, and a validation fails, at once when it
\* was its first comparison.
Nothing(r) ==
  CASE r.stage \in {"search", "confirm"} -> AfterSearch(r)
    [] r.stage = "format" -> Enter([r EXCEPT !.formatted = FALSE], "judge")
    [] r.stage = "validate" -> Enter([r EXCEPT !.passed = FALSE], "finish")

\* Later comparisons but the last run whatever the others found.
Compared(r, ok) ==
  LET passed == r.passed /\ ok
      rounds == IF r.mode = "ValidateParallelOnly" THEN 1 ELSE Comparisons
  IN IF r.round = rounds \/ (r.round = rounds - 1 /\ ~passed) THEN Enter([r EXCEPT !.passed = passed], "finish")
     ELSE Enter([r EXCEPT !.passed = passed, !.round = @ + 1], "validate")

Given(r) == IF r.stage = "validate" /\ r.round > 1 THEN Compared(r, FALSE) ELSE Nothing(r)

-----------------------------------------------------------------------------
(* CandidateHarness::score_worker and compare_profiles.                      *)

Scored == {"search", "format"}
Measured == {"search", "confirm", "format", "validate"}

\* The profiles whose binaries a measurement runs.
Compiled(r) ==
  CASE r.stage = "search" -> {"other"}
    [] r.stage = "confirm" -> {"defaults", "other"}
    [] r.stage = "format" -> {r.profile}
    [] r.stage = "validate" -> {"defaults", r.profile}

Key(r) == [of |-> r.stage, profile |-> IF r.stage = "search" THEN "other" ELSE r.profile, context |-> r.captured]
Known(r) == \E e \in r.scores : e.key = Key(r)

\* A candidate is confirmed when its screening score makes the shortlist.
Screened(r) == {AfterSearch(r)} \union (IF r.mode = "FormattingOnly" THEN {} ELSE {Enter(r, "confirm")})

\* Formatting is validated without a worker when no width has a boundary.
CheckBefore(s) ==
  /\ At(s, Measured, "check")
  /\ LET r == session[s] IN
     \/ r.stage = "format" /\ Become(s, Enter([r EXCEPT !.formatted = TRUE], "judge"))
     \/ ~Holds(r) /\ Become(s, Given(Checked(r)))
     \/ Holds(r) /\ r.stage = "search" /\ Known(r) /\ \E next \in Screened(r) : Become(s, next)
     \/ Holds(r) /\ ~(r.stage = "search" /\ Known(r)) /\ Become(s, [r EXCEPT !.step = "build"])
  /\ UNCHANGED <<sources, disk, journal, temps, faults>>

\* Executables::prepare: Cargo compiles the sources there are now, once for each
\* profile of the session; the workers then run binaries nothing can change.
Build(s) ==
  /\ At(s, Measured, "build")
  /\ LET r == session[s]
         missing == {p \in Compiled(r) : r.built[p] = NotBuilt}
     IN \/ missing = {} /\ Become(s, [r EXCEPT !.step = "recheck"])
        \/ \E p \in missing :
             /\ p = "other" => "defaults" \notin missing
             /\ Become(s, [r EXCEPT !.built[p] = sources, !.step = IF missing = {p} THEN "recheck" ELSE "build"])
  /\ UNCHANGED <<sources, disk, journal, temps, faults>>

\* A build or a worker fails.
WorkerFails(s) ==
  /\ At(s, Measured, "build")
  /\ sources + faults < MaxMishaps /\ faults' = faults + 1
  /\ Become(s, Given([session[s] EXCEPT !.failed = TRUE, !.broken = TRUE]))
  /\ UNCHANGED <<sources, disk, journal, temps>>

Inserted(r) ==
  {e \in r.scores : e.key # Key(r)} \union {[key |-> Key(r), built |-> {r.built[p] : p \in Compiled(r)}]}

\* The context as the measurement leaves it decides whether anything is kept.
CheckAfter(s) ==
  /\ At(s, Measured, "recheck")
  /\ LET r == session[s] IN
     \/ ~Holds(r) /\ Become(s, Given(Checked(r)))
     \/ Holds(r) /\ r.stage \in Scored /\ Become(s, [r EXCEPT !.scores = Inserted(r), !.step = "create"])
     \/ Holds(r) /\ r.stage = "confirm"
          /\ \E p \in {"defaults", "other"} : Become(s, AfterSearch([r EXCEPT !.profile = p]))
     \/ Holds(r) /\ r.stage = "validate"
          /\ \E ok \in BOOLEAN :
               Become(s, Compared([r EXCEPT !.evidence = @ \union
                                     {[round |-> r.round, profile |-> p, built |-> r.built[p], seen |-> sources] : p \in Compiled(r)}], ok))
  /\ UNCHANGED <<sources, disk, journal, temps, faults>>

-----------------------------------------------------------------------------
(* TuneSession::run after the phases.                                       *)

\* The context, the profile, its formatting and the mode decide whether the
\* comparisons with the defaults are made at all.
Judge(s) ==
  /\ At(s, {"judge"}, "judge")
  /\ LET r == Checked(session[s])
         worthy == ~r.failed /\ r.formatted /\ r.mode \in CompleteModes
     IN \/ worthy /\ Become(s, Enter(r, "validate"))
        \/ Become(s, Enter([r EXCEPT !.passed = FALSE], "finish"))     \* an invalid profile too
  /\ UNCHANGED <<sources, disk, journal, temps, faults>>

-----------------------------------------------------------------------------
(* Writing a file: ScoreStore::save and write_report, write_source.  Each    *)
(* creates a temporary file, writes, synchronises and renames it; after an   *)
(* error it removes what it created.                                         *)

Installs(r) == r.mode = "ProfileFor" \/ (r.passed /\ r.mode \in CompleteModes)

Target(s) ==
  CASE session[s].stage \in Scored \union {"finish"} -> Cache
    [] session[s].stage = "report" -> Report(s)
    [] session[s].stage = "publish" -> IF Installs(session[s]) THEN Profile ELSE Candidate(s)

\* Who wrote a profile or a report; nobody measured a built-in profile.
Content(s) ==
  IF Target(s) = Cache THEN session[s].scores ELSE IF session[s].mode = "ProfileFor" THEN {} ELSE {s}

\* What follows a save that ended, well or not: a cache is saved if it can be,
\* a report must be, and a profile is the last thing.
Saved(r, ok) ==
  CASE r.stage = "search" -> Screened(r)
    [] r.stage = "format" -> {Enter([r EXCEPT !.formatted = TRUE], "judge")}
    [] r.stage = "finish" -> {Enter(r, "report")}
    [] r.stage = "report" -> {IF ok THEN Enter(r, "publish") ELSE Ended}
    [] r.stage = "publish" -> {Ended}

Taken(path, tag) == \E t \in temps : t.path = path /\ t.tag = tag
Own(s) == CHOOSE t \in temps : t.path = Target(s) /\ t.tag = session[s].tag

\* The name a session tries: the clock's, the next ordinal, or the only one of
\* its directory.  Clock readings nobody has used yet are alike.
Names(s) ==
  CASE Target(s) = Cache -> {n \in Stamps : \A m \in Stamps : m < n => Taken(Cache, m)}
    [] Target(s) = Report(s) -> {0}
    [] OTHER -> {session[s].ordinal}

Used(s) == session[s].ordinal + (IF session[s].stage = "publish" THEN 1 ELSE 0)

\* Creation is exclusive.  A name that is taken skips the save of a cache, and
\* sends a profile to the next ordinal.
Create(s) ==
  \E tag \in Names(s) :
    IF ~Taken(Target(s), tag)
    THEN /\ temps' = temps \union {[path |-> Target(s), tag |-> tag, file |-> Created(Content(s))]}
         /\ Become(s, [session[s] EXCEPT !.step = "fill", !.tag = tag, !.ordinal = Used(s)])
    ELSE /\ UNCHANGED temps
         /\ IF session[s].stage = "publish" THEN Become(s, [session[s] EXCEPT !.ordinal = Used(s)])
            ELSE \E next \in Saved(session[s], FALSE) : Become(s, next)

CreateTemporary(s) ==
  /\ session[s].step = "create" /\ Create(s)
  /\ UNCHANGED <<sources, disk, journal, faults>>

\* write_all and sync_all: between them the file is only its owner's.
Filled_Unsynced(file) == [file EXCEPT !.whole = TRUE]

Filled(file) == [file EXCEPT !.whole = TRUE, !.synced = TRUE]

FillTemporary(s) ==
  /\ session[s].step = "fill"
  /\ temps' = (temps \ {Own(s)}) \union {[Own(s) EXCEPT !.file = Filled(@)]}
  /\ Become(s, [session[s] EXCEPT !.step = "rename"])
  /\ UNCHANGED <<sources, disk, journal, faults>>

RenameTemporary(s) ==
  /\ session[s].step = "rename"
  /\ LET renames == Append(journal, [path |-> Target(s), file |-> Own(s).file])
         settled == IF Len(renames) > MaxPending THEN 1 ELSE 0
     IN disk' = After(settled, renames) /\ journal' = SubSeq(renames, settled + 1, Len(renames))
  /\ temps' = temps \ {Own(s)}
  /\ \E next \in Saved(session[s], TRUE) : Become(s, next)
  /\ UNCHANGED <<sources, faults>>

FileOperationFails(s) ==
  /\ session[s].step \in {"create", "fill", "rename"}
  /\ sources + faults < MaxMishaps /\ faults' = faults + 1
  /\ temps' = IF session[s].step = "create" THEN temps ELSE temps \ {Own(s)}
  /\ \E next \in Saved(session[s], FALSE) : Become(s, next)
  /\ UNCHANGED <<sources, disk, journal>>

-----------------------------------------------------------------------------
(* The surroundings.                                                        *)

Edit ==
  /\ sources + faults < MaxMishaps /\ sources' = sources + 1
  /\ UNCHANGED <<disk, journal, temps, session, faults>>

Running(s) == session[s].stage \notin {"idle", "ended", "dead"}

\* What nobody will write or rename again: its contents are never read.
Leftover(t) == [t EXCEPT !.file = Created({})]

\* A process ends with nothing cleaned up.
Crash(s) ==
  /\ Running(s) /\ Become(s, Dead)
  /\ temps' = IF session[s].step \in {"fill", "rename"}
              THEN (temps \ {Own(s)}) \union {Leftover(Own(s))} ELSE temps
  /\ UNCHANGED <<sources, disk, journal, faults>>

Torn(file) == IF file.synced THEN file ELSE [file EXCEPT !.whole = FALSE]

\* The renames that had reached the disk are the oldest of the pending ones.
PowerLoss ==
  /\ \E s \in Sessions : Running(s)
  /\ session' = [s \in Sessions |-> IF Running(s) THEN Dead ELSE session[s]]
  /\ \E n \in 0 .. Len(journal) : disk' = [p \in Paths |-> Torn(After(n, journal)[p])]
  /\ journal' = <<>>
  /\ temps' = {Leftover(t) : t \in temps}
  /\ UNCHANGED <<sources, faults>>

Steps(s) ==
  \/ \E mode \in Modes \union OtherModes : Start(s, mode)
  \/ CheckBefore(s) \/ Build(s) \/ WorkerFails(s) \/ CheckAfter(s) \/ Judge(s)
  \/ CreateTemporary(s) \/ FillTemporary(s) \/ RenameTemporary(s) \/ FileOperationFails(s)

Next ==
  \/ \E s \in Sessions : Steps(s) \/ Crash(s)
  \/ Edit \/ PowerLoss

Spec == Init /\ [][Next]_vars

-----------------------------------------------------------------------------
(* Properties.                                                              *)

\* A build, a session that starts, and a restart after a crash or a loss of
\* power find only complete files, and every score under the sources it was
\* measured on; a measured profile is never there without its report.
FilesSound ==
  \A n \in 0 .. Len(journal) :
    LET file == After(n, journal) IN
    /\ \A p \in Paths : file[p].there => file[p].whole
    /\ \A e \in file[Cache].data : e.built = {e.key.context}
    /\ \A s \in file[Profile].data : file[Report(s)].there /\ s \in file[Report(s)].data

\* The local profile changes hands only to a built-in profile or to one that a
\* complete session compared with the defaults in every required round, on
\* binaries of the sources it started with, and none of whose measurements
\* failed.
Changes(s) == session[s].step = "rename" /\ session'[s].stage = "ended" /\ Target(s) = Profile /\ journal' # journal

Vetted(r) ==
  /\ r.mode \in CompleteModes /\ r.formatted /\ ~r.broken
  /\ \A round \in 1 .. Comparisons, p \in {"defaults", r.profile} :
       \E e \in r.evidence : e.round = round /\ e.profile = p
  /\ \A e \in r.evidence : e.built = r.captured /\ e.seen = r.captured

InstallsVetted ==
  [][\A s \in Sessions : Changes(s) => session[s].mode = "ProfileFor" \/ Vetted(session[s])]_vars
=============================================================================

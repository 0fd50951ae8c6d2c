------------------------------- MODULE Smoke --------------------------------
(***************************************************************************)
(* The deployment smokes: smoke_core_deployment.py, which runs a fixed     *)
(* script of docker commands against a deployment of its own with          *)
(* deployment_replay_probe.py inside it, and smoke_optional_profiles.py,   *)
(* which watches the core while optional profiles are tried.  What they    *)
(* are about to find is a deployment that may have any one defect; any     *)
(* command may fail or run out of time, and the core may be written to or  *)
(* become unready at any time.                                             *)
(***************************************************************************)
EXTENDS Integers, Sequences, FiniteSets, Nothing

CONSTANTS
    Expectations,   \* compatibility_expectation of each profile, in their order
    MaxDisturbed    \* bound: writes to the core's tables and changes of its readiness

\* OptionalSmokePolicy
Expectation == {"actual_runtime", "blocked", "unsupported"}
ASSUME PolicyAssumption == Expectations \in Seq(Expectation) /\ Len(Expectations) > 0

VARIABLES
    defect,    \* what is wrong with the deployment
    position,  \* the next command of the core smoke
    stack,     \* [postgres, core, stuck, volume] of its compose project
    smoke      \* the core smoke: running, failing, failed, verified
smokeVars == <<defect, position, stack, smoke>>

VARIABLES
    matrix,    \* what the optional smoke does, and what it has read
    boundary,  \* whether each profile fails closed without its configuration
    core,      \* [ready, revision, rows] of the core that it watches
    output,    \* the file at --output, or None: a MatrixReport, or somebody else's
    tainted,   \* history: profiles during which the core's tables were written
    disturbed
matrixVars == <<matrix, boundary, core, output, tainted, disturbed>>

-----------------------------------------------------------------------------
(* The deployment under test.                                              *)

Defects == {"none", "volatile_volume", "forgets_commits", "readiness_lies", "liveness_asks_the_database",
            "never_reconnects", "migrates_once", "cycle_differs", "unhardened", "tells_secrets"}

\* A volume: whether its schema is there, and the version of the probe's run.
EmptyVolume == [schema |-> FALSE, run |-> 0]
Removed == [postgres |-> FALSE, core |-> FALSE, stuck |-> FALSE, volume |-> None]

\* What /readyz says.
ReadyzIs200 ==
    /\ stack.core
    /\ \/ defect = "readiness_lies"
       \/ stack.postgres /\ stack.volume.schema /\ ~stack.stuck

\* What /healthz says.
HealthzIs200 == stack.core /\ (defect = "liveness_asks_the_database" => stack.postgres)

\* execute_stage of the probe: each stage is repeatable, and none goes on from
\* another state than its own or the one before it.  Versions: 1 is the run as
\* created, 2 running, 3 succeeded.
WriteRun(run) == IF run \in {0, 2} THEN 2 ELSE None
ReplayRun(run) == IF run \in {2, 3} THEN 3 ELSE None
VerifyRun(run) == IF run = 3 THEN 3 ELSE None
StageOf(command, run) ==
    CASE command = "write" -> WriteRun(run)
      [] command = "replay" -> ReplayRun(run)
      [] command = "verify" -> VerifyRun(run)
ProbeStages == {"write", "replay", "verify"}

SmokeInit == defect \in Defects /\ position = 1 /\ stack = Removed /\ smoke = "running"

-----------------------------------------------------------------------------
(* smoke_core_deployment.py                                                *)

\* _exercise_deployment, and a mutant that verifies in the life it wrote in.
ScriptOfOneLife ==
    <<"build", "up_postgres", "migrate", "migrate", "up_core", "healthz_200", "readyz_200", "cycle",
      "write", "restart_core", "readyz_200", "stop_postgres", "healthz_200", "readyz_503",
      "start_postgres", "readyz_200", "replay", "verify", "hardening", "evidence">>
Script ==
    <<"build", "up_postgres", "migrate", "migrate", "up_core", "healthz_200", "readyz_200", "cycle",
      "write", "restart_core", "readyz_200", "stop_postgres", "healthz_200", "readyz_503",
      "start_postgres", "readyz_200", "down", "up_postgres", "migrate", "up_core", "readyz_200",
      "replay", "verify", "hardening", "evidence">>

\* What a command makes of the deployment.
StartsPostgres ==
    [stack EXCEPT !.postgres = TRUE, !.volume = IF @ = None THEN EmptyVolume ELSE @]
Effect(command) ==
    CASE command \in {"up_postgres", "start_postgres"} -> StartsPostgres
      [] command = "migrate" -> [stack EXCEPT !.volume.schema = TRUE]
      [] command = "up_core" -> [stack EXCEPT !.core = TRUE, !.stuck = FALSE]
      [] command = "restart_core" -> [stack EXCEPT !.stuck = FALSE]
      [] command = "stop_postgres" -> [stack EXCEPT !.postgres = FALSE, !.stuck = (defect = "never_reconnects")]
      [] command = "down" -> [Removed EXCEPT !.volume = IF defect = "volatile_volume" THEN None ELSE stack.volume]
      [] command \in ProbeStages /\ defect # "forgets_commits" ->
            [stack EXCEPT !.volume.run = StageOf(command, @)]
      [] OTHER -> stack

\* _verify_runtime_hardening and _collect_non_secret_evidence look at what the
\* defects are about; no command's output may hold a secret.
CommandPasses(command) ==
    CASE command = "migrate" -> stack.postgres /\ ~(defect = "migrates_once" /\ stack.volume.schema)
      [] command = "up_core" -> stack.postgres /\ (stack.volume.schema \/ defect = "readiness_lies")
      [] command = "healthz_200" -> HealthzIs200
      [] command = "readyz_200" -> ReadyzIs200
      [] command = "readyz_503" -> stack.core /\ ~ReadyzIs200
      [] command = "cycle" -> defect # "cycle_differs"
      [] command \in ProbeStages -> stack.core /\ stack.postgres /\ StageOf(command, stack.volume.run) # None
      [] command = "hardening" -> defect # "unhardened"
      [] command = "evidence" -> defect # "tells_secrets"
      [] OTHER -> TRUE

\* SubprocessRunner.run and wait_for_endpoint.
CoreStep ==
    /\ smoke = "running" /\ position <= Len(Script)
    /\ CommandPasses(Script[position])
    /\ stack' = Effect(Script[position])
    /\ position' = position + 1
    /\ UNCHANGED <<defect, smoke>>

\* A check or a command that fails, with or without its effect, a deadline or
\* an interruption ends the script; the cleanup follows.
CoreStepFails ==
    /\ smoke = "running" /\ position <= Len(Script)
    /\ \/ CommandPasses(Script[position]) /\ stack' = Effect(Script[position])
       \/ UNCHANGED stack
    /\ smoke' = "failing"
    /\ UNCHANGED <<defect, position>>

\* exercise_deployment removes the project with its volume in any case; main
\* reports success only if that worked, too.
Dispose(works) ==
    /\ smoke = "failing" \/ (smoke = "running" /\ position > Len(Script))
    /\ stack' = IF works THEN Removed ELSE stack
    /\ smoke' = IF works /\ smoke = "running" THEN "verified" ELSE "failed"
    /\ UNCHANGED <<defect, position>>

SmokeNext == CoreStep \/ CoreStepFails \/ \E works \in BOOLEAN : Dispose(works)
SmokeSpec == SmokeInit /\ [][SmokeNext]_smokeVars

-----------------------------------------------------------------------------
(* smoke_optional_profiles.py                                              *)

\* ProfileObservation: what observe may say of a profile, by its expectation.
Observation ==
    [actual_runtime |-> [status |-> "actual_passed", exit |-> 0],
     blocked |-> [status |-> "blocked", exit |-> 78],
     unsupported |-> [status |-> "unsupported", exit |-> None]]

\* _exercise_profile
Exercise == <<"readiness", "counts", "observe", "readiness", "counts", "readiness">>

\* ProfileSmokeResult, while it is being filled.
EmptyResult == [compatibility |-> None, readiness |-> <<>>, counts |-> <<>>]

MatrixInit ==
    /\ matrix = [at |-> "start", step |-> 1, result |-> EmptyResult, results |-> <<>>, failed |-> FALSE]
    /\ boundary \in [DOMAIN Expectations -> BOOLEAN]
    /\ core = [ready |-> TRUE, revision |-> 1, rows |-> 0]
    /\ output \in {None, [by |-> "others"]}
    /\ tainted = {} /\ disturbed = 0

\* _start_core, once DockerCiHarness has found the CI environment it insists on.
StartMatrix ==
    /\ matrix.at = "start"
    /\ matrix' = [matrix EXCEPT !.at = "profiles"]
    /\ UNCHANGED <<boundary, core, output, tainted, disturbed>>

Profile == Len(matrix.results) + 1
Reads(what) == matrix.at = "profiles" /\ matrix.step <= Len(Exercise) /\ Exercise[matrix.step] = what

\* readiness: anything but "alive" and current is an error.
ReadReadiness ==
    /\ Reads("readiness") /\ core.ready
    /\ matrix' = [matrix EXCEPT !.step = @ + 1, !.result.readiness = Append(@, core.revision)]
    /\ UNCHANGED <<boundary, core, output, tainted, disturbed>>

\* canonical_counts
ReadCounts ==
    /\ Reads("counts")
    /\ matrix' = [matrix EXCEPT !.step = @ + 1, !.result.counts = Append(@, core.rows)]
    /\ UNCHANGED <<boundary, core, output, tainted, disturbed>>

\* observe: the boundary of a blocked profile is tried (_run_fail_closed_auth_boundary);
\* what CI claims is taken for the profiles it ran itself, and no hardware for the others.
Observe ==
    /\ Reads("observe")
    /\ Expectations[Profile] = "blocked" => boundary[Profile]
    /\ matrix' = [matrix EXCEPT !.step = @ + 1, !.result.compatibility = Observation[Expectations[Profile]]]
    /\ UNCHANGED <<boundary, core, output, tainted, disturbed>>

\* The comparisons of _exercise_profile, which _verify_profile repeats.
Constant(s) == \A i, j \in DOMAIN s : s[i] = s[j]
ProfileIsVerified(k, r) ==
    /\ r.compatibility = Observation[Expectations[k]]
    /\ Constant(r.readiness) /\ Constant(r.counts)

FinishProfile ==
    /\ matrix.at = "profiles" /\ matrix.step > Len(Exercise)
    /\ Constant(matrix.result.readiness) /\ Constant(matrix.result.counts)
    /\ matrix' = [matrix EXCEPT !.results = Append(@, matrix.result), !.result = EmptyResult, !.step = 1,
                                !.at = IF Profile = Len(Expectations) THEN "build" ELSE "profiles"]
    /\ UNCHANGED <<boundary, core, output, tainted, disturbed>>

\* OptionalSmokeReport of build_report, and the derived claims of verify_report.
WithStatus(status) == Cardinality({k \in DOMAIN matrix.results : matrix.results[k].compatibility.status = status})
MatrixReport ==
    [by |-> "smoke", results |-> matrix.results, actual |-> WithStatus("actual_passed"),
     blocked |-> WithStatus("blocked"), unsupported |-> WithStatus("unsupported")]
BuildReport ==
    /\ matrix.at = "build"
    /\ \A k \in DOMAIN Expectations : ProfileIsVerified(k, matrix.results[k])
    /\ MatrixReport.unsupported = Len(Expectations) - MatrixReport.actual - MatrixReport.blocked
    /\ matrix' = [matrix EXCEPT !.at = "write"]
    /\ UNCHANGED <<boundary, core, output, tainted, disturbed>>

\* _write_report looks, writes a temporary file, and links it: a link never
\* replaces a file.
LookForReport ==
    /\ matrix.at = "write" /\ output = None
    /\ matrix' = [matrix EXCEPT !.at = "link"]
    /\ UNCHANGED <<boundary, core, output, tainted, disturbed>>

LinkReport ==
    /\ matrix.at = "link" /\ output = None
    /\ output' = MatrixReport
    /\ matrix' = [matrix EXCEPT !.at = "linked"]
    /\ UNCHANGED <<boundary, core, tainted, disturbed>>

\* _run_owned_ci_smoke: whatever failed, even behind the link, the core is
\* taken down; the report stays.
MatrixFails ==
    /\ matrix.at \notin {"down", "ended"}
    /\ matrix' = [matrix EXCEPT !.at = "down", !.failed = TRUE]
    /\ UNCHANGED <<boundary, core, output, tainted, disturbed>>

MatrixWritten ==
    /\ matrix.at = "linked"
    /\ matrix' = [matrix EXCEPT !.at = "down"]
    /\ UNCHANGED <<boundary, core, output, tainted, disturbed>>

TakeDown(works) ==
    /\ matrix.at = "down"
    /\ matrix' = [matrix EXCEPT !.at = "ended", !.failed = @ \/ ~works]
    /\ UNCHANGED <<boundary, core, output, tainted, disturbed>>

\* Rows are only ever added to the canonical tables.
Disturb ==
    /\ disturbed < MaxDisturbed /\ matrix.at = "profiles"
    /\ disturbed' = disturbed + 1
    /\ \/ /\ core' = [core EXCEPT !.rows = @ + 1]
          /\ tainted' = IF Reads("observe") THEN tainted \cup {Profile} ELSE tainted
       \/ /\ core' \in {[core EXCEPT !.ready = ~@], [core EXCEPT !.revision = @ + 1]}
          /\ UNCHANGED tainted
    /\ UNCHANGED <<matrix, boundary, output>>

SomebodyWrites ==
    /\ output = None /\ output' = [by |-> "others"]
    /\ UNCHANGED <<matrix, boundary, core, tainted, disturbed>>

MatrixNext ==
    \/ StartMatrix \/ ReadReadiness \/ ReadCounts \/ Observe \/ FinishProfile
    \/ BuildReport \/ LookForReport \/ LinkReport \/ MatrixWritten \/ MatrixFails
    \/ \E works \in BOOLEAN : TakeDown(works)
    \/ Disturb \/ SomebodyWrites
MatrixSpec == MatrixInit /\ [][MatrixNext]_matrixVars

-----------------------------------------------------------------------------
\* A core smoke that reports "verified" met a deployment without any of the
\* defects, and left nothing of it behind; whichever command fails, nothing
\* else is ever reported (exercise_deployment and main).
VerifiedIsSound == smoke = "verified" => defect = "none" /\ stack = Removed

\* A report of the optional smoke says of no profile that it left the core
\* alone if the core's tables were written to while it was tried, nor that
\* one fails closed that does not, and claims an actual run of exactly the
\* profiles CI claims; even if the smoke itself failed later
\* (_exercise_profile, verify_report, _write_report).
ReportIsTrue ==
    output # None /\ output.by = "smoke" =>
        /\ tainted = {}
        /\ Len(output.results) = Len(Expectations)
        /\ \A k \in DOMAIN Expectations :
              /\ output.results[k].compatibility.status = "blocked" => boundary[k]
              /\ output.results[k].compatibility.status = "actual_passed" <=> Expectations[k] = "actual_runtime"

\* A file at --output is never replaced, whoever wrote it and when.
ReportStays == [][output # None => output' = output]_matrixVars
=============================================================================

---------------------------- MODULE ConsoleRuns ----------------------------
(***************************************************************************)
(* Research started from the local console.  A request passes the start    *)
(* gate (entrypoints/api/gui_research.py), asks for a snapshot, waits for  *)
(* it while running the worker itself, and only then queues the research   *)
(* run (adapters/postgres/gui_research.py).  A supervisor thread           *)
(* (entrypoints/gui.py) runs the same worker under the same lock.  The     *)
(* gate lives in the process; jobs and runs survive it.  A browser follows *)
(* a run by asking for the events after the last it has.                   *)
(***************************************************************************)
EXTENDS Integers, Sequences, FiniteSets, SequencesExt, Nothing

CONSTANTS
    Tabs,               \* threads that serve POST /research/runs
    StartLimit, StartWindow, SnapshotWait,
    JobAttempts,        \* max_attempts of a job
    Verdicts,           \* of a research result: succeeded, degraded, failed
    MaxConsoleTime, MaxStarts, MaxRestarts    \* bounds

\* A job is named by its number.
ASSUME StartAssumption ==
    /\ StartLimit > 0 /\ StartWindow > 0 /\ SnapshotWait > 0 /\ JobAttempts > 0
    /\ None \notin Nat

VARIABLES
    conTime,       \* the monotonic clock
    gate,          \* _ResearchStartGate: starting, active, starts
    posts,         \* [Tabs -> the request under way]
    conJobs,       \* jobs in the order they were queued
    worker,        \* the job handled under _worker_lock, or None
    follower,      \* the events a browser has, per job
    begun, restarts
consoleVars == <<conTime, gate, posts, conJobs, worker, follower, begun, restarts>>

Waiting == [step |-> "none"]
OpenGate == [starting |-> FALSE, active |-> None, starts |-> <<>>]

ConsoleInit ==
    /\ conTime = 0 /\ gate = OpenGate
    /\ posts = [b \in Tabs |-> Waiting]
    /\ conJobs = <<>> /\ worker = None /\ follower = <<>>
    /\ begun = 0 /\ restarts = 0

\* The monotonic clock.
ConsoleTick ==
    /\ conTime < MaxConsoleTime
    /\ conTime' = conTime + 1
    /\ UNCHANGED <<gate, posts, conJobs, worker, follower, begun, restarts>>

-----------------------------------------------------------------------------
(* What the console shows of a run.                                        *)

Finished(j) == conJobs[j].status \in {"succeeded", "dead_letter"}

\* _gui_status, and read: the result's verdict once there is one.
GuiStatus(j) ==
    CASE conJobs[j].status = "succeeded" -> conJobs[j].verdict
      [] conJobs[j].status = "dead_letter" -> "failed"
      [] conJobs[j].status = "leased" -> "running"
      [] conJobs[j].status = "queued" -> "queued"

\* _active_run: also a run that cannot be read.
ActiveRun(j, unreadable) == unreadable \/ GuiStatus(j) \in {"queued", "running"}

\* _project_events
ProjectEvents(j) ==
    <<"queued">>
      \o (IF conJobs[j].attempts > 0 \/ conJobs[j].status # "queued" THEN <<"running">> ELSE <<>>)
      \o (IF Finished(j) THEN <<GuiStatus(j)>> ELSE <<>>)

\* events after Last-Event-ID, at most limit; the stream ends with a verdict.
Follow(j, limit) ==
    /\ conJobs[j].kind = "research"
    /\ LET events == ProjectEvents(j)
           from == Len(follower[j])
           to == IF from + limit < Len(events) THEN from + limit ELSE Len(events)
       IN  /\ from < to
           /\ follower' = [follower EXCEPT ![j] = @ \o SubSeq(events, from + 1, to)]
    /\ UNCHANGED <<conTime, gate, posts, conJobs, worker, begun, restarts>>

-----------------------------------------------------------------------------
(* _CreateEndpoint and _ResearchStartGate.                                 *)

Recent(now) == SelectSeq(gate.starts, LAMBDA t : now - t < StartWindow)

\* Mutant: the gate forgets the run once its start was accepted.
BlockedByStart(unreadable) == gate.starting
\* begin answers CONFLICT.
Blocked(unreadable) ==
    \/ gate.starting
    \/ gate.active # None /\ ActiveRun(gate.active, unreadable)

BeginStart(b, unreadable) ==
    /\ posts[b] = Waiting /\ begun < MaxStarts
    /\ ~Blocked(unreadable)
    /\ IF Len(Recent(conTime)) >= StartLimit
       THEN /\ gate' = [gate EXCEPT !.starts = Recent(conTime), !.active = None]
            /\ gate' # gate
            /\ UNCHANGED <<posts, begun>>
       ELSE /\ gate' = [starting |-> TRUE, active |-> None, starts |-> Append(Recent(conTime), conTime)]
            /\ posts' = [posts EXCEPT ![b] = [step |-> "snapshot"]]
            /\ begun' = begun + 1
    /\ UNCHANGED <<conTime, conJobs, worker, follower, restarts>>

\* cancel_start: the request failed, was invalid or raised.
CancelStart(b) ==
    /\ gate' = [gate EXCEPT !.starting = FALSE]
    /\ posts' = [posts EXCEPT ![b] = Waiting]

\* accept
AcceptStart(b) ==
    /\ posts[b].step = "accept"
    /\ gate' = [gate EXCEPT !.active = posts[b].run, !.starting = FALSE]
    /\ posts' = [posts EXCEPT ![b] = Waiting]
    /\ UNCHANGED <<conTime, conJobs, worker, follower, begun, restarts>>

-----------------------------------------------------------------------------
(* PostgresGuiResearchFacade.submit.                                       *)

NewJob(kind, known) ==
    [kind |-> kind, status |-> "queued", attempts |-> 0, verdict |-> None, known |-> known, life |-> restarts]

\* _submit_snapshot
SubmitSnapshot(b) ==
    /\ posts[b].step = "snapshot"
    /\ conJobs' = Append(conJobs, NewJob("snapshot", TRUE))
    /\ follower' = Append(follower, <<>>)
    /\ posts' = [posts EXCEPT ![b] =
                   [step |-> "wait", job |-> Len(conJobs) + 1, until |-> conTime + SnapshotWait]]
    /\ UNCHANGED <<conTime, gate, worker, begun, restarts>>

\* The run's link to its snapshot, which the transaction that completes the
\* snapshot's job writes with it, and no other.
Linked(j) == conJobs[j].kind = "snapshot" /\ conJobs[j].status = "succeeded"

\* _wait_for_snapshot: look, then work, until the deadline.  _snapshot_status
\* looks at the link first, and without one at the job's end.
SnapshotReady(b) ==
    /\ posts[b].step = "wait" /\ conTime < posts[b].until
    /\ Linked(posts[b].job)
    /\ posts' = [posts EXCEPT ![b] = [step |-> "request"]]
    /\ UNCHANGED <<conTime, gate, conJobs, worker, follower, begun, restarts>>

SnapshotRefused(b) ==
    /\ posts[b].step = "wait"
    /\ \/ ~Linked(posts[b].job) /\ conJobs[posts[b].job].status = "dead_letter"
       \/ conTime >= posts[b].until
    /\ CancelStart(b)
    /\ UNCHANGED <<conTime, conJobs, worker, follower, begun, restarts>>

\* request_research_run commits, and the answer reaches the endpoint or not.
RequestRun(b, answered) ==
    /\ posts[b].step = "request"
    /\ conJobs' = Append(conJobs, NewJob("research", answered))
    /\ follower' = Append(follower, <<>>)
    /\ IF answered
       THEN posts' = [posts EXCEPT ![b] = [step |-> "accept", run |-> Len(conJobs) + 1]] /\ UNCHANGED gate
       ELSE CancelStart(b)
    /\ UNCHANGED <<conTime, worker, begun, restarts>>

SubmitFails(b) ==
    /\ posts[b].step \in {"snapshot", "request"}
    /\ CancelStart(b)
    /\ UNCHANGED <<conTime, conJobs, worker, follower, begun, restarts>>

-----------------------------------------------------------------------------
(* worker_once, by the supervisor or by a request that waits.              *)

\* Whoever has the lock claims a job of any kind.
Claim(j) ==
    /\ worker = None
    /\ conJobs[j].status = "queued"
    /\ conJobs' = [conJobs EXCEPT ![j].status = "leased", ![j].attempts = @ + 1]
    /\ worker' = j
    /\ UNCHANGED <<conTime, gate, posts, follower, begun, restarts>>

\* The handler's outcome is committed and the lock released; what failed is
\* tried again until its attempts are used up.
Handle(verdict) ==
    /\ worker # None
    /\ verdict \notin {None, "succeeded"} => conJobs[worker].kind = "research"
    /\ LET j == worker
       IN  conJobs' = [conJobs EXCEPT ![j] =
             IF verdict # None THEN [@ EXCEPT !.status = "succeeded", !.verdict = verdict]
             ELSE IF @.attempts >= JobAttempts THEN [@ EXCEPT !.status = "dead_letter"]
             ELSE [@ EXCEPT !.status = "queued"]]
    /\ worker' = None
    /\ UNCHANGED <<conTime, gate, posts, follower, begun, restarts>>

\* The console is stopped and started; leases of the old process run out.
RestartConsole ==
    /\ restarts < MaxRestarts
    /\ restarts' = restarts + 1
    /\ gate' = OpenGate /\ worker' = None
    /\ posts' = [b \in Tabs |-> Waiting]
    /\ conJobs' = [j \in DOMAIN conJobs |->
         IF conJobs[j].status # "leased" THEN conJobs[j]
         ELSE IF conJobs[j].attempts >= JobAttempts THEN [conJobs[j] EXCEPT !.status = "dead_letter"]
         ELSE [conJobs[j] EXCEPT !.status = "queued"]]
    /\ UNCHANGED <<conTime, follower, begun>>

ConsoleNext ==
    \/ ConsoleTick \/ RestartConsole
    \/ \E verdict \in {None} \cup Verdicts : Handle(verdict)
    \/ \E j \in DOMAIN conJobs : \E limit \in {1, 3} : Follow(j, limit)
    \/ \E j \in DOMAIN conJobs : Claim(j)
    \/ \E b \in Tabs :
         \/ \E unreadable \in BOOLEAN : BeginStart(b, unreadable)
         \/ SubmitSnapshot(b) \/ SnapshotReady(b) \/ SnapshotRefused(b)
         \/ \E answered \in BOOLEAN : RequestRun(b, answered)
         \/ SubmitFails(b) \/ AcceptStart(b)
ConsoleSpec == ConsoleInit /\ [][ConsoleNext]_consoleVars

-----------------------------------------------------------------------------
(* Properties.                                                             *)

\* One run at a time is started from a console: whatever the order of
\* requests, late snapshots, retries and reads that fail, the unfinished runs
\* whose start was answered, and the request on its way to the next one, are
\* at most one within a life of the process.
OneRunAtATime ==
    Cardinality({j \in DOMAIN conJobs : conJobs[j].kind = "research" /\ conJobs[j].known
                                        /\ conJobs[j].life = restarts /\ ~Finished(j)})
      + Cardinality({b \in Tabs : posts[b].step \in {"snapshot", "wait", "request"}}) <= 1

\* What a browser was told stays true: the events it put together from pages
\* read at different times are the beginning of the run's events now, through
\* retries and restarts, and the verdict comes last.
StreamIsTheRun ==
    \A j \in DOMAIN conJobs :
        /\ Len(follower[j]) <= Len(ProjectEvents(j))
        /\ \A k \in 1..Len(follower[j]) : follower[j][k] = ProjectEvents(j)[k]
=============================================================================

------------------------------ MODULE JobQueue ------------------------------
(***************************************************************************)
(* The durable job queue kept in PostgreSQL: adapters/postgres/job_queue,  *)
(* job_queue_audit and the snapshot lifecycle, with the run and run_event  *)
(* rows they write.  Every action is one database transaction of the code. *)
(* Workers are not trusted to be alive or punctual: a lease that was ever  *)
(* handed out may be presented again at any later time, by a worker that   *)
(* crashed, was slow or repeats a call whose answer was lost.              *)
(*                                                                         *)
(* Hashes, payloads, trace carriers and identifiers are abstracted: a job, *)
(* a run and an artifact are their ids, the audit id of an event is the    *)
(* pair <<job, generation>> that uuid5 is computed from, and the element   *)
(* of `events' stands for the run_event row and the outbox row that the    *)
(* code always adds together.                                              *)
(***************************************************************************)
EXTENDS Integers, FiniteSets

CONSTANTS
    Job,              \* job ids, ordered as the database orders them
    Run,              \* run ids, ordered
    Worker,           \* worker identities
    Artifact,         \* result artifacts a worker may finalize
    None,             \* SQL NULL
    RunOf,            \* [Job -> Run], job.run_id
    Kind,             \* [Job -> JobKind], job.job_type
    ProducedSchema,   \* [ResearchKind -> STRING], the schema attribute that the
                      \* handler of a job type gives the result it finalizes
    MaxAttempts,      \* job.max_attempts
    LeaseFor,         \* length of a lease, in ticks
    Ttl,              \* [Job -> Nat], deadline_at - created_at
    DeadLetterBatch,  \* limit of one dead-letter pass (100 in the code)
    MaxTime           \* bound of the clock

ResearchKind == {"research_pipeline", "tradingagents_research"}
JobKind == ResearchKind \cup {"create_snapshot", "other"}
ErrorCode == {"deadline_exceeded", "attempts_exhausted", "worker_failure"}

ASSUME IdAssumption == Job \subseteq Nat /\ Run \subseteq Nat /\ IsFiniteSet(Job)
ASSUME JobAssumption ==
    /\ RunOf \in [Job -> Run]
    /\ Kind \in [Job -> JobKind]
    /\ Ttl \in [Job -> Nat \ {0}]
ASSUME BoundAssumption ==
    /\ MaxAttempts \in Nat \ {0}
    /\ LeaseFor \in Nat \ {0}
    /\ DeadLetterBatch \in Nat \ {0}
    /\ MaxTime \in Nat
ASSUME NoneAssumption == None \notin Worker \cup Artifact \cup ErrorCode

VARIABLES
    now,          \* the database clock, clock_timestamp()
    job,          \* [Job -> JobRow]
    run,          \* [Run -> RunRow]
    events,       \* run_event rows (each with its outbox row)
    leases,       \* every lease any claim ever returned: what workers may hold
    quarantined   \* worker_late_result_audit rows

vars == <<now, job, run, events, leases, quarantined>>

JobStatus == {"absent", "queued", "leased", "succeeded", "dead_letter", "cancelled"}
Terminal  == {"succeeded", "dead_letter", "cancelled"}
RunStatus == {"absent", "pending", "running", "succeeded", "failed", "cancelled"}

EventType == {"job.completed", "job.dead_lettered", "snapshot.completed",
              "snapshot.retry_scheduled", "snapshot.failed"}
TerminalEvent == EventType \ {"snapshot.retry_scheduled"}

JobRow == [status: JobStatus, attempts: Nat, generation: Nat,
           nonce: (Job \X Nat) \cup {None}, owner: Worker \cup {None},
           leaseUntil: Nat, notBefore: Nat, createdAt: Nat, updatedAt: Nat,
           result: Artifact \cup {None}, error: ErrorCode \cup {None}]
RunRow == [status: RunStatus, version: Nat, updatedAt: Nat]
EventRow == [run: Run, seq: Nat, job: Job, generation: Nat, type: EventType,
             at: Nat, result: Artifact \cup {None}]
Lease == [job: Job, worker: Worker, generation: Nat, nonce: Job \X Nat,
          leaseUntil: Nat]
LateResult == [job: Job, generation: Nat, result: Artifact]

TypeOK ==
    /\ now \in Nat
    /\ job \in [Job -> JobRow]
    /\ run \in [Run -> RunRow]
    /\ events \subseteq EventRow
    /\ leases \subseteq Lease
    /\ quarantined \subseteq LateResult

-----------------------------------------------------------------------------
(* Reading the tables.                                                     *)

Deadline(j) == job[j].createdAt + Ttl[j]

\* The index order of the dead-letter query: run_id, then job_id.
Earlier(k, j) == RunOf[k] < RunOf[j] \/ (RunOf[k] = RunOf[j] /\ k < j)

\* The order of the claim query: not_before, then created_at, then job_id.
ClaimedBefore(k, j) ==
    \/ job[k].notBefore < job[j].notBefore
    \/ /\ job[k].notBefore = job[j].notBefore
       /\ \/ job[k].createdAt < job[j].createdAt
          \/ job[k].createdAt = job[j].createdAt /\ k < j

\* Mutant: the pass looks at exhausted leases only and forgets the deadline.
UnclaimableWhenExhausted(j) ==
    /\ job[j].status = "leased"
    /\ job[j].leaseUntil <= now
    /\ job[j].attempts >= MaxAttempts

Unclaimable(j) ==
    /\ job[j].status \in {"queued", "leased"}
    /\ \/ Deadline(j) <= now
       \/ /\ job[j].status = "leased"
          /\ job[j].leaseUntil <= now
          /\ job[j].attempts >= MaxAttempts

DeadLetterReason(j) ==
    IF Deadline(j) <= now THEN "deadline_exceeded" ELSE "attempts_exhausted"

\* Mutant: the claim query forgets that a leased row's lease must have run out.
ClaimableWhileLeased(j) ==
    /\ job[j].status \in {"queued", "leased"}
    /\ job[j].notBefore <= now
    /\ Deadline(j) > now
    /\ job[j].attempts < MaxAttempts

\* Mutant: the claim query looks at lease_until and not at the status.
ClaimableInAnyStatus(j) ==
    /\ job[j].status # "absent"
    /\ job[j].leaseUntil <= now
    /\ job[j].notBefore <= now
    /\ Deadline(j) > now
    /\ job[j].attempts < MaxAttempts

Claimable(j) ==
    /\ \/ job[j].status = "queued"
       \/ job[j].status = "leased" /\ job[j].leaseUntil <= now
    /\ job[j].notBefore <= now
    /\ Deadline(j) > now
    /\ job[j].attempts < MaxAttempts

EventsOf(r) == {e \in events : e.run = r}

\* _event_chain_is_valid: sequences 2, 3, ..., run.version without a gap and
\* the head written when the run row was last written.
EventChainIsValid(r) ==
    /\ {e.seq : e \in EventsOf(r)} = 2..run[r].version
    /\ \E e \in EventsOf(r) : e.seq = run[r].version /\ e.at = run[r].updatedAt

ValidAuditHead(r) ==
    \/ EventsOf(r) = {} /\ run[r].version = 1
    \/ EventChainIsValid(r)

\* An event row with this job's and generation's audit id is in the table, so
\* inserting another one violates its primary key.
AuditRowExists(j, g) == \E e \in events : e.job = j /\ e.generation = g

\* Mutant: the fence forgets that the lease may have run out meanwhile.
FencedByNonce(l) ==
    /\ job[l.job].status = "leased"
    /\ job[l.job].owner = l.worker
    /\ job[l.job].generation = l.generation
    /\ job[l.job].nonce = l.nonce
    /\ Deadline(l.job) > now

\* The lease a worker presents is the row's current one and is still live.
Fenced(l) ==
    /\ job[l.job].status = "leased"
    /\ job[l.job].owner = l.worker
    /\ job[l.job].generation = l.generation
    /\ job[l.job].nonce = l.nonce
    /\ job[l.job].leaseUntil > now
    /\ Deadline(l.job) > now

-----------------------------------------------------------------------------
(* Writing the tables.                                                     *)

NewRow == [status |-> "queued", attempts |-> 0, generation |-> 0,
           nonce |-> None, owner |-> None, leaseUntil |-> 0, notBefore |-> now,
           createdAt |-> now, updatedAt |-> now, result |-> None, error |-> None]

\* The nonce is secrets.token_urlsafe(32): a value no other claim returned.
MarkLeased(row, j, w) ==
    [row EXCEPT !.status = "leased", !.attempts = @ + 1, !.generation = @ + 1,
                !.nonce = <<j, row.generation + 1>>, !.owner = w,
                !.leaseUntil = now + LeaseFor, !.updatedAt = now]

MarkDeadLetter(row, reason) ==
    [row EXCEPT !.status = "dead_letter", !.nonce = None, !.owner = None,
                !.leaseUntil = 0, !.error = reason, !.updatedAt = now]

MarkCompleted(row, a) ==
    [row EXCEPT !.status = "succeeded", !.result = a, !.updatedAt = now]

MarkRetry(row) ==
    [row EXCEPT !.status = "queued", !.notBefore = now, !.nonce = None,
                !.owner = None, !.leaseUntil = 0, !.error = "worker_failure",
                !.updatedAt = now]

AuditEvent(j, seq, g, type, a) ==
    [run |-> RunOf[j], seq |-> seq, job |-> j, generation |-> g, type |-> type,
     at |-> now, result |-> a]

RunHead(status, version) ==
    [status |-> status, version |-> version, updatedAt |-> now]

\* Mutant: the run takes the job's status.
AppendAuditWithJobStatus(l, type, a, runStatus) ==
    LET r == RunOf[l.job]
        seq == run[r].version + 1
    IN  /\ ~AuditRowExists(l.job, l.generation)
        /\ events' = events \cup {AuditEvent(l.job, seq, l.generation, type, a)}
        /\ run' = [run EXCEPT ![r] = RunHead(IF a = None THEN "dead_letter" ELSE runStatus, seq)]

\* One job's event appended to its run with the run row's new head.
AppendAudit(l, type, a, runStatus) ==
    LET r == RunOf[l.job]
        seq == run[r].version + 1
    IN  /\ ~AuditRowExists(l.job, l.generation)
        /\ events' = events \cup {AuditEvent(l.job, seq, l.generation, type, a)}
        /\ run' = [run EXCEPT ![r] = RunHead(runStatus, seq)]

LeaseOf(j, w) ==
    [job |-> j, worker |-> w, generation |-> job[j].generation + 1,
     nonce |-> <<j, job[j].generation + 1>>, leaseUntil |-> now + LeaseFor]

-----------------------------------------------------------------------------
Init ==
    /\ now = 0
    /\ job = [j \in Job |-> [NewRow EXCEPT !.status = "absent"]]
    /\ run = [r \in Run |-> [status |-> "absent", version |-> 1, updatedAt |-> 0]]
    /\ events = {}
    /\ leases = {}
    /\ quarantined = {}

Tick ==
    /\ now < MaxTime
    /\ now' = now + 1
    /\ UNCHANGED <<job, run, events, leases, quarantined>>

\* A snapshot or research request: the run row and its job in one transaction.
\* A repeated request finds the run's idempotency key and changes nothing.
RequestRun(j) ==
    /\ Kind[j] \in {"create_snapshot", "research_pipeline"}
    /\ run[RunOf[j]].status = "absent"
    /\ now + Ttl[j] < MaxTime
    /\ job' = [job EXCEPT ![j] = NewRow]
    /\ run' = [run EXCEPT ![RunOf[j]] = RunHead("pending", 1)]
    /\ UNCHANGED <<now, events, leases, quarantined>>

\* PostgresWorkflowStore.create: a run whose jobs are enqueued separately.
CreateRun(r) ==
    /\ \A j \in Job : RunOf[j] = r => Kind[j] \notin {"create_snapshot", "research_pipeline"}
    /\ run[r].status = "absent"
    /\ run' = [run EXCEPT ![r] = RunHead("pending", 1)]
    /\ UNCHANGED <<now, job, events, leases, quarantined>>

\* queue.enqueue for a run that exists (the foreign key).  A job of the kind
\* "other" is community feedback asking for research again, in the run whose
\* report was published.  A repeated enqueue finds the idempotency key.
Enqueue(j) ==
    /\ Kind[j] \in {"tradingagents_research", "other"}
    /\ job[j].status = "absent"
    /\ run[RunOf[j]].status # "absent"
    /\ Kind[j] = "other" => run[RunOf[j]].status = "succeeded"
    /\ now + Ttl[j] < MaxTime
    /\ job' = [job EXCEPT ![j] = NewRow]
    /\ UNCHANGED <<now, run, events, leases, quarantined>>

\* The rows a dead-letter pass selects: SKIP LOCKED passes over the rows other
\* transactions hold, LIMIT keeps the first of the rest.
DeadLetterPass(locked) ==
    LET due == {j \in Job \ locked : Unclaimable(j)}
    IN  {j \in due : Cardinality({k \in due : Earlier(k, j)}) < DeadLetterBatch}

\* The claim query: the first claimable row that is not locked, if any.
NextClaimable(locked) ==
    LET ready == {j \in Job \ locked : Claimable(j)}
    IN  {j \in ready : \A k \in ready \ {j} : ClaimedBefore(j, k)}

\* Mutant: every job of a pass is numbered from the version read at its start.
PassSeqFromHead(pass, j) == run[RunOf[j]].version + 1

\* The sequence of job j's event when `pass' is dead-lettered in row order.
PassSeq(pass, j) ==
    run[RunOf[j]].version
      + Cardinality({k \in pass : RunOf[k] = RunOf[j] /\ k <= j})

\* _claim: the dead-letter pass and the claim are one transaction, so an audit
\* row that cannot be inserted undoes the claim too.  The jobs of a pass are
\* audited one by one: several of one run take consecutive sequences.
Claim(w, locked) ==
    LET pass == DeadLetterPass(locked)
        next == NextClaimable(locked)
        Due(r) == {k \in pass : RunOf[k] = r}
    IN  /\ pass \cup next # {}
        /\ \A j \in pass : /\ job[j].result = None
                           /\ ValidAuditHead(RunOf[j])
                           /\ ~AuditRowExists(j, job[j].generation)
        /\ job' = [j \in Job |->
                     CASE j \in next -> MarkLeased(job[j], j, w)
                       [] j \in pass -> MarkDeadLetter(job[j], DeadLetterReason(j))
                       [] OTHER      -> job[j]]
        /\ events' = events \cup
             {AuditEvent(j, PassSeq(pass, j), job[j].generation, "job.dead_lettered", None) :
                j \in pass}
        /\ run' = [r \in Run |->
                     IF Due(r) = {} THEN run[r]
                     ELSE RunHead("failed", run[r].version + Cardinality(Due(r)))]
        /\ leases' = leases \cup {LeaseOf(j, w) : j \in next}
        /\ UNCHANGED <<now, quarantined>>

\* The schema a worker artifact must carry to be registered with the result.
WorkerArtifactSchema(kind) ==
    IF kind = "tradingagents_research" THEN "tradingagents-worker-result/1.0.0"
                                       ELSE "research-worker-result/1.0.0"

\* Mutant: a result is taken only while its run is still open.
CompletableInAnOpenRun(l) ==
    /\ Kind[l.job] \in ResearchKind
    /\ Fenced(l)
    /\ run[RunOf[l.job]].status \in {"pending", "running"}
    /\ ProducedSchema[Kind[l.job]] = WorkerArtifactSchema(Kind[l.job])
    /\ ValidAuditHead(RunOf[l.job])

Completable(l) ==
    /\ Kind[l.job] \in ResearchKind
    /\ Fenced(l)
    /\ ProducedSchema[Kind[l.job]] = WorkerArtifactSchema(Kind[l.job])
    /\ ValidAuditHead(RunOf[l.job])

Complete(l, a) ==
    /\ Completable(l)
    /\ AppendAudit(l, "job.completed", a, "succeeded")
    /\ job' = [job EXCEPT ![l.job] = MarkCompleted(@, a)]
    /\ UNCHANGED <<now, leases, quarantined>>

\* _completed_job_is_valid: the row still holds the fence it was completed under.
CompletedJobIsValid(l, a) ==
    LET row == job[l.job]
    IN  /\ row.status = "succeeded"
        /\ row.owner = l.worker /\ row.nonce = l.nonce
        /\ row.generation = l.generation /\ row.attempts = l.generation
        /\ row.result = a /\ row.error = None

\* _completed_graph_is_valid: the run, the chain, and the event of the completion.
CompletedGraphIsValid(l, a) ==
    LET r == RunOf[l.job]
    IN  /\ run[r].status = "succeeded"
        /\ EventChainIsValid(r)
        /\ \E e \in events : /\ e.job = l.job /\ e.generation = l.generation
                             /\ e.type = "job.completed" /\ e.result = a
                             /\ e.at = job[l.job].updatedAt /\ e.seq <= run[r].version

\* completed_job_receipt: what a repeated complete() verifies before it returns
\* the receipt of the first one.
CompletedReceipt(l, a) == CompletedJobIsValid(l, a) /\ CompletedGraphIsValid(l, a)

\* Mutant: a failed row is expected to keep its fence, as a completed one does.
FailedJobHoldsItsFence(l) ==
    LET row == job[l.job]
    IN  /\ row.status = "dead_letter"
        /\ row.owner = l.worker /\ row.nonce = l.nonce
        /\ row.generation = l.generation /\ row.attempts = l.generation
        /\ row.result = None /\ row.error = "worker_failure"

\* _failed_job_is_valid: the row was released, with the error of the command.
FailedJobIsValid(l) ==
    LET row == job[l.job]
    IN  /\ row.status = "dead_letter"
        /\ row.owner = None /\ row.nonce = None /\ row.leaseUntil = 0
        /\ row.generation = l.generation /\ row.attempts = l.generation
        /\ row.result = None /\ row.error = "worker_failure"

\* _failed_graph_is_valid.
FailedGraphIsValid(l) ==
    LET r == RunOf[l.job]
    IN  /\ run[r].status = "failed"
        /\ EventChainIsValid(r)
        /\ \E e \in events : /\ e.job = l.job /\ e.generation = l.generation
                             /\ e.type = "job.dead_lettered"
                             /\ e.at = job[l.job].updatedAt /\ e.seq <= run[r].version

\* failed_job_receipt: what a repeated fail() verifies.
FailedReceipt(l) == FailedJobIsValid(l) /\ FailedGraphIsValid(l)

\* complete_research_result: a result that complete() refuses with CONFLICT is
\* kept as an audit row only.  The refusal and the insert are two transactions;
\* what refuses a result is stable, so they are one step here.
Quarantine(l, a) ==
    /\ Kind[l.job] \in ResearchKind
    /\ ~Completable(l)
    /\ ~CompletedReceipt(l, a)
    /\ quarantined' = quarantined \cup
         {[job |-> l.job, generation |-> l.generation, result |-> a]}
    /\ UNCHANGED <<now, job, run, events, leases>>

\* queue.fail: the handler's failure, or a job type no handler is composed for.
Fail(l) ==
    /\ Kind[l.job] # "create_snapshot"
    /\ Fenced(l)
    /\ job[l.job].result = None
    /\ ValidAuditHead(RunOf[l.job])
    /\ AppendAudit(l, "job.dead_lettered", None, "failed")
    /\ job' = [job EXCEPT ![l.job] = MarkDeadLetter(@, "worker_failure")]
    /\ UNCHANGED <<now, leases, quarantined>>

SnapshotFenced(l) ==
    /\ Kind[l.job] = "create_snapshot"
    /\ Fenced(l)
    /\ job[l.job].leaseUntil = l.leaseUntil
    /\ job[l.job].result = None
    /\ run[RunOf[l.job]].status \in {"pending", "running"}

\* record_snapshot_failure: requeued at once while attempts remain.
SnapshotFail(l) ==
    /\ SnapshotFenced(l)
    /\ \/ /\ job[l.job].attempts < MaxAttempts
          /\ AppendAudit(l, "snapshot.retry_scheduled", None, "running")
          /\ job' = [job EXCEPT ![l.job] = MarkRetry(@)]
       \/ /\ job[l.job].attempts >= MaxAttempts
          /\ AppendAudit(l, "snapshot.failed", None, "failed")
          /\ job' = [job EXCEPT ![l.job] = MarkDeadLetter(@, "worker_failure")]
    /\ UNCHANGED <<now, leases, quarantined>>

SnapshotComplete(l, a) ==
    /\ SnapshotFenced(l)
    /\ AppendAudit(l, "snapshot.completed", a, "succeeded")
    /\ job' = [job EXCEPT ![l.job] = MarkCompleted(@, a)]
    /\ UNCHANGED <<now, leases, quarantined>>

Next ==
    \/ Tick
    \/ \E r \in Run : CreateRun(r)
    \/ \E j \in Job : RequestRun(j) \/ Enqueue(j)
    \/ \E w \in Worker, locked \in SUBSET Job : Claim(w, locked)
    \/ \E l \in leases : Fail(l) \/ SnapshotFail(l)
    \/ \E l \in leases, a \in Artifact :
         Complete(l, a) \/ Quarantine(l, a) \/ SnapshotComplete(l, a)

Spec == Init /\ [][Next]_vars

\* The clock advances; workers keep polling, and the transactions that hold row
\* locks end, so a claim that skips nothing is taken again and again.
FairSpec ==
    /\ Spec
    /\ WF_vars(Tick)
    /\ WF_vars(\E w \in Worker : Claim(w, {}))

-----------------------------------------------------------------------------
(* What the database refuses (migrations 0001, 0006, 0008 and 0018).  A    *)
(* transaction that breaks a constraint, a grant or a trigger is rolled    *)
(* back, so that none may.                                                 *)

\* The CHECK constraints of job, and its foreign key.
JobTable(j) ==
    /\ job[j].attempts <= MaxAttempts
    /\ job[j].status # "absent" =>
         Deadline(j) > job[j].notBefore /\ run[RunOf[j]].status # "absent"

\* run and run_event: a run starts at version 1 and its events are unique.
RunTable(r) ==
    /\ run[r].version > 0
    /\ \A e, f \in EventsOf(r) : e.seq = f.seq => e = f

\* worker_late_result_audit.
LateResultTable == \A q \in quarantined : q.generation > 0

\* The columns of a job that no role may update.
JobColumns(j) ==
    job[j].status # "absent" => job'[j].createdAt = job[j].createdAt

\* reject_append_only_mutation, on run_event and worker_late_result_audit.
AppendOnly == events \subseteq events' /\ quarantined \subseteq quarantined'

-----------------------------------------------------------------------------
(* Properties.                                                             *)

\* AuditChain: whatever queue, worker and snapshot transactions wrote, and in
\* whatever order, the events of a run are numbered 2, 3, ... without a gap or
\* a duplicate up to run.version, and the head carries run.updated_at
\* (_require_valid_audit_head would otherwise refuse every later transition).
AuditChain == \A r \in Run : ValidAuditHead(r) /\ RunTable(r)

\* OneVerdict: a job has a terminal event exactly when its row is terminal, it
\* has only one, and event and row agree on the generation, the outcome and
\* the result, although a lease may run out while its worker still reports.
OneVerdict ==
    \A j \in Job :
        LET verdicts == {e \in events : e.job = j /\ e.type \in TerminalEvent}
        IN  /\ job[j].status \in Terminal <=> verdicts # {}
            /\ \A e \in verdicts :
                 /\ \A f \in verdicts : e = f
                 /\ e.generation = job[j].generation
                 /\ e.at = job[j].updatedAt
                 /\ e.result = job[j].result
                 /\ (job[j].status = "succeeded") <=>
                      (e.type \in {"job.completed", "snapshot.completed"})

\* AcceptedWhileLive: an accepted result was presented under a lease that the
\* queue issued, before that lease and the job's deadline ran out, and no later
\* lease of the job was ever issued.
AcceptedWhileLive ==
    \A e \in events :
        e.type \in {"job.completed", "snapshot.completed"} =>
            \E l \in leases :
                /\ l.job = e.job /\ l.generation = e.generation
                /\ e.at < l.leaseUntil /\ e.at < Deadline(e.job)
                /\ \A m \in leases : m.job = l.job => m.generation <= l.generation

\* AuditAgrees: the rows, the events and the verdicts of the queue tell one story,
\* and no retry, claim or late result ever breaks a constraint of its table: a
\* requeued job can still be claimed before its deadline.
AuditAgrees ==
    /\ AuditChain
    /\ OneVerdict
    /\ \A j \in Job : JobTable(j)
    /\ LateResultTable

\* What the queue is to its users: the tasks of LeasedTask.
TaskOf(j) ==
    [state |-> CASE job[j].status = "absent"      -> "none"
                 [] job[j].status = "queued"      -> "open"
                 [] job[j].status = "leased"      -> "held"
                 [] job[j].status = "succeeded"   -> "done"
                 [] job[j].status \in {"dead_letter", "cancelled"} -> "dead",
     attempts |-> job[j].attempts, until |-> job[j].leaseUntil, outcome |-> job[j].result]

Promised == INSTANCE LeasedTask
    WITH Task <- Job, Outcome <- Artifact, NoOutcome <- None,
         clock <- now, task <- [j \in Job |-> TaskOf(j)]

\* QueueIsLeasedTask: the queue implements LeasedTask: no interleaving of claims
\* that skip locked rows, late workers, retries and dead-letter passes gives a
\* task to a second holder before the first one's lease is over, finishes it
\* after that, leases it more often than max_attempts or revives it.
QueueIsLeasedTask == Promised!Spec

\* The status that the writer of an event of this type gives the run with it.
StatusAfter(type) ==
    CASE type \in {"job.completed", "snapshot.completed"} -> "succeeded"
      [] type = "snapshot.retry_scheduled"                -> "running"
      [] OTHER                                            -> "failed"

\* Event f came after the verdict of job j, from another job of its run, and took
\* the run's status away from that verdict.
Overrules(f, j) ==
    /\ f.run = RunOf[j] /\ f.job # j
    /\ \E e \in events : /\ e.job = j /\ e.type \in TerminalEvent
                         /\ f.seq > e.seq /\ StatusAfter(f.type) # StatusAfter(e.type)

\* The last event of its run overrules job j.
Overruled(j) == \E f \in events : f.seq = run[RunOf[j]].version /\ Overrules(f, j)

\* ReceiptsReplay: the worker whose result or failure was accepted can repeat
\* complete() or fail() and is given the receipt again, however often its siblings
\* have moved the run since, as long as the last of them did not leave the run
\* with the opposite outcome; and no result is both the accepted one of its job
\* and quarantined as a late one, unless a sibling had overruled the job.
ReceiptsReplay ==
    /\ \A l \in leases :
         /\ Kind[l.job] \in ResearchKind
         /\ job[l.job].generation = l.generation
         => /\ job[l.job].status = "succeeded" =>
                 CompletedReceipt(l, job[l.job].result) \/ Overruled(l.job)
            /\ job[l.job].error = "worker_failure" =>
                 FailedReceipt(l) \/ Overruled(l.job)
    /\ \A q \in quarantined :
         /\ job[q.job].status = "succeeded"
         /\ job[q.job].generation = q.generation
         /\ job[q.job].result = q.result
         => \E f \in events : Overrules(f, q.job)

\* VerdictIsFinal: no step changes a terminal job row, none takes back an
\* attempt or a generation, and none writes what the grants and triggers protect.
VerdictIsFinal ==
    [][/\ \A j \in Job :
            /\ job[j].status \in Terminal => job'[j] = job[j]
            /\ job'[j].attempts >= job[j].attempts
            /\ job'[j].generation >= job[j].generation
            /\ JobColumns(j)
       /\ AppendOnly]_vars

\* A result of this kind of research carries the schema that is registered.
SchemaIsRegistered(kind) == ProducedSchema[kind] = WorkerArtifactSchema(kind)

\* OutcomesLast: only the verdict of a job that was still open can take away the
\* status of a run that has ended, and never that of the job that had ended it;
\* and a result presented under the live lease of its job is quarantined only when
\* its schema is not the registered one, whatever its siblings did to the run.
OutcomesLast ==
    [][/\ \A r \in Run :
            run[r].status \in {"succeeded", "failed", "cancelled"} =>
               \/ run'[r].status = run[r].status
               \/ \E e \in events' \ events, f \in events :
                    /\ e.run = r /\ e.seq = run'[r].version
                    /\ f.run = r /\ f.seq = run[r].version
                    /\ job[e.job].status \notin Terminal
                    /\ job[f.job].status \in Terminal
       /\ \A q \in quarantined' \ quarantined, l \in leases :
            l.job = q.job /\ l.generation = q.generation /\ SchemaIsRegistered(Kind[q.job])
               => ~Fenced(l)]_vars

\* OnlyStaleIsQuarantined: what is quarantined with the reason "stale_attempt" is
\* the result of a lease that is no longer the live one of its job.
OnlyStaleIsQuarantined ==
    [][\A q \in quarantined' \ quarantined, l \in leases :
         l.job = q.job /\ l.generation = q.generation => ~Fenced(l)]_vars

\* Settles: every queued job reaches a verdict; one that nobody completes is
\* dead-lettered by a later claim once its deadline has passed.
Settles ==
    \A j \in Job :
        (job[j].status \in {"queued", "leased"}) ~> (job[j].status \in Terminal)
=============================================================================

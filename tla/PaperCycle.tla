----------------------------- MODULE PaperCycle -----------------------------
(***************************************************************************)
(* The canonical paper fund cycle: application/workflows/run_cycle drives  *)
(* the stages of one run, adapters/paper_cycle/stage_handler performs a    *)
(* stage, and adapters/postgres/paper_cycle_store checkpoints the progress *)
(* under the lease of the run's one job, whose queue is job_queue.         *)
(*                                                                         *)
(* A process is one call of run_paper_fund_cycle.  Several may run at once *)
(* with the same lease (a call repeated because its answer was lost) or    *)
(* with leases of different attempts (a worker that is late), and each may *)
(* stop between any two of its steps.  A store operation is one            *)
(* transaction.  A transaction the database aborts, as it does to one of a *)
(* cancellation (run row, then job row) and a checkpoint (job row, then    *)
(* run row) that block each other, leaves nothing and ends the call: Stop. *)
(*                                                                         *)
(* The output of a stage is the process that produced it, so two calls     *)
(* never agree on one by chance; the state hash is the sequence of outputs.*)
(* attempts and attempt_generation move together, in _mark_leased only:    *)
(* `attempts' stands for both, and `held' says that nonce and owner of     *)
(* that attempt are in the job row.                                        *)
(***************************************************************************)
EXTENDS Integers, Sequences, SequencesExt, FiniteSetsExt

CONSTANTS
    Proc,             \* calls of run_paper_fund_cycle
    Stages,           \* number of canonical stages (9 in the code)
    MaxAttempts,      \* job.max_attempts
    LeaseFor,         \* length of a lease, in ticks
    Deadline,         \* job.deadline_at; the job is created at time 0
    BaseRetryDelay,   \* base_retry_delay
    MaxMultiplier,    \* the cap of the delay's multiplier (300 in the code)
    MaxTime           \* bound of the clock

ASSUME BoundAssumption ==
    /\ Stages \in Nat \ {0}
    /\ MaxAttempts \in Nat \ {0}
    /\ LeaseFor \in Nat \ {0}
    /\ Deadline \in Nat \ {0}
    /\ BaseRetryDelay \in Nat
    /\ MaxMultiplier \in Nat \ {0}
    /\ MaxTime \in Nat

VARIABLES
    now,      \* the clock of the database and of the workers
    job,      \* the job row
    run,      \* the run row
    log,      \* run_event rows in sequence order; log[i] has sequence i + 1
    lease,    \* [attempt -> lease_until], of the leases handed out
    proc,     \* [Proc -> ProcState]
    late      \* [Proc -> Nat], stages performed after the run was settled

cycleVars == <<now, job, run, log, lease, proc, late>>

Attempt == 1..MaxAttempts
JobStatus == {"queued", "leased", "succeeded", "dead_letter", "cancelled"}
RunStatus == {"pending", "running", "succeeded", "failed", "cancelled"}
Settled == {"succeeded", "failed", "cancelled"}
CycleEvent == {"stage_completed", "retry_scheduled", "completed",
               "dead_lettered", "cancelled"}
Error == {"none", "retryable", "permanent"}
Pc == {"idle", "stage", "processing", "produced", "finalizing", "failing"}

JobRow == [status: JobStatus, attempts: 0..MaxAttempts, held: BOOLEAN,
           leaseUntil: Nat, notBefore: Int, result: BOOLEAN]
RunRow == [status: RunStatus, version: Nat]
EventRow == [type: CycleEvent \cup {"job.dead_lettered"}, attempt: 0..MaxAttempts,
             outputs: Seq(Proc)]
ProcState == [pc: Pc, attempt: 0..MaxAttempts, outputs: Seq(Proc), error: Error]

Idle == [pc |-> "idle", attempt |-> 0, outputs |-> <<>>, error |-> "none"]

CycleTypeOK ==
    /\ now \in Nat
    /\ job \in JobRow
    /\ run \in RunRow
    /\ log \in Seq(EventRow)
    /\ lease \in [Attempt -> Nat]
    /\ proc \in [Proc -> ProcState]
    /\ late \in [Proc -> Nat]

-----------------------------------------------------------------------------
(* What the store reads.                                                   *)

Checkpoints == {i \in DOMAIN log : log[i].type = "stage_completed"}

\* The state _load_state arrives at: that of the last checkpoint, or genesis.
State ==
    IF Checkpoints = {} THEN <<>>
    ELSE log[Max(Checkpoints)].outputs

Extends(candidate, current) ==
    Len(candidate) = Len(current) + 1 /\ IsPrefix(current, candidate)

\* _load_state accepts the log: the events of this workflow only, numbered up
\* to run.version, every checkpoint one stage longer than the one before it.
Readable ==
    /\ \A i \in DOMAIN log : log[i].type \in CycleEvent
    /\ \A i \in Checkpoints :
         LET before == {k \in Checkpoints : k < i}
         IN  IF before = {} THEN Len(log[i].outputs) = 1
             ELSE Extends(log[i].outputs, log[Max(before)].outputs)
    /\ run.version = Len(log) + 1

\* Mutant: the fence forgets which attempt the lease belongs to.
ActiveForAny(a) ==
    /\ job.status = "leased"
    /\ job.leaseUntil > now
    /\ Deadline > now
    /\ run.status \in {"pending", "running"}

\* _require_active for the lease of attempt a.
Active(a) ==
    /\ job.status = "leased"
    /\ job.held /\ job.attempts = a
    /\ job.leaseUntil > now
    /\ Deadline > now
    /\ run.status \in {"pending", "running"}

CompletedAuthority(a) ==
    /\ job.status = "succeeded"
    /\ job.held /\ job.attempts = a
    /\ job.result
    /\ run.status = "succeeded"

\* _require_next_state: a compare-and-swap on the state the caller started from.
NextState(candidate, expected) ==
    /\ State = expected
    /\ Extends(candidate, State)

\* _retry_delay.
RetryDelay(attempts) ==
    LET doubled == 2 ^ (attempts - 1)
    IN  BaseRetryDelay * (IF doubled < MaxMultiplier THEN doubled ELSE MaxMultiplier)

-----------------------------------------------------------------------------
(* What the store writes.                                                  *)

\* _append_audit: the event, its outbox row and the new head of the run.
AppendAudit(type, a, outputs, status) ==
    /\ log' = Append(log, [type |-> type, attempt |-> a, outputs |-> outputs])
    /\ run' = [status |-> status, version |-> run.version + 1]

Released(row, status) ==
    [row EXCEPT !.status = status, !.held = FALSE, !.leaseUntil = 0]

Cancelled(row) == Released(row, "cancelled")

Completed(row) == [row EXCEPT !.status = "succeeded", !.result = TRUE]

Retries(error) ==
    /\ error = "retryable"
    /\ job.attempts < MaxAttempts
    /\ now + RetryDelay(job.attempts) < Deadline

-----------------------------------------------------------------------------
CycleInit ==
    /\ now = 0
    /\ job = [status |-> "queued", attempts |-> 0, held |-> FALSE,
              leaseUntil |-> 0, notBefore |-> 0, result |-> FALSE]
    /\ run = [status |-> "pending", version |-> 1]
    /\ log = <<>>
    /\ lease = [a \in Attempt |-> 0]
    /\ proc = [p \in Proc |-> Idle]
    /\ late = [p \in Proc |-> 0]

CycleTick ==
    /\ now < MaxTime
    /\ now' = now + 1
    /\ UNCHANGED <<job, run, log, lease, proc, late>>

\* Mutant: the dead-letter pass looks at the attempts alone.
UnclaimableWhenExhausted ==
    job.status = "leased" /\ job.leaseUntil <= now /\ job.attempts >= MaxAttempts

Unclaimable ==
    /\ job.status \in {"queued", "leased"}
    /\ \/ Deadline <= now
       \/ job.status = "leased" /\ job.leaseUntil <= now /\ job.attempts >= MaxAttempts

\* The queue's claim, for this job: the dead-letter pass that every claim
\* begins with gives the job up, under an event type that is not the cycle's.
DeadLetterUnclaimable ==
    /\ Unclaimable
    /\ AppendAudit("job.dead_lettered", job.attempts, <<>>, "failed")
    /\ job' = Released(job, "dead_letter")
    /\ UNCHANGED <<now, lease, proc, late>>

Claim ==
    /\ \/ job.status = "queued"
       \/ job.status = "leased" /\ job.leaseUntil <= now
    /\ job.notBefore <= now
    /\ Deadline > now
    /\ job.attempts < MaxAttempts
    /\ job' = [job EXCEPT !.status = "leased", !.attempts = @ + 1, !.held = TRUE,
                          !.leaseUntil = now + LeaseFor]
    /\ lease' = [lease EXCEPT ![job.attempts + 1] = now + LeaseFor]
    /\ UNCHANGED <<now, run, log, proc, late>>

\* Where the loop of run_paper_fund_cycle goes on with this state.
Resume(a, outputs) ==
    [pc |-> IF Len(outputs) = Stages THEN "finalizing" ELSE "stage",
     attempt |-> a, outputs |-> outputs, error |-> "none"]

Failing(ps, error) == [ps EXCEPT !.pc = "failing", !.error = error]

\* A call with the lease of attempt a begins by loading the saved state.
Load(p, a) ==
    /\ proc[p].pc = "idle"
    /\ a <= job.attempts
    /\ Active(a) \/ CompletedAuthority(a)
    /\ Readable
    /\ proc' = [proc EXCEPT ![p] = Resume(a, State)]
    /\ UNCHANGED <<now, job, run, log, lease, late>>

\* The budget, then the handler's own look at the clock and the lease it was
\* given; neither asks the database.
BeginStage(p) ==
    /\ proc[p].pc = "stage"
    /\ \/ proc' = [proc EXCEPT ![p] = Failing(@, "permanent")]   \* budget exhausted
       \/ proc' = [proc EXCEPT ![p] =
            IF now >= lease[@.attempt] \/ now >= Deadline
            THEN Failing(@, "permanent") ELSE [@ EXCEPT !.pc = "processing"]]
    /\ UNCHANGED <<now, job, run, log, lease, late>>

\* The processor performs the stage and its output is archived, or it fails:
\* in a way that may pass, or for good.
Process(p) ==
    /\ proc[p].pc = "processing"
    /\ \/ proc' = [proc EXCEPT ![p].pc = "produced", ![p].outputs = Append(@, p)]
       \/ \E error \in {"retryable", "permanent"} :
            proc' = [proc EXCEPT ![p] = Failing(@, error)]
    /\ late' = [late EXCEPT ![p] = IF run.status \in Settled THEN @ + 1 ELSE @]
    /\ UNCHANGED <<now, job, run, log, lease>>

\* Mutant: the stage of a refused checkpoint is tried again.
RefusedRetried(ps) == Resume(ps.attempt, Front(ps.outputs))

\* A refused checkpoint ends the call.
Refused(ps) == Idle

Checkpoint(p) ==
    LET ps == proc[p]
        before == Front(ps.outputs)
    IN  /\ ps.pc = "produced"
        /\ \/ /\ Active(ps.attempt)
              /\ Readable
              /\ NextState(ps.outputs, before)
              /\ AppendAudit("stage_completed", ps.attempt, ps.outputs, "running")
              /\ proc' = [proc EXCEPT ![p] = Resume(ps.attempt, ps.outputs)]
           \/ /\ ~(Active(ps.attempt) /\ Readable /\ NextState(ps.outputs, before))
              /\ proc' = [proc EXCEPT ![p] = Refused(ps)]
              /\ UNCHANGED <<run, log>>
        /\ UNCHANGED <<now, job, lease, late>>

\* store.fail: the attempt ends in a retry or in the dead-letter state; a lease
\* that is not active any more changes nothing.
Fail(p) ==
    LET ps == proc[p] IN
    /\ ps.pc = "failing"
    /\ proc' = [proc EXCEPT ![p] = Idle]
    /\ \/ /\ Active(ps.attempt) /\ Readable
          /\ IF Retries(ps.error)
             THEN /\ AppendAudit("retry_scheduled", ps.attempt, State, "running")
                  /\ job' = [Released(job, "queued") EXCEPT
                                !.notBefore = now + RetryDelay(job.attempts)]
             ELSE /\ AppendAudit("dead_lettered", ps.attempt, State, "failed")
                  /\ job' = Released(job, "dead_letter")
       \/ /\ ~(Active(ps.attempt) /\ Readable)
          /\ UNCHANGED <<job, run, log>>
    /\ UNCHANGED <<now, lease, late>>

\* The result is finalized in the artifact store, which may fail, and then
\* store.complete commits it; a completed cycle answers its own lease again.
Complete(p) ==
    LET ps == proc[p]
        ready == Active(ps.attempt) /\ Readable /\ State = ps.outputs
    IN  /\ ps.pc = "finalizing"
        /\ \/ /\ \E error \in {"retryable", "permanent"} :
                   proc' = [proc EXCEPT ![p] = Failing(@, error)]
              /\ UNCHANGED <<job, run, log>>
           \/ /\ ready
              /\ AppendAudit("completed", ps.attempt, ps.outputs, "succeeded")
              /\ job' = Completed(job)
              /\ proc' = [proc EXCEPT ![p] = Idle]
           \/ /\ ~ready
              /\ proc' = [proc EXCEPT ![p] = Idle]
              /\ UNCHANGED <<job, run, log>>
        /\ UNCHANGED <<now, lease, late>>

\* A crash, or a transaction the database aborted.
Stop(p) ==
    /\ proc[p].pc # "idle"
    /\ proc' = [proc EXCEPT ![p] = Idle]
    /\ UNCHANGED <<now, job, run, log, lease, late>>

\* store.cancel by an operator who saw the run at version v.
Cancel(v) ==
    /\ Readable
    /\ run.version = v
    /\ run.status \in {"pending", "running"}
    /\ job.status \in {"queued", "leased"}
    /\ AppendAudit("cancelled", job.attempts, State, "cancelled")
    /\ job' = Cancelled(job)
    /\ UNCHANGED <<now, lease, proc, late>>

CycleNext ==
    \/ CycleTick
    \/ DeadLetterUnclaimable
    \/ Claim
    \/ \E p \in Proc : \/ \E a \in Attempt : Load(p, a)
                       \/ BeginStage(p)
                       \/ Process(p)
                       \/ Checkpoint(p)
                       \/ Fail(p)
                       \/ Complete(p)
                       \/ Stop(p)
    \/ \E v \in 1..(Len(log) + 1) : Cancel(v)

CycleSpec == CycleInit /\ [][CycleNext]_cycleVars

-----------------------------------------------------------------------------
(* Properties.                                                             *)

\* CycleIsConsistent: the rows that the queue, the calls and an operator write
\* never tell different stories.
\*  - Run and job agree on the verdict.
\*  - A retry that was promised can be claimed: an attempt is left and its time
\*    comes before the deadline.
\*  - As long as the cycle may go on, and after it succeeded, _load_state can
\*    read what earlier attempts saved, retries included.
\*  - The attempt that completed the cycle can always be answered again: load
\*    and complete still recognise its lease.
\*  - No call goes on from progress that is not saved: what it holds in memory is
\*    a prefix of the saved state, plus the one stage it is about to checkpoint;
\*    and it learns that the run was settled (cancelled, say) no later than at
\*    its next checkpoint: it performs at most one more stage.
CycleIsConsistent ==
    /\ CycleTypeOK
    /\ run.status = "succeeded" <=> job.status = "succeeded"
    /\ run.status = "failed"    <=> job.status = "dead_letter"
    /\ run.status = "cancelled" <=> job.status = "cancelled"
    /\ job.status = "queued" => job.attempts < MaxAttempts /\ job.notBefore < Deadline
    /\ job.status \in {"queued", "leased", "succeeded"} => Readable
    /\ job.status = "succeeded" => CompletedAuthority(job.attempts)
    /\ \A p \in Proc :
         LET ps == proc[p]
         IN  /\ ps.pc \in {"stage", "processing", "finalizing"} => IsPrefix(ps.outputs, State)
             /\ ps.pc = "produced" => IsPrefix(Front(ps.outputs), State)
             /\ late[p] <= 1

\* ProgressIsKept: saved progress is never lost or rewritten, also when two calls
\* advance the same stage at once; a step saves one stage at most, and only the
\* attempt that holds the live lease saves it.  What was settled stays settled:
\* neither a late call, nor a repeated one, nor the queue changes a verdict.
ProgressIsKept ==
    [][/\ IsPrefix(State, State') /\ Len(State') <= Len(State) + 1
       /\ State' # State => Last(log').attempt = job.attempts /\ job.leaseUntil > now
       /\ run.status \in Settled => UNCHANGED <<run, job, log>>]_cycleVars

\* The cycle came to an end.
CycleSettled == run.status \in Settled
=============================================================================

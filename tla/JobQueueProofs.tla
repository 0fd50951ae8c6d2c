--------------------------- MODULE JobQueueProofs ---------------------------
(***************************************************************************)
(* Proofs about JobQueue, for any number of jobs, runs, workers and        *)
(* artifacts and for every bound.                                          *)
(***************************************************************************)
EXTENDS JobQueue, FiniteSetTheorems, TLAPS

USE IdAssumption, JobAssumption, BoundAssumption
    DEF IdAssumption, JobAssumption, BoundAssumption

-----------------------------------------------------------------------------
(* Facts about the helpers.                                                *)

\* A new row, a lease, an event and a run head have their types.
LEMMA RowTypes ==
    ASSUME TypeOK
    PROVE  /\ NewRow \in JobRow
           /\ \A v \in Nat, s \in RunStatus : RunHead(s, v) \in RunRow
           /\ \A j \in Job, n, g \in Nat, t \in EventType, a \in Artifact \cup {None} :
                AuditEvent(j, n, g, t, a) \in EventRow
           /\ \A j \in Job, w \in Worker : LeaseOf(j, w) \in Lease
BY DEF TypeOK, NewRow, JobRow, JobStatus, RunHead, RunRow, AuditEvent, EventRow,
       LeaseOf, Lease

\* The four ways a job row is rewritten keep it a row.
LEMMA MarkTypes ==
    ASSUME TypeOK, NEW row \in JobRow
    PROVE  /\ \A j \in Job, w \in Worker : MarkLeased(row, j, w) \in JobRow
           /\ \A e \in ErrorCode : MarkDeadLetter(row, e) \in JobRow
           /\ \A a \in Artifact : MarkCompleted(row, a) \in JobRow
           /\ MarkRetry(row) \in JobRow
<1> USE DEF TypeOK, JobRow, JobStatus, ErrorCode
<1>1. \A j \in Job, w \in Worker : MarkLeased(row, j, w) \in JobRow
  <2> TAKE j \in Job, w \in Worker
  <2>1. row.generation + 1 \in Nat /\ row.attempts + 1 \in Nat /\ now + LeaseFor \in Nat
    OBVIOUS
  <2>2. <<j, row.generation + 1>> \in Job \X Nat
    BY <2>1
  <2> QED
    BY <2>1, <2>2 DEF MarkLeased
<1>2. \A e \in ErrorCode : MarkDeadLetter(row, e) \in JobRow
  BY DEF MarkDeadLetter
<1>3. \A a \in Artifact : MarkCompleted(row, a) \in JobRow
  BY DEF MarkCompleted
<1>4. MarkRetry(row) \in JobRow
  BY DEF MarkRetry
<1> QED
  BY <1>1, <1>2, <1>3, <1>4

\* What each rewriting sets and what it keeps.
LEMMA MarkFields ==
    ASSUME NEW row \in JobRow
    PROVE  /\ \A j \in Job, w \in Worker :
                LET new == MarkLeased(row, j, w)
                IN  /\ new.status = "leased" /\ new.leaseUntil = now + LeaseFor
                    /\ new.attempts = row.attempts + 1 /\ new.generation = row.generation + 1
                    /\ new.owner = w /\ new.nonce = <<j, row.generation + 1>>
                    /\ new.createdAt = row.createdAt /\ new.notBefore = row.notBefore
                    /\ new.result = row.result /\ new.error = row.error
           /\ \A e \in ErrorCode :
                LET new == MarkDeadLetter(row, e)
                IN  /\ new.status = "dead_letter" /\ new.leaseUntil = 0
                    /\ new.attempts = row.attempts /\ new.generation = row.generation
                    /\ new.owner = None /\ new.nonce = None
                    /\ new.createdAt = row.createdAt /\ new.notBefore = row.notBefore
                    /\ new.result = row.result /\ new.error = e /\ new.updatedAt = now
           /\ \A a \in Artifact :
                LET new == MarkCompleted(row, a)
                IN  /\ new.status = "succeeded" /\ new.leaseUntil = row.leaseUntil
                    /\ new.attempts = row.attempts /\ new.generation = row.generation
                    /\ new.owner = row.owner /\ new.nonce = row.nonce
                    /\ new.createdAt = row.createdAt /\ new.notBefore = row.notBefore
                    /\ new.result = a /\ new.error = row.error /\ new.updatedAt = now
           /\ LET new == MarkRetry(row)
              IN  /\ new.status = "queued" /\ new.leaseUntil = 0
                  /\ new.attempts = row.attempts /\ new.generation = row.generation
                  /\ new.owner = None /\ new.nonce = None
                  /\ new.createdAt = row.createdAt /\ new.notBefore = now
                  /\ new.result = row.result
BY DEF MarkLeased, MarkDeadLetter, MarkCompleted, MarkRetry, JobRow

\* A new row carries no attempt, no lease and no result.
LEMMA NewRowFields ==
    /\ NewRow.status = "queued" /\ NewRow.attempts = 0 /\ NewRow.generation = 0
    /\ NewRow.leaseUntil = 0 /\ NewRow.result = None /\ NewRow.error = None
    /\ NewRow.createdAt = now /\ NewRow.notBefore = now
BY DEF NewRow

\* The columns of a new event.
LEMMA EventFields ==
    ASSUME NEW j, NEW n, NEW g, NEW t, NEW a
    PROVE  LET e == AuditEvent(j, n, g, t, a)
           IN  /\ e.job = j /\ e.run = RunOf[j] /\ e.seq = n /\ e.generation = g
               /\ e.type = t /\ e.at = now /\ e.result = a
BY DEF AuditEvent

\* The fields of a new lease.
LEMMA LeaseFields ==
    ASSUME NEW j, NEW w
    PROVE  LET l == LeaseOf(j, w)
           IN  /\ l.job = j /\ l.worker = w /\ l.generation = job[j].generation + 1
               /\ l.nonce = <<j, job[j].generation + 1>> /\ l.leaseUntil = now + LeaseFor
BY DEF LeaseOf

\* A dead-letter pass selects finitely many jobs, all of them unclaimable, and
\* the claim query only claimable ones.
LEMMA PassFacts ==
    ASSUME NEW locked \in SUBSET Job
    PROVE  /\ DeadLetterPass(locked) \subseteq Job
           /\ \A j \in DeadLetterPass(locked) : Unclaimable(j)
           /\ NextClaimable(locked) \subseteq Job
           /\ \A j \in NextClaimable(locked) : Claimable(j)
BY DEF DeadLetterPass, NextClaimable

\* No job is dead-lettered and claimed by the same transaction.
LEMMA PassAndClaimDisjoint ==
    ASSUME TypeOK, NEW locked \in SUBSET Job
    PROVE  DeadLetterPass(locked) \cap NextClaimable(locked) = {}
<1> SUFFICES ASSUME NEW j \in Job, Unclaimable(j), Claimable(j) PROVE FALSE
  BY PassFacts
<1>1. job[j] \in JobRow /\ Ttl[j] \in Nat
  BY DEF TypeOK
<1>2. job[j].createdAt + Ttl[j] \in Nat /\ job[j].attempts \in Nat
      /\ job[j].leaseUntil \in Nat /\ now \in Nat
  BY <1>1 DEF JobRow, TypeOK
<1> QED
  BY <1>2 DEF Unclaimable, Claimable, Deadline

\* Counting a part of the jobs gives a natural number.
LEMMA CountIsNat ==
    ASSUME NEW S \in SUBSET Job
    PROVE  Cardinality(S) \in Nat
BY FS_Subset, FS_CardinalityType

\* Appending an event to a job's run keeps the events and the runs typed.
LEMMA AppendTypes ==
    ASSUME TypeOK, NEW l \in leases, NEW t \in EventType,
           NEW a \in Artifact \cup {None}, NEW s \in RunStatus,
           AppendAudit(l, t, a, s)
    PROVE  events' \subseteq EventRow /\ run' \in [Run -> RunRow]
<1>1. l.job \in Job /\ l.generation \in Nat /\ RunOf[l.job] \in Run
  BY DEF TypeOK, Lease
<1>2. run[RunOf[l.job]].version + 1 \in Nat
  <2>1. run[RunOf[l.job]] \in RunRow
    BY <1>1 DEF TypeOK
  <2> QED
    BY <2>1 DEF RunRow
<1>3. AuditEvent(l.job, run[RunOf[l.job]].version + 1, l.generation, t, a) \in EventRow
  BY <1>1, <1>2, RowTypes
<1>4. RunHead(s, run[RunOf[l.job]].version + 1) \in RunRow
  BY <1>2, RowTypes
<1> QED
  BY <1>3, <1>4 DEF AppendAudit, TypeOK

-----------------------------------------------------------------------------
\* Type correctness: no transaction of the queue, of a worker or of the snapshot
\* lifecycle writes a row, a run, an event or a lease outside its type.
THEOREM TypeCorrect == Spec => []TypeOK
<1>1. Init => TypeOK
  BY DEF Init, TypeOK, NewRow, JobRow, RunRow, JobStatus, RunStatus
<1>2. TypeOK /\ [Next]_vars => TypeOK'
  <2> SUFFICES ASSUME TypeOK, [Next]_vars PROVE TypeOK'
    OBVIOUS
  <2> USE RowTypes, MarkTypes
  <2>1. CASE Tick
    BY <2>1 DEF Tick, TypeOK
  <2>2. ASSUME NEW r \in Run, CreateRun(r) PROVE TypeOK'
    BY <2>2 DEF CreateRun, TypeOK, RunStatus
  <2>3. ASSUME NEW j \in Job, RequestRun(j) PROVE TypeOK'
    BY <2>3 DEF RequestRun, TypeOK, RunStatus
  <2>4. ASSUME NEW j \in Job, Enqueue(j) PROVE TypeOK'
    BY <2>4 DEF Enqueue, TypeOK
  <2>5. ASSUME NEW w \in Worker, NEW locked \in SUBSET Job, Claim(w, locked)
        PROVE  TypeOK'
    <3> DEFINE pass == DeadLetterPass(locked)
               next == NextClaimable(locked)
    <3>1. pass \subseteq Job /\ next \subseteq Job
      BY PassFacts
    <3>2. \A j \in Job : DeadLetterReason(j) \in ErrorCode
      BY DEF DeadLetterReason, ErrorCode
    <3>3. job' \in [Job -> JobRow]
      <4>1. \A j \in Job : /\ job[j] \in JobRow
                           /\ MarkLeased(job[j], j, w) \in JobRow
                           /\ MarkDeadLetter(job[j], DeadLetterReason(j)) \in JobRow
        BY <3>2 DEF TypeOK
      <4> QED
        BY <2>5, <4>1 DEF Claim
    <3>4. run' \in [Run -> RunRow]
      <4>1. \A r \in Run : Cardinality({k \in pass : RunOf[k] = r}) \in Nat
        BY <3>1, CountIsNat
      <4>2. \A r \in Run : run[r].version + Cardinality({k \in pass : RunOf[k] = r}) \in Nat
        BY <4>1 DEF TypeOK, RunRow
      <4>3. \A r \in Run :
              RunHead("failed", run[r].version
                                  + Cardinality({k \in pass : RunOf[k] = r})) \in RunRow
        BY <4>2 DEF RunStatus
      <4> QED
        BY <2>5, <4>3 DEF Claim, TypeOK
    <3>5. events' \subseteq EventRow
      <4>1. \A j \in pass : PassSeq(pass, j) \in Nat
        <5> TAKE j \in pass
        <5>1. Cardinality({k \in pass : RunOf[k] = RunOf[j] /\ k <= j}) \in Nat
          BY <3>1, CountIsNat
        <5> QED
          <6>1. j \in Job /\ RunOf[j] \in Run /\ run[RunOf[j]] \in RunRow
            BY <3>1 DEF TypeOK
          <6>2. run[RunOf[j]].version \in Nat
            BY <6>1 DEF RunRow
          <6> QED
            BY <5>1, <6>2 DEF PassSeq
      <4>2. \A j \in pass :
              AuditEvent(j, PassSeq(pass, j), job[j].generation,
                         "job.dead_lettered", None) \in EventRow
        BY <3>1, <4>1 DEF EventType, TypeOK, JobRow
      <4> QED
        BY <2>5, <4>2 DEF Claim, TypeOK
    <3>6. leases' \subseteq Lease
      BY <2>5, <3>1 DEF Claim, TypeOK
    <3> QED
      BY <2>5, <3>3, <3>4, <3>5, <3>6 DEF Claim, TypeOK
  <2>6. ASSUME NEW l \in leases, Fail(l) PROVE TypeOK'
    <3>1. events' \subseteq EventRow /\ run' \in [Run -> RunRow]
      BY <2>6, AppendTypes DEF Fail, RunStatus, EventType
    <3>2. job' \in [Job -> JobRow]
      BY <2>6 DEF Fail, TypeOK, Lease, ErrorCode
    <3> QED
      BY <2>6, <3>1, <3>2 DEF Fail, TypeOK
  <2>7. ASSUME NEW l \in leases, SnapshotFail(l) PROVE TypeOK'
    <3>1. events' \subseteq EventRow /\ run' \in [Run -> RunRow]
      BY <2>7, AppendTypes DEF SnapshotFail, RunStatus, EventType
    <3>2. job' \in [Job -> JobRow]
      BY <2>7 DEF SnapshotFail, TypeOK, Lease, ErrorCode
    <3> QED
      BY <2>7, <3>1, <3>2 DEF SnapshotFail, TypeOK
  <2>8. ASSUME NEW l \in leases, NEW a \in Artifact, Complete(l, a) PROVE TypeOK'
    <3>1. events' \subseteq EventRow /\ run' \in [Run -> RunRow]
      BY <2>8, AppendTypes DEF Complete, RunStatus, EventType
    <3> QED
      BY <2>8, <3>1 DEF Complete, TypeOK, Lease
  <2>9. ASSUME NEW l \in leases, NEW a \in Artifact, Quarantine(l, a) PROVE TypeOK'
    BY <2>9 DEF Quarantine, TypeOK, Lease, LateResult
  <2>10. ASSUME NEW l \in leases, NEW a \in Artifact, SnapshotComplete(l, a) PROVE TypeOK'
    <3>1. events' \subseteq EventRow /\ run' \in [Run -> RunRow]
      BY <2>10, AppendTypes DEF SnapshotComplete, RunStatus, EventType
    <3> QED
      BY <2>10, <3>1 DEF SnapshotComplete, TypeOK, Lease
  <2>11. CASE UNCHANGED vars
    BY <2>11 DEF vars, TypeOK
  <2> QED
    BY <2>1, <2>2, <2>3, <2>4, <2>5, <2>6, <2>7, <2>8, <2>9, <2>10, <2>11 DEF Next
<1> QED
  BY <1>1, <1>2, PTL DEF Spec

-----------------------------------------------------------------------------
(* What one step does to one job.  Every transaction touches the row, the  *)
(* events and the leases of a job in one of five ways, whatever it does to *)
(* other jobs; the invariants below are about one job at a time.           *)

Accepting == {"job.completed", "snapshot.completed"}

EventsFor(j) == {e \in events : e.job = j}
LeasesFor(j) == {l \in leases : l.job = j}

Untouched(j) ==
    job'[j] = job[j] /\ EventsFor(j)' = EventsFor(j) /\ LeasesFor(j)' = LeasesFor(j)

Inserted(j) ==
    /\ job[j].status = "absent" /\ job'[j] = NewRow
    /\ run'[RunOf[j]].status # "absent"
    /\ EventsFor(j)' = EventsFor(j) /\ LeasesFor(j)' = LeasesFor(j)

Leased(j, w) ==
    /\ Claimable(j) /\ job'[j] = MarkLeased(job[j], j, w)
    /\ EventsFor(j)' = EventsFor(j)
    /\ LeasesFor(j)' = LeasesFor(j) \cup {LeaseOf(j, w)}

Recorded(j, t, a) ==
    /\ \E n \in Nat :
         EventsFor(j)' = EventsFor(j) \cup {AuditEvent(j, n, job[j].generation, t, a)}
    /\ LeasesFor(j)' = LeasesFor(j)

Buried(j) ==
    /\ Unclaimable(j) /\ job[j].result = None
    /\ job'[j] = MarkDeadLetter(job[j], DeadLetterReason(j))
    /\ Recorded(j, "job.dead_lettered", None)

Finished(j, a) ==
    /\ job'[j] = MarkCompleted(job[j], a)
    /\ Kind[j] \in ResearchKind => ProducedSchema[Kind[j]] = WorkerArtifactSchema(Kind[j])
    /\ \/ Recorded(j, "job.completed", a)
       \/ Kind[j] = "create_snapshot" /\ Recorded(j, "snapshot.completed", a)

Failed(j) ==
    /\ job[j].result = None
    /\ job'[j] = MarkDeadLetter(job[j], "worker_failure")
    /\ \/ Recorded(j, "job.dead_lettered", None)
       \/ Kind[j] = "create_snapshot" /\ Recorded(j, "snapshot.failed", None)

Retried(j) ==
    /\ Kind[j] = "create_snapshot" /\ job[j].attempts < MaxAttempts
    /\ job[j].result = None
    /\ job'[j] = MarkRetry(job[j])
    /\ Recorded(j, "snapshot.retry_scheduled", None)

Reported(j, l) ==
    /\ Fenced(l)
    /\ (\E a \in Artifact : Finished(j, a)) \/ Failed(j) \/ Retried(j)

JobStep(j) ==
    \/ Untouched(j)
    \/ /\ now' = now
       /\ \/ Inserted(j)
          \/ \E w \in Worker : Leased(j, w)
          \/ Buried(j)
          \/ \E l \in LeasesFor(j) : Reported(j, l)

\* A run that does not exist has no jobs.
RunsExist == \A j \in Job : run[RunOf[j]].status = "absent" => job[j].status = "absent"

\* A worker's report appends one event, of its own job.
LEMMA ReportRecords ==
    ASSUME TypeOK, NEW l \in leases, NEW t \in EventType,
           NEW a \in Artifact \cup {None}, NEW s \in RunStatus,
           job[l.job].generation = l.generation,
           AppendAudit(l, t, a, s), leases' = leases, NEW j \in Job
    PROVE  IF j = l.job THEN Recorded(j, t, a)
           ELSE EventsFor(j)' = EventsFor(j) /\ LeasesFor(j)' = LeasesFor(j)
<1> DEFINE n == run[RunOf[l.job]].version + 1
           e == AuditEvent(l.job, n, l.generation, t, a)
<1>1. l.job \in Job
  BY DEF TypeOK, Lease
<1>2. n \in Nat
  <2>1. run[RunOf[l.job]] \in RunRow
    BY <1>1 DEF TypeOK
  <2> QED
    BY <2>1 DEF RunRow
<1>3. events' = events \cup {e}
  BY DEF AppendAudit
<1>4. e.job = l.job
  BY EventFields
<1> HIDE DEF n, e
<1>5. EventsFor(j)' = IF j = l.job THEN EventsFor(j) \cup {e} ELSE EventsFor(j)
  BY <1>3, <1>4 DEF EventsFor
<1>6. LeasesFor(j)' = LeasesFor(j)
  BY DEF LeasesFor
<1> QED
  BY <1>2, <1>5, <1>6 DEF Recorded, e

\* Every step of the queue does one of the five things to every job.
LEMMA JobSteps ==
    ASSUME TypeOK, RunsExist, [Next]_vars
    PROVE  \A j \in Job : JobStep(j)
<1> SUFFICES ASSUME NEW j \in Job PROVE JobStep(j)
  OBVIOUS
<1>0. \A l \in leases : l \in Lease /\ l.job \in Job
  BY DEF TypeOK, Lease
<1>1. CASE job' = job /\ events' = events /\ leases' = leases
  BY <1>1 DEF JobStep, Untouched, EventsFor, LeasesFor
<1>2. ASSUME NEW k \in Job, RequestRun(k) \/ Enqueue(k) PROVE JobStep(j)
  <2>1. /\ job[k].status = "absent" /\ job' = [job EXCEPT ![k] = NewRow]
        /\ events' = events /\ leases' = leases /\ now' = now
    BY <1>2 DEF RequestRun, Enqueue, RunsExist
  <2>2. run'[RunOf[k]].status # "absent"
    BY <1>2 DEF RequestRun, Enqueue, RunHead, TypeOK
  <2>3. EventsFor(j)' = EventsFor(j) /\ LeasesFor(j)' = LeasesFor(j)
    BY <2>1 DEF EventsFor, LeasesFor
  <2>4. CASE j = k
    BY <2>1, <2>2, <2>3, <2>4 DEF JobStep, Inserted, TypeOK
  <2>5. CASE j # k
    BY <2>1, <2>3, <2>5 DEF JobStep, Untouched, TypeOK
  <2> QED
    BY <2>4, <2>5
<1>3. ASSUME NEW w \in Worker, NEW locked \in SUBSET Job, Claim(w, locked)
      PROVE  JobStep(j)
  <2> DEFINE pass == DeadLetterPass(locked)
             next == NextClaimable(locked)
             Gone(k) == AuditEvent(k, PassSeq(pass, k), job[k].generation,
                                   "job.dead_lettered", None)
  <2>1. /\ job' = [k \in Job |->
                     CASE k \in next -> MarkLeased(job[k], k, w)
                       [] k \in pass -> MarkDeadLetter(job[k], DeadLetterReason(k))
                       [] OTHER      -> job[k]]
        /\ events' = events \cup {Gone(k) : k \in pass}
        /\ leases' = leases \cup {LeaseOf(k, w) : k \in next}
        /\ \A k \in pass : job[k].result = None
        /\ now' = now
    BY <1>3 DEF Claim
  <2>2. /\ pass \subseteq Job /\ next \subseteq Job
        /\ \A k \in pass : Unclaimable(k)
        /\ \A k \in next : Claimable(k)
    BY PassFacts
  <2>3. pass \cap next = {}
    BY PassAndClaimDisjoint
  <2>4. j \in pass => PassSeq(pass, j) \in Nat
    <3> SUFFICES ASSUME j \in pass PROVE PassSeq(pass, j) \in Nat
      OBVIOUS
    <3>1. Cardinality({k \in pass : RunOf[k] = RunOf[j] /\ k <= j}) \in Nat
      BY <2>2, CountIsNat
    <3>2. RunOf[j] \in Run /\ run[RunOf[j]] \in RunRow
      BY DEF TypeOK
    <3>3. run[RunOf[j]].version \in Nat
      BY <3>2 DEF RunRow
    <3> QED
      BY <3>1, <3>3 DEF PassSeq
  <2>5. \A k \in pass : Gone(k).job = k
    BY EventFields
  <2>6. \A k \in next : LeaseOf(k, w).job = k
    BY LeaseFields
  <2> HIDE DEF pass, next, Gone
  <2>7. EventsFor(j)' = IF j \in pass THEN EventsFor(j) \cup {Gone(j)} ELSE EventsFor(j)
    BY <2>1, <2>5 DEF EventsFor
  <2>8. LeasesFor(j)' = IF j \in next THEN LeasesFor(j) \cup {LeaseOf(j, w)} ELSE LeasesFor(j)
    BY <2>1, <2>6 DEF LeasesFor
  <2>9. CASE j \in next
    <3>1. job'[j] = MarkLeased(job[j], j, w) /\ j \notin pass
      BY <2>1, <2>3, <2>9
    <3>2. Leased(j, w)
      BY <2>2, <2>7, <2>8, <2>9, <3>1 DEF Leased
    <3> QED
      BY <2>1, <3>2 DEF JobStep
  <2>10. CASE j \in pass
    <3>1. job'[j] = MarkDeadLetter(job[j], DeadLetterReason(j)) /\ j \notin next
      BY <2>1, <2>3, <2>10
    <3>2. Recorded(j, "job.dead_lettered", None)
      BY <2>4, <2>7, <2>8, <2>10, <3>1 DEF Recorded, Gone
    <3>3. Buried(j)
      BY <2>1, <2>2, <2>10, <3>1, <3>2 DEF Buried
    <3> QED
      BY <2>1, <3>3 DEF JobStep
  <2>11. CASE j \notin next /\ j \notin pass
    BY <2>1, <2>7, <2>8, <2>11 DEF JobStep, Untouched
  <2> QED
    BY <2>9, <2>10, <2>11
<1>4. ASSUME NEW l \in leases, NEW row,
             job' = [job EXCEPT ![l.job] = row], j # l.job,
             EventsFor(j)' = EventsFor(j), LeasesFor(j)' = LeasesFor(j)
      PROVE  JobStep(j)
  BY <1>0, <1>4 DEF JobStep, Untouched, TypeOK
<1>5. ASSUME NEW l \in leases, Fail(l) PROVE JobStep(j)
  <2>1. /\ Fenced(l) /\ AppendAudit(l, "job.dead_lettered", None, "failed")
        /\ job[l.job].result = None /\ leases' = leases /\ now' = now
        /\ job' = [job EXCEPT ![l.job] = MarkDeadLetter(job[l.job], "worker_failure")]
    BY <1>5 DEF Fail
  <2>2. IF j = l.job THEN Recorded(j, "job.dead_lettered", None)
        ELSE EventsFor(j)' = EventsFor(j) /\ LeasesFor(j)' = LeasesFor(j)
    BY <2>1, ReportRecords DEF Fenced, EventType, RunStatus
  <2>3. CASE j = l.job
    <3>1. Failed(j)
      BY <2>1, <2>2, <2>3 DEF Failed, TypeOK
    <3> QED
      BY <2>1, <2>3, <3>1 DEF JobStep, Reported, LeasesFor
  <2> QED
    BY <1>4, <2>1, <2>2, <2>3
<1>6. ASSUME NEW l \in leases, SnapshotFail(l) PROVE JobStep(j)
  <2>1. /\ Fenced(l) /\ Kind[l.job] = "create_snapshot"
        /\ job[l.job].result = None /\ leases' = leases /\ now' = now
    BY <1>6 DEF SnapshotFail, SnapshotFenced
  <2>2. CASE /\ job[l.job].attempts < MaxAttempts
             /\ AppendAudit(l, "snapshot.retry_scheduled", None, "running")
             /\ job' = [job EXCEPT ![l.job] = MarkRetry(job[l.job])]
    <3>1. IF j = l.job THEN Recorded(j, "snapshot.retry_scheduled", None)
          ELSE EventsFor(j)' = EventsFor(j) /\ LeasesFor(j)' = LeasesFor(j)
      BY <2>1, <2>2, ReportRecords DEF Fenced, EventType, RunStatus
    <3>2. CASE j = l.job
      <4>1. Retried(j)
        BY <2>1, <2>2, <3>1, <3>2 DEF Retried, TypeOK
      <4> QED
        BY <2>1, <3>2, <4>1 DEF JobStep, Reported, LeasesFor
    <3> QED
      BY <1>4, <2>2, <3>1, <3>2
  <2>3. CASE /\ AppendAudit(l, "snapshot.failed", None, "failed")
             /\ job' = [job EXCEPT ![l.job] = MarkDeadLetter(job[l.job], "worker_failure")]
    <3>1. IF j = l.job THEN Recorded(j, "snapshot.failed", None)
          ELSE EventsFor(j)' = EventsFor(j) /\ LeasesFor(j)' = LeasesFor(j)
      BY <2>1, <2>3, ReportRecords DEF Fenced, EventType, RunStatus
    <3>2. CASE j = l.job
      <4>1. Failed(j)
        BY <2>1, <2>3, <3>1, <3>2 DEF Failed, TypeOK
      <4> QED
        BY <2>1, <3>2, <4>1 DEF JobStep, Reported, LeasesFor
    <3> QED
      BY <1>4, <2>3, <3>1, <3>2
  <2> QED
    BY <1>6, <2>2, <2>3 DEF SnapshotFail
<1>7. ASSUME NEW l \in leases, NEW a \in Artifact, Complete(l, a) \/ SnapshotComplete(l, a)
      PROVE  JobStep(j)
  <2>1. /\ Fenced(l) /\ leases' = leases /\ now' = now
        /\ job' = [job EXCEPT ![l.job] = MarkCompleted(job[l.job], a)]
        /\ Kind[l.job] \in ResearchKind =>
             ProducedSchema[Kind[l.job]] = WorkerArtifactSchema(Kind[l.job])
    BY <1>7 DEF Complete, Completable, SnapshotComplete, SnapshotFenced, ResearchKind
  <2>2. \/ AppendAudit(l, "job.completed", a, "succeeded")
        \/ /\ Kind[l.job] = "create_snapshot"
           /\ AppendAudit(l, "snapshot.completed", a, "succeeded")
    BY <1>7 DEF Complete, SnapshotComplete, SnapshotFenced
  <2>3. IF j = l.job
        THEN \/ Recorded(j, "job.completed", a)
             \/ Kind[j] = "create_snapshot" /\ Recorded(j, "snapshot.completed", a)
        ELSE EventsFor(j)' = EventsFor(j) /\ LeasesFor(j)' = LeasesFor(j)
    BY <2>1, <2>2, ReportRecords DEF Fenced, EventType, RunStatus
  <2>4. CASE j = l.job
    <3>1. Finished(j, a)
      BY <2>1, <2>3, <2>4 DEF Finished, TypeOK
    <3> QED
      BY <2>1, <2>4, <3>1 DEF JobStep, Reported, LeasesFor
  <2> QED
    BY <1>4, <2>1, <2>3, <2>4
<1>8. CASE Tick \/ UNCHANGED vars \/ \E r \in Run : CreateRun(r)
  BY <1>1, <1>8 DEF Tick, CreateRun, vars
<1>9. ASSUME NEW l \in leases, NEW a \in Artifact, Quarantine(l, a) PROVE JobStep(j)
  BY <1>1, <1>9 DEF Quarantine
<1> QED
  BY <1>2, <1>3, <1>5, <1>6, <1>7, <1>8, <1>9 DEF Next

-----------------------------------------------------------------------------
(* The inductive invariant, one job at a time.                             *)

\* The row: one that was never inserted is empty; attempts and generations are
\* counted together, up to the limit; a result is only kept by success, a fence
\* by a lease or a success; a job of a run that can be claimed has time left, and
\* research that was not given up recorded no error.
RowInv(j) ==
    /\ job[j].status = "absent" =>
         /\ job[j].attempts = 0 /\ job[j].leaseUntil = 0 /\ job[j].error = None
         /\ LeasesFor(j) = {} /\ EventsFor(j) = {}
    /\ job[j].status # "absent" => Deadline(j) > job[j].notBefore
    /\ job[j].status # "cancelled"
    /\ job[j].attempts = job[j].generation /\ job[j].attempts <= MaxAttempts
    /\ job[j].status # "succeeded" => job[j].result = None
    /\ job[j].status = "dead_letter" =>
         job[j].owner = None /\ job[j].nonce = None /\ job[j].leaseUntil = 0
    /\ Kind[j] \in ResearchKind /\ job[j].status # "dead_letter" => job[j].error = None

\* The leases: none is newer than the row, and the lease of the current
\* generation is the one the row shows, also after its result was accepted.
LeaseInv(j) ==
    \A l \in LeasesFor(j) :
        /\ l.generation > 0 /\ l.generation <= job[j].generation
        /\ /\ l.generation = job[j].generation
           /\ job[j].status \in {"leased", "succeeded"}
           => /\ l.leaseUntil = job[j].leaseUntil
              /\ l.worker = job[j].owner /\ l.nonce = job[j].nonce

\* The events: the row is terminal exactly when it has a terminal event, which
\* agrees with it.
VerdictInv(j) ==
    /\ job[j].status \in Terminal <=> \E e \in EventsFor(j) : e.type \in TerminalEvent
    /\ \A e \in EventsFor(j) :
         e.type \in TerminalEvent =>
           /\ \A f \in EventsFor(j) : f.type \in TerminalEvent => f = e
           /\ e.generation = job[j].generation /\ e.at = job[j].updatedAt
           /\ e.result = job[j].result
           /\ job[j].status = "succeeded" <=> e.type \in Accepting

\* Accepted results: the lease was live when the event was written.  Research
\* ends with an event of the queue, not of the snapshot lifecycle.
AcceptedInv(j) ==
    \A e \in EventsFor(j) :
        /\ e.type \in Accepting =>
             \E l \in LeasesFor(j) : /\ l.generation = e.generation
                                      /\ e.at < l.leaseUntil /\ e.at < Deadline(j)
        /\ Kind[j] \in ResearchKind => e.type \in {"job.completed", "job.dead_lettered"}

JobInv(j) == RowInv(j) /\ LeaseInv(j) /\ VerdictInv(j) /\ AcceptedInv(j)

QueueInv == TypeOK /\ RunsExist /\ \A j \in Job : JobInv(j)

\* An event that is not a verdict changes nothing of what the verdicts say.
LEMMA JobInvStep ==
    ASSUME TypeOK, TypeOK', NEW j \in Job, JobInv(j), JobStep(j)
    PROVE  JobInv(j)'
<1>0. /\ job[j] \in JobRow /\ job'[j] \in JobRow /\ now \in Nat /\ Ttl[j] \in Nat \ {0}
      /\ LeasesFor(j) \subseteq Lease /\ EventsFor(j) \subseteq EventRow
  BY DEF TypeOK, LeasesFor, EventsFor
<1>n. /\ job[j].attempts \in Nat /\ job[j].generation \in Nat /\ job[j].leaseUntil \in Nat
      /\ job[j].createdAt \in Nat /\ job[j].notBefore \in Nat
      /\ \A l \in LeasesFor(j) : l.generation \in Nat /\ l.leaseUntil \in Nat
  BY <1>0 DEF JobRow, Lease
<1>d. job'[j].createdAt = job[j].createdAt => Deadline(j)' = Deadline(j)
  BY DEF Deadline
<1>1. CASE Untouched(j)
  <2>1. Deadline(j)' = Deadline(j)
    BY <1>1, <1>d DEF Untouched
  <2> QED
    BY <1>1, <2>1 DEF Untouched, JobInv, RowInv, LeaseInv, VerdictInv, AcceptedInv
<1>2. CASE Inserted(j)
  <2>1. LeasesFor(j)' = {} /\ EventsFor(j)' = {} /\ job'[j] = NewRow
    BY <1>2 DEF Inserted, JobInv, RowInv
  <2>2. Deadline(j)' > job'[j].notBefore
    BY <1>0, <2>1, NewRowFields DEF Deadline
  <2>3. RowInv(j)'
    BY <2>1, <2>2, NewRowFields DEF RowInv
  <2>4. VerdictInv(j)'
    BY <2>1, NewRowFields DEF VerdictInv, Terminal
  <2> QED
    BY <2>1, <2>3, <2>4 DEF JobInv, LeaseInv, AcceptedInv
<1>3. ASSUME NEW w \in Worker, Leased(j, w) PROVE JobInv(j)'
  <2> DEFINE new == job'[j]
             lease == LeaseOf(j, w)
  <2>1. /\ EventsFor(j)' = EventsFor(j) /\ LeasesFor(j)' = LeasesFor(j) \cup {lease}
        /\ new = MarkLeased(job[j], j, w) /\ Claimable(j)
    BY <1>3 DEF Leased
  <2>2. /\ new.status = "leased" /\ new.leaseUntil = now + LeaseFor
        /\ new.attempts = job[j].attempts + 1 /\ new.generation = job[j].generation + 1
        /\ new.owner = w /\ new.nonce = <<j, job[j].generation + 1>>
        /\ new.createdAt = job[j].createdAt /\ new.notBefore = job[j].notBefore
        /\ new.result = job[j].result /\ new.error = job[j].error
    BY <1>0, <2>1, MarkFields
  <2>3. job[j].status \in {"queued", "leased"} /\ job[j].attempts < MaxAttempts
    BY <2>1 DEF Claimable
  <2>4. /\ lease.generation = job[j].generation + 1 /\ lease.worker = w
        /\ lease.nonce = <<j, job[j].generation + 1>> /\ lease.leaseUntil = now + LeaseFor
    BY LeaseFields
  <2> HIDE DEF new, lease
  <2>5. RowInv(j)'
    BY <1>d, <1>n, <2>2, <2>3 DEF JobInv, RowInv, new
  <2>6. LeaseInv(j)'
    BY <1>n, <2>1, <2>2, <2>4 DEF JobInv, LeaseInv, new
  <2>7. VerdictInv(j)'
    BY <2>1, <2>2, <2>3 DEF JobInv, VerdictInv, Terminal, new
  <2>8. AcceptedInv(j)'
    BY <1>d, <2>1, <2>2 DEF JobInv, AcceptedInv, new
  <2> QED
    BY <2>5, <2>6, <2>7, <2>8 DEF JobInv
<1>4. ASSUME NEW reason \in ErrorCode, NEW t \in TerminalEvent \ Accepting,
             job[j].status \in {"queued", "leased"}, job[j].result = None,
             job'[j] = MarkDeadLetter(job[j], reason), Recorded(j, t, None),
             Kind[j] \in ResearchKind => t = "job.dead_lettered"
      PROVE  JobInv(j)'
  <2> DEFINE new == job'[j]
  <2>1. PICK n \in Nat :
          EventsFor(j)' = EventsFor(j) \cup {AuditEvent(j, n, job[j].generation, t, None)}
    BY <1>4 DEF Recorded
  <2> DEFINE e == AuditEvent(j, n, job[j].generation, t, None)
  <2>2. EventsFor(j)' = EventsFor(j) \cup {e} /\ LeasesFor(j)' = LeasesFor(j)
    BY <1>4, <2>1 DEF Recorded
  <2>3. e.generation = job[j].generation /\ e.type = t /\ e.at = now /\ e.result = None
    BY EventFields
  <2>4. /\ new.status = "dead_letter" /\ new.leaseUntil = 0
        /\ new.attempts = job[j].attempts /\ new.generation = job[j].generation
        /\ new.owner = None /\ new.nonce = None
        /\ new.createdAt = job[j].createdAt /\ new.notBefore = job[j].notBefore
        /\ new.result = job[j].result /\ new.updatedAt = now
    BY <1>0, <1>4, MarkFields
  <2>5. \A f \in EventsFor(j) : f.type \notin TerminalEvent
    BY <1>4 DEF JobInv, VerdictInv, Terminal
  <2> HIDE DEF new, e
  <2>6. RowInv(j)'
    BY <1>4, <1>d, <2>4 DEF JobInv, RowInv, new
  <2>7. LeaseInv(j)'
    BY <2>2, <2>4 DEF JobInv, LeaseInv, new
  <2>8. VerdictInv(j)'
    BY <1>4, <2>2, <2>3, <2>4, <2>5 DEF VerdictInv, Terminal, new
  <2>9. AcceptedInv(j)'
    BY <1>4, <1>d, <2>2, <2>3, <2>4 DEF JobInv, AcceptedInv, new
  <2> QED
    BY <2>6, <2>7, <2>8, <2>9 DEF JobInv
<1>5. CASE Buried(j)
  BY <1>4, <1>5 DEF Buried, Unclaimable, DeadLetterReason, ErrorCode, TerminalEvent,
                    EventType, Accepting
<1>6. ASSUME NEW l \in LeasesFor(j), Fenced(l), Failed(j) PROVE JobInv(j)'
  <2>1. job[j].status = "leased"
    BY <1>6 DEF Fenced, LeasesFor
  <2> QED
    BY <1>4, <1>6, <2>1 DEF Failed, ErrorCode, TerminalEvent, EventType, Accepting, ResearchKind
<1>7. ASSUME NEW l \in LeasesFor(j), Fenced(l), Retried(j) PROVE JobInv(j)'
  <2> DEFINE new == job'[j]
  <2>1. PICK n \in Nat :
          EventsFor(j)' = EventsFor(j) \cup
             {AuditEvent(j, n, job[j].generation, "snapshot.retry_scheduled", None)}
    BY <1>7 DEF Retried, Recorded
  <2> DEFINE e == AuditEvent(j, n, job[j].generation, "snapshot.retry_scheduled", None)
  <2>2. EventsFor(j)' = EventsFor(j) \cup {e} /\ LeasesFor(j)' = LeasesFor(j)
    BY <1>7, <2>1 DEF Retried, Recorded
  <2>3. e.type = "snapshot.retry_scheduled"
    BY EventFields
  <2>4. /\ new.status = "queued" /\ new.attempts = job[j].attempts
        /\ new.generation = job[j].generation
        /\ new.createdAt = job[j].createdAt /\ new.notBefore = now
        /\ new.result = job[j].result
    BY <1>0, <1>7, MarkFields DEF Retried
  <2>5. /\ job[j].status = "leased" /\ Deadline(j) > now /\ Kind[j] \notin ResearchKind
        /\ job[j].result = None
    BY <1>7 DEF Fenced, LeasesFor, Retried, ResearchKind
  <2>6. e.type \notin TerminalEvent /\ e.type \notin Accepting
    BY <2>3 DEF TerminalEvent, EventType, Accepting
  <2> HIDE DEF new, e
  <2>7. RowInv(j)'
    BY <1>d, <2>4, <2>5 DEF JobInv, RowInv, new
  <2>8. LeaseInv(j)'
    BY <2>2, <2>4 DEF JobInv, LeaseInv, new
  <2>9. VerdictInv(j)'
    BY <2>2, <2>4, <2>5, <2>6 DEF JobInv, VerdictInv, Terminal, new
  <2>10. AcceptedInv(j)'
    BY <1>d, <2>2, <2>4, <2>5, <2>6 DEF JobInv, AcceptedInv, new
  <2> QED
    BY <2>7, <2>8, <2>9, <2>10 DEF JobInv
<1>8. ASSUME NEW l \in LeasesFor(j), Fenced(l), NEW a \in Artifact, Finished(j, a)
      PROVE  JobInv(j)'
  <2> DEFINE new == job'[j]
  <2>1. PICK t \in Accepting : /\ Recorded(j, t, a)
                               /\ Kind[j] \in ResearchKind => t = "job.completed"
    BY <1>8 DEF Finished, Accepting, ResearchKind
  <2>2. PICK n \in Nat :
          EventsFor(j)' = EventsFor(j) \cup {AuditEvent(j, n, job[j].generation, t, a)}
    BY <2>1 DEF Recorded
  <2> DEFINE e == AuditEvent(j, n, job[j].generation, t, a)
  <2>3. EventsFor(j)' = EventsFor(j) \cup {e} /\ LeasesFor(j)' = LeasesFor(j)
    BY <2>1, <2>2 DEF Recorded
  <2>4. e.generation = job[j].generation /\ e.type = t /\ e.at = now /\ e.result = a
    BY EventFields
  <2>5. /\ new.status = "succeeded" /\ new.leaseUntil = job[j].leaseUntil
        /\ new.attempts = job[j].attempts /\ new.generation = job[j].generation
        /\ new.owner = job[j].owner /\ new.nonce = job[j].nonce
        /\ new.createdAt = job[j].createdAt /\ new.notBefore = job[j].notBefore
        /\ new.result = a /\ new.error = job[j].error /\ new.updatedAt = now
    BY <1>0, <1>8, MarkFields DEF Finished
  <2>6. /\ job[j].status = "leased" /\ l.generation = job[j].generation
        /\ job[j].leaseUntil > now /\ Deadline(j) > now
    BY <1>8 DEF Fenced, LeasesFor
  <2>7. \A f \in EventsFor(j) : f.type \notin TerminalEvent
    BY <2>6 DEF JobInv, VerdictInv, Terminal
  <2>8. t \in TerminalEvent
    BY <2>1 DEF Accepting, TerminalEvent, EventType
  <2> HIDE DEF new, e
  <2>9. RowInv(j)'
    BY <1>d, <2>5, <2>6 DEF JobInv, RowInv, new
  <2>10. LeaseInv(j)'
    BY <2>3, <2>5, <2>6 DEF JobInv, LeaseInv, new
  <2>11. VerdictInv(j)'
    BY <2>1, <2>3, <2>4, <2>5, <2>7, <2>8 DEF VerdictInv, Terminal, new
  <2>12. AcceptedInv(j)'
    <3>1. l.leaseUntil = job[j].leaseUntil
      BY <2>6 DEF JobInv, LeaseInv
    <3>2. Deadline(j)' = Deadline(j)
      BY <1>d, <2>5 DEF new
    <3> QED
      BY <2>1, <2>3, <2>4, <2>6, <3>1, <3>2 DEF JobInv, AcceptedInv
  <2> QED
    BY <2>9, <2>10, <2>11, <2>12 DEF JobInv
<1> QED
  BY <1>1, <1>2, <1>3, <1>5, <1>6, <1>7, <1>8 DEF JobStep, Reported

\* No step removes a run.
LEMMA RunsStay ==
    ASSUME TypeOK, [Next]_vars, NEW r \in Run, run[r].status # "absent"
    PROVE  run'[r].status # "absent"
<1> USE DEF RunHead
<1>0. run \in [Run -> RunRow]
  BY DEF TypeOK
<1>1. ASSUME NEW l, NEW t, NEW a, NEW s, s # "absent", AppendAudit(l, t, a, s)
      PROVE  run'[r].status # "absent"
  BY <1>0, <1>1 DEF AppendAudit
<1>2. ASSUME NEW w \in Worker, NEW locked \in SUBSET Job, Claim(w, locked)
      PROVE  run'[r].status # "absent"
  BY <1>2 DEF Claim
<1>3. ASSUME NEW l \in leases, Fail(l) \/ SnapshotFail(l) PROVE run'[r].status # "absent"
  BY <1>1, <1>3 DEF Fail, SnapshotFail
<1>4. ASSUME NEW l \in leases, NEW a \in Artifact, Complete(l, a) \/ SnapshotComplete(l, a)
      PROVE  run'[r].status # "absent"
  BY <1>1, <1>4 DEF Complete, SnapshotComplete
<1>5. ASSUME NEW k \in Run, CreateRun(k) PROVE run'[r].status # "absent"
  BY <1>0, <1>5 DEF CreateRun
<1>6. ASSUME NEW j \in Job, RequestRun(j) \/ Enqueue(j) PROVE run'[r].status # "absent"
  BY <1>0, <1>6 DEF RequestRun, Enqueue
<1>7. ASSUME NEW l \in leases, NEW a \in Artifact, Quarantine(l, a)
      PROVE  run'[r].status # "absent"
  BY <1>7 DEF Quarantine
<1>8. CASE Tick \/ UNCHANGED vars
  BY <1>8 DEF Tick, vars
<1> QED
  BY <1>2, <1>3, <1>4, <1>5, <1>6, <1>7, <1>8 DEF Next

\* The queue's invariant holds in every reachable state.
THEOREM QueueInvariant == Spec => []QueueInv
<1>1. Init => QueueInv
  <2> SUFFICES ASSUME Init PROVE QueueInv
    OBVIOUS
  <2>1. TypeOK
    BY DEF Init, TypeOK, NewRow, JobRow, RunRow, JobStatus, RunStatus
  <2>2. \A j \in Job : /\ job[j].status = "absent" /\ job[j].attempts = 0
                       /\ job[j].generation = 0 /\ job[j].leaseUntil = 0
                       /\ job[j].result = None /\ job[j].error = None
    BY DEF Init, NewRow
  <2>3. \A j \in Job : LeasesFor(j) = {} /\ EventsFor(j) = {}
    BY DEF Init, LeasesFor, EventsFor
  <2>4. \A j \in Job : JobInv(j)
    BY <2>2, <2>3 DEF JobInv, RowInv, LeaseInv, VerdictInv, AcceptedInv, Terminal
  <2> QED
    BY <2>1, <2>2, <2>4 DEF QueueInv, RunsExist
<1>2. QueueInv /\ TypeOK' /\ [Next]_vars => QueueInv'
  <2> SUFFICES ASSUME QueueInv, TypeOK', [Next]_vars PROVE RunsExist' /\ \A j \in Job : JobInv(j)'
    BY DEF QueueInv
  <2>1. TypeOK /\ RunsExist
    BY DEF QueueInv
  <2>2. \A j \in Job : JobStep(j)
    BY <2>1, JobSteps
  <2>3. \A j \in Job : JobInv(j)'
    BY <2>1, <2>2, JobInvStep DEF QueueInv
  <2>4. RunsExist'
    <3> SUFFICES ASSUME NEW j \in Job, run'[RunOf[j]].status = "absent"
                 PROVE  job'[j].status = "absent"
      BY DEF RunsExist
    <3>1. run[RunOf[j]].status = "absent"
      BY <2>1, RunsStay
    <3>2. job[j].status = "absent"
      BY <2>1, <3>1 DEF RunsExist
    <3>3. LeasesFor(j) = {}
      BY <3>2 DEF QueueInv, JobInv, RowInv
    <3> QED
      BY <2>2, <3>2, <3>3 DEF JobStep, Untouched, Inserted, Leased, Buried, Claimable, Unclaimable
  <2> QED
    BY <2>3, <2>4
<1> QED
  BY <1>1, <1>2, TypeCorrect, PTL DEF Spec

-----------------------------------------------------------------------------
\* An accepted result was presented under a lease the queue issued, before that
\* lease and the deadline ran out, and no later lease of the job was issued.
THEOREM AcceptedOnlyWhileLive == Spec => []AcceptedWhileLive
<1>1. QueueInv => AcceptedWhileLive
  <2> SUFFICES ASSUME QueueInv, NEW e \in events, e.type \in Accepting
               PROVE  \E l \in leases :
                        /\ l.job = e.job /\ l.generation = e.generation
                        /\ e.at < l.leaseUntil /\ e.at < Deadline(e.job)
                        /\ \A m \in leases : m.job = l.job => m.generation <= l.generation
    BY DEF AcceptedWhileLive, Accepting
  <2>1. e.job \in Job /\ e \in EventsFor(e.job) /\ JobInv(e.job)
    BY DEF QueueInv, TypeOK, EventRow, EventsFor
  <2>2. PICK l \in LeasesFor(e.job) : /\ l.generation = e.generation
                                      /\ e.at < l.leaseUntil /\ e.at < Deadline(e.job)
    BY <2>1 DEF JobInv, AcceptedInv
  <2>3. e.type \in TerminalEvent
    BY DEF Accepting, TerminalEvent, EventType
  <2>4. e.generation = job[e.job].generation
    BY <2>1, <2>3 DEF JobInv, VerdictInv
  <2>5. \A m \in LeasesFor(e.job) : m.generation <= job[e.job].generation
    BY <2>1 DEF JobInv, LeaseInv
  <2> QED
    BY <2>2, <2>4, <2>5 DEF LeasesFor
<1> QED
  BY <1>1, QueueInvariant, PTL

\* What a step does to the columns of a row.
LEMMA RowKept ==
    ASSUME QueueInv, NEW j \in Job, JobStep(j)
    PROVE  /\ job[j].status \in Terminal => job'[j] = job[j]
           /\ job'[j].attempts >= job[j].attempts
           /\ job'[j].generation >= job[j].generation
           /\ JobColumns(j)
           /\ EventsFor(j) \subseteq EventsFor(j)'
<1>0. job[j] \in JobRow /\ job[j].attempts \in Nat /\ job[j].generation \in Nat
  BY DEF QueueInv, TypeOK, JobRow
<1> USE DEF JobColumns, Terminal
<1>1. CASE Untouched(j)
  BY <1>0, <1>1 DEF Untouched
<1>2. CASE Inserted(j)
  <2>1. job[j].attempts = 0 /\ job[j].generation = 0
    BY <1>2 DEF Inserted, QueueInv, JobInv, RowInv
  <2> QED
    BY <1>2, <2>1, NewRowFields DEF Inserted
<1>3. ASSUME NEW w \in Worker, Leased(j, w)
      PROVE  /\ job[j].status \notin Terminal
             /\ job'[j].attempts = job[j].attempts + 1
             /\ job'[j].generation = job[j].generation + 1
             /\ job'[j].createdAt = job[j].createdAt
             /\ EventsFor(j) \subseteq EventsFor(j)'
  <2>1. job'[j] = MarkLeased(job[j], j, w) /\ Claimable(j) /\ EventsFor(j)' = EventsFor(j)
    BY <1>3 DEF Leased
  <2>2. /\ job'[j].attempts = job[j].attempts + 1
        /\ job'[j].generation = job[j].generation + 1
        /\ job'[j].createdAt = job[j].createdAt
    BY <1>0, <2>1, MarkFields
  <2> QED
    BY <2>1, <2>2 DEF Claimable
<1>4. ASSUME NEW e \in ErrorCode, job'[j] = MarkDeadLetter(job[j], e)
      PROVE  /\ job'[j].attempts = job[j].attempts /\ job'[j].generation = job[j].generation
             /\ job'[j].createdAt = job[j].createdAt
  BY <1>0, <1>4, MarkFields
<1>5. ASSUME NEW t, NEW a, Recorded(j, t, a) PROVE EventsFor(j) \subseteq EventsFor(j)'
  BY <1>5 DEF Recorded
<1>6. CASE Buried(j)
  BY <1>0, <1>4, <1>5, <1>6 DEF Buried, Unclaimable, DeadLetterReason, ErrorCode
<1>7. ASSUME NEW l \in LeasesFor(j), Reported(j, l)
      PROVE  /\ job[j].status \notin Terminal
             /\ job'[j].attempts = job[j].attempts /\ job'[j].generation = job[j].generation
             /\ job'[j].createdAt = job[j].createdAt
             /\ EventsFor(j) \subseteq EventsFor(j)'
  <2>1. job[j].status = "leased"
    BY <1>7 DEF Reported, Fenced, LeasesFor
  <2>2. CASE Failed(j)
    BY <1>4, <1>5, <2>1, <2>2 DEF Failed, ErrorCode
  <2>3. CASE Retried(j)
    BY <1>0, <1>5, <2>1, <2>3, MarkFields DEF Retried
  <2>4. ASSUME NEW a \in Artifact, Finished(j, a)
        PROVE  /\ job'[j].attempts = job[j].attempts
               /\ job'[j].generation = job[j].generation
               /\ job'[j].createdAt = job[j].createdAt
               /\ EventsFor(j) \subseteq EventsFor(j)'
    BY <1>0, <1>5, <2>4, MarkFields DEF Finished
  <2> QED
    BY <1>7, <2>1, <2>2, <2>3, <2>4 DEF Reported
<1> QED
  BY <1>0, <1>1, <1>2, <1>3, <1>6, <1>7 DEF JobStep

\* A terminal row is never written again, no attempt or generation is taken
\* back, and no step writes a column or an append-only row the database protects.
THEOREM VerdictsAreFinal == Spec => VerdictIsFinal
<1> DEFINE Step == /\ \A j \in Job : /\ job[j].status \in Terminal => job'[j] = job[j]
                                     /\ job'[j].attempts >= job[j].attempts
                                     /\ job'[j].generation >= job[j].generation
                                     /\ JobColumns(j)
                   /\ AppendOnly
<1>1. QueueInv /\ [Next]_vars => Step
  <2> SUFFICES ASSUME QueueInv, [Next]_vars PROVE Step
    OBVIOUS
  <2>1. \A j \in Job : JobStep(j)
    BY JobSteps DEF QueueInv
  <2>2. \A j \in Job : /\ job[j].status \in Terminal => job'[j] = job[j]
                       /\ job'[j].attempts >= job[j].attempts
                       /\ job'[j].generation >= job[j].generation
                       /\ JobColumns(j)
                       /\ EventsFor(j) \subseteq EventsFor(j)'
    BY <2>1, RowKept
  <2>3. events \subseteq events'
    <3>1. \A e \in events : e.job \in Job /\ e \in EventsFor(e.job)
      BY DEF QueueInv, TypeOK, EventRow, EventsFor
    <3> QED
      BY <2>2, <3>1 DEF EventsFor
  <2>4. quarantined \subseteq quarantined'
    BY DEF Next, vars, Tick, CreateRun, RequestRun, Enqueue, Claim, Fail, SnapshotFail,
           Complete, Quarantine, SnapshotComplete
  <2> QED
    BY <2>2, <2>3, <2>4 DEF AppendOnly
<1> QED
  BY <1>1, QueueInvariant, PTL DEF Spec, VerdictIsFinal

-----------------------------------------------------------------------------
(* The queue implements LeasedTask.                                        *)

TaskRecord(s, n, u, o) == [state |-> s, attempts |-> n, until |-> u, outcome |-> o]

\* The steps of LeasedTask, field by field.
LEMMA TaskMoves ==
    ASSUME NEW n, NEW u, NEW o
    PROVE  /\ Promised!Submit(TaskRecord("none", n, u, o), TaskRecord("open", n, u, o))
           /\ \A s \in {"open", "held"} : \A x :
                /\ s = "held" => u <= now
                /\ n < MaxAttempts /\ x > now
                => Promised!Lease(TaskRecord(s, n, u, o), TaskRecord("held", n + 1, x, o))
           /\ now < u /\ n < MaxAttempts =>
                Promised!Release(TaskRecord("held", n, u, o), TaskRecord("open", n, 0, o))
           /\ \A a \in Artifact :
                now < u => Promised!Finish(TaskRecord("held", n, u, o), TaskRecord("done", n, u, a))
           /\ \A s \in {"open", "held"} :
                Promised!Bury(TaskRecord(s, n, u, o), TaskRecord("dead", n, 0, o))
<1>0. \A s : /\ TaskRecord(s, n, u, o).state = s /\ TaskRecord(s, n, u, o).attempts = n
             /\ TaskRecord(s, n, u, o).until = u /\ TaskRecord(s, n, u, o).outcome = o
  BY DEF TaskRecord
<1>1. \A s, t : [TaskRecord(s, n, u, o) EXCEPT !.state = t] = TaskRecord(t, n, u, o)
  BY DEF TaskRecord
<1>2. \A s, x : [TaskRecord(s, n, u, o) EXCEPT !.until = x] = TaskRecord(s, n, x, o)
  BY DEF TaskRecord
<1>3. \A s, x : [TaskRecord(s, n, u, o) EXCEPT !.outcome = x] = TaskRecord(s, n, u, x)
  BY DEF TaskRecord
<1>4. \A s : [TaskRecord(s, n, u, o) EXCEPT !.attempts = n + 1] = TaskRecord(s, n + 1, u, o)
  BY DEF TaskRecord
<1>5. \A s, x : [TaskRecord(s, n + 1, u, o) EXCEPT !.until = x] = TaskRecord(s, n + 1, x, o)
  BY DEF TaskRecord
<1>6. Promised!Submit(TaskRecord("none", n, u, o), TaskRecord("open", n, u, o))
  BY <1>0, <1>1 DEF Promised!Submit
<1>7. ASSUME NEW s \in {"open", "held"}, NEW x, s = "held" => u <= now, n < MaxAttempts, x > now
      PROVE  Promised!Lease(TaskRecord(s, n, u, o), TaskRecord("held", n + 1, x, o))
  <2> DEFINE old == TaskRecord(s, n, u, o)
             new == TaskRecord("held", n + 1, x, o)
  <2>1. old.state = s /\ old.attempts = n /\ old.until = u
    BY <1>0
  <2>2. new.until = x
    BY DEF TaskRecord
  <2>3. [[[old EXCEPT !.state = "held"] EXCEPT !.attempts = n + 1] EXCEPT !.until = x] = new
    BY <1>1, <1>4, <1>5, ZenonT(30)
  <2> HIDE DEF old, new
  <2>4. [old EXCEPT !.state = "held", !.attempts = @ + 1, !.until = x]
          = [[[old EXCEPT !.state = "held"] EXCEPT !.attempts = n + 1] EXCEPT !.until = x]
    BY <2>1
  <2>5. Promised!Lease(old, new)
    BY <1>7, <2>1, <2>2, <2>3, <2>4 DEF Promised!Lease
  <2> QED
    BY <2>5 DEF old, new
<1>8. ASSUME NEW s \in {"open", "held"}, NEW t
      PROVE  [TaskRecord(s, n, u, o) EXCEPT !.state = t, !.until = 0] = TaskRecord(t, n, 0, o)
  <2> DEFINE old == TaskRecord(s, n, u, o)
  <2>1. [[old EXCEPT !.state = t] EXCEPT !.until = 0] = TaskRecord(t, n, 0, o)
    BY <1>1, <1>2
  <2> HIDE DEF old
  <2>2. [old EXCEPT !.state = t, !.until = 0] = [[old EXCEPT !.state = t] EXCEPT !.until = 0]
    OBVIOUS
  <2> QED
    BY <2>1, <2>2 DEF old
<1>9. ASSUME NEW a \in Artifact, now < u
      PROVE  Promised!Finish(TaskRecord("held", n, u, o), TaskRecord("done", n, u, a))
  <2> DEFINE old == TaskRecord("held", n, u, o)
             new == TaskRecord("done", n, u, a)
  <2>0. /\ [old EXCEPT !.state = "done"] = TaskRecord("done", n, u, o)
        /\ [TaskRecord("done", n, u, o) EXCEPT !.outcome = a] = new
    BY <1>1, <1>3
  <2>1. [[old EXCEPT !.state = "done"] EXCEPT !.outcome = a] = new
    BY <2>0
  <2>2. old.state = "held" /\ old.until = u
    BY <1>0
  <2>3. new.outcome = a
    BY DEF TaskRecord
  <2> HIDE DEF old, new
  <2>4. [old EXCEPT !.state = "done", !.outcome = a] = [[old EXCEPT !.state = "done"] EXCEPT !.outcome = a]
    OBVIOUS
  <2>5. Promised!Finish(old, new)
    BY <1>9, <2>1, <2>2, <2>3, <2>4 DEF Promised!Finish
  <2> QED
    BY <2>5 DEF old, new
<1>10. ASSUME now < u, n < MaxAttempts
       PROVE  Promised!Release(TaskRecord("held", n, u, o), TaskRecord("open", n, 0, o))
  BY <1>0, <1>8, <1>10 DEF Promised!Release
<1>11. ASSUME NEW s \in {"open", "held"}
       PROVE  Promised!Bury(TaskRecord(s, n, u, o), TaskRecord("dead", n, 0, o))
  BY <1>0, <1>8, <1>11 DEF Promised!Bury
<1> QED
  BY <1>6, <1>7, <1>9, <1>10, <1>11

\* What a step does to a job, it does to the task the job stands for.
LEMMA TaskSteps ==
    ASSUME QueueInv, QueueInv', NEW j \in Job, JobStep(j), TaskOf(j)' # TaskOf(j)
    PROVE  \/ Promised!Submit(TaskOf(j), TaskOf(j)')
           \/ Promised!Lease(TaskOf(j), TaskOf(j)')
           \/ Promised!Release(TaskOf(j), TaskOf(j)')
           \/ Promised!Finish(TaskOf(j), TaskOf(j)')
           \/ Promised!Bury(TaskOf(j), TaskOf(j)')
<1>0. job[j] \in JobRow /\ job[j].attempts \in Nat /\ job[j].leaseUntil \in Nat /\ now \in Nat
  BY DEF QueueInv, TypeOK, JobRow
<1> DEFINE new == job'[j]
           Old(s) == TaskRecord(s, job[j].attempts, job[j].leaseUntil, job[j].result)
           New(s) == TaskRecord(s, new.attempts, new.leaseUntil, new.result)
<1>s. /\ job[j].status = "absent" => TaskOf(j) = Old("none")
      /\ job[j].status = "queued" => TaskOf(j) = Old("open")
      /\ job[j].status = "leased" => TaskOf(j) = Old("held")
  BY DEF TaskOf, TaskRecord
<1>t. /\ new.status = "queued" => TaskOf(j)' = New("open")
      /\ new.status = "leased" => TaskOf(j)' = New("held")
      /\ new.status = "succeeded" => TaskOf(j)' = New("done")
      /\ new.status = "dead_letter" => TaskOf(j)' = New("dead")
  BY DEF TaskOf, TaskRecord
<1>1. CASE Untouched(j)
  BY <1>1 DEF Untouched, TaskOf
<1>2. CASE Inserted(j)
  <2>1. /\ job[j].status = "absent" /\ job[j].attempts = 0 /\ job[j].leaseUntil = 0
        /\ job[j].result = None
    BY <1>2 DEF Inserted, QueueInv, JobInv, RowInv
  <2>2. new.status = "queued" /\ new.attempts = 0 /\ new.leaseUntil = 0 /\ new.result = None
    BY <1>2, NewRowFields DEF Inserted
  <2> QED
    BY <1>s, <1>t, <2>1, <2>2, TaskMoves
<1>3. ASSUME NEW w \in Worker, Leased(j, w) PROVE Promised!Lease(TaskOf(j), TaskOf(j)')
  <2>1. /\ new.status = "leased" /\ new.attempts = job[j].attempts + 1
        /\ new.leaseUntil = now + LeaseFor /\ new.result = job[j].result
    BY <1>0, <1>3, MarkFields DEF Leased
  <2>2. /\ job[j].status = "queued" \/ (job[j].status = "leased" /\ job[j].leaseUntil <= now)
        /\ job[j].attempts < MaxAttempts
    BY <1>3 DEF Leased, Claimable
  <2>3. now + LeaseFor > now
    BY <1>0
  <2>4. PICK s \in {"open", "held"} : /\ TaskOf(j) = Old(s)
                                      /\ s = "held" => job[j].leaseUntil <= now
    BY <1>s, <2>2
  <2>5. TaskOf(j)' = TaskRecord("held", job[j].attempts + 1, now + LeaseFor, job[j].result)
    BY <1>t, <2>1
  <2> QED
    BY <2>2, <2>3, <2>4, <2>5, TaskMoves
<1>4. ASSUME NEW e \in ErrorCode, job'[j] = MarkDeadLetter(job[j], e),
             job[j].status \in {"queued", "leased"}
      PROVE  Promised!Bury(TaskOf(j), TaskOf(j)')
  <2>1. /\ new.status = "dead_letter" /\ new.attempts = job[j].attempts
        /\ new.leaseUntil = 0 /\ new.result = job[j].result
    BY <1>0, <1>4, MarkFields
  <2>2. PICK s \in {"open", "held"} : TaskOf(j) = Old(s)
    BY <1>s, <1>4
  <2>3. TaskOf(j)' = TaskRecord("dead", job[j].attempts, 0, job[j].result)
    BY <1>t, <2>1
  <2> QED
    BY <2>2, <2>3, TaskMoves
<1>5. CASE Buried(j)
  BY <1>4, <1>5 DEF Buried, Unclaimable, DeadLetterReason, ErrorCode
<1>6. ASSUME NEW l \in LeasesFor(j), Reported(j, l)
      PROVE  \/ Promised!Release(TaskOf(j), TaskOf(j)')
             \/ Promised!Finish(TaskOf(j), TaskOf(j)')
             \/ Promised!Bury(TaskOf(j), TaskOf(j)')
  <2>1. job[j].status = "leased" /\ now < job[j].leaseUntil
    BY <1>0, <1>6 DEF Reported, Fenced, LeasesFor
  <2>2. CASE Failed(j)
    BY <1>4, <2>1, <2>2 DEF Failed, ErrorCode
  <2>3. CASE Retried(j)
    <3>1. /\ new.status = "queued" /\ new.attempts = job[j].attempts
          /\ new.leaseUntil = 0 /\ new.result = job[j].result
          /\ job[j].attempts < MaxAttempts
      BY <1>0, <2>3, MarkFields DEF Retried
    <3>2. /\ TaskOf(j) = Old("held")
          /\ TaskOf(j)' = TaskRecord("open", job[j].attempts, 0, job[j].result)
      BY <1>s, <1>t, <2>1, <3>1
    <3> QED
      BY <2>1, <3>1, <3>2, TaskMoves
  <2>4. ASSUME NEW a \in Artifact, Finished(j, a) PROVE Promised!Finish(TaskOf(j), TaskOf(j)')
    <3>1. /\ new.status = "succeeded" /\ new.attempts = job[j].attempts
          /\ new.leaseUntil = job[j].leaseUntil /\ new.result = a
      BY <1>0, <2>4, MarkFields DEF Finished
    <3>2. /\ TaskOf(j) = Old("held")
          /\ TaskOf(j)' = TaskRecord("done", job[j].attempts, job[j].leaseUntil, a)
      BY <1>s, <1>t, <2>1, <3>1
    <3> QED
      BY <2>1, <3>2, TaskMoves
  <2> QED
    BY <1>6, <2>2, <2>3, <2>4 DEF Reported
<1> QED
  BY <1>1, <1>2, <1>3, <1>5, <1>6 DEF JobStep

\* The clock of the queue never runs backwards, and nothing moves with it.
LEMMA ClockSteps ==
    ASSUME TypeOK, [Next]_vars
    PROVE  now' = now \/ (now' > now /\ job' = job)
BY DEF Next, vars, Tick, CreateRun, RequestRun, Enqueue, Claim, Fail, SnapshotFail,
       Complete, Quarantine, SnapshotComplete, TypeOK

\* Refinement: whatever transactions interleave, the queue's rows behave as the
\* tasks of LeasedTask: one holder at a time, taken over only when its time is
\* over, finished once and in time, at most MaxAttempts times, and never revived.
THEOREM QueueImplementsLeasedTask == Spec => QueueIsLeasedTask
<1> DEFINE tasks == [j \in Job |-> TaskOf(j)]
<1>1. Init => Promised!Init
  <2> SUFFICES ASSUME Init PROVE Promised!Init
    OBVIOUS
  <2>1. \A j \in Job : /\ job[j].status = "absent" /\ job[j].attempts = 0
                       /\ job[j].leaseUntil = 0 /\ job[j].result = None
    BY DEF Init, NewRow
  <2>2. \A j \in Job : TaskOf(j) = [state |-> "none", attempts |-> 0, until |-> 0, outcome |-> None]
    BY <2>1 DEF TaskOf
  <2> QED
    BY <2>2 DEF Init, Promised!Init
<1>2. QueueInv /\ QueueInv' /\ [Next]_vars => [Promised!Next]_<<now, tasks>>
  <2> SUFFICES ASSUME QueueInv, QueueInv', [Next]_vars, ~ UNCHANGED <<now, tasks>>
               PROVE  Promised!Next
    OBVIOUS
  <2>0. TypeOK /\ \A j \in Job : JobStep(j)
    BY JobSteps DEF QueueInv
  <2>1. \A j \in Job : tasks[j] = TaskOf(j) /\ tasks'[j] = TaskOf(j)'
    OBVIOUS
  <2>2. CASE now' > now /\ job' = job
    <3>1. tasks' = tasks
      BY <2>2 DEF TaskOf
    <3> QED
      BY <2>2, <3>1 DEF Promised!Next
  <2>3. CASE now' = now
    <3> DEFINE moved == {j \in Job : TaskOf(j)' # TaskOf(j)}
    <3>1. \A j \in Job \ moved : tasks'[j] = tasks[j]
      BY <2>1
    <3>2. ASSUME NEW j \in moved
          PROVE  \/ Promised!Submit(tasks[j], tasks'[j])
                 \/ Promised!Lease(tasks[j], tasks'[j])
                 \/ Promised!Release(tasks[j], tasks'[j])
                 \/ Promised!Finish(tasks[j], tasks'[j])
                 \/ Promised!Bury(tasks[j], tasks'[j])
      <4>1. /\ tasks[j] = TaskOf(j) /\ tasks'[j] = TaskOf(j)'
            /\ j \in Job /\ TaskOf(j)' # TaskOf(j)
        BY <2>1
      <4>2. \/ Promised!Submit(TaskOf(j), TaskOf(j)')
            \/ Promised!Lease(TaskOf(j), TaskOf(j)')
            \/ Promised!Release(TaskOf(j), TaskOf(j)')
            \/ Promised!Finish(TaskOf(j), TaskOf(j)')
            \/ Promised!Bury(TaskOf(j), TaskOf(j)')
        BY <2>0, <4>1, TaskSteps
      <4> QED
        BY <4>1, <4>2
    <3> QED
      BY <2>3, <3>1, <3>2 DEF Promised!Next
  <2> QED
    BY <2>0, <2>2, <2>3, ClockSteps
<1> QED
  BY <1>1, <1>2, QueueInvariant, PTL DEF Spec, QueueIsLeasedTask, Promised!Spec


-----------------------------------------------------------------------------
(***************************************************************************)
(* The audit of the queue: the events of every run are numbered without a  *)
(* gap or a duplicate, whatever transactions wrote them and however many   *)
(* jobs of one run a single dead-letter pass buries.                       *)
(***************************************************************************)

-----------------------------------------------------------------------------
(* The jobs of a pass are numbered by their rank.                          *)

Rank(D, j) == Cardinality({k \in D : k <= j})

\* The ranks of a finite set of ids are 1, 2, ..., each taken once.
LEMMA Ranks ==
    ASSUME NEW D \in SUBSET Nat, IsFiniteSet(D)
    PROVE  /\ \A j \in D : Rank(D, j) \in 1..Cardinality(D)
           /\ \A i, j \in D : Rank(D, i) = Rank(D, j) => i = j
           /\ \A n \in 1..Cardinality(D) : \E j \in D : Rank(D, j) = n
<1> DEFINE Below(j) == {k \in D : k <= j}
           f == [j \in D |-> Rank(D, j)]
<1>0. \A j \in D : Below(j) \in SUBSET D /\ IsFiniteSet(Below(j)) /\ j \in Below(j)
  BY FS_Subset
<1>1. Cardinality(D) \in Nat
  BY FS_CardinalityType
<1>2. ASSUME NEW j \in D PROVE Rank(D, j) \in 1..Cardinality(D)
  <2>1. Cardinality(Below(j)) \in Nat /\ Cardinality(Below(j)) # 0
    BY <1>0, FS_CardinalityType, FS_EmptySet
  <2>2. Cardinality(Below(j)) <= Cardinality(D)
    BY <1>0, FS_Subset
  <2> QED
    BY <1>1, <2>1, <2>2 DEF Rank
<1>3. ASSUME NEW i \in D, NEW j \in D, i < j PROVE Rank(D, i) # Rank(D, j)
  <2>0. i \in Nat /\ j \in Nat /\ \A k \in D : k \in Nat /\ (k <= i => k <= j)
    BY <1>3
  <2>1. j \notin Below(i) /\ j \in Below(j)
    BY <1>3, <2>0
  <2>2. Below(i) \in SUBSET Below(j)
    BY <2>0
  <2>3. Cardinality(Below(j)) # Cardinality(Below(i))
    BY <1>0, <2>1, <2>2, FS_Subset
  <2> QED
    BY <2>3 DEF Rank
<1>4. \A i, j \in D : Rank(D, i) = Rank(D, j) => i = j
  <2> SUFFICES ASSUME NEW i \in D, NEW j \in D, i # j PROVE Rank(D, i) # Rank(D, j)
    OBVIOUS
  <2>1. i < j \/ j < i
    OBVIOUS
  <2> QED
    BY <1>3, <2>1
<1>5. f \in Injection(D, 1..Cardinality(D))
  BY <1>2, <1>4 DEF Injection, IsInjective
<1>6. IsFiniteSet(1..Cardinality(D)) /\ Cardinality(1..Cardinality(D)) = Cardinality(D)
  BY <1>1, FS_Interval
<1>7. f \in Surjection(D, 1..Cardinality(D))
  BY <1>5, <1>6, FS_Injection
<1>8. \A n \in 1..Cardinality(D) : \E j \in D : Rank(D, j) = n
  BY <1>7 DEF Surjection
<1> QED
  BY <1>2, <1>4, <1>8
-----------------------------------------------------------------------------
(* What one step does to one run.                                          *)

\* The events `new' continue the chain of a run from version v to version w.
Continues(new, v, w) ==
    /\ \A e \in new : e.seq \in (v + 1)..w /\ e.at = now
    /\ \A n \in (v + 1)..w : \E e \in new : e.seq = n
    /\ \A e, f \in new : e.seq = f.seq => e = f

RunUntouched(r) == run'[r] = run[r] /\ EventsOf(r)' = EventsOf(r)

RunCreated(r) ==
    /\ run[r].status = "absent" /\ run'[r] = RunHead("pending", 1)
    /\ EventsOf(r)' = EventsOf(r)

\* They are the reports of jobs that were open, and give the run the status s.
Reports(new, s) ==
    \A e \in new : StatusAfter(e.type) = s /\ job[e.job].status \notin Terminal

RunExtended(r) ==
    \E new \in SUBSET EventRow, w \in Nat, s \in RunStatus \ {"absent"} :
        /\ w > run[r].version /\ Continues(new, run[r].version, w) /\ Reports(new, s)
        /\ run'[r] = RunHead(s, w)
        /\ EventsOf(r)' = EventsOf(r) \cup new

RunStep(r) == RunUntouched(r) \/ RunCreated(r) \/ RunExtended(r)

\* A report appends one event to the run of its job.
LEMMA ReportExtends ==
    ASSUME TypeOK, NEW l \in leases, NEW t \in EventType, NEW a \in Artifact \cup {None},
           NEW s \in RunStatus \ {"absent"}, AppendAudit(l, t, a, s), NEW r \in Run,
           s = StatusAfter(t), Fenced(l)
    PROVE  RunStep(r)
<1> DEFINE n == run[RunOf[l.job]].version + 1
           e == AuditEvent(l.job, n, l.generation, t, a)
<1>1. l.job \in Job /\ l.generation \in Nat
  BY DEF TypeOK, Lease
<1>2. run[RunOf[l.job]].version \in Nat /\ RunOf[l.job] \in Run
  BY <1>1 DEF TypeOK, RunRow
<1>3. e \in EventRow
  <2>1. n \in Nat
    BY <1>2
  <2> HIDE DEF n
  <2> QED
    BY <1>1, <2>1, RowTypes
<1>4. e.run = RunOf[l.job] /\ e.seq = n /\ e.at = now /\ e.job = l.job /\ e.type = t
  BY EventFields
<1>5. events' = events \cup {e} /\ run' = [run EXCEPT ![RunOf[l.job]] = RunHead(s, n)]
  BY DEF AppendAudit
<1> HIDE DEF e
<1>6. CASE r = RunOf[l.job]
  <2>1. EventsOf(r)' = EventsOf(r) \cup {e}
    BY <1>4, <1>5, <1>6 DEF EventsOf
  <2>2. Continues({e}, run[r].version, n)
    BY <1>2, <1>4, <1>6 DEF Continues
  <2>3. run'[r] = RunHead(s, n)
    BY <1>5, <1>6 DEF TypeOK
  <2>4. Reports({e}, s)
    <3>1. job[l.job].status \notin Terminal
      BY DEF Fenced, Terminal
    <3> QED
      BY <1>4, <3>1 DEF Reports
  <2> QED
    BY <1>2, <1>3, <1>6, <2>1, <2>2, <2>3, <2>4 DEF RunStep, RunExtended
<1>7. CASE r # RunOf[l.job]
  <2>1. EventsOf(r)' = EventsOf(r)
    BY <1>4, <1>5, <1>7 DEF EventsOf
  <2> QED
    BY <1>5, <1>7, <2>1 DEF RunStep, RunUntouched, TypeOK
<1> QED
  BY <1>6, <1>7

\* A dead-letter pass numbers the jobs it buries in one run consecutively.
LEMMA PassExtends ==
    ASSUME TypeOK, NEW w \in Worker, NEW locked \in SUBSET Job, Claim(w, locked), NEW r \in Run
    PROVE  RunStep(r)
<1> DEFINE pass == DeadLetterPass(locked)
           due == {k \in pass : RunOf[k] = r}
           v == run[r].version
           Gone(k) == AuditEvent(k, PassSeq(pass, k), job[k].generation,
                                 "job.dead_lettered", None)
           new == {Gone(k) : k \in due}
<1>1. /\ events' = events \cup {Gone(k) : k \in pass}
      /\ run'[r] = IF due = {} THEN run[r] ELSE RunHead("failed", v + Cardinality(due))
  BY DEF Claim
<1>2. pass \subseteq Job /\ due \in SUBSET Nat /\ IsFiniteSet(due) /\ v \in Nat
  <2>1. pass \subseteq Job
    BY PassFacts
  <2>2. due \in SUBSET Job
    BY <2>1
  <2>3. IsFiniteSet(due)
    BY <2>2, FS_Subset
  <2>4. v \in Nat
    BY DEF TypeOK, RunRow
  <2> QED
    BY <2>1, <2>2, <2>3, <2>4
<1>3. \A k \in due : PassSeq(pass, k) = v + Rank(due, k)
  <2> SUFFICES ASSUME NEW k \in due PROVE PassSeq(pass, k) = v + Rank(due, k)
    OBVIOUS
  <2>1. {i \in pass : RunOf[i] = RunOf[k] /\ i <= k} = {i \in due : i <= k}
    OBVIOUS
  <2>2. RunOf[k] = r
    OBVIOUS
  <2> QED
    BY <2>1, <2>2 DEF PassSeq, Rank
<1>4. /\ \A k \in due : Rank(due, k) \in 1..Cardinality(due)
      /\ \A i, k \in due : Rank(due, i) = Rank(due, k) => i = k
      /\ \A n \in 1..Cardinality(due) : \E k \in due : Rank(due, k) = n
  BY <1>2, Ranks
<1>5. Cardinality(due) \in Nat /\ (due # {} => Cardinality(due) # 0)
  BY <1>2, FS_CardinalityType, FS_EmptySet
<1>6. \A k \in pass : Gone(k).run = RunOf[k] /\ Gone(k).at = now
  BY EventFields
<1>7. \A k \in due : Gone(k).seq = v + Rank(due, k)
  BY <1>3, EventFields
<1>8. new \subseteq EventRow
  <2> SUFFICES ASSUME NEW k \in due PROVE Gone(k) \in EventRow
    OBVIOUS
  <2>1. PassSeq(pass, k) \in Nat
    BY <1>2, <1>3, <1>4, <1>5
  <2>2. k \in Job /\ job[k].generation \in Nat
    BY <1>2 DEF TypeOK, JobRow
  <2> QED
    BY <2>1, <2>2, RowTypes DEF EventType
<1> HIDE DEF pass, Gone, v
<1>9. EventsOf(r)' = EventsOf(r) \cup new
  BY <1>1, <1>6 DEF EventsOf
<1>10. CASE due = {}
  BY <1>1, <1>9, <1>10 DEF RunStep, RunUntouched
<1>11. CASE due # {}
  <2> DEFINE top == v + Cardinality(due)
  <2>1. top \in Nat /\ top > v
    BY <1>2, <1>5, <1>11
  <2>2. \A k \in due : Gone(k).seq \in (v + 1)..top /\ Gone(k).at = now
    BY <1>2, <1>4, <1>5, <1>6, <1>7
  <2>3. ASSUME NEW n \in (v + 1)..top PROVE \E e \in new : e.seq = n
    <3>1. n - v \in 1..Cardinality(due)
      BY <1>2, <1>5
    <3>2. PICK k \in due : Rank(due, k) = n - v
      BY <1>4, <3>1
    <3>3. Gone(k).seq = n
      BY <1>2, <1>7, <3>1, <3>2
    <3> QED
      BY <3>3
  <2>4. ASSUME NEW i \in due, NEW k \in due, Gone(i).seq = Gone(k).seq PROVE i = k
    <3>1. Rank(due, i) = Rank(due, k)
      BY <1>2, <1>4, <1>5, <1>7, <2>4
    <3> QED
      BY <1>4, <3>1
  <2>5. \A e, f \in new : e.seq = f.seq => e = f
    BY <2>4
  <2>6. Continues(new, v, top)
    BY <2>2, <2>3, <2>5 DEF Continues
  <2>7. run'[r] = RunHead("failed", top)
    BY <1>1, <1>11
  <2>8. Reports(new, "failed")
    <3> SUFFICES ASSUME NEW k \in due
                 PROVE  /\ StatusAfter(Gone(k).type) = "failed"
                        /\ job[Gone(k).job].status \notin Terminal
      BY DEF Reports
    <3>1. Gone(k).type = "job.dead_lettered" /\ Gone(k).job = k
      BY EventFields DEF Gone
    <3>2. job[k].status \notin Terminal
      BY PassFacts DEF pass, Unclaimable, Terminal
    <3> QED
      BY <3>1, <3>2 DEF StatusAfter
  <2> QED
    BY <1>8, <1>9, <2>1, <2>6, <2>7, <2>8 DEF RunStep, RunExtended, RunStatus, v
<1> QED
  BY <1>10, <1>11

\* Every step creates a run, continues its chain or leaves it as it is.
LEMMA RunSteps ==
    ASSUME TypeOK, [Next]_vars
    PROVE  \A r \in Run : RunStep(r)
<1> SUFFICES ASSUME NEW r \in Run PROVE RunStep(r)
  OBVIOUS
<1>1. CASE run' = run /\ events' = events
  BY <1>1 DEF RunStep, RunUntouched, EventsOf
<1>2. ASSUME NEW k \in Run, run[k].status = "absent",
             run' = [run EXCEPT ![k] = RunHead("pending", 1)], events' = events
      PROVE  RunStep(r)
  <2>1. EventsOf(r)' = EventsOf(r)
    BY <1>2 DEF EventsOf
  <2>2. r = k => run'[r] = RunHead("pending", 1)
    BY <1>2 DEF TypeOK
  <2>3. r # k => run'[r] = run[r]
    BY <1>2 DEF TypeOK
  <2> QED
    BY <1>2, <2>1, <2>2, <2>3 DEF RunStep, RunUntouched, RunCreated
<1>3. ASSUME NEW j \in Job, RequestRun(j) PROVE RunStep(r)
  BY <1>2, <1>3 DEF RequestRun
<1>4. ASSUME NEW k \in Run, CreateRun(k) PROVE RunStep(r)
  BY <1>2, <1>4 DEF CreateRun
<1>5. ASSUME NEW w \in Worker, NEW locked \in SUBSET Job, Claim(w, locked) PROVE RunStep(r)
  BY <1>5, PassExtends
<1>6. ASSUME NEW l \in leases, Fail(l) PROVE RunStep(r)
  BY <1>6, ReportExtends DEF Fail, EventType, RunStatus, StatusAfter
<1>7. ASSUME NEW l \in leases, SnapshotFail(l) PROVE RunStep(r)
  BY <1>7, ReportExtends DEF SnapshotFail, SnapshotFenced, EventType, RunStatus, StatusAfter
<1>8. ASSUME NEW l \in leases, NEW a \in Artifact, Complete(l, a) PROVE RunStep(r)
  BY <1>8, ReportExtends DEF Complete, Completable, EventType, RunStatus, StatusAfter
<1>9. ASSUME NEW l \in leases, NEW a \in Artifact, SnapshotComplete(l, a) PROVE RunStep(r)
  BY <1>9, ReportExtends DEF SnapshotComplete, SnapshotFenced, EventType, RunStatus, StatusAfter
<1>10. ASSUME \/ Tick \/ UNCHANGED vars \/ \E j \in Job : Enqueue(j)
              \/ \E l \in leases, a \in Artifact : Quarantine(l, a)
       PROVE  RunStep(r)
  BY <1>1, <1>10 DEF Tick, vars, Enqueue, Quarantine
<1> QED
  BY <1>3, <1>4, <1>5, <1>6, <1>7, <1>8, <1>9, <1>10 DEF Next

-----------------------------------------------------------------------------
(* The chain.                                                              *)

\* The inductive form: a run nobody created is at version 1, where it starts, and
\* the last event of any other gave it the status it has.
ChainInv(r) ==
    /\ run[r].status = "absent" => run[r].version = 1
    /\ ValidAuditHead(r) /\ RunTable(r)
    /\ EventsOf(r) = {} => run[r].status \in {"absent", "pending"}
    /\ \A e \in EventsOf(r) : e.seq = run[r].version => run[r].status = StatusAfter(e.type)

LEMMA ChainStep ==
    ASSUME TypeOK, NEW r \in Run, ChainInv(r), RunStep(r)
    PROVE  ChainInv(r)'
<1> DEFINE v == run[r].version
<1>0. v \in Nat /\ v > 0 /\ EventsOf(r) \subseteq EventRow
  BY DEF ChainInv, RunTable, TypeOK, RunRow, EventsOf
<1>e. \A e \in EventsOf(r) : e.seq \in Nat
  BY <1>0 DEF EventRow
<1>1. CASE RunUntouched(r)
  BY <1>1 DEF RunUntouched, ChainInv, ValidAuditHead, EventChainIsValid, RunTable
<1>2. CASE RunCreated(r)
  <2>1. v = 1 /\ EventsOf(r) = {}
    BY <1>2 DEF RunCreated, ChainInv, ValidAuditHead, EventChainIsValid
  <2>2. /\ EventsOf(r)' = {} /\ run'[r].version = 1 /\ run'[r].status = "pending"
    BY <1>2, <2>1 DEF RunCreated, RunHead
  <2> QED
    BY <2>2 DEF ChainInv, ValidAuditHead, RunTable
<1>3. CASE RunExtended(r)
  <2>1. PICK new \in SUBSET EventRow, w \in Nat, s \in RunStatus \ {"absent"} :
          /\ w > v /\ Continues(new, v, w) /\ Reports(new, s)
          /\ run'[r] = RunHead(s, w)
          /\ EventsOf(r)' = EventsOf(r) \cup new
    BY <1>3 DEF RunExtended
  <2>2. run'[r].version = w /\ run'[r].status = s /\ run'[r].updatedAt = now
    BY <2>1 DEF RunHead
  <2>3. \A e \in EventsOf(r) : e.seq \in 2..v
    BY DEF ChainInv, ValidAuditHead, EventChainIsValid
  <2>4. \A n \in 2..v : \E e \in EventsOf(r) : e.seq = n
    <3>1. CASE v = 1
      BY <3>1
    <3>2. CASE {e.seq : e \in EventsOf(r)} = 2..v
      BY <3>2
    <3> QED
      BY <3>1, <3>2 DEF ChainInv, ValidAuditHead, EventChainIsValid
  <2>5. /\ \A e \in new : e.seq \in (v + 1)..w /\ e.at = now
        /\ \A n \in (v + 1)..w : \E e \in new : e.seq = n
        /\ \A e, f \in new : e.seq = f.seq => e = f
    BY <2>1 DEF Continues
  <2> DEFINE all == EventsOf(r) \cup new
  <2>6. \A e \in all : e.seq \in 2..w
    BY <1>0, <2>1, <2>3, <2>5
  <2>7. \A n \in 2..w : \E e \in all : e.seq = n
    <3> SUFFICES ASSUME NEW n \in 2..w PROVE \E e \in all : e.seq = n
      OBVIOUS
    <3>1. n \in 2..v \/ n \in (v + 1)..w
      BY <1>0, <2>1
    <3> QED
      BY <2>4, <2>5, <3>1
  <2>8. {e.seq : e \in all} = 2..w
    BY <2>6, <2>7
  <2>9. \E e \in all : e.seq = w /\ e.at = now
    <3>1. w \in (v + 1)..w
      BY <1>0, <2>1
    <3> QED
      BY <2>5, <3>1
  <2>10. \A e, f \in all : e.seq = f.seq => e = f
    <3>1. \A e, f \in EventsOf(r) : e.seq = f.seq => e = f
      BY DEF ChainInv, RunTable
    <3>2. \A e \in EventsOf(r), f \in new : e.seq # f.seq
      BY <1>0, <2>1, <2>3, <2>5
    <3> QED
      BY <2>5, <3>1, <3>2
  <2> HIDE DEF all
  <2>11. EventsOf(r)' = all
    BY <2>1 DEF all
  <2>12. EventChainIsValid(r)'
    BY <2>2, <2>8, <2>9, <2>11 DEF EventChainIsValid
  <2>13. RunTable(r)'
    BY <1>0, <2>1, <2>2, <2>10, <2>11 DEF RunTable
  <2>14. \A e \in EventsOf(r)' : e.seq = w => s = StatusAfter(e.type)
    <3>1. \A e \in EventsOf(r) : e.seq # w
      BY <1>0, <2>1, <2>3
    <3>2. \A e \in new : s = StatusAfter(e.type)
      BY <2>1 DEF Reports
    <3> QED
      BY <2>11, <3>1, <3>2 DEF all
  <2>15. EventsOf(r)' # {}
    BY <2>9, <2>11
  <2> QED
    BY <2>1, <2>2, <2>12, <2>13, <2>14, <2>15 DEF ChainInv, ValidAuditHead
<1> QED
  BY <1>1, <1>2, <1>3 DEF RunStep

\* The chain of every run, in every reachable state.
THEOREM ChainInvariant == Spec => []((\A r \in Run : ChainInv(r)) /\ LateResultTable)
<1> DEFINE Chains == \A r \in Run : ChainInv(r)
<1>1. Init => Chains /\ LateResultTable
  <2> SUFFICES ASSUME Init PROVE Chains /\ LateResultTable
    OBVIOUS
  <2>1. \A r \in Run : run[r].version = 1 /\ EventsOf(r) = {}
    BY DEF Init, EventsOf
  <2> QED
    BY <2>1 DEF Init, ChainInv, ValidAuditHead, RunTable, LateResultTable
<1>2. QueueInv /\ Chains /\ LateResultTable /\ [Next]_vars => Chains' /\ LateResultTable'
  <2> SUFFICES ASSUME QueueInv, Chains, LateResultTable, [Next]_vars PROVE Chains' /\ LateResultTable'
    OBVIOUS
  <2>0. TypeOK
    BY DEF QueueInv
  <2>1. Chains'
    BY <2>0, RunSteps, ChainStep
  <2>2. ASSUME NEW l \in leases, NEW a \in Artifact, Quarantine(l, a) PROVE LateResultTable'
    <3>1. l.job \in Job /\ l \in LeasesFor(l.job) /\ JobInv(l.job)
      BY DEF QueueInv, TypeOK, Lease, LeasesFor
    <3>2. l.generation > 0
      BY <3>1 DEF JobInv, LeaseInv
    <3> QED
      BY <2>2, <3>2 DEF Quarantine, LateResultTable
  <2>3. ASSUME quarantined' = quarantined PROVE LateResultTable'
    BY <2>3 DEF LateResultTable
  <2>4. LateResultTable'
    BY <2>2, <2>3 DEF Next, vars, Tick, CreateRun, RequestRun, Enqueue, Claim, Fail, SnapshotFail,
           Complete, SnapshotComplete
  <2> QED
    BY <2>1, <2>4
<1> QED
  BY <1>1, <1>2, QueueInvariant, PTL DEF Spec

\* The run, event, job and late-result rows tell one story: the chains have no
\* gap and no duplicate, every job has the one verdict its row shows, and no
\* transaction breaks a constraint of its table.
THEOREM AuditHolds == Spec => []AuditAgrees
<1>1. QueueInv => OneVerdict
  <2> SUFFICES ASSUME QueueInv, NEW j \in Job
               PROVE  LET verdicts == {e \in events : e.job = j /\ e.type \in TerminalEvent}
                      IN  /\ job[j].status \in Terminal <=> verdicts # {}
                          /\ \A e \in verdicts :
                               /\ \A f \in verdicts : e = f
                               /\ e.generation = job[j].generation
                               /\ e.at = job[j].updatedAt
                               /\ e.result = job[j].result
                               /\ (job[j].status = "succeeded") <=>
                                    (e.type \in {"job.completed", "snapshot.completed"})
    BY DEF OneVerdict
  <2>1. VerdictInv(j)
    BY DEF QueueInv, JobInv
  <2> QED
    BY <2>1 DEF VerdictInv, EventsFor, Accepting
<1>2. QueueInv => \A j \in Job : JobTable(j)
  BY DEF QueueInv, JobInv, RowInv, RunsExist, JobTable
<1>3. QueueInv /\ (\A r \in Run : ChainInv(r)) /\ LateResultTable => AuditAgrees
  BY <1>1, <1>2 DEF AuditAgrees, AuditChain, ChainInv, LateResultTable
<1> QED
  BY <1>3, QueueInvariant, ChainInvariant, PTL

-----------------------------------------------------------------------------
(* Receipts.                                                               *)

Timely(j) == job[j].leaseUntil > now /\ Deadline(j) > now

\* An event belongs to the run of its job.
EventRunInv(j) == \A e \in EventsFor(j) : e.run = RunOf[j]

\* A quarantined result can no longer become the accepted one: its lease is over
\* or superseded, or its schema is refused.  One that is the accepted result all
\* the same was presented again after a sibling had overruled its job.
LateInv(q) ==
    /\ Kind[q.job] \in ResearchKind
    /\ q.generation > 0 /\ q.generation <= job[q.job].generation
    /\ q.generation = job[q.job].generation =>
         /\ job[q.job].status = "leased" =>
              ~Timely(q.job) \/ ~SchemaIsRegistered(Kind[q.job])
         /\ job[q.job].status = "succeeded" /\ job[q.job].result = q.result =>
              \E f \in events : Overrules(f, q.job)

ReceiptInv ==
    /\ \A j \in Job : EventRunInv(j)
    /\ \A q \in quarantined : LateInv(q)

\* An accepted result and an accepted failure have their receipts, unless the
\* last event of the run is a sibling's and left it with the opposite outcome.
LEMMA ReceiptsFollow ==
    ASSUME QueueInv, \A r \in Run : ChainInv(r), \A j \in Job : EventRunInv(j),
           NEW l \in leases, Kind[l.job] \in ResearchKind,
           job[l.job].generation = l.generation
    PROVE  /\ job[l.job].status = "succeeded" =>
                CompletedReceipt(l, job[l.job].result) \/ Overruled(l.job)
           /\ job[l.job].error = "worker_failure" => FailedReceipt(l) \/ Overruled(l.job)
<1> DEFINE j == l.job
           r == RunOf[j]
<1>1. /\ j \in Job /\ r \in Run /\ l \in LeasesFor(j) /\ JobInv(j) /\ ChainInv(r)
      /\ EventRunInv(j) /\ run[r].version \in Nat
  BY DEF QueueInv, TypeOK, Lease, RunRow, LeasesFor
<1>2. ASSUME NEW e \in EventsFor(j), e.type \in TerminalEvent
      PROVE  /\ EventChainIsValid(r) /\ e.seq <= run[r].version
             /\ run[r].status = StatusAfter(e.type) \/ Overruled(j)
  <2>1. e \in EventsOf(r)
    BY <1>1 DEF EventRunInv, EventsOf, EventsFor
  <2>2. EventChainIsValid(r)
    BY <1>1, <2>1 DEF ChainInv, ValidAuditHead
  <2>3. e.seq \in 2..run[r].version
    BY <2>1, <2>2 DEF EventChainIsValid
  <2>4. PICK h \in EventsOf(r) : h.seq = run[r].version
    BY <2>2 DEF EventChainIsValid
  <2>5. run[r].status = StatusAfter(h.type)
    BY <1>1, <2>4 DEF ChainInv
  <2>6. ASSUME StatusAfter(h.type) # StatusAfter(e.type) PROVE Overruled(j)
    <3>1. h # e
      BY <2>6
    <3>2. h.job # j
      <4> SUFFICES ASSUME h.job = j PROVE FALSE
        OBVIOUS
      <4>1. h \in EventsFor(j)
        BY DEF EventsFor, EventsOf
      <4>2. h.type \in TerminalEvent
        BY <1>1, <4>1 DEF JobInv, AcceptedInv, TerminalEvent, EventType
      <4> QED
        BY <1>1, <1>2, <3>1, <4>1, <4>2 DEF JobInv, VerdictInv
    <3>3. h.seq # e.seq
      BY <1>1, <2>1, <3>1 DEF ChainInv, RunTable
    <3>4. h.seq > e.seq
      BY <1>1, <2>3, <2>4, <3>3
    <3>5. e.job = j /\ e \in events /\ h \in events /\ h.run = r
      BY DEF EventsFor, EventsOf
    <3> QED
      BY <1>2, <2>4, <2>6, <3>2, <3>4, <3>5 DEF Overruled, Overrules
  <2> QED
    BY <1>1, <2>2, <2>3, <2>5, <2>6
<1>3. ASSUME job[j].status \in Terminal
      PROVE  \E e \in EventsFor(j) :
               /\ e.type = IF job[j].status = "succeeded" THEN "job.completed"
                                                          ELSE "job.dead_lettered"
               /\ e.generation = l.generation /\ e.result = job[j].result
               /\ e.at = job[j].updatedAt
               /\ EventChainIsValid(r) /\ e.seq <= run[r].version
               /\ run[r].status = StatusAfter(e.type) \/ Overruled(j)
  <2>1. PICK e \in EventsFor(j) : e.type \in TerminalEvent
    BY <1>1, <1>3 DEF JobInv, VerdictInv
  <2>2. e.type \in {"job.completed", "job.dead_lettered"}
    BY <1>1 DEF JobInv, AcceptedInv
  <2>3. /\ e.generation = l.generation /\ e.result = job[j].result
        /\ e.at = job[j].updatedAt /\ (job[j].status = "succeeded" <=> e.type \in Accepting)
    BY <1>1, <2>1 DEF JobInv, VerdictInv
  <2> QED
    BY <1>2, <2>1, <2>2, <2>3 DEF Accepting
<1>4. ASSUME job[j].status = "succeeded", ~Overruled(j)
      PROVE  CompletedReceipt(l, job[j].result)
  <2>1. CompletedJobIsValid(l, job[j].result)
    BY <1>1, <1>4 DEF CompletedJobIsValid, JobInv, RowInv, LeaseInv
  <2>2. CompletedGraphIsValid(l, job[j].result)
    BY <1>1, <1>3, <1>4 DEF CompletedGraphIsValid, StatusAfter, Terminal, EventsFor
  <2> QED
    BY <2>1, <2>2 DEF CompletedReceipt
<1>5. ASSUME job[j].error = "worker_failure", ~Overruled(j) PROVE FailedReceipt(l)
  <2>1. job[j].status = "dead_letter"
    BY <1>1, <1>5, NoneAssumption DEF NoneAssumption, ErrorCode, JobInv, RowInv
  <2>2. FailedJobIsValid(l)
    BY <1>1, <1>5, <2>1 DEF FailedJobIsValid, JobInv, RowInv
  <2>3. FailedGraphIsValid(l)
    BY <1>1, <1>3, <1>5, <2>1 DEF FailedGraphIsValid, StatusAfter, Terminal, EventsFor
  <2> QED
    BY <2>2, <2>3 DEF FailedReceipt
<1> QED
  BY <1>4, <1>5

\* No event is ever taken back.
LEMMA EventsStay ==
    ASSUME [Next]_vars PROVE events \subseteq events'
BY DEF Next, vars, Tick, RequestRun, CreateRun, Enqueue, Claim, Complete, Quarantine, Fail,
       SnapshotFail, SnapshotComplete, AppendAudit

\* What is quarantined stays refused.
LEMMA LateStep ==
    ASSUME QueueInv, NEW q \in LateResult, NEW j \in Job, q.job = j, LateInv(q), JobStep(j),
           now' \in Nat, now' >= now, events \subseteq events'
    PROVE  LateInv(q)'
<1>t. TypeOK /\ q.generation \in Nat /\ Ttl[j] \in Nat
  BY DEF LateResult, QueueInv
<1>0. /\ job[j] \in JobRow /\ job[j].generation \in Nat /\ job[j].leaseUntil \in Nat
      /\ job[j].createdAt \in Nat /\ now \in Nat
  BY <1>t DEF TypeOK, JobRow
<1>d. Deadline(j) \in Nat
  BY <1>t, <1>0 DEF Deadline
<1>1. CASE Untouched(j)
  <2>1. job'[j] = job[j] /\ Deadline(j)' = Deadline(j)
    BY <1>1 DEF Untouched, Deadline
  <2>2. Timely(j)' => Timely(j)
    BY <1>0, <1>d, <2>1 DEF Timely
  <2>3. ASSUME NEW f \in events, Overrules(f, j) PROVE f \in events' /\ Overrules(f, j)'
    BY <2>3 DEF Overrules
  <2> QED
    BY <2>1, <2>2, <2>3 DEF LateInv, SchemaIsRegistered
<1>2. CASE Inserted(j)
  BY <1>t, <1>0, <1>2 DEF Inserted, LateInv, QueueInv, JobInv, RowInv
<1>3. ASSUME NEW w \in Worker, Leased(j, w) PROVE LateInv(q)'
  <2>1. job'[j] = MarkLeased(job[j], j, w)
    BY <1>3 DEF Leased
  <2>2. job'[j].generation = job[j].generation + 1
    <3>1. MarkLeased(job[j], j, w).generation = job[j].generation + 1
      BY <1>0, MarkFields
    <3> QED
      BY <2>1, <3>1
  <2>3. q.generation > 0 /\ q.generation <= job[j].generation /\ Kind[j] \in ResearchKind
    BY DEF LateInv
  <2>4. q.generation # job'[j].generation /\ q.generation <= job'[j].generation
    BY <1>t, <1>0, <2>2, <2>3
  <2> QED
    BY <2>3, <2>4 DEF LateInv
<1>4. ASSUME NEW e \in ErrorCode, job'[j] = MarkDeadLetter(job[j], e) PROVE LateInv(q)'
  <2>1. job'[j].generation = job[j].generation /\ job'[j].status = "dead_letter"
    BY <1>0, <1>4, MarkFields
  <2> QED
    BY <2>1 DEF LateInv
<1>5. CASE Buried(j)
  BY <1>4, <1>5 DEF Buried, DeadLetterReason, ErrorCode
<1>6. CASE Failed(j)
  BY <1>4, <1>6 DEF Failed, ErrorCode
<1>7. CASE Retried(j)
  BY <1>7 DEF Retried, LateInv, ResearchKind
<1>8. ASSUME NEW l \in LeasesFor(j), Fenced(l), NEW a \in Artifact, Finished(j, a)
      PROVE  LateInv(q)'
  <2>1. job'[j].generation = job[j].generation /\ job'[j].status = "succeeded"
    BY <1>0, <1>8, MarkFields DEF Finished
  <2>2. job[j].status = "leased" /\ Timely(j)
    BY <1>8 DEF Fenced, Timely, LeasesFor
  <2>3. Kind[j] \in ResearchKind /\ SchemaIsRegistered(Kind[j])
    BY <1>8 DEF LateInv, Finished, SchemaIsRegistered
  <2>4. q.generation # job[j].generation
    BY <2>2, <2>3 DEF LateInv
  <2> QED
    BY <2>1, <2>3, <2>4 DEF LateInv
<1> QED
  BY <1>1, <1>2, <1>3, <1>5, <1>6, <1>7, <1>8 DEF JobStep, Reported

\* The receipts' invariant.
THEOREM ReceiptInvariant == Spec => []ReceiptInv
<1> DEFINE Chains == \A r \in Run : ChainInv(r)
<1>1. Init => ReceiptInv
  <2> SUFFICES ASSUME Init PROVE ReceiptInv
    OBVIOUS
  <2>1. \A j \in Job : job[j].status = "absent" /\ EventsFor(j) = {}
    BY DEF Init, NewRow, EventsFor
  <2> QED
    BY <2>1 DEF Init, ReceiptInv, EventRunInv
<1>2. QueueInv /\ TypeOK' /\ Chains /\ ReceiptInv /\ [Next]_vars => ReceiptInv'
  <2> SUFFICES ASSUME QueueInv, TypeOK', Chains, ReceiptInv, [Next]_vars PROVE ReceiptInv'
    OBVIOUS
  <2>0. TypeOK /\ RunsExist /\ \A j \in Job : JobStep(j)
    BY JobSteps DEF QueueInv
  <2>1. events \subseteq events'
    BY EventsStay
  <2>2. ASSUME NEW j \in Job PROVE EventRunInv(j)'
    <3>1. EventRunInv(j)
      BY DEF ReceiptInv
    <3>2. ASSUME NEW t, NEW a, Recorded(j, t, a) PROVE EventRunInv(j)'
      <4>1. PICK n \in Nat :
              EventsFor(j)' = EventsFor(j) \cup {AuditEvent(j, n, job[j].generation, t, a)}
        BY <3>2 DEF Recorded
      <4>2. AuditEvent(j, n, job[j].generation, t, a).run = RunOf[j]
        BY EventFields
      <4> QED
        BY <3>1, <4>1, <4>2 DEF EventRunInv
    <3>3. ASSUME EventsFor(j)' = EventsFor(j) PROVE EventRunInv(j)'
      BY <3>1, <3>3 DEF EventRunInv
    <3> QED
      BY <2>0, <3>2, <3>3 DEF JobStep, Untouched, Inserted, Leased, Buried, Reported,
                              Finished, Failed, Retried
  <2>3. now' \in Nat /\ now' >= now
    BY <2>0, ClockSteps DEF TypeOK
  <2>4. ASSUME NEW q \in quarantined PROVE LateInv(q)'
    <3>1. q \in LateResult /\ q.job \in Job /\ LateInv(q) /\ JobStep(q.job)
      BY <2>0 DEF TypeOK, LateResult, ReceiptInv
    <3> QED
      BY <2>1, <2>3, <3>1, LateStep
  <2>5. ASSUME NEW l \in leases, NEW a \in Artifact, Quarantine(l, a)
        PROVE  \A q \in quarantined' : LateInv(q)'
    <3> DEFINE q == [job |-> l.job, generation |-> l.generation, result |-> a]
               j == l.job
    <3>1. quarantined' = quarantined \cup {q} /\ UNCHANGED <<now, job, run, events, leases>>
      BY <2>5 DEF Quarantine
    <3>2. j \in Job /\ l \in LeasesFor(j) /\ JobInv(j) /\ RunOf[j] \in Run
      BY DEF QueueInv, TypeOK, Lease, LeasesFor
    <3>3. /\ l.generation > 0 /\ l.generation <= job[j].generation
          /\ Kind[j] \in ResearchKind /\ ~Completable(l) /\ ~CompletedReceipt(l, a)
          /\ ValidAuditHead(RunOf[j])
      BY <2>5, <3>2 DEF Quarantine, JobInv, LeaseInv, ChainInv
    <3>4. ASSUME l.generation = job[j].generation, job[j].status = "leased",
                 SchemaIsRegistered(Kind[j])
          PROVE  ~Timely(j)
      <4>1. ~Fenced(l)
        BY <3>3, <3>4 DEF Completable, SchemaIsRegistered
      <4>2. job[j].owner = l.worker /\ job[j].nonce = l.nonce
        BY <3>2, <3>4 DEF JobInv, LeaseInv
      <4> QED
        BY <3>4, <4>1, <4>2 DEF Fenced, Timely
    <3>5. ASSUME l.generation = job[j].generation, job[j].status = "succeeded",
                 job[j].result = a
          PROVE  \E f \in events : Overrules(f, j)
      BY <3>3, <3>5, ReceiptsFollow DEF ReceiptInv, Overruled
    <3>6. LateInv(q)
      BY <3>3, <3>4, <3>5 DEF LateInv
    <3>7. LateInv(q)'
      BY <3>1, <3>6 DEF LateInv, Timely, Deadline, SchemaIsRegistered, Overrules
    <3> QED
      BY <2>4, <3>1, <3>7
  <2>6. ASSUME quarantined' = quarantined PROVE \A q \in quarantined' : LateInv(q)'
    BY <2>4, <2>6
  <2>7. \A q \in quarantined' : LateInv(q)'
    BY <2>5, <2>6 DEF Next, vars, Tick, CreateRun, RequestRun, Enqueue, Claim, Fail,
                      SnapshotFail, Complete, SnapshotComplete
  <2> QED
    BY <2>2, <2>7 DEF ReceiptInv
<1> QED
  BY <1>1, <1>2, QueueInvariant, ChainInvariant, TypeCorrect, PTL DEF Spec

\* A worker whose result or failure was accepted is given its receipt again, in
\* runs of any number of jobs, unless a sibling's later verdict was the opposite
\* one; and no accepted result is quarantined but after such a verdict.
THEOREM ReceiptsCanBeReplayed == Spec => []ReceiptsReplay
<1>1. QueueInv /\ (\A r \in Run : ChainInv(r)) /\ ReceiptInv => ReceiptsReplay
  <2> SUFFICES ASSUME QueueInv, \A r \in Run : ChainInv(r), ReceiptInv PROVE ReceiptsReplay
    OBVIOUS
  <2>1. \A l \in leases :
          /\ Kind[l.job] \in ResearchKind
          /\ job[l.job].generation = l.generation
          => /\ job[l.job].status = "succeeded" =>
                  CompletedReceipt(l, job[l.job].result) \/ Overruled(l.job)
             /\ job[l.job].error = "worker_failure" => FailedReceipt(l) \/ Overruled(l.job)
    BY ReceiptsFollow DEF ReceiptInv
  <2>2. \A q \in quarantined :
          /\ job[q.job].status = "succeeded"
          /\ job[q.job].generation = q.generation
          /\ job[q.job].result = q.result
          => \E f \in events : Overrules(f, q.job)
    BY DEF ReceiptInv, LateInv
  <2> QED
    BY <2>1, <2>2 DEF ReceiptsReplay
<1> QED
  BY <1>1, QueueInvariant, ChainInvariant, ReceiptInvariant, PTL

-----------------------------------------------------------------------------
(* Outcomes.                                                               *)

Ended == {"succeeded", "failed", "cancelled"}

\* The status of a run that has ended is moved by the report of an open job only,
\* and the job that had ended the run is not open.
LEMMA EndedRunMoves ==
    ASSUME QueueInv, NEW r \in Run, ChainInv(r), RunStep(r),
           run[r].status \in Ended, run'[r].status # run[r].status
    PROVE  \E e \in events' \ events, f \in events :
              /\ e.run = r /\ e.seq = run'[r].version
              /\ f.run = r /\ f.seq = run[r].version
              /\ job[e.job].status \notin Terminal
              /\ job[f.job].status \in Terminal
<1> DEFINE v == run[r].version
<1>0. v \in Nat
  BY DEF QueueInv, TypeOK, RunRow
<1>1. RunExtended(r)
  BY DEF RunStep, RunUntouched, RunCreated, Ended
<1>2. PICK new \in SUBSET EventRow, w \in Nat, s \in RunStatus \ {"absent"} :
        /\ w > v /\ Continues(new, v, w) /\ Reports(new, s)
        /\ run'[r] = RunHead(s, w)
        /\ EventsOf(r)' = EventsOf(r) \cup new
  BY <1>1 DEF RunExtended
<1>3. EventsOf(r) # {} /\ EventChainIsValid(r)
  BY DEF ChainInv, ValidAuditHead, Ended
<1>4. PICK f \in EventsOf(r) : f.seq = v
  BY <1>3 DEF EventChainIsValid
<1>5. job[f.job].status \in Terminal
  <2>1. run[r].status = StatusAfter(f.type)
    BY <1>4 DEF ChainInv
  <2>2. f \in EventRow /\ f.job \in Job /\ f.type \in EventType /\ f \in EventsFor(f.job)
    BY DEF QueueInv, TypeOK, EventsOf, EventsFor, EventRow
  <2>3. f.type \in TerminalEvent
    BY <2>1, <2>2 DEF StatusAfter, Ended, TerminalEvent
  <2> QED
    BY <2>2, <2>3 DEF QueueInv, JobInv, VerdictInv
<1>6. PICK e \in new : e.seq = w
  <2>1. w \in (v + 1)..w
    BY <1>0, <1>2
  <2> QED
    BY <1>2, <2>1 DEF Continues
<1>7. e \in events' /\ e.run = r
  BY <1>2, <1>6 DEF EventsOf
<1>8. e \notin events
  <2> SUFFICES ASSUME e \in events PROVE FALSE
    OBVIOUS
  <2>1. e \in EventsOf(r)
    BY <1>7 DEF EventsOf
  <2>2. e.seq \in 2..v
    BY <1>3, <2>1 DEF EventChainIsValid
  <2> QED
    BY <1>0, <1>2, <1>6, <2>2
<1>9. job[e.job].status \notin Terminal /\ run'[r].version = w
  BY <1>2, <1>6 DEF Reports, RunHead
<1> QED
  BY <1>4, <1>5, <1>6, <1>7, <1>8, <1>9 DEF EventsOf

\* OutcomesStay: a run that has ended loses its status to the verdict of another
\* job only, and a result of the registered schema is quarantined only when no lease
\* of its generation could still complete the job.
THEOREM OutcomesStay == Spec => OutcomesLast
<1> DEFINE Chains == \A r \in Run : ChainInv(r)
           Moved(r) == \E e \in events' \ events, f \in events :
                          /\ e.run = r /\ e.seq = run'[r].version
                          /\ f.run = r /\ f.seq = run[r].version
                          /\ job[e.job].status \notin Terminal
                          /\ job[f.job].status \in Terminal
           Step == /\ \A r \in Run :
                        run[r].status \in {"succeeded", "failed", "cancelled"} =>
                           \/ run'[r].status = run[r].status
                           \/ Moved(r)
                   /\ \A q \in quarantined' \ quarantined, l \in leases :
                        l.job = q.job /\ l.generation = q.generation /\ SchemaIsRegistered(Kind[q.job])
                           => ~Fenced(l)
<1>1. QueueInv /\ Chains /\ [Next]_vars => Step
  <2> SUFFICES ASSUME QueueInv, Chains, [Next]_vars PROVE Step
    OBVIOUS
  <2>1. ASSUME NEW r \in Run, run[r].status \in Ended, run'[r].status # run[r].status PROVE Moved(r)
    <3>1. ChainInv(r) /\ RunStep(r)
      BY RunSteps DEF QueueInv
    <3> QED
      BY <2>1, <3>1, EndedRunMoves
  <2>2. ASSUME NEW l0 \in leases, NEW a \in Artifact, Quarantine(l0, a),
               NEW q \in quarantined' \ quarantined, SchemaIsRegistered(Kind[q.job]),
               NEW l \in leases, l.job = q.job, l.generation = q.generation, Fenced(l)
        PROVE  FALSE
    <3>1. q.job = l0.job /\ q.generation = l0.generation /\ Kind[l0.job] \in ResearchKind /\ ~Completable(l0)
      BY <2>2 DEF Quarantine
    <3>2. l0.job \in Job /\ l0 \in LeasesFor(l0.job) /\ JobInv(l0.job) /\ RunOf[l0.job] \in Run
      BY JobAssumption DEF QueueInv, TypeOK, Lease, LeasesFor
    <3>3. ValidAuditHead(RunOf[l0.job])
      BY <3>2 DEF ChainInv
    <3>4. /\ job[l0.job].status = "leased" /\ job[l0.job].generation = l0.generation
          /\ job[l0.job].leaseUntil > now /\ Deadline(l0.job) > now
      BY <2>2, <3>1 DEF Fenced
    <3>5. l0.worker = job[l0.job].owner /\ l0.nonce = job[l0.job].nonce
      BY <3>2, <3>4 DEF JobInv, LeaseInv
    <3>6. Fenced(l0)
      BY <3>4, <3>5 DEF Fenced
    <3> QED
      BY <2>2, <3>1, <3>3, <3>6 DEF Completable, SchemaIsRegistered
  <2>3. ASSUME NEW q \in quarantined' \ quarantined
        PROVE  \E l0 \in leases, a \in Artifact : Quarantine(l0, a)
    BY <2>3 DEF Next, vars, Tick, CreateRun, RequestRun, Enqueue, Claim, Fail, SnapshotFail,
           Complete, SnapshotComplete
  <2> QED
    BY <2>1, <2>2, <2>3 DEF Ended
<1> QED
  BY <1>1, QueueInvariant, ChainInvariant, PTL DEF Spec, OutcomesLast
=============================================================================

------------------------------ MODULE Snapshot ------------------------------
(***************************************************************************)
(* From a leased create_snapshot job to a canonical data snapshot:         *)
(* application/data/*.py and adapters/postgres/snapshot_*.py.  A worker    *)
(* checks its fence, asks the providers of the policy in their order,      *)
(* checks its fence again, archives the raw answer and the manifest, and   *)
(* asks the database to complete the run.  A transaction is one step; the  *)
(* provider calls of one fetch are one step, because nothing they read     *)
(* changes and only their outcome is used.                                 *)
(***************************************************************************)
EXTENDS Nothing, Integers, Sequences, Functions

CONSTANTS
    Workers,
    Routes,       \* the providers of the policy, in the order of its routes
    Values,       \* what a provider's answer can be worth to the comparison
    Threshold,    \* the largest accepted difference of two answers
    AllowPartial, \* the policy accepts an incomplete answer
    AllowStale,   \* the policy accepts a stale answer
    Gates,        \* what the runtime health of a provider can say
    MaxAttempts,  \* of the job
    MaxClock      \* bound: the clock

VARIABLES
    sjob,         \* the job's row
    srun,         \* the run's row: its status and version
    swk,          \* how far each worker has got with its lease
    store,        \* the artifact store: what it holds and since when
    link,         \* the snapshot that the run is linked to
    failures,     \* the recorded failures of attempts
    receipts,     \* the receipts that were returned
    now           \* the clock

snapshotVars == <<sjob, srun, swk, store, link, failures, receipts, now>>

Providers == Range(Routes)
Clock == 0..MaxClock

ASSUME RouteAssumption ==
    /\ DOMAIN Routes = 1..Len(Routes) /\ Len(Routes) \in Nat
    /\ None \notin Range(Routes) \cup Workers
ASSUME ValueAssumption == Values \subseteq Int /\ \E v \in Values : \A u \in Values : v <= u
ASSUME LimitAssumption == {MaxAttempts, MaxClock} \subseteq Nat

\* ProviderDataState, as far as the policy tells them apart.
ProviderDataState == {"available", "legitimate_empty", "partial", "stale", "failed"}

First == CHOOSE v \in Values : \A u \in Values : v <= u

\* What one source can answer: a failure, an answer that names another
\* provider or endpoint than its route, or an observation.  value is what
\* the reconciliation reads off it, None when it reads nothing; pit says
\* that all its evidence was provably available by the request's as_of.
Answer ==
    {[kind |-> "failure", state |-> "failed", value |-> None, pit |-> TRUE],
     [kind |-> "foreign", state |-> "available", value |-> None, pit |-> TRUE],
     [kind |-> "answer", state |-> "legitimate_empty", value |-> None, pit |-> TRUE]}
    \cup [kind : {"answer"}, state : {"available"}, value : Values \cup {None}, pit : {TRUE}]
    \cup [kind : {"answer"}, state : {"partial"}, value : {First}, pit : BOOLEAN]

\* ReconciliationTrace: both candidates, in route order, and the decision.
ReconciliationTrace ==
    [primary : Providers, secondary : Providers, values : Seq(Values \cup {0}),
     decision : {"within_threshold", "both_empty", "threshold_exceeded"}]

\* ProviderSnapshotMaterialization: the selected answer.
\* support counts the accepted answers it was selected from (a history
\* field: the program keeps only the trace).
Materialization(p, a, t, n) ==
    [provider |-> p, authorized |-> a.kind # "foreign", state |-> a.state, value |-> a.value,
     pit |-> a.pit, observed |-> now, trace |-> t,
     support |-> n]

MaterializedSnapshot ==
    [provider : Providers, authorized : BOOLEAN, state : ProviderDataState,
     value : Values \cup {None}, pit : BOOLEAN, observed : Clock,
     trace : ReconciliationTrace \cup {None}, support : {1, 2}]
Failure == [stage : {"provider", "materialization"}, trace : ReconciliationTrace \cup {None}]

\* What the run is linked to, and what a receipt says of it.
SnapshotLink == [manifest : MaterializedSnapshot, gen : 0..MaxAttempts]

\* Why two candidates are refused.
RefusalReason == {"empty_mismatch", "value_unavailable", "threshold_exceeded"}

ASSUME RecordAssumption ==
    None \notin ReconciliationTrace \cup MaterializedSnapshot \cup Failure \cup SnapshotLink
                \cup RefusalReason

RawContent(m) == <<"raw", m.provider, m.state, m.value>>
ManifestContent(m) == <<"manifest", m>>

JobRow == [status : {"absent", "queued", "leased", "succeeded", "dead_letter"},
           attempts : 0..MaxAttempts, owner : Workers \cup {None}, live : BOOLEAN]
Resting == [pc |-> "idle", gen |-> 0, mat |-> None, fail |-> None]

SnapshotWorker ==
    [pc : {"idle", "claimed", "fetch", "refence", "raw", "manifest", "complete", "fail"},
     gen : 0..MaxAttempts, mat : MaterializedSnapshot \cup {None}, fail : Failure \cup {None}]
FailureRecord ==
    [gen : 0..MaxAttempts, stage : {"provider", "materialization"},
     trace : ReconciliationTrace \cup {None}, retry : BOOLEAN]

SnapshotTypeOK ==
    /\ sjob \in JobRow
    /\ srun \in [status : {"absent", "pending", "running", "succeeded", "failed"}, version : Nat]
    /\ swk \in [Workers -> SnapshotWorker]
    /\ link \in SnapshotLink \cup {None}
    /\ failures \in Seq(FailureRecord)
    /\ now \in Clock

-----------------------------------------------------------------------------
(* Requests and leases. *)

\* submit: the run, its job and nothing else; a repeat finds them.
Submit ==
    /\ sjob.status = "absent"
    /\ sjob' = [sjob EXCEPT !.status = "queued"]
    /\ srun' = [status |-> "pending", version |-> 1]
    /\ UNCHANGED <<swk, store, link, failures, receipts, now>>

\* The queue leases the job (JobQueue): attempts counts the generations.
Claim(w) ==
    /\ swk[w].pc = "idle"
    /\ sjob.status = "queued" \/ (sjob.status = "leased" /\ ~sjob.live)
    /\ sjob.attempts < MaxAttempts
    /\ sjob' = [status |-> "leased", attempts |-> sjob.attempts + 1, owner |-> w, live |-> TRUE]
    /\ swk' = [swk EXCEPT ![w] = [Resting EXCEPT !.pc = "claimed", !.gen = sjob.attempts + 1]]
    /\ UNCHANGED <<srun, store, link, failures, receipts, now>>

\* A lease runs out while its worker is away.
ExpireLease ==
    /\ sjob.status = "leased" /\ sjob.live
    /\ sjob' = [sjob EXCEPT !.live = FALSE]
    /\ UNCHANGED <<srun, swk, store, link, failures, receipts, now>>

\* The queue gives up on a job whose last lease has run out.
DeadLetter ==
    /\ sjob.status = "leased" /\ ~sjob.live /\ sjob.attempts = MaxAttempts
    /\ sjob' = [sjob EXCEPT !.status = "dead_letter", !.owner = None]
    /\ srun' = [status |-> "failed", version |-> srun.version + 1]
    /\ UNCHANGED <<swk, store, link, failures, receipts, now>>

FencedByStatus(w) == sjob.status = "leased" /\ sjob.live

\* The fence of preflight, fail and complete.
Fenced(w) ==
    /\ sjob.status = "leased"
    /\ sjob.owner = w
    /\ sjob.attempts = swk[w].gen
    /\ sjob.live

\* The run a request may still be worked on.
ActiveRun == srun.status \in {"pending", "running"}

Proceeds(w, pc) == swk' = [swk EXCEPT ![w].pc = pc]
Stops(w) == swk' = [swk EXCEPT ![w] = Resting]

Preflight(w) ==
    /\ swk[w].pc = "claimed"
    /\ IF Fenced(w) /\ ActiveRun THEN Proceeds(w, "fetch") ELSE Stops(w)
    /\ UNCHANGED <<sjob, srun, store, link, failures, receipts, now>>

-----------------------------------------------------------------------------
(* Provider routing and reconciliation. *)

\* runtime_gate: unknown, unhealthy, exhausted or stale providers are not
\* asked; a stale one is when the policy accepts stale data.
AskedWhen(gate) == gate = "open" \/ (gate = "stale" /\ AllowStale)

\* What the policy sees of an answer when the provider's data is stale.
Marked(a, gate) ==
    IF gate # "stale" \/ a.state = "stale" THEN a
    ELSE IF a.state = "available" THEN [a EXCEPT !.state = "stale"]
    ELSE [a EXCEPT !.state = "failed"]

Accepted(a) ==
    /\ a.kind = "answer"
    /\ \/ a.state \in {"available", "legitimate_empty"}
       \/ AllowPartial /\ a.state = "partial"
       \/ AllowStale /\ a.state = "stale"

Seen(answers, gates) ==
    [p \in Providers |-> IF AskedWhen(gates[p]) THEN Marked(answers[p], gates[p])
                         ELSE [answers[p] EXCEPT !.state = "failed"]]

\* The first two of a set of routes, in the policy's order.
FirstOf(routes) == CHOOSE i \in routes : \A j \in routes : i <= j
FirstTwo(routes) ==
    LET i == FirstOf(routes)
    IN  IF routes = {} THEN <<>>
        ELSE IF routes = {i} THEN <<Routes[i]>>
        ELSE <<Routes[i], Routes[FirstOf(routes \ {i})]>>

\* The candidates: the first two routes with accepted answers.
AcceptedRoutes(seen) == {i \in DOMAIN Routes : Accepted(seen[Routes[i]])}
Candidates(seen) == FirstTwo(AcceptedRoutes(seen))

\* The routes that are asked: every one up to the second candidate.
AskedUpTo(seen) ==
    {k \in DOMAIN Routes : ~\E i, j \in AcceptedRoutes(seen) : i < j /\ j < k}

Differ(u, v) == (IF u > v THEN u - v ELSE v - u) > Threshold

IsEmpty(a) == a.state = "legitimate_empty"

\* reconcile_candidates: why two candidates are refused, None when they agree.
Refusal(a, b) ==
    CASE IsEmpty(a) /\ IsEmpty(b) -> None
      [] IsEmpty(a) # IsEmpty(b) -> "empty_mismatch"
      [] ~IsEmpty(a) /\ ~IsEmpty(b) /\ (a.value = None \/ b.value = None) -> "value_unavailable"
      [] OTHER -> IF Differ(a.value, b.value) THEN "threshold_exceeded" ELSE None

DualTraceOfValues(cands, seen, answers, asked) ==
    IF Len(cands) = 2 /\ \A i \in DOMAIN cands : seen[cands[i]].value # None THEN cands ELSE <<>>

\* dual_trace_values: the two candidates whose values were extracted, or else
\* the two providers that answered legitimately empty; nothing else makes a
\* trace.  Answers that the gate made the policy reject count as empty too.
DualTrace(cands, seen, answers, asked) ==
    LET valued == \A i \in DOMAIN cands : ~IsEmpty(seen[cands[i]]) /\ seen[cands[i]].value # None
        empties == {i \in asked : IsEmpty(answers[Routes[i]])}
    IN IF Len(cands) = 2 /\ valued THEN cands
       ELSE IF \E i, j \in empties : i # j /\ empties = {i, j} THEN FirstTwo(empties)
       ELSE <<>>

TraceOf(pair, answers) ==
    LET a == answers[pair[1]]
        b == answers[pair[2]]
        empty == IsEmpty(a) /\ IsEmpty(b)
        vs == IF empty THEN <<0, 0>> ELSE <<a.value, b.value>>
    IN [primary |-> pair[1], secondary |-> pair[2], values |-> vs,
        decision |-> IF empty THEN "both_empty"
                     ELSE IF Differ(vs[1], vs[2]) THEN "threshold_exceeded"
                     ELSE "within_threshold"]

\* _validate_trace_decision: the decision follows from the values.
TraceDecision(t) ==
    CASE t.decision = "both_empty"         -> t.values = <<0, 0>>
      [] t.decision = "within_threshold"   -> ~Differ(t.values[1], t.values[2])
      [] t.decision = "threshold_exceeded" -> Differ(t.values[1], t.values[2])

\* ReconciliationTrace.validate_decision: a decision to select names one of
\* the two providers, a rejection names none.
TraceIsValid(t, selected) ==
    /\ t.primary # t.secondary
    /\ IF t.decision = "threshold_exceeded" THEN selected = None
       ELSE selected \in {t.primary, t.secondary}
    /\ TraceDecision(t)

Selects(w, p, a, t, n) ==
    swk' = [swk EXCEPT ![w].pc = "refence", ![w].mat = Materialization(p, a, t, n)]
Fails(w, stage, t) ==
    swk' = [swk EXCEPT ![w].pc = "fail", ![w].mat = None,
                       ![w].fail = [stage |-> stage, trace |-> t]]

Fetching == {w \in Workers : swk[w].pc = "fetch"}

\* PolicySnapshotMaterializationSource.fetch
Fetch(w, answers, gates) ==
    LET seen == Seen(answers, gates)
        cands == Candidates(seen)
        asked == {i \in AskedUpTo(seen) : AskedWhen(gates[Routes[i]])}
        violated == \E i \in asked : answers[Routes[i]].kind = "foreign"
        refused == \/ cands = <<>>
                   \/ Len(cands) = 2 /\ Refusal(seen[cands[1]], seen[cands[2]]) # None
        selected == IF refused THEN None ELSE cands[1]
        pair == DualTrace(cands, seen, answers, asked)
        trace == IF pair = <<>> THEN None ELSE TraceOf(pair, answers)
    IN /\ swk[w].pc = "fetch"
       /\ IF violated \/ (trace # None /\ ~TraceIsValid(trace, selected))
          THEN Fails(w, "provider", None)
          ELSE IF refused THEN Fails(w, "provider", trace)
          ELSE Selects(w, cands[1], seen[cands[1]], trace, Len(cands))
       /\ UNCHANGED <<sjob, srun, store, link, failures, receipts, now>>

\* A single source, as the worker composes it: whatever it answers is the
\* materialization, and the lease's own checks have to catch the rest.
FetchDirect(w, p, a) ==
    /\ swk[w].pc = "fetch"
    /\ IF a.kind = "failure" THEN Fails(w, "provider", None) ELSE Selects(w, p, a, None, 1)
    /\ UNCHANGED <<sjob, srun, store, link, failures, receipts, now>>

-----------------------------------------------------------------------------
(* Archiving. *)

\* The fence again, then the route of what was fetched.
Refence(w) ==
    /\ swk[w].pc = "refence"
    /\ IF ~(Fenced(w) /\ ActiveRun) THEN Stops(w)
       ELSE IF ~swk[w].mat.authorized THEN Fails(w, "provider", None)
       ELSE Proceeds(w, "raw")
    /\ UNCHANGED <<sjob, srun, store, link, failures, receipts, now>>

\* validate_materialization
Materializes(m) ==
    /\ m.state \in {"available", "legitimate_empty", "stale", "partial"}
    /\ m.state # "legitimate_empty" => m.pit

\* finalize: content that is stored keeps the time it was first given.
Holds(content) == \E s \in store : s.content = content
Finalized(content, at) ==
    IF Holds(content) THEN store ELSE store \cup {[content |-> content, at |-> at]}
FinalizedAt(content) == (CHOOSE s \in store : s.content = content).at

\* The store may fail at either artifact; the first stays behind.
ArchiveRaw(w) ==
    LET m == swk[w].mat
    IN /\ swk[w].pc = "raw"
       /\ \/ /\ Materializes(m)
             /\ store' = Finalized(RawContent(m), m.observed)
             /\ Proceeds(w, "manifest")
          \/ Fails(w, "materialization", None) /\ UNCHANGED store
       /\ UNCHANGED <<sjob, srun, link, failures, receipts, now>>

ArchiveManifest(w) ==
    LET m == swk[w].mat
    IN /\ swk[w].pc = "manifest"
       /\ \/ store' = Finalized(ManifestContent(m), m.observed) /\ Proceeds(w, "complete")
          \/ Fails(w, "materialization", None) /\ UNCHANGED store
       /\ UNCHANGED <<sjob, srun, link, failures, receipts, now>>

-----------------------------------------------------------------------------
(* Completion and failure. *)

\* verify_snapshot_artifacts
ArtifactsVerify(m) == Holds(RawContent(m)) /\ Holds(ManifestContent(m))

ArtifactContextUndated(m) == m.observed <= now

\* artifact_context_is_valid: both artifacts are dated as the manifest says.
ArtifactContextIsValid(m) ==
    /\ FinalizedAt(RawContent(m)) = m.observed
    /\ FinalizedAt(ManifestContent(m)) = m.observed
    /\ m.observed <= now

\* reconciliation_trace_is_authorized: both routes, and the decision follows
\* from the values.
TraceIsAuthorized(t) ==
    /\ t.primary \in Providers /\ t.secondary \in Providers /\ t.primary # t.secondary
    /\ TraceDecision(t)

CompletionContext(m) ==
    /\ ActiveRun
    /\ m.authorized
    /\ m.trace # None => TraceIsAuthorized(m.trace) /\ m.trace.primary = m.provider
    /\ ArtifactContextIsValid(m)

\* prepare_rows: artifact, evidence and snapshot rows are shared by content,
\* and the run is linked to one snapshot only.
LinkRun(w, m) ==
    /\ link # None => link.manifest = m
    /\ link' = [manifest |-> m, gen |-> swk[w].gen]

\* finish_job: the event and the outbox entry, the run and the job.
FinishJob(w, m) ==
    /\ srun' = [status |-> "succeeded", version |-> srun.version + 1]
    /\ sjob' = [sjob EXCEPT !.status = "succeeded"]
    /\ receipts' = receipts \cup {[manifest |-> m, gen |-> swk[w].gen, seq |-> srun.version + 1]}

\* completed_snapshot_receipt: a repeat by the same lease with the same
\* result gets the same receipt.
RepeatsCompletion(w, m) ==
    /\ sjob.owner = w /\ sjob.attempts = swk[w].gen
    /\ link.manifest = m
    /\ srun.status = "succeeded"

Repeat(w, m) ==
    /\ sjob.status = "succeeded"
    /\ receipts' = IF RepeatsCompletion(w, m)
                   THEN receipts \cup {[manifest |-> link.manifest, gen |-> swk[w].gen,
                                        seq |-> srun.version]}
                   ELSE receipts
    /\ UNCHANGED <<sjob, srun, link>>

\* A refused completion is not recorded as a failure of the attempt.  The
\* answer may be lost: the worker stays and completes again.
Complete(w) ==
    LET m == swk[w].mat
    IN /\ swk[w].pc = "complete"
       /\ \/ /\ ArtifactsVerify(m)
             /\ \/ Repeat(w, m)
                \/ Fenced(w) /\ CompletionContext(m) /\ LinkRun(w, m) /\ FinishJob(w, m)
             /\ Stops(w) \/ UNCHANGED swk
          \/ /\ ~(ArtifactsVerify(m) /\ (sjob.status = "succeeded"
                                         \/ (Fenced(w) /\ CompletionContext(m))))
             /\ Stops(w)
             /\ UNCHANGED <<sjob, srun, link, receipts>>
       /\ UNCHANGED <<store, failures, now>>

\* append_failure: the event, and the job back to the queue or the run's end.
AppendFailure(w) ==
    LET retry == sjob.attempts < MaxAttempts
    IN /\ failures' = Append(failures, [gen |-> swk[w].gen, stage |-> swk[w].fail.stage,
                                        trace |-> swk[w].fail.trace, retry |-> retry])
       /\ sjob' = [sjob EXCEPT !.status = IF retry THEN "queued" ELSE "dead_letter",
                               !.owner = None, !.live = FALSE]
       /\ srun' = [status |-> IF retry THEN "running" ELSE "failed", version |-> srun.version + 1]

\* record_snapshot_failure, fenced like a completion.
RecordFailure(w) ==
    /\ swk[w].pc = "fail"
    /\ \/ Fenced(w) /\ ActiveRun /\ AppendFailure(w)
       \/ ~(Fenced(w) /\ ActiveRun) /\ UNCHANGED <<failures, sjob, srun>>
    /\ Stops(w)
    /\ UNCHANGED <<store, link, receipts, now>>

\* A worker is lost; what it stored stays.
Crash(w) ==
    /\ swk[w].pc # "idle"
    /\ Stops(w)
    /\ UNCHANGED <<sjob, srun, store, link, failures, receipts, now>>

Passes ==
    /\ now < MaxClock
    /\ now' = now + 1
    /\ UNCHANGED <<sjob, srun, swk, store, link, failures, receipts>>

SnapshotInit ==
    /\ sjob = [status |-> "absent", attempts |-> 0, owner |-> None, live |-> FALSE]
    /\ srun = [status |-> "absent", version |-> 0]
    /\ swk = [w \in Workers |-> Resting]
    /\ store = {} /\ link = None
    /\ failures = <<>> /\ receipts = {}
    /\ now = 0

SnapshotNext ==
    \/ Submit
    \/ \E w \in Workers : Claim(w)
    \/ ExpireLease
    \/ DeadLetter
    \/ \E w \in Workers : Preflight(w)
    \/ \E w \in Fetching, answers \in [Providers -> Answer], gates \in [Providers -> Gates] :
          Fetch(w, answers, gates)
    \/ \E w \in Fetching, p \in Providers, a \in Answer : FetchDirect(w, p, a)
    \/ \E w \in Workers : Refence(w)
    \/ \E w \in Workers : ArchiveRaw(w)
    \/ \E w \in Workers : ArchiveManifest(w)
    \/ \E w \in Workers : Complete(w)
    \/ \E w \in Workers : RecordFailure(w)
    \/ \E w \in Workers : Crash(w)
    \/ Passes

SnapshotSpec == SnapshotInit /\ [][SnapshotNext]_snapshotVars

-----------------------------------------------------------------------------
(* Properties. *)

\* validate_snapshot_evidence_pit, the trigger on snapshot_evidence.
EvidencePit(m) == m.state = "legitimate_empty" \/ m.pit

\* SnapshotIsSound: a run ends succeeded exactly when it is linked to a snapshot,
\* by the one attempt whose lease was live, and every receipt ever returned says
\* the same.  The snapshot was observed on an authorized route, holds only data
\* available at the request's time, and both its artifacts carry the date its
\* manifest gives them, whichever attempt stored them.  Its trace, and the trace
\* in the record of a failure, tell what was compared: two accepted answers that
\* agree, or a disagreement.  (Under a policy that accepts stale data, an empty
\* answer that was itself refused can stand in the trace for an accepted one.)
SnapshotIsSound ==
    /\ (srun.status = "succeeded") = (link # None)
    /\ \A r1, r2 \in receipts : r1 = r2
    /\ \A r \in receipts : link # None /\ r.gen = link.gen /\ r.manifest = link.manifest
    /\ \A i \in DOMAIN failures :
         failures[i].trace # None => failures[i].trace.decision = "threshold_exceeded"
    /\ link # None =>
         LET m == link.manifest
         IN /\ link.gen = sjob.attempts
            /\ \A i \in DOMAIN failures : failures[i].gen < link.gen /\ failures[i].retry
            /\ m.authorized
            /\ EvidencePit(m)
            /\ ArtifactsVerify(m)
            /\ FinalizedAt(RawContent(m)) = m.observed
            /\ AllowStale \/ (m.support = 2) = (m.trace # None)
            /\ m.trace # None =>
                 /\ m.trace.decision # "threshold_exceeded"
                 /\ m.trace.primary = m.provider
                 /\ (m.trace.decision = "both_empty") = (m.state = "legitimate_empty")
=============================================================================

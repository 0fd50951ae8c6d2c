------------------------------ MODULE Research ------------------------------
(***************************************************************************)
(* One research lease, from the worker that claimed it to its verdict: the *)
(* bounded tool loop (application/research/tool_loop.py) with its thread   *)
(* pool of evidence tools, the structured model call with its repairs and  *)
(* retries (adapters/llm), the usage budgets, and the pipeline that writes *)
(* the report (application/research/pipeline.py).                          *)
(*                                                                         *)
(* The worker is one thread, whose program counter is `pc'; a tool call    *)
(* runs in a thread of its own and may answer late or never.  The clock    *)
(* moves between any two steps.  Tokens stand for every additive dimension *)
(* of usage (input, output, cost, elapsed time), text is left out, and     *)
(* what the model answers is any of a small set of turns.                  *)
(***************************************************************************)
EXTENDS Integers, Sequences, FiniteSets, FiniteSetsExt

CONSTANTS
    Evidence,       \* evidence items that exist
    Kind,           \* [Evidence -> EvidenceKind]
    Available,      \* evidence available at the request's as_of
    Plan,           \* tool calls the model may plan: [tool, ids]
    MaxBatch,       \* tool calls of one turn
    MaxParallel,    \* max_parallel_tools
    MaxIterations,  \* UsageBudget.max_iterations
    MaxToolCalls,   \* UsageBudget.max_tool_calls
    TokenBudget,    \* UsageBudget.max_total_tokens
    AnswerTokens,   \* the most one answer of the provider costs
    RouteTokens,    \* ModelRoute.max_total_tokens_per_request
    MaxRepairs,     \* ModelRoute.max_repairs
    MaxRetries,     \* ModelRoute.max_transient_retries
    Timeout,        \* ModelRoute.timeout_seconds
    ToolTimeout,    \* timeout_ms of a call
    MaxBlocks,      \* MAX_CONTEXT_BLOCKS
    Deadline,       \* lease.deadline_at
    SoftCost, HardCost, SoftElapsed, HardElapsed,  \* OperationalBudgetPolicy
    MaxTime         \* bound of the clock

EvidenceKind == {"market_data", "fundamental", "filing", "news"}
Tool == {"list_evidence", "read_evidence", "price_window", "fundamental_snapshot",
         "filing_history"}

ASSUME ResearchAssumption ==
    /\ Kind \in [Evidence -> EvidenceKind] /\ Available \subseteq Evidence
    /\ {MaxBatch, MaxParallel, MaxIterations, AnswerTokens, RouteTokens, Timeout,
        ToolTimeout} \subseteq Nat \ {0}
    /\ {MaxToolCalls, TokenBudget, MaxRepairs, MaxRetries, MaxBlocks} \subseteq Nat
    /\ Deadline \in 0..MaxTime /\ MaxTime \in Nat
    /\ {SoftCost, HardCost, SoftElapsed, HardElapsed} \subseteq Nat
    /\ SoftCost <= HardCost /\ SoftElapsed <= HardElapsed
ASSUME EvidenceAssumption == IsFiniteSet(Evidence)

VARIABLES
    now,       \* the clock
    pc,        \* what the worker does next
    scope,     \* evidence of the snapshot: the request's allowed_evidence_ids
    usage,     \* _LoopState.usage
    req,       \* the model call under way
    turn,      \* the model's last turn
    thread,    \* tool calls of the last batch, in the order of submission
    seen,      \* [materialized |-> _LoopState.materialized_evidence_ids,
               \*  shown |-> evidence whose content is in a block, blocks |-> their number]
    bill,      \* [billed |-> tokens of every answer, metered |-> MonotonicBudgetUsage]
    pipe,      \* ResearchPipelineResult and the claims of the research artifact
    verdict    \* what the worker reported to the queue

researchVars == <<now, pc, scope, usage, req, turn, thread, seen, bill, pipe, verdict>>

\* authorize_tool_call: a tool of the policy, on evidence of the request's scope.
AuthorizedCall(call) == call.tool \in Tool /\ call.ids # {} /\ call.ids \subseteq scope

\* _authorize_batch: one refusal refuses the batch.
BatchAllowed(calls) == \A i \in DOMAIN calls : AuthorizedCall(calls[i])

\* Mutant: a listing counts as having been read.
MaterializesListed(call) == call.ids

\* EvidenceTool: the evidence whose content a call returns; a listing returns none.
Materializes(call) ==
    CASE call.tool = "list_evidence" -> {}
      [] call.tool = "read_evidence" -> call.ids
      [] call.tool = "price_window" -> {e \in call.ids : Kind[e] = "market_data"}
      [] call.tool = "fundamental_snapshot" -> {e \in call.ids : Kind[e] = "fundamental"}
      [] call.tool = "filing_history" -> {e \in call.ids : Kind[e] = "filing"}

\* What the call's output shows of them: the content, or only the inventory.
Shows(call) == IF call.tool = "list_evidence" THEN {}
               ELSE {e \in call.ids : call.tool = "read_evidence" \/
                       Kind[e] = CASE call.tool = "price_window" -> "market_data"
                                   [] call.tool = "fundamental_snapshot" -> "fundamental"
                                   [] OTHER -> "filing"}

\* A tool without any evidence of its kind answers NOT_FOUND.
ToolCanAnswer(call) == call.tool = "list_evidence" \/ Materializes(call) # {}

Late == now > Deadline          \* _check_deadline of the loop
Passed == now >= Deadline       \* _deadline_passed of the model call, the pipeline

\* Mutant: the tokens of a turn replace those of the turns before it.
ConsumedAfresh(u, iterations, calls, tokens) ==
    [iterations |-> u.iterations + iterations, calls |-> u.calls + calls,
     tokens |-> IF tokens = 0 THEN u.tokens ELSE tokens]

\* consume_usage.
Consumed(u, iterations, calls, tokens) ==
    [iterations |-> u.iterations + iterations, calls |-> u.calls + calls,
     tokens |-> u.tokens + tokens]

\* _exceeded_dimensions.
Exceeded(u) ==
    u.iterations > MaxIterations \/ u.calls > MaxToolCalls \/ u.tokens > TokenBudget

\* _violation: the status of one dimension.
Violation(observed, soft, hard) ==
    IF observed > hard THEN "failed" ELSE IF observed > soft THEN "degraded" ELSE "within"

\* evaluate_budget on the tracker's snapshot: the strongest of both dimensions.
BudgetStatus ==
    LET found == {Violation(bill.metered, SoftCost, HardCost),
                  Violation(now, SoftElapsed, HardElapsed)}
    IN  IF "failed" \in found THEN "failed"
        ELSE IF "degraded" \in found THEN "degraded" ELSE "within"

NoRequest == [for |-> "none", repair |-> 0, retry |-> 0, tokens |-> 0, last |-> 0, until |-> 0]
NewRequest(purpose) == [NoRequest EXCEPT !.for = purpose]
NoTurn == [action |-> "none", cited |-> {}, calls |-> <<>>]
Turn == [action: {"final"}, cited: SUBSET Evidence, calls: {<<>>}]
        \cup [action: {"tools"}, cited: {{}}, calls: UNION {[1..n -> Plan] : n \in 1..MaxBatch}]
NoResult == [research |-> FALSE, cited |-> {}, opinion |-> FALSE, report |-> FALSE,
             issues |-> {}, status |-> "none"]

\* What the worker does next.
Stage == {"preflight", "iterate", "request", "sending", "answered", "turned", "collect", "pipeline",
          "context", "research", "opinion", "report", "generated", "forecast", "done"}
ModelCall == [for : {"none", "turn", "report"}, repair : 0..MaxRepairs, retry : 0..MaxRetries,
              tokens : 0..RouteTokens, last : 0..AnswerTokens, until : Nat]
ToolCall == [call : Plan, state : {"queued", "running", "answered", "failed", "cancelled"},
             deadline : Nat, at : Nat]
Issue == {"deadline", "context", "budget", "deterministic", "tradingagents", "report", "render"}
Result == [research : BOOLEAN, cited : SUBSET Evidence, opinion : BOOLEAN, report : BOOLEAN,
           issues : SUBSET Issue, status : {"none", "succeeded", "degraded", "failed"}]

ResearchTypeOK ==
    /\ now \in 0..MaxTime /\ pc \in Stage /\ scope \subseteq Evidence
    /\ usage \in [iterations : Nat, calls : Nat, tokens : Nat]
    /\ req \in ModelCall
    /\ turn \in [action : {"none", "final", "tools", "report"}, cited : SUBSET Evidence,
                 calls : Seq(Plan)]
    /\ thread \in Seq(ToolCall)
    /\ seen \in [materialized : SUBSET Evidence, shown : SUBSET Evidence, blocks : Nat]
    /\ bill \in [billed : Nat, metered : Nat]
    /\ pipe \in Result
    /\ verdict \in {"none", "succeeded", "degraded", "failed", "conflict", "budget_exhausted",
                    "deadline_exceeded", "data_unavailable", "model_output_invalid",
                    "capability_denied", "tool_failed", "payload_too_large",
                    "configuration_invalid", "internal_error"}

ResearchInit ==
    /\ now = 0 /\ pc = "preflight" /\ scope = {}
    /\ usage = [iterations |-> 0, calls |-> 0, tokens |-> 0]
    /\ req = NoRequest /\ turn = NoTurn /\ thread = <<>>
    /\ seen = [materialized |-> {}, shown |-> {}, blocks |-> 0]
    /\ bill = [billed |-> 0, metered |-> 0]
    /\ pipe = NoResult /\ verdict = "none"

Tick ==
    /\ now < MaxTime
    /\ now' = now + 1
    /\ UNCHANGED <<pc, scope, usage, req, turn, thread, seen, bill, pipe, verdict>>

-----------------------------------------------------------------------------
(* The worker's lease and the loop.                                        *)

\* Futures that have not started are cancelled.
Cancelled(t) == IF t.state = "queued" THEN [t EXCEPT !.state = "cancelled"] ELSE t

\* _fail_research.
FailLease(code) ==
    /\ pc' = "done" /\ verdict' = code
    /\ thread' = [i \in DOMAIN thread |-> Cancelled(thread[i])]

\* ResearchLeaseInput.validate_scope, _validate_evidence: nothing of after as_of.
PointInTime(items) == items # {} /\ items \subseteq Available

\* _compact_blocks: the inventory of the evidence, 64 items to a block.
InventoryBlocks(items) == (Cardinality(items) + 63) \div 64

\* process_research_lease up to the loop: PostgresResearchLeasePreflight gives
\* the snapshot's evidence and build_research_context its inventory.
Preflight(items) ==
    /\ pc = "preflight"
    /\ IF ~PointInTime(items) \/ InventoryBlocks(items) > MaxBlocks
       THEN FailLease("conflict") /\ UNCHANGED <<scope, seen>>
       ELSE /\ pc' = "iterate" /\ scope' = items
            /\ seen' = [seen EXCEPT !.blocks = InventoryBlocks(items)]
            /\ UNCHANGED <<thread, verdict>>
    /\ UNCHANGED <<now, usage, req, turn, bill, pipe>>

\* run_tool_loop, and the start of _run_iteration.
BeginIteration ==
    /\ pc = "iterate"
    /\ CASE usage.iterations >= MaxIterations -> FailLease("budget_exhausted") /\ UNCHANGED req
         [] usage.iterations < MaxIterations /\ Late ->
              FailLease("deadline_exceeded") /\ UNCHANGED req
         [] OTHER -> /\ pc' = "request" /\ req' = NewRequest("turn")
                     /\ UNCHANGED <<thread, verdict>>
    /\ UNCHANGED <<now, scope, usage, turn, seen, bill, pipe>>

-----------------------------------------------------------------------------
(* The model call: complete_structured around request_json.                *)

\* The answer's tokens reach UsageTrackingLLM, whether the call fails or not.
Metered(tokens) == [bill EXCEPT !.metered = @ + tokens]

\* A call that fails ends the loop and the lease, or fails the pipeline's report.
CallFails(tokens, code) ==
    /\ bill' = Metered(tokens)
    /\ req' = NoRequest
    /\ IF req.for = "turn"
       THEN FailLease(code) /\ UNCHANGED pipe
       ELSE /\ pipe' = [pipe EXCEPT !.status = "failed", !.issues = @ \cup {"report"}]
            /\ pc' = "forecast" /\ UNCHANGED <<thread, verdict>>

\* _prepare and the top of both loops: no attempt is made at or past the deadline.
Send ==
    /\ pc = "request"
    /\ IF Passed
       THEN CallFails(req.tokens, "deadline_exceeded")
       ELSE /\ pc' = "sending"
            /\ req' = [req EXCEPT !.until = Min({now + Timeout, Deadline})]
            /\ UNCHANGED <<bill, pipe, thread, verdict>>
    /\ UNCHANGED <<now, scope, usage, turn, seen>>

\* The body is read before its deadline and archived before it is parsed.
ReceiveAnswer(tokens) ==
    /\ pc = "sending" /\ now < req.until
    /\ pc' = "answered"
    /\ bill' = [bill EXCEPT !.billed = @ + tokens]
    /\ req' = [req EXCEPT !.last = tokens]
    /\ UNCHANGED <<now, scope, usage, turn, thread, seen, pipe, verdict>>

\* A transient status or a broken connection is retried; _backoff is time passing.
ReceiveTransient ==
    /\ pc = "sending"
    /\ IF req.retry < MaxRetries
       THEN /\ pc' = "request" /\ req' = [req EXCEPT !.retry = @ + 1]
            /\ UNCHANGED <<bill, pipe, thread, verdict>>
       ELSE CallFails(req.tokens, "data_unavailable")
    /\ UNCHANGED <<now, scope, usage, turn, seen>>

\* Another status, a body that is late, too large or echoes the credential.
ReceiveRefusal ==
    /\ pc = "sending"
    /\ CallFails(req.tokens, "data_unavailable")
    /\ UNCHANGED <<now, scope, usage, turn, seen>>

\* _archive fails, or the provider's envelope cannot be parsed: the answer was
\* billed and its tokens are not known.
AnswerUnusable ==
    /\ pc = "answered"
    /\ CallFails(req.tokens, "model_output_invalid")
    /\ UNCHANGED <<now, scope, usage, turn, seen>>

\* _add_usage, _usage_exceeded, the deadline, _parse_and_validate and the repair.
EvaluateAnswer(answer) ==
    /\ pc = "answered"
    /\ LET tokens == req.tokens + req.last
       IN  CASE tokens > RouteTokens ->
                  CallFails(tokens, "budget_exhausted") /\ UNCHANGED turn
             [] tokens <= RouteTokens /\ Passed ->
                  CallFails(tokens, "deadline_exceeded") /\ UNCHANGED turn
             [] tokens <= RouteTokens /\ ~Passed /\ answer = "unrepairable" ->
                  CallFails(tokens, "model_output_invalid") /\ UNCHANGED turn
             [] tokens <= RouteTokens /\ ~Passed /\ answer = "invalid" ->
                  /\ UNCHANGED turn
                  /\ IF req.repair < MaxRepairs
                     THEN /\ req' = [req EXCEPT !.repair = @ + 1, !.retry = 0,
                                                !.tokens = tokens, !.last = 0, !.until = 0]
                          /\ pc' = "request"
                          /\ UNCHANGED <<bill, pipe, thread, verdict>>
                     ELSE CallFails(tokens, "model_output_invalid")
             [] OTHER ->
                  /\ bill' = Metered(tokens)
                  /\ req' = [req EXCEPT !.tokens = tokens, !.last = 0, !.until = 0]
                  /\ pc' = IF req.for = "turn" THEN "turned" ELSE "generated"
                  /\ turn' \in IF req.for = "turn" THEN Turn
                               ELSE [action: {"report"}, cited: SUBSET Evidence, calls: {<<>>}]
                  /\ UNCHANGED <<pipe, thread, verdict>>
    /\ UNCHANGED <<now, scope, usage, seen>>

-----------------------------------------------------------------------------
(* The rest of an iteration.                                               *)

Thread(call) ==
    [call |-> call, state |-> "queued", deadline |-> now + ToolTimeout, at |-> 0]

\* _validate_final_evidence.
CitationsMaterialized(cited) == cited \subseteq seen.materialized

\* _run_iteration after the model's answer: a final turn, or the tools' batch,
\* authorized and reserved as a whole before the first thread is submitted.
EndTurn ==
    /\ pc = "turned"
    /\ LET spent == Consumed(usage, 1, 0, req.tokens)
           reserved == Consumed(spent, 0, Len(turn.calls), 0)
           allowed == BatchAllowed(turn.calls)
       IN  CASE Late -> FailLease("deadline_exceeded") /\ UNCHANGED <<usage, pipe>>
             [] ~Late /\ Exceeded(spent) ->
                  FailLease("budget_exhausted") /\ UNCHANGED <<usage, pipe>>
             [] ~Late /\ ~Exceeded(spent) /\ turn.action = "final" ->
                  /\ usage' = spent
                  /\ IF CitationsMaterialized(turn.cited)
                     THEN /\ pipe' = [pipe EXCEPT !.cited = turn.cited]
                          /\ pc' = "pipeline" /\ UNCHANGED <<thread, verdict>>
                     ELSE FailLease("model_output_invalid") /\ UNCHANGED pipe
             [] ~Late /\ ~Exceeded(spent) /\ turn.action # "final" /\ ~allowed ->
                  FailLease("capability_denied") /\ usage' = spent /\ UNCHANGED pipe
             [] ~Late /\ ~Exceeded(spent) /\ turn.action # "final" /\ allowed /\ Exceeded(reserved) ->
                  FailLease("budget_exhausted") /\ usage' = spent /\ UNCHANGED pipe
             [] OTHER ->
                  /\ usage' = reserved
                  /\ thread' = [i \in DOMAIN turn.calls |-> Thread(turn.calls[i])]
                  /\ pc' = "collect" /\ UNCHANGED <<pipe, verdict>>
    /\ req' = NoRequest
    /\ UNCHANGED <<now, scope, turn, seen, bill>>

InState(state) == {i \in DOMAIN thread : thread[i].state = state}

\* The pool starts queued calls in order; the clock of a queued call is running.
ThreadStart(i) ==
    /\ i \in InState("queued") /\ \A j \in InState("queued") : i <= j
    /\ Cardinality(InState("running")) < MaxParallel
    /\ thread' = [thread EXCEPT ![i].state = "running"]
    /\ UNCHANGED <<now, pc, scope, usage, req, turn, seen, bill, pipe, verdict>>

\* EvidenceTool.execute, _store: an answer or a failure, in the tool's own time,
\* also after the loop has given up on it.
ThreadEnd(i, state) ==
    /\ i \in InState("running")
    /\ state = "answered" => ToolCanAnswer(thread[i].call)
    /\ thread' = [thread EXCEPT ![i].state = state, ![i].at = now]
    /\ UNCHANGED <<now, pc, scope, usage, req, turn, seen, bill, pipe, verdict>>

Finished(i) == thread[i].state \in {"answered", "failed"}
Pending == InState("queued") \cup InState("running")

\* Mutant: the wait for a running call has no timeout.
TimedOutByQueue == \E i \in InState("queued") : now >= thread[i].deadline

\* _collect_tool_outcomes: the wait for the earliest deadline came back empty.
TimedOut == \E i \in Pending : now >= thread[i].deadline

CollectTimeout ==
    /\ pc = "collect"
    /\ \/ TimedOut
       \/ \E i \in DOMAIN thread : Finished(i) /\ thread[i].at > thread[i].deadline
    /\ FailLease("tool_failed")
    /\ UNCHANGED <<now, scope, usage, req, turn, seen, bill, pipe>>

\* _extend_context: every output becomes a block, as far as there is room.
Extends(readable) == readable /\ seen.blocks + Len(thread) <= MaxBlocks

\* _execute_batch after the collection, _extend_context and the last deadline.
CollectAll(readable) ==
    /\ pc = "collect" /\ Pending = {}
    /\ \A i \in DOMAIN thread : thread[i].at <= thread[i].deadline
    /\ CASE \E i \in DOMAIN thread : thread[i].state = "failed" ->
              FailLease("tool_failed") /\ UNCHANGED seen
         [] InState("failed") = {} /\ ~Extends(readable) ->
              FailLease("payload_too_large") /\ UNCHANGED seen
         [] InState("failed") = {} /\ Extends(readable) /\ Late ->
              FailLease("deadline_exceeded") /\ UNCHANGED seen
         [] OTHER ->
              /\ seen' = [materialized |-> seen.materialized \cup
                              UNION {Materializes(thread[i].call) : i \in DOMAIN thread},
                          shown |-> seen.shown \cup
                              UNION {Shows(thread[i].call) : i \in DOMAIN thread},
                          blocks |-> seen.blocks + Len(thread)]
              /\ pc' = "iterate" /\ thread' = <<>> /\ UNCHANGED verdict
    /\ UNCHANGED <<now, scope, usage, req, turn, bill, pipe>>

-----------------------------------------------------------------------------
(* The pipeline and the end of the lease.                                  *)

\* _finish: the audit of this outcome is stored, or the lease fails.
Finish(status, issue) ==
    /\ pipe' = [pipe EXCEPT !.status = status, !.issues = @ \cup issue]
    /\ pc' = "forecast"

\* _context_request, assemble_evidence_context: the kinds the lease asks for.
Context == {e \in scope : Kind[e] \in {"market_data", "fundamental", "filing"}}

\* validate_report_draft: a claim cites evidence of the context.
DraftIsSound == turn.cited \subseteq Context

\* The stages of run_research_pipeline that begin with _stop_for_budget.
CheckedStage == {"context", "research", "opinion", "report", "generated"}

StopForBudget ==
    /\ pc \in CheckedStage /\ BudgetStatus # "within"
    /\ pc = "generated" => DraftIsSound
    /\ Finish(BudgetStatus, {"budget"})
    /\ UNCHANGED <<now, scope, usage, req, turn, thread, seen, bill, verdict>>

StartPipeline ==
    /\ pc = "pipeline"
    /\ IF Passed THEN Finish("failed", {"deadline"}) ELSE pc' = "context" /\ UNCHANGED pipe
    /\ UNCHANGED <<now, scope, usage, req, turn, thread, seen, bill, verdict>>

Assemble(ok) ==
    /\ pc = "context" /\ BudgetStatus = "within"
    /\ IF ok THEN pc' = "research" /\ UNCHANGED pipe ELSE Finish("failed", {"context"})
    /\ UNCHANGED <<now, scope, usage, req, turn, thread, seen, bill, verdict>>

\* _PrecomputedResearch and _validate_research: its evidence is in the context.
AcceptResearch ==
    /\ pc = "research" /\ BudgetStatus = "within"
    /\ IF scope \subseteq Context
       THEN pc' = "opinion" /\ pipe' = [pipe EXCEPT !.research = TRUE]
       ELSE Finish("failed", {"deterministic"})
    /\ UNCHANGED <<now, scope, usage, req, turn, thread, seen, bill, verdict>>

\* tradingagents.analyze and _validate_opinion: without it the outcome is degraded.
Analyze(ok) ==
    /\ pc = "opinion" /\ BudgetStatus = "within"
    /\ pc' = "report"
    /\ pipe' = IF ok THEN [pipe EXCEPT !.opinion = TRUE]
                     ELSE [pipe EXCEPT !.issues = @ \cup {"tradingagents"}]
    /\ UNCHANGED <<now, scope, usage, req, turn, thread, seen, bill, verdict>>

\* generate_report, up to the model call.
Generate ==
    /\ pc = "report" /\ BudgetStatus = "within"
    /\ pc' = "request" /\ req' = NewRequest("report")
    /\ UNCHANGED <<now, scope, usage, turn, thread, seen, bill, pipe, verdict>>

\* The end of generate_report, the budget once more, and the renderer.
Render(ok) ==
    /\ pc = "generated"
    /\ DraftIsSound /\ pc \in CheckedStage => BudgetStatus = "within"
    /\ CASE ~DraftIsSound -> Finish("failed", {"report"})
         [] DraftIsSound /\ ~ok -> Finish("failed", {"render"})
         [] OTHER -> /\ pipe' = [pipe EXCEPT !.report = TRUE,
                                   !.status = IF pipe.issues = {} THEN "succeeded" ELSE "degraded"]
                     /\ pc' = "forecast"
    /\ req' = NoRequest
    /\ UNCHANGED <<now, scope, usage, turn, thread, seen, bill, verdict>>

\* ResearchWorkerResult.status.
ResultStatus(forecast) ==
    IF pipe.status = "succeeded" /\ ~forecast THEN "degraded" ELSE pipe.status

\* The forecast, the result and its artifact.  A result without its research
\* artifact is a ValueError, which the worker reports as a configuration error.
Conclude(forecast, stored) ==
    /\ pc = "forecast"
    /\ CASE ~pipe.research -> FailLease("configuration_invalid")
         [] pipe.research /\ ~stored -> FailLease("internal_error")
         [] OTHER -> /\ pc' = "done" /\ verdict' = ResultStatus(forecast)
                     /\ UNCHANGED thread
    /\ UNCHANGED <<now, scope, usage, req, turn, seen, bill, pipe>>

Worker ==
    \/ \E items \in SUBSET Evidence : Preflight(items)
    \/ BeginIteration \/ Send
    \/ \E tokens \in 1..AnswerTokens : ReceiveAnswer(tokens)
    \/ ReceiveTransient \/ ReceiveRefusal \/ AnswerUnusable
    \/ \E answer \in {"valid", "invalid", "unrepairable"} : EvaluateAnswer(answer)
    \/ EndTurn \/ CollectTimeout
    \/ \E ok \in BOOLEAN : CollectAll(ok) \/ Assemble(ok) \/ Analyze(ok) \/ Render(ok)
    \/ StartPipeline \/ StopForBudget \/ AcceptResearch \/ Generate
    \/ \E forecast, stored \in BOOLEAN : Conclude(forecast, stored)

ToolThread ==
    \E i \in 1..MaxBatch : ThreadStart(i) \/ \E s \in {"answered", "failed"} : ThreadEnd(i, s)

ResearchNext == Tick \/ Worker \/ ToolThread

ResearchSpec == ResearchInit /\ [][ResearchNext]_researchVars

\* The worker's thread and the clock go on; a tool's thread may hang.
FairSpec ==
    /\ ResearchSpec
    /\ WF_researchVars(Tick) /\ WF_researchVars(Worker)

-----------------------------------------------------------------------------
(* Properties.                                                             *)

\* SpendIsBounded: what the provider bills for a lease is bounded, though every request is
\* checked only after its answer: the loop's budget and one request more, which
\* is the one that overran it or the report's.  The tracker that the operational budget
\* reads is behind the bill by one answer at most, however the calls fail.
SpendIsBounded ==
    /\ bill.billed <= TokenBudget + RouteTokens + AnswerTokens
    /\ bill.billed <= bill.metered + req.tokens + AnswerTokens
    /\ usage.tokens <= TokenBudget /\ usage.calls <= MaxToolCalls

\* LeaseIsHonest: a lease ends with a success only when everything was produced
\* within the budget: research, opinion, forecast and report; with a degraded
\* result only when the pipeline recorded why or the forecast is missing; and a
\* report never comes from a run whose metered cost is over the soft limit.
\* A research artifact cites only evidence of its own snapshot, available at its
\* as_of, whose content a tool call, answered in time, had put before the model:
\* a listing is not enough, and neither is the output of a call the loop gave up
\* on.
LeaseIsHonest ==
    /\ verdict = "succeeded" => pipe.report /\ pipe.opinion /\ pipe.issues = {}
    /\ verdict \in {"succeeded", "degraded", "failed"} => pipe.research
    /\ pipe.report => bill.metered <= SoftCost /\ "budget" \notin pipe.issues
    /\ pipe.status = "failed" => ~pipe.report
    /\ pc \in {"pipeline"} \cup CheckedStage \cup {"forecast"} =>
        pipe.cited \subseteq seen.shown \cap scope \cap Available

\* LeaseEnds: every lease comes to a verdict, though a tool may never answer and
\* the provider may fail in any way.
LeaseEnds == <>(pc = "done")
=============================================================================

------------------------------ MODULE Dispatch ------------------------------
(***************************************************************************)
(* The core dispatches leased work to an isolated service over HTTP:       *)
(* adapters/forecast/kronos.py and adapters/research/tradingagents_http.py *)
(* on the core's side, workers/kronos and workers/tradingagents behind the *)
(* service-auth package on the other.  Connections time out while the      *)
(* service goes on working, an answer may be another request's, a lease    *)
(* may have been claimed again, and the service may be deployed anew.      *)
(***************************************************************************)
EXTENDS Nothing, Integers, FiniteSets

CONSTANTS
    Attempts,      \* leased attempts that are dispatched, some of one job
    JobOf, GenerationOf, Deadline, RuntimeOf,
    Runtimes,      \* runtime identities the service can be deployed with
    Seeds,         \* sampled paths of a forecast
    TokenSeconds, ServiceSkew,
    MaxTransientRetries,
    MaxNow,        \* bound: the clock
    MaxRestarts    \* bound: deployments of the service

VARIABLES
    dispatchNow,
    kind,          \* the work that is dispatched, and so the receiver of its tokens
    serving,       \* the service that really answers at the configured origin
    sender,        \* how far each attempt's dispatch has got
    handler,       \* what the service does with each of its requests
    service,       \* the service process: its model and its shared tool facade
    archived,      \* artifacts: <<what, content>>
    made,          \* history: responses the service has made
    restarts

dispatchVars == <<dispatchNow, kind, serving, sender, handler, service, archived, made, restarts>>

Services == {"kronos", "tradingagents"}
Tries == 0..MaxTransientRetries

ASSUME DispatchAssumption ==
    /\ Seeds \in Nat \ {0} /\ TokenSeconds \in Nat \ {0} /\ ServiceSkew \in Nat
    /\ MaxTransientRetries \in Nat /\ \A a \in Attempts : Deadline[a] \in Nat
    /\ \A a, b \in Attempts : JobOf[a] = JobOf[b] /\ GenerationOf[a] = GenerationOf[b] => a = b

\* KronosWorkerResponse: the fence it repeats, the runtime, and when it was made.
KronosResponse(a) ==
    [job |-> JobOf[a], generation |-> GenerationOf[a], at |-> dispatchNow,
     runtime |-> service.runtime, evidence |-> None]

\* TradingAgentsWorkerResponse (_map_response): the evidence the tools read.
AgentsResponse(a) ==
    [job |-> JobOf[a], generation |-> GenerationOf[a], at |-> dispatchNow,
     runtime |-> None, evidence |-> service.facade]

Quiet == [pc |-> "idle", try |-> 0, answer |-> None]
NoRequest == [stage |-> "none", token |-> None, paths |-> 0, status |-> 0]

DispatchInit ==
    /\ dispatchNow = 0
    /\ kind \in Services /\ serving \in Services
    /\ sender = [a \in Attempts |-> [Quiet EXCEPT !.pc = "new"]]
    /\ handler = [a \in Attempts |-> [k \in Tries |-> NoRequest]]
    /\ service \in [ready : {FALSE}, runtime : Runtimes, facade : {None}]
    /\ archived = {} /\ made = {} /\ restarts = 0

------------------------------------------------------------------------------
(* The core's side. *)

Give(a, pc) == sender' = [sender EXCEPT ![a].pc = pc]
Fail(a) == sender' = [sender EXCEPT ![a] = [Quiet EXCEPT !.pc = "failed"]]

\* RS256ServiceCredentialProvider.issue: never longer than the deadline.
ExpiryOf(a) == IF dispatchNow + TokenSeconds < Deadline[a] THEN dispatchNow + TokenSeconds ELSE Deadline[a]

\* _claims: one receiver, one job, one generation (with its nonce and payload).
Claims(a) == [receiver |-> kind, job |-> JobOf[a], generation |-> GenerationOf[a], expires |-> ExpiryOf(a)]

\* _builder_mismatch, _request_pair_mismatch, _validate_request_scope: a
\* request that does not agree with its lease, its bars or its evidence ends here.
Begin(a, bound) ==
    /\ sender[a].pc = "new"
    /\ IF bound THEN Give(a, "idle") ELSE Fail(a)
    /\ UNCHANGED <<dispatchNow, kind, serving, handler, service, archived, made, restarts>>

\* Each turn of _send: the deadline, then a token, then the request.
Send(a) ==
    /\ sender[a].pc = "idle"
    /\ IF dispatchNow >= Deadline[a]
       THEN Fail(a) /\ UNCHANGED handler
       ELSE /\ Give(a, "waiting")
            /\ handler' = [handler EXCEPT ![a][sender[a].try] =
                 [NoRequest EXCEPT !.stage = "arrived", !.token = Claims(a)]]
    /\ UNCHANGED <<dispatchNow, kind, serving, service, archived, made, restarts>>

\* _TRANSIENT_STATUSES.
Transient(status) == status \in {408, 500, 502, 503, 504}

\* _send after an error that may pass: _backoff, then the next turn.
TryAgain(a) ==
    IF sender[a].try < MaxTransientRetries
    THEN sender' = [sender EXCEPT ![a] = [Quiet EXCEPT !.try = sender[a].try + 1]]
    ELSE Fail(a)

\* The core is done with a connection.
HangUp(a) ==
    handler' = [handler EXCEPT ![a][sender[a].try] =
        IF @.stage = "answered" THEN [NoRequest EXCEPT !.stage = "lost"] ELSE @]

\* httpx.HTTPError: a timeout or a broken connection; the service may not notice.
Break(a) ==
    /\ sender[a].pc = "waiting"
    /\ TryAgain(a) /\ HangUp(a)
    /\ UNCHANGED <<dispatchNow, kind, serving, service, archived, made, restarts>>

\* The answer's status.  A 200 carries the response, or one that was crossed
\* on the way.
Receive(a) ==
    LET h == handler[a][sender[a].try]
    IN  /\ sender[a].pc = "waiting" /\ h.stage = "answered"
        /\ IF h.status = 200
           THEN \E r \in made :
                    sender' = [sender EXCEPT ![a].pc = IF kind = "kronos" THEN "raw" ELSE "parse",
                                             ![a].answer = r]
           ELSE IF Transient(h.status) THEN TryAgain(a) ELSE Fail(a)
        /\ HangUp(a)
        /\ UNCHANGED <<dispatchNow, kind, serving, service, archived, made, restarts>>

\* KronosHttpAdapter._archive of the raw body: before anything is believed of it.
ArchiveResponse(a) ==
    /\ sender[a].pc = "raw"
    /\ \/ archived' = archived \cup {<<"raw", sender[a].answer>>} /\ Give(a, "parse")
       \/ Fail(a) /\ UNCHANGED archived
    /\ UNCHANGED <<dispatchNow, kind, serving, handler, service, made, restarts>>

\* _lease_matches; the mutant forgets that a job is claimed again.
LeaseMatchesJob(a, r) == r.job = JobOf[a]
LeaseMatches(a, r) == r.job = JobOf[a] /\ r.generation = GenerationOf[a]

\* _result_matches_worker_request; _result_matches_request: nothing outside
\* the evidence that was allowed.
KronosResultMatches(a, r) == r.runtime = RuntimeOf[a]
AgentsResultMatches(a, r) == r.evidence = a

\* _parse_response: in time, and for TradingAgents of this lease.
ParseResponse(a) ==
    /\ sender[a].pc = "parse"
    /\ IF \/ dispatchNow >= Deadline[a]
          \/ kind = "tradingagents" /\ ~(LeaseMatches(a, sender[a].answer)
                                        /\ AgentsResultMatches(a, sender[a].answer))
       THEN Fail(a) ELSE Give(a, "result")
    /\ UNCHANGED <<dispatchNow, kind, serving, handler, service, archived, made, restarts>>

\* _artifact_matches_request.
ArtifactMatches(a, r) == r.at <= Deadline[a] /\ KronosResultMatches(a, r)

\* _map_forecast; sane: no path jumps beyond the bound (_validate_path_jumps).
MapForecast(a, r, sane) == ArtifactMatches(a, r) /\ sane

\* The second _archive (the sample paths, the worker's result), then for
\* Kronos the fence and the mapping.
ArchiveResult(a) ==
    LET r == sender[a].answer
    IN  /\ sender[a].pc = "result"
        /\ \/ /\ archived' = archived \cup {<<"result", r>>}
              /\ \E sane \in BOOLEAN :
                    IF kind = "kronos" /\ ~(LeaseMatches(a, r) /\ KronosResultMatches(a, r)
                                             /\ MapForecast(a, r, sane))
                    THEN Fail(a) ELSE Give(a, "accepted")
           \/ Fail(a) /\ UNCHANGED archived
        /\ UNCHANGED <<dispatchNow, kind, serving, handler, service, made, restarts>>

------------------------------------------------------------------------------
(* The service's side. *)

Holding == {h \in Attempts \X Tries :
                handler[h[1]][h[2]].stage \in {"body", "running", "computing"}}

\* What a request ends with: its finally clause returns the capacity, and its
\* answer is lost if the core has given up on the connection.
AnswerHttp(a, k, status) ==
    handler' = [handler EXCEPT ![a][k] =
        IF sender[a].pc = "waiting" /\ sender[a].try = k
        THEN [NoRequest EXCEPT !.stage = "answered", !.status = status]
        ELSE [NoRequest EXCEPT !.stage = "lost"]]

\* _try_acquire: one request at a time; the mutant does not look.
TryAcquireBlindly == TRUE
TryAcquire == Holding = {}

\* StaticOIDCServiceAuthenticator with _validate_registered_claims: the
\* audience of the token and its times.
Authentic(token) == token.receiver = serving /\ token.expires > dispatchNow - ServiceSkew

\* ServiceAdmissionMiddleware, then the handler up to the wait for the body.
Admit(a, k, admitted) ==
    LET h == handler[a][k]
    IN  /\ h.stage = "arrived"
        /\ IF ~admitted THEN AnswerHttp(a, k, 429)
           ELSE IF ~Authentic(h.token) THEN AnswerHttp(a, k, 401)
           ELSE IF ~TryAcquire THEN AnswerHttp(a, k, 429)
           ELSE handler' = [handler EXCEPT ![a][k].stage = "body"]
        /\ UNCHANGED <<dispatchNow, kind, serving, sender, service, archived, made, restarts>>

\* authorize_service_dispatch: this receiver, job and attempt, in the deadline.
TokenAuthorized(a, token) ==
    /\ token.receiver = serving /\ token.job = JobOf[a]
    /\ token.generation = GenerationOf[a] /\ token.expires <= Deadline[a]

\* _worker_error_status (workers/kronos), _status_for (workers/tradingagents).
WorkerErrorStatus(code) ==
    IF code \in {"model_not_ready", "inference_failed"} THEN 503
    ELSE IF code \in {"runtime_mismatch", "deadline_expired"} THEN 409 ELSE 422
StatusFor(code) ==
    IF code = "deadline_exceeded" THEN 408 ELSE IF code = "source_scope_exceeded" THEN 422 ELSE 503

\* The start of KronosWorker.forecast, and TradingAgentsWorker._preflight: what
\* stops the work before it begins, 0 for nothing.
KronosPreflight(a) ==
    IF ~service.ready THEN WorkerErrorStatus("model_not_ready")
    ELSE IF dispatchNow >= Deadline[a] THEN WorkerErrorStatus("deadline_expired")
    ELSE IF service.runtime # RuntimeOf[a] THEN WorkerErrorStatus("runtime_mismatch") ELSE 0
AgentsPreflight(a) == IF dispatchNow >= Deadline[a] THEN StatusFor("deadline_exceeded") ELSE 0
WorkerPreflight(a) == IF serving = "kronos" THEN KronosPreflight(a) ELSE AgentsPreflight(a)

\* read_bounded_request_body ends, the request is parsed and authorized, and
\* the work moves to a thread.
ReadBody(a, k, readable) ==
    LET h == handler[a][k]
    IN  /\ h.stage = "body"
        /\ IF ~readable THEN AnswerHttp(a, k, 400)
           ELSE IF ~TokenAuthorized(a, h.token) THEN AnswerHttp(a, k, 403)
           ELSE IF WorkerPreflight(a) # 0 THEN AnswerHttp(a, k, WorkerPreflight(a))
           ELSE handler' = [handler EXCEPT ![a][k].stage = "running"]
        /\ UNCHANGED <<dispatchNow, kind, serving, sender, service, archived, made, restarts>>

\* KronosWorker.forecast: under the inference lock, the deadline is checked
\* before every seed.  TradingAgentsRuntime.run: the facade of the module is
\* replaced by this request's evidence.
BeginWork(a, k) ==
    /\ handler[a][k].stage = "running"
    /\ \A b \in Attempts, j \in Tries : handler[b][j].stage # "computing"
    /\ IF serving = "kronos" /\ dispatchNow >= Deadline[a]
       THEN AnswerHttp(a, k, WorkerErrorStatus("deadline_expired")) /\ UNCHANGED service
       ELSE /\ handler' = [handler EXCEPT ![a][k].stage = "computing"]
            /\ service' = IF serving = "kronos" THEN service ELSE [service EXCEPT !.facade = a]
    /\ UNCHANGED <<dispatchNow, kind, serving, sender, archived, made, restarts>>

\* KronosWorker.forecast goes on: the next seed, the response, or an error.
EndPath(a, k) ==
    /\ serving = "kronos" /\ handler[a][k].stage = "computing"
    /\ \/ /\ handler[a][k].paths + 1 < Seeds
          /\ handler' = [handler EXCEPT ![a][k].stage = "running", ![a][k].paths = @ + 1]
          /\ UNCHANGED made
       \/ /\ handler[a][k].paths + 1 = Seeds
          /\ AnswerHttp(a, k, 200) /\ made' = made \cup {KronosResponse(a)}
       \/ /\ \E code \in {"invalid_model_output", "inference_failed"} :
                AnswerHttp(a, k, WorkerErrorStatus(code))
          /\ UNCHANGED made
    /\ UNCHANGED <<dispatchNow, kind, serving, sender, service, archived, restarts>>

\* TradingAgentsWorker.analyze ends: it looks at the deadline only now.
EndAnalysis(a, k) ==
    /\ serving = "tradingagents" /\ handler[a][k].stage = "computing"
    /\ \/ IF dispatchNow >= Deadline[a]
          THEN AnswerHttp(a, k, StatusFor("deadline_exceeded")) /\ UNCHANGED made
          ELSE AnswerHttp(a, k, 200) /\ made' = made \cup {AgentsResponse(a)}
       \/ /\ \E code \in {"runtime_failed", "source_scope_exceeded"} : AnswerHttp(a, k, StatusFor(code))
          /\ UNCHANGED made
    /\ UNCHANGED <<dispatchNow, kind, serving, sender, service, archived, restarts>>

\* WarmOnceModelLoader.warm at startup: after validate_model_root.
Warm ==
    /\ serving = "kronos" /\ ~service.ready
    /\ service' = [service EXCEPT !.ready = TRUE]
    /\ UNCHANGED <<dispatchNow, kind, serving, sender, handler, archived, made, restarts>>

\* The service is deployed anew: its requests are gone, its model is cold.
Redeploy ==
    /\ restarts < MaxRestarts
    /\ \E runtime \in Runtimes : service' = [ready |-> FALSE, runtime |-> runtime, facade |-> None]
    /\ handler' = [a \in Attempts |-> [k \in Tries |->
          IF handler[a][k].stage \in {"none", "answered"} THEN handler[a][k]
                                                          ELSE [NoRequest EXCEPT !.stage = "lost"]]]
    /\ restarts' = restarts + 1
    /\ UNCHANGED <<dispatchNow, kind, serving, sender, archived, made>>

DispatchTick ==
    /\ dispatchNow < MaxNow /\ dispatchNow' = dispatchNow + 1
    /\ UNCHANGED <<kind, serving, sender, handler, service, archived, made, restarts>>

DispatchNext ==
    \/ \E a \in Attempts, bound \in BOOLEAN : Begin(a, bound)
    \/ \E a \in Attempts : Send(a) \/ Break(a) \/ Receive(a) \/ ArchiveResponse(a)
                           \/ ParseResponse(a) \/ ArchiveResult(a)
    \/ \E a \in Attempts, k \in Tries, admitted \in BOOLEAN : Admit(a, k, admitted)
    \/ \E a \in Attempts, k \in Tries, readable \in BOOLEAN : ReadBody(a, k, readable)
    \/ \E a \in Attempts, k \in Tries : BeginWork(a, k) \/ EndPath(a, k) \/ EndAnalysis(a, k)
    \/ Warm
    \/ Redeploy
    \/ DispatchTick

DispatchSpec == DispatchInit /\ [][DispatchNext]_dispatchVars

\* AnswerIsBound: what the core accepts is this attempt's own: made for its job
\* and its generation, by the runtime it asked for or from its own evidence,
\* before its deadline, and archived with the raw answer before it was believed.
\* The service never works on two requests at once, although the core has given
\* up on the first, and work never begins by the wrong runtime, even if the
\* service was deployed anew in between.
AnswerIsBound ==
    /\ \A a \in Attempts : sender[a].pc = "accepted" =>
         LET r == sender[a].answer
         IN  /\ r.job = JobOf[a] /\ r.generation = GenerationOf[a] /\ r.at <= Deadline[a]
             /\ kind = "kronos" => r.runtime = RuntimeOf[a] /\ <<"raw", r>> \in archived
             /\ kind = "tradingagents" => r.evidence = a
             /\ <<"result", r>> \in archived
    /\ Cardinality(Holding) <= 1
    /\ \A a \in Attempts, k \in Tries : handler[a][k].stage = "computing" =>
         /\ serving = kind
         /\ kind = "kronos" => service.runtime = RuntimeOf[a] /\ service.ready
         /\ kind = "tradingagents" => service.facade = a
=============================================================================

---------------------------- MODULE ConsoleServe ----------------------------
(***************************************************************************)
(* The life of the local console (entrypoints/gui.py serve): the market    *)
(* sidecar, the forecast worker with its bridge (entrypoints/kronos_gui.py)*)
(* and the paper database (entrypoints/gui_paper.py) are started one after *)
(* another, any of them may fail or be interrupted, and the finally block   *)
(* takes down what it knows of.  A stop that fails is suppressed, one that  *)
(* is interrupted ends the block.  In between the console answers what      *)
(* reads its state (api/gui.py, api/gui_research.py, gui_paper.py).         *)
(* The second part is its model connection: one session setting over the   *)
(* one of the environment (composition/model_settings.py), changed by      *)
(* requests that first test the connection outside of the lock             *)
(* (entrypoints/api/gui_model_settings.py).                                *)
(***************************************************************************)
EXTENDS Integers, Sequences, FiniteSets, SequencesExt, Nothing

CONSTANTS
    SettingThreads,
    Routes,             \* model settings a request may carry
    UpdateLimit, UpdateWindow,
    MaxSettingTime, MaxChanges    \* bounds

ASSUME UpdateAssumption == UpdateLimit > 0 /\ UpdateWindow > 0
\* What was not read yet is told apart from every state that is read.
ASSUME PaperStateAssumption == None \notin {"ready", "unavailable", "failed", "absent"}

Resources == {"openbb", "kronos", "bridge", "postgres", "engine", "runtime", "thread"}

VARIABLES
    stage,        \* where serve is
    up,           \* resources that exist
    owned,        \* what the finally block knows: research, paper, kronos, manager
    withResearch, withPaper,
    faults,       \* what failed on the way: stops, a join, the start of the database
    interrupted,  \* the stages in which the operator's interrupt came (Ctrl-C)
    fell,         \* resources that stopped working by themselves while serving
    reply         \* the answer that is being made to a request, or None
serveVars == <<stage, up, owned, withResearch, withPaper, faults, interrupted, fell, reply>>

ServeInit ==
    /\ stage = "openbb" /\ up = {} /\ owned = {} /\ faults = {}
    /\ interrupted = {} /\ fell = {} /\ reply = None
    /\ withResearch \in BOOLEAN /\ withPaper \in BOOLEAN

\* A part of the cleanup works, or its failure is suppressed.
Removed(gone, name) ==
    \/ up' = up \ gone /\ UNCHANGED faults
    \/ UNCHANGED up /\ faults' = faults \cup {name}

-----------------------------------------------------------------------------
(* Startup.                                                                *)

\* OpenBBSidecarManager.start: build, then up; a failed up is taken down.
StartOpenBB ==
    /\ stage = "openbb"
    /\ \/ /\ stage' = "kronos" /\ up' = up \cup {"openbb"}
          /\ owned' = owned \cup {"manager"} /\ UNCHANGED faults
       \/ /\ stage' = "close_research" /\ UNCHANGED <<up, owned, faults>>
       \/ /\ stage' = "close_research" /\ UNCHANGED owned
          /\ \/ UNCHANGED <<up, faults>>
             \/ up' = up \cup {"openbb"} /\ faults' = faults \cup {"manager"}
    /\ UNCHANGED <<withResearch, withPaper, interrupted, fell, reply>>

\* KronosSidecarManager.start: container, bridge, readiness, or stop.
StartKronos ==
    /\ stage = "kronos"
    /\ IF ~withResearch THEN stage' = "postgres" /\ UNCHANGED <<up, owned, faults>>
       ELSE \/ /\ stage' = "postgres" /\ up' = up \cup {"kronos", "bridge"}
               /\ owned' = owned \cup {"kronos"} /\ UNCHANGED faults
            \/ \* the constructor refuses the model root or the port
               /\ stage' = "close_research" /\ UNCHANGED <<up, owned, faults>>
            \/ \E made \in {{}, {"kronos"}, {"kronos", "bridge"}} :
                 /\ stage' = "close_research" /\ owned' = owned \cup {"kronos"}
                 /\ \E kept \in SUBSET made :
                      /\ up' = up \cup kept
                      /\ faults' = faults \cup (IF kept = {} THEN {} ELSE {"kronos_start"})
    /\ UNCHANGED <<withResearch, withPaper, interrupted, fell, reply>>

\* PaperDatabaseManager.start: nothing takes a failed start down.
StartPostgres ==
    /\ stage = "postgres"
    /\ IF ~(withPaper \/ withResearch) THEN stage' = "serve" /\ UNCHANGED <<up, owned, faults>>
       ELSE \/ stage' = "migrate" /\ up' = up \cup {"postgres"} /\ UNCHANGED <<owned, faults>>
            \/ /\ stage' = "close_research" /\ UNCHANGED owned
               /\ \/ UNCHANGED <<up, faults>>
                  \/ up' = up \cup {"postgres"} /\ faults' = faults \cup {"database_start"}
    /\ UNCHANGED <<withResearch, withPaper, interrupted, fell, reply>>

\* _compose_paper's except block.
DropDatabase == stage' = "close_research" /\ Removed({"postgres"}, "database") /\ UNCHANGED owned

\* migrate, open_engine and bootstrap_account.
ComposePaper ==
    /\ stage = "migrate"
    /\ \/ /\ stage' = IF withResearch THEN "research" ELSE "serve"
          /\ up' = up \cup {"engine"} /\ owned' = owned \cup {"paper"} /\ UNCHANGED faults
       \/ DropDatabase
    /\ UNCHANGED <<withResearch, withPaper, interrupted, fell, reply>>

\* _compose_research: the runtime is closed when the worker cannot be built.
ComposeResearch ==
    /\ stage = "research"
    /\ \/ /\ stage' = "serve" /\ up' = up \cup {"runtime", "thread"}
          /\ owned' = owned \cup {"research"}
       \/ stage' = "close_research" /\ UNCHANGED <<up, owned>>
    /\ UNCHANGED <<withResearch, withPaper, faults, interrupted, fell, reply>>

\* Every handler of the start catches Exception, which an interrupt is not: it
\* reaches the finally block past all of them.  What the step has made by then
\* stays; of it, the block knows the Kronos manager only, which is there before
\* its start (started, paper and research are assigned after theirs).
Made ==
    [openbb |-> {{}, {"openbb"}},
     kronos |-> IF withResearch THEN {{}, {"kronos"}, {"kronos", "bridge"}} ELSE {{}},
     postgres |-> IF withPaper \/ withResearch THEN {{}, {"postgres"}} ELSE {{}},
     migrate |-> {{}, {"engine"}},
     research |-> {{}, {"runtime"}, {"runtime", "thread"}}]
InterruptStart ==
    /\ stage \in DOMAIN Made
    /\ stage' = "close_research" /\ interrupted' = interrupted \cup {stage}
    /\ \E made \in Made[stage] :
         /\ up' = up \cup made
         /\ owned' = IF stage = "kronos" /\ made # {} THEN owned \cup {"kronos"} ELSE owned
    /\ UNCHANGED <<withResearch, withPaper, faults, fell, reply>>

\* uvicorn.run returns, or create_gui_app raises.
ServeEnds ==
    /\ stage = "serve"
    /\ stage' = "close_research" /\ reply' = None
    /\ UNCHANGED <<up, owned, withResearch, withPaper, faults, interrupted, fell>>

-----------------------------------------------------------------------------
(* Serving: what the console says of itself and of the runs.               *)

\* Every path with the kinds of query it takes: of limit and symbol, and others.
QueriesOf ==
    [page |-> {"empty", "limit", "symbol", "other"}, capabilities |-> {"empty"},
     market |-> {"symbol"}, runs |-> {"empty", "limit"}, run |-> {"empty"},
     events |-> {"empty", "limit"}]
RunPath == {"runs", "run", "events"}    \* run: the details and the evidence
ConsoleRequest ==
    [local : BOOLEAN, host : {"loopback", "other"}, origin : {"own", "other"}, site : {"own", "other"},
     path : DOMAIN QueriesOf, query : {"empty", "limit", "symbol", "other"}]

\* _LoopbackOnlyMiddleware: the connection and the host; the origin only of
\* what is not a page.  A header that is missing is as good as the own.
FromElsewhere(q) == ~q.local \/ q.host # "loopback"
ForeignOrigin(q) == q.path # "page" /\ "other" \in {q.origin, q.site}
Denied(q) == FromElsewhere(q) \/ ForeignOrigin(q)

Works(x) == x \in up \ fell

\* _service_reader: what was not composed is absent.  A probe of what does not
\* work fails; one of what works may fail too: it has one second, or one connection
\* of the pool.  Only the worker's thread is simply looked at.
ProbeOrder == <<"openbb", "postgres", "kronos", "thread">>
ComposedBy == [openbb |-> "manager", postgres |-> "paper", kronos |-> "kronos", thread |-> "research"]
ProbeAnswers(x) ==
    IF ComposedBy[x] \notin owned THEN {"absent"}
    ELSE IF ~Works(x) THEN {"failed"}
    ELSE IF x = "thread" THEN {"ready"} ELSE {"ready", "failed"}

\* The page, and what the market data answer (Quotes, OfficialData).
AnswerMarket(q) ==
    \E status \in IF q.path = "page" THEN {200} ELSE {200, 429, 503} :
        reply' = [request |-> q, status |-> status]

\* The run endpoints: no facade, or what the facade does.  It reads the database
\* and raises or fails without it; an answer of another run is not passed on.
FacadeStatus == [answers |-> 200, fails |-> 404, mistakes |-> 409, raises |-> 500]
AnswerRun(q) ==
    IF "research" \notin owned THEN reply' = [request |-> q, status |-> 503]
    ELSE \E does \in DOMAIN FacadeStatus :
            /\ does = "answers" => Works("postgres")
            /\ does = "mistakes" => q.path # "runs"
            /\ reply' = [request |-> q, status |-> FacadeStatus[does]]

\* _CapabilitiesEndpoint: the services are probed one after another, the paper
\* account is read next; the research capability was settled when the app was
\* made.  (fallen is history: what had fallen when the request came.)
AnswerCapabilities(q) ==
    reply' = [request |-> q, status |-> 0, services |-> [x \in DOMAIN ComposedBy |-> None], paper |-> None,
              research |-> IF "research" \in owned THEN "ready" ELSE "unavailable", fallen |-> fell]
ProbeService(i) ==
    /\ reply # None /\ reply.status = 0
    /\ reply.services[ProbeOrder[i]] = None
    /\ \A k \in 1..(i - 1) : reply.services[ProbeOrder[k]] # None
    /\ \E answer \in ProbeAnswers(ProbeOrder[i]) :
         reply' = [reply EXCEPT !.services = [@ EXCEPT ![ProbeOrder[i]] = answer]]
    /\ UNCHANGED <<stage, up, owned, withResearch, withPaper, faults, interrupted, fell>>
ReadPaper ==
    /\ reply # None /\ reply.status = 0
    /\ \A x \in DOMAIN ComposedBy : reply.services[x] # None
    /\ \E state \in {"ready", "unavailable"} :
         /\ state = "ready" => "paper" \in owned /\ Works("postgres")
         /\ reply' = [reply EXCEPT !.status = 200, !.paper = state]
    /\ UNCHANGED <<stage, up, owned, withResearch, withPaper, faults, interrupted, fell>>

Answers(q) ==
    IF Denied(q) THEN reply' = [request |-> q, status |-> 403]
    ELSE IF q.query \notin QueriesOf[q.path] THEN reply' = [request |-> q, status |-> 400]
    ELSE IF q.path = "capabilities" THEN AnswerCapabilities(q)
    ELSE IF q.path \in RunPath THEN AnswerRun(q) ELSE AnswerMarket(q)
AskConsole ==
    /\ stage = "serve" /\ reply = None
    /\ \E q \in ConsoleRequest : Answers(q)
    /\ UNCHANGED <<stage, up, owned, withResearch, withPaper, faults, interrupted, fell>>

ReplySent ==
    /\ reply # None /\ reply.status # 0 /\ reply' = None
    /\ UNCHANGED <<stage, up, owned, withResearch, withPaper, faults, interrupted, fell>>

\* A container or the worker's thread dies; nothing starts it again.
Falls(x) ==
    /\ stage = "serve" /\ x \in up \ fell
    /\ fell' = fell \cup {x}
    /\ UNCHANGED <<stage, up, owned, withResearch, withPaper, faults, interrupted, reply>>

-----------------------------------------------------------------------------
(* The finally block.                                                      *)

Proceed(from, to, owner) == stage = from /\ stage' = to /\ (owner \notin owned => UNCHANGED <<up, faults>>)

\* _ResearchComposition.close: the thread is joined for ten seconds; when it
\* goes on, the runtime stays open too.
CloseResearch ==
    /\ Proceed("close_research", "close_paper", "research")
    /\ "research" \in owned =>
         \/ up' = up \ {"runtime", "thread"} /\ UNCHANGED faults
         \/ UNCHANGED up /\ faults' = faults \cup {"join"}
    /\ UNCHANGED <<owned, withResearch, withPaper, interrupted, fell, reply>>

\* _PaperComposition.close
ClosePaper ==
    /\ Proceed("close_paper", "close_kronos", "paper")
    /\ "paper" \in owned =>
         \/ up' = up \ {"engine", "postgres"} /\ UNCHANGED faults
         \/ up' = up \ {"engine"} /\ faults' = faults \cup {"paper"}
    /\ UNCHANGED <<owned, withResearch, withPaper, interrupted, fell, reply>>

\* KronosSidecarManager.stop tries both commands.
CloseKronos ==
    /\ Proceed("close_kronos", "close_openbb", "kronos")
    /\ "kronos" \in owned =>
         \E kept \in SUBSET ({"kronos", "bridge"} \cap up) :
            /\ up' = (up \ {"kronos", "bridge"}) \cup kept
            /\ faults' = faults \cup (IF kept = {} THEN {} ELSE {"kronos"})
    /\ UNCHANGED <<owned, withResearch, withPaper, interrupted, fell, reply>>

CloseOpenBB ==
    /\ Proceed("close_openbb", "ended", "manager")
    /\ "manager" \in owned => Removed({"openbb"}, "manager")
    /\ UNCHANGED <<owned, withResearch, withPaper, interrupted, fell, reply>>

\* A second interrupt, or the first: suppress(Exception) lets it through, and what
\* the block has not come to stays.
Stopped ==
    [close_research |-> IF "research" \in owned THEN {{}, {"thread"}, {"thread", "runtime"}} ELSE {{}},
     close_paper |-> IF "paper" \in owned THEN {{}, {"engine"}, {"engine", "postgres"}} ELSE {{}},
     close_kronos |-> IF "kronos" \in owned THEN SUBSET {"kronos", "bridge"} ELSE {{}},
     close_openbb |-> IF "manager" \in owned THEN {{}, {"openbb"}} ELSE {{}}]
InterruptCleanup ==
    /\ stage \in DOMAIN Stopped
    /\ stage' = "ended" /\ interrupted' = interrupted \cup {stage}
    /\ \E gone \in Stopped[stage] : up' = up \ gone
    /\ UNCHANGED <<owned, withResearch, withPaper, faults, fell, reply>>

ServeNext ==
    \/ InterruptStart \/ InterruptCleanup
    \/ StartOpenBB \/ StartKronos \/ StartPostgres \/ ComposePaper \/ ComposeResearch
    \/ AskConsole \/ (\E i \in 1..4 : ProbeService(i)) \/ ReadPaper \/ ReplySent \/ \E x \in {"openbb", "kronos", "postgres", "thread"} : Falls(x)
    \/ ServeEnds \/ CloseResearch \/ ClosePaper \/ CloseKronos \/ CloseOpenBB
ServeSpec == ServeInit /\ [][ServeNext]_serveVars

-----------------------------------------------------------------------------
(* The model settings.                                                     *)

VARIABLES
    setTime,       \* the monotonic clock
    baseline,      \* of the environment: route and whether it was tested, or None
    session,       \* set by a request: the route, or None
    generation,
    updates,       \* _SettingsUpdateGate: active, starts
    changing,      \* [SettingThreads -> the request under way]
    changes,       \* number of changes asked for
    views          \* every view an answer showed
settingVars == <<setTime, baseline, session, generation, updates, changing, changes, views>>

AtRest == [op |-> "none"]

SettingInit ==
    /\ setTime = 0
    /\ baseline \in {None} \cup [route : Routes, tested : {FALSE}]
    /\ session = None /\ generation = 0
    /\ updates = [active |-> FALSE, starts |-> <<>>]
    /\ changing = [t \in SettingThreads |-> AtRest]
    /\ changes = 0 /\ views = {}

SettingTick ==
    /\ setTime < MaxSettingTime
    /\ setTime' = setTime + 1
    /\ UNCHANGED <<baseline, session, generation, updates, changing, changes, views>>

\* _view_locked
View(ses, base, gen) ==
    [source |-> IF ses # None THEN "session" ELSE IF base # None THEN "environment" ELSE "none",
     route |-> IF ses # None THEN ses ELSE IF base # None THEN base.route ELSE None,
     verified |-> ses # None \/ (base # None /\ base.tested),
     gen |-> gen]

Show(ses, base, gen) == views' = views \cup {View(ses, base, gen)}

\* GET, _model_service_status and _model_settings_ready.
ReadView ==
    /\ Show(session, baseline, generation) /\ views' # views
    /\ UNCHANGED <<setTime, baseline, session, generation, updates, changing, changes>>

-----------------------------------------------------------------------------
(* PUT.                                                                    *)

RecentUpdates == SelectSeq(updates.starts, LAMBDA s : setTime - s < UpdateWindow)

\* _SettingsUpdateGate.start
Admitted == ~updates.active /\ Len(RecentUpdates) < UpdateLimit

StartConfigure(t, route) ==
    /\ changing[t] = AtRest /\ changes < MaxChanges
    /\ Admitted
    /\ updates' = [active |-> TRUE, starts |-> Append(RecentUpdates, setTime)]
    /\ changing' = [changing EXCEPT ![t] = [op |-> "test", route |-> route]]
    /\ changes' = changes + 1
    /\ UNCHANGED <<setTime, baseline, session, generation, views>>

\* configure: the tested settings replace whatever is there by now.
Activate(t) ==
    /\ changing[t].op = "test"
    /\ session' = changing[t].route
    /\ generation' = generation + 1
    /\ Show(session', baseline, generation')
    /\ changing' = [changing EXCEPT ![t] = [op |-> "finish"]]
    /\ UNCHANGED <<setTime, baseline, updates, changes>>

\* The settings are invalid or the connection test fails.
TestFails(t) ==
    /\ changing[t].op = "test"
    /\ changing' = [changing EXCEPT ![t] = [op |-> "finish"]]
    /\ UNCHANGED <<setTime, baseline, session, generation, updates, changes, views>>

FinishConfigure(t) ==
    /\ changing[t].op = "finish"
    /\ updates' = [updates EXCEPT !.active = FALSE]
    /\ changing' = [changing EXCEPT ![t] = AtRest]
    /\ UNCHANGED <<setTime, baseline, session, generation, changes, views>>

-----------------------------------------------------------------------------
(* DELETE passes no gate; verify_environment is called at startup.         *)

ClearedGeneration == generation + 1

ClearSettings ==
    /\ changes < MaxChanges
    /\ changes' = changes + 1
    /\ session' = None
    /\ generation' = ClearedGeneration
    /\ Show(session', baseline, generation')
    /\ UNCHANGED <<setTime, baseline, updates, changing>>

StartVerify(t) ==
    /\ changing[t] = AtRest /\ baseline # None /\ ~baseline.tested
    /\ \A u \in SettingThreads : changing[u].op # "verify"
    /\ changing' = [changing EXCEPT ![t] = [op |-> "verify"]]
    /\ UNCHANGED <<setTime, baseline, session, generation, updates, changes, views>>

Verified(t, passes) ==
    /\ changing[t].op = "verify"
    /\ changing' = [changing EXCEPT ![t] = AtRest]
    /\ IF passes
       THEN /\ baseline' = [baseline EXCEPT !.tested = TRUE]
            /\ generation' = generation + 1
            /\ Show(session, baseline', generation')
       ELSE UNCHANGED <<baseline, generation, views>>
    /\ UNCHANGED <<setTime, session, updates, changes>>

SettingNext ==
    \/ SettingTick \/ ReadView \/ ClearSettings
    \/ \E t \in SettingThreads :
         \/ \E r \in Routes : StartConfigure(t, r)
         \/ Activate(t) \/ TestFails(t) \/ FinishConfigure(t)
         \/ StartVerify(t) \/ \E passes \in BOOLEAN : Verified(t, passes)
SettingSpec == SettingInit /\ [][SettingNext]_settingVars

-----------------------------------------------------------------------------
(* Properties.                                                             *)

\* "Clean up on shutdown": whichever step of the start failed or was interrupted,
\* what serve leaves behind is what could not be stopped, what the one step that was
\* interrupted had made (unless that step started Kronos), a database whose own
\* start failed half way, and what the finally block had not come to when it was
\* itself interrupted - nothing else.  And the database is there as long as a
\* worker thread that obeys uses it, unless composing the research was interrupted.
NothingIsLeft ==
    /\ stage = "ended" =>
         /\ "openbb" \in up =>
              "manager" \in faults \/ "openbb" \in interrupted \/ interrupted \cap DOMAIN Stopped # {}
         /\ {"kronos", "bridge"} \cap up # {} =>
              "kronos" \in faults \/ interrupted \cap {"close_research", "close_paper", "close_kronos"} # {}
         /\ "postgres" \in up =>
              \/ {"database", "paper", "database_start"} \cap faults # {}
              \/ interrupted \cap {"postgres", "migrate", "close_research", "close_paper"} # {}
         /\ "engine" \in up => interrupted \cap {"migrate", "close_research", "close_paper"} # {}
         /\ {"thread", "runtime"} \cap up # {} =>
              "join" \in faults \/ interrupted \cap {"research", "close_research"} # {}
    /\ "thread" \in up /\ "join" \notin faults /\ "research" \notin interrupted =>
         {"postgres", "engine", "runtime"} \subseteq up

\* Though the services are probed one after another and fall at any time, and
\* though a probe may fail of what works: the console says of no service that it is
\* ready if it had fallen before the request came, or was never started; absent
\* is only what was not composed; the worker is only said to have failed if it did;
\* a paper account is shown, and a run answered for, by what was composed and had not
\* fallen; and whatever a request from elsewhere or of a foreign page asks, it is
\* told nothing.
ConsoleTellsTheTruth ==
    reply # None =>
        /\ Denied(reply.request) => reply.status = 403
        /\ reply.request.path \in RunPath /\ reply.status = 200 => "research" \in owned
        /\ reply.request.path = "capabilities" /\ reply.status \in {0, 200} =>
             /\ \A x \in DOMAIN ComposedBy :
                  /\ reply.services[x] = "ready" => x \in up \ reply.fallen
                  /\ reply.services[x] = "absent" => ComposedBy[x] \notin owned
                  /\ reply.services[x] = "failed" /\ x = "thread" => x \in fell
             /\ reply.research = "ready" /\ reply.status = 200 => reply.services.thread # "absent"
             /\ reply.paper = "ready" => reply.services.postgres # "absent" /\ "postgres" \notin reply.fallen

\* A generation names one setting: two answers with the same number show the
\* same route, source and verification, whichever changes, tests and clears
\* overlapped, and one connection test runs at a time.
GenerationNamesTheView ==
    /\ \A v, w \in views : v.gen = w.gen => v = w
    /\ Cardinality({t \in SettingThreads : changing[t].op \in {"test", "finish"}}) <= 1
=============================================================================

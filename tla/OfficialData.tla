---------------------------- MODULE OfficialData ----------------------------
(***************************************************************************)
(* OfficialInstrumentDataSource (adapters/market_data/official_instrument) *)
(* behind its two callers: the console's _InstrumentService with its own   *)
(* cache and gate, and the research snapshot's bundle, which joins company *)
(* data with prices.  Threads share a page cache and a budget of requests  *)
(* a minute.  A page's content is the time at which the provider wrote it: *)
(* it holds the reports released by then.  A report is the number of the   *)
(* day it is dated.                                                        *)
(***************************************************************************)
EXTENDS Nothing, RequestGate, FiniteSets, Functions

CONSTANTS
    Callers,
    Day,              \* ticks of a day, UTC
    TaipeiOffset,     \* how far Taipei's day is ahead of UTC
    ListedAt,         \* when the provider starts to list the instrument
    TickerLife,       \* how long the list of tickers is cached
    PageLife,         \* _CACHE_SECONDS
    PageTimeout,      \* _REQUEST_TIMEOUT_SECONDS
    SourceRequests,   \* _MAX_REQUESTS_PER_MINUTE
    OverviewLife,     \* how long the console keeps an overview
    Periods,          \* what reports are about: a quarter, a month, a year
    PeriodOf,         \* by report: its period
    EndOf,            \* by period: its last day
    FactLimit,        \* entries kept of a fact's history at the SEC
    FilingLimit,      \* filings kept
    RowLimit,         \* rows kept of a category at the TWSE
    MaxTick,          \* bound: the clock
    MaxAsked          \* bound: questions asked

ASSUME DayAssumption == Day \in Nat \ {0} /\ TaipeiOffset \in 0 .. Day - 1
\* The list of tickers is kept for an hour, the other pages for five minutes.
ASSUME PageLifeAssumption ==
    {ListedAt, TickerLife, PageLife, PageTimeout, MaxTick} \subseteq Nat /\ PageLife <= TickerLife
\* A report is about a period that has ended by then.
ASSUME PeriodAssumption ==
    /\ PeriodOf \in [0 .. MaxTick -> Periods] /\ EndOf \in [Periods -> Nat]
    /\ \A d \in 0 .. MaxTick : EndOf[PeriodOf[d]] <= d
    /\ {FactLimit, FilingLimit, RowLimit} \subseteq Nat \ {0}

VARIABLES
    tick,        \* the clock, wall and monotonic
    pages,       \* _cache of the source: by page
    spent,       \* _requests of the source: readings of the clock
    overviews,   \* _cache of the console's service: by market
    companyGate, \* the service's gate
    calls,       \* how far each caller has got
    asked        \* history: how many questions were asked

officialVars == <<tick, pages, spent, overviews, companyGate, calls, asked>>

Markets == {"US", "TW"}
\* SEC_TICKERS_URL, SEC_SUBMISSIONS_PATH, SEC_FACTS_PATH; TWSE_ENDPOINTS.
PagesOf(market) ==
    IF market = "US" THEN <<"tickers", "submissions", "facts">>
                     ELSE <<"monthly_revenue", "income_statement", "balance_sheet">>
AllPages == UNION {Range(PagesOf(m)) : m \in Markets}
LifeOf(page) == IF page = "tickers" THEN TickerLife ELSE PageLife

Failed == -1   \* a page that could not be had

\* Reports are dated by the exchange's day and appear from its first moment on.
Released(market, day) ==
    Max({ListedAt, IF market = "TW" THEN day * Day - TaipeiOffset ELSE day * Day})
Reports(market, content) ==
    {d \in 0 .. MaxTick : ListedAt <= content /\ Released(market, d) <= content}

\* The time that a report says it became available: midnight UTC of its day.
AvailableAt(day) == day * Day

\* The last day whose reports an answer may hold: that of as_of or of the
\* observation, whichever is earlier, in UTC for the SEC and in Taipei for
\* the TWSE.
Cutoff(market, asOf, observed) ==
    (Min({asOf, observed}) + (IF market = "TW" THEN TaipeiOffset ELSE 0)) \div Day

\* What of a page an answer may use.
Within(call, page) ==
    IF call.got[page] = Failed THEN {}
    ELSE {d \in Reports(call.market, call.got[page]) :
              d <= Cutoff(call.market, call.asOf, call.observed)}

\* A list keeps one report of each period, the one filed or published last
\* (_sec_fact_history, _find_twse_rows); filings are all listed.
Superseded(page, S) ==
    IF page = "submissions" THEN {} ELSE {d \in S : \E e \in S : PeriodOf[e] = PeriodOf[d] /\ e > d}

\* Facts are in the order of their periods' ends, filings in the provider's,
\* the newest first, rows in that of their publication; what is beyond the
\* limit is dropped.
Ahead(page, e, d) ==
    IF page = "facts" THEN \/ EndOf[PeriodOf[e]] > EndOf[PeriodOf[d]]
                           \/ EndOf[PeriodOf[e]] = EndOf[PeriodOf[d]] /\ e > d
                      ELSE e > d
LimitOf(page) == CASE page = "facts" -> FactLimit [] page = "submissions" -> FilingLimit [] OTHER -> RowLimit
Leading(page, S) == {d \in S : Cardinality({e \in S : Ahead(page, e, d)}) < LimitOf(page)}
Listed(page, S) == Leading(page, S \ Superseded(page, S))

\* What a page contributes: _sec_facts, _sec_filings, _twse_facts.
SecFacts(call) == Listed("facts", Within(call, "facts"))
SecFilings(call) == Listed("submissions", Within(call, "submissions"))
TwseFacts(call, page) == Listed(page, Within(call, page))

Evidence(market) == Range(PagesOf(market)) \ {"tickers"}

NoAnswer == [outcome |-> "none", facts |-> <<>>, warned |-> FALSE]
Idle == [pc |-> "idle", via |-> "none", market |-> "none", asOf |-> 0, observed |-> 0, sent |-> 0,
         todo |-> <<>>, got |-> <<>>, answer |-> NoAnswer]

Answered(call, outcome, facts) ==
    [call EXCEPT !.pc = "fetched", !.sent = 0, !.todo = <<>>, !.got = <<>>,
                 !.answer = [outcome |-> outcome, facts |-> facts,
                             warned |-> \E p \in DOMAIN call.got : call.got[p] = Failed]]

\* The end of _sec: both pages gone is a failure, one is a partial answer.
ConcludeSec(call) ==
    LET facts == [p \in Evidence("US") |-> IF p = "facts" THEN SecFacts(call) ELSE SecFilings(call)]
        gone == {p \in Evidence("US") : call.got[p] = Failed}
    IN  IF gone = Evidence("US") THEN Answered(call, "failure", <<>>)
        ELSE IF \A p \in Evidence("US") : facts[p] = {} THEN Answered(call, "not_found", <<>>)
        ELSE Answered(call, IF gone # {} THEN "partial" ELSE "available", facts)

\* The end of _twse: a page may fail or lack the code; "available" needs all.
ConcludeTwse(call) ==
    LET facts == [p \in Evidence("TW") |-> TwseFacts(call, p)]
        gone == {p \in Evidence("TW") : call.got[p] = Failed}
        empty == {p \in Evidence("TW") : facts[p] = {}}
    IN  IF empty = Evidence("TW")
        THEN Answered(call, IF gone # {} THEN "failure" ELSE "not_found", <<>>)
        ELSE Answered(call, IF empty # {} THEN "partial" ELSE "available", facts)

\* _find_cik: the list of tickers names the instrument.
FindCik(content) == content >= ListedAt

\* What follows once a page is there, or is not: without the list of tickers,
\* or if it lacks the symbol, the SEC is not asked any further.
After(call, content) ==
    LET page == Head(call.todo)
        next == [call EXCEPT !.pc = "looking", !.sent = 0, !.todo = Tail(@),
                             !.got = [p \in DOMAIN @ \cup {page} |-> IF p = page THEN content ELSE @[p]]]
    IN  IF page = "tickers" /\ content = Failed THEN Answered(call, "failure", <<>>)
        ELSE IF page = "tickers" /\ ~FindCik(content) THEN Answered(call, "not_found", <<>>)
        ELSE IF next.todo # <<>> THEN next
        ELSE IF call.market = "US" THEN ConcludeSec(next) ELSE ConcludeTwse(next)

OfficialInit ==
    /\ tick = 0
    /\ pages = [p \in AllPages |-> None]
    /\ spent = <<>>
    /\ overviews = [m \in Markets |-> None]
    /\ companyGate = OpenGate
    /\ calls = [c \in Callers |-> Idle]
    /\ asked = 0

\* A caller that is free asks.
Asks(c) == calls[c].pc \in {"idle", "done"} /\ asked < MaxAsked /\ asked' = asked + 1

\* fetch: refused when the data would be newer than its as_of.
StartFetch(c, via, market, asOf) ==
    /\ tick <= asOf
    /\ calls' = [calls EXCEPT ![c] =
          [Idle EXCEPT !.pc = "looking", !.via = via, !.market = market, !.asOf = asOf,
                       !.observed = tick, !.todo = PagesOf(market)]]

\* _InstrumentService.overview: from its cache, else through the gate.
OverviewCached(c, market) ==
    /\ Asks(c)
    /\ overviews[market] # None
    /\ tick - overviews[market].storedAt <= OverviewLife
    /\ calls' = [calls EXCEPT ![c] =
          [Idle EXCEPT !.pc = "done", !.via = "cache", !.market = market, !.asOf = overviews[market].asOf,
                       !.observed = overviews[market].asOf, !.answer = overviews[market].answer]]
    /\ UNCHANGED <<tick, pages, spent, overviews, companyGate>>

OverviewMissing(market) ==
    overviews[market] # None => tick - overviews[market].storedAt > OverviewLife

Overview(c, market) ==
    /\ Asks(c)
    /\ OverviewMissing(market)
    /\ LET admitted == Admit(companyGate, tick)
       IN  /\ companyGate' = admitted.gate
           /\ IF admitted.admitted THEN StartFetch(c, "overview", market, tick)
              ELSE calls' = [calls EXCEPT ![c] = [Idle EXCEPT !.pc = "done"]]
    /\ UNCHANGED <<tick, pages, spent, overviews>>

\* The service records the result and keeps a successful one.
OverviewDone(c) ==
    /\ calls[c].pc = "fetched" /\ calls[c].via = "overview"
    /\ LET ok == calls[c].answer.outcome \in {"available", "partial"}
       IN  /\ companyGate' = Record(companyGate, ok, tick)
           /\ overviews' = IF ok THEN [overviews EXCEPT ![calls[c].market] =
                                  [storedAt |-> tick, asOf |-> calls[c].asOf, answer |-> calls[c].answer]]
                           ELSE overviews
    /\ calls' = [calls EXCEPT ![c].pc = "done"]
    /\ UNCHANGED <<tick, pages, spent, asked>>

\* InstrumentResearchSnapshotSource.fetch, for a request whose as_of lies ahead.
StartBundle(c, market, asOf) ==
    /\ Asks(c)
    /\ StartFetch(c, "bundle", market, asOf)
    /\ UNCHANGED <<tick, pages, spent, overviews, companyGate>>

\* _cached, with the mutant that never looks at expires_at.
AlwaysCurrent(page, asOf) == pages[page] # None /\ pages[page].observed <= asOf
Current(page, asOf) ==
    pages[page] # None /\ pages[page].expires > tick /\ pages[page].observed <= asOf

\* _cached drops a page that has expired, whatever the as_of.
Swept(page) ==
    IF pages[page] # None /\ pages[page].expires <= tick THEN [pages EXCEPT ![page] = None] ELSE pages

UseCached(c) ==
    /\ calls[c].pc = "looking"
    /\ Current(Head(calls[c].todo), calls[c].asOf)
    /\ calls' = [calls EXCEPT ![c] = After(calls[c], pages[Head(calls[c].todo)].content)]
    /\ UNCHANGED <<tick, pages, spent, overviews, companyGate, asked>>

\* _consume_request: the source's own budget, by a reading of the clock.
ConsumeRequest(now) ==
    LET recent == Unexpired(spent, now)
    IN  IF Len(recent) >= SourceRequests THEN [spent |-> recent, granted |-> FALSE]
        ELSE [spent |-> Append(recent, now), granted |-> TRUE]

\* _json without a usable page: ask the provider, if the budget allows.
Ask(c) ==
    /\ calls[c].pc = "looking"
    /\ ~Current(Head(calls[c].todo), calls[c].asOf)
    /\ pages' = Swept(Head(calls[c].todo))
    /\ LET budget == ConsumeRequest(tick)
       IN  /\ spent' = budget.spent
           /\ calls' = [calls EXCEPT ![c] = IF budget.granted
                                            THEN [@ EXCEPT !.pc = "waiting", !.sent = tick]
                                            ELSE After(@, Failed)]
    /\ UNCHANGED <<tick, overviews, companyGate, asked>>

\* The provider's page, written while the request was under way, arrives in
\* time, is well-formed, and _store keeps it.
Store(page, content, observed) ==
    [pages EXCEPT ![page] = [content |-> content, observed |-> observed, expires |-> tick + LifeOf(page)]]

Receive(c) ==
    /\ calls[c].pc = "waiting"
    /\ tick < calls[c].sent + PageTimeout
    /\ \E content \in calls[c].sent .. tick :
          /\ pages' = Store(Head(calls[c].todo), content, calls[c].observed)
          /\ calls' = [calls EXCEPT ![c] = After(calls[c], content)]
    /\ UNCHANGED <<tick, spent, overviews, companyGate, asked>>

\* A status, a media type, a body or a deadline that read_bounded_raw or
\* _json refuses.
GiveUpPage(c) ==
    /\ calls[c].pc = "waiting"
    /\ calls' = [calls EXCEPT ![c] = After(calls[c], Failed)]
    /\ UNCHANGED <<tick, pages, spent, overviews, companyGate, asked>>

\* _materialize_bundle after the prices, which are observed by a reading of
\* their own: EvidenceTimeline refuses evidence that only becomes available
\* after as_of or after the observation, ProviderObservation refuses a partial
\* answer that gives no reason, and nothing catches either here.
Materialized(call) ==
    IF call.answer.outcome \notin {"available", "partial"} THEN call.answer.outcome
    ELSE IF call.answer.outcome = "partial" /\ ~call.answer.warned THEN "raised"
    ELSE IF \E p \in DOMAIN call.answer.facts : \E d \in call.answer.facts[p] :
               AvailableAt(d) > Min({call.asOf, call.observed}) THEN "raised"
    ELSE call.answer.outcome

Bundle(c) ==
    /\ calls[c].pc = "fetched" /\ calls[c].via = "bundle"
    /\ \E priced \in BOOLEAN :
          /\ priced => tick <= calls[c].asOf
          /\ calls' = [calls EXCEPT ![c].pc = "done",
                ![c].answer.outcome = IF priced THEN Materialized(calls[c]) ELSE "failure"]
    /\ UNCHANGED <<tick, pages, spent, overviews, companyGate, asked>>

\* Time passes while callers wait for a provider, for a timeout at most, and
\* between questions; what they compute takes none.
OfficialTick ==
    /\ tick < MaxTick
    /\ \A c \in Callers : calls[c].pc \in {"idle", "waiting", "done"}
    /\ \A c \in Callers : calls[c].pc = "waiting" => tick < calls[c].sent + PageTimeout
    /\ tick' = tick + 1
    /\ UNCHANGED <<pages, spent, overviews, companyGate, calls, asked>>

OfficialNext ==
    \/ OfficialTick
    \/ \E c \in Callers :
          \/ UseCached(c) \/ Ask(c) \/ Receive(c) \/ GiveUpPage(c)
          \/ OverviewDone(c) \/ Bundle(c)
          \/ \E m \in Markets : \/ OverviewCached(c, m) \/ Overview(c, m)
                                \/ \E a \in tick .. tick + 1 : StartBundle(c, m, a)

OfficialSpec == OfficialInit /\ [][OfficialNext]_officialVars
-----------------------------------------------------------------------------
\* How old a page can be when it is used: kept for its life, and written at
\* most a timeout before it was stored.
Slack == TickerLife + PageTimeout

\* A list accounts for a report: it has it, or a later one of its period, or
\* it is full, with entries that all come before it.
Covers(page, list, d) ==
    \/ d \in list
    \/ page # "submissions" /\ \E e \in list : PeriodOf[e] = PeriodOf[d] /\ e > d
    \/ Cardinality(list) = LimitOf(page) /\ \A e \in list : Ahead(page, e, d)

\* An answer speaks for a recent state of the provider, however the page
\* cache, late responses and other threads' questions combine: one that is
\* called available accounts for every report released before its slack, and
\* one that finds nothing is only given to an instrument not listed until then
\* (_cached, _store, _sec and the limits of official_instrument.py; overview of
\* gui.py).
AnswerIsRecent ==
    \A c \in Callers :
        LET call == calls[c]
            then == call.observed - Slack
        IN  /\ call.answer.outcome = "available" =>
                  \A p \in Evidence(call.market) :
                      \A d \in Reports(call.market, then) : Covers(p, call.answer.facts[p], d)
            /\ call.answer.outcome = "not_found" => then < ListedAt
=============================================================================

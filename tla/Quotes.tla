------------------------------- MODULE Quotes -------------------------------
(***************************************************************************)
(* Latest market data for the local console: _MarketService with its gate  *)
(* and quote cache (entrypoints/api/gui.py), the projection with its       *)
(* freshness and quality (application/latest_market_data.py and            *)
(* market_freshness.py), and the two sources behind a fixed failover:      *)
(* OpenBB over the sidecar, then Financial Datasets for daily bars only.   *)
(* Threads ask for one instrument; a watchlist's pool is several threads.  *)
(***************************************************************************)
EXTENDS Nothing, RequestGate, FiniteSets

CONSTANTS
    Readers,         \* threads that serve the console
    SessionDay, OpensAt, ClosesAt,   \* the exchange's day, and its session within it
    ValidThrough,    \* the first day the verified calendar does not cover
    CurrentAge, DelayedAge,          \* _CURRENT_AGE_SECONDS, _DELAYED_AGE_SECONDS
    QuoteLife,       \* QUOTE_CACHE_SECONDS
    SourceTimeout,   \* timeout_seconds of either source
    DatasetsBudget,  \* request_budget of Financial Datasets, for its life
    MaxQuoteTick,    \* bound: the monotonic clock
    MaxReads         \* bound: questions asked

ASSUME SessionAssumption == 0 <= OpensAt /\ OpensAt <= ClosesAt /\ ClosesAt < SessionDay
ASSUME AgeAssumption == {CurrentAge, DelayedAge, QuoteLife, SourceTimeout} \subseteq Nat /\ CurrentAge <= DelayedAge

VARIABLES
    ticks,          \* the monotonic clock
    wallBehind,     \* how far the wall clock was set back
    quoteCache,     \* _cache of the service
    marketGate,
    datasetsUsed,   \* _requests_used
    reads,          \* how far each thread has got
    asks,           \* history: questions asked
    leaves,         \* history: when requests were really let through, this minute
    paused          \* history: when the last pause began, None before it

quoteVars == <<ticks, wallBehind, quoteCache, marketGate, datasetsUsed, reads, asks, leaves, paused>>

Wall == ticks - wallBehind

-----------------------------------------------------------------------------
(* The exchange's calendar and what it says of a bar. *)

DateOf(time) == time \div SessionDay
Opening(date) == date * SessionDay + OpensAt
Closing(date) == date * SessionDay + ClosesAt
IsOpenAt(time) == Opening(DateOf(time)) <= time /\ time < Closing(DateOf(time))

\* _latest_completed_session.
CompletedBy(checked) == {d \in 0 .. DateOf(checked) : Closing(d) <= checked}

\* _open_session_freshness and _closed_session_freshness: a daily bar of any
\* earlier date is merely "market_closed".
OpenFreshness(interval, event, checked) ==
    IF interval = "day" THEN "delayed"
    ELSE IF checked - event <= CurrentAge THEN "current"
    ELSE IF checked - event <= DelayedAge THEN "delayed" ELSE "stale"

ClosedFreshness(interval, event, date) ==
    IF \/ interval = "day" /\ DateOf(event) <= date
       \/ interval = "minute" /\ Opening(date) <= event /\ event <= Closing(date)
    THEN "market_closed" ELSE "stale"

\* ExchangeMarketFreshnessPolicy.assess.
Assess(interval, event, checked) ==
    IF event > checked \/ DateOf(checked) >= ValidThrough THEN "unknown"
    ELSE IF IsOpenAt(checked) THEN OpenFreshness(interval, event, checked)
    ELSE IF CompletedBy(checked) = {} THEN "unknown"
    ELSE ClosedFreshness(interval, event, Max(CompletedBy(checked)))

\* _quality.
Quality(freshness, warned) ==
    IF warned \/ freshness = "stale" THEN "degraded"
    ELSE IF freshness = "unknown" THEN "unknown" ELSE "available"

\* _projection_fields: what is served of an observation at a time.
View(interval, event, observed, seen, warned, served) ==
    LET freshness == Assess(interval, event, served)
    IN  [interval |-> interval, event |-> event, observed |-> observed, seen |-> seen,
         warned |-> warned, served |-> served, freshness |-> freshness,
         quality |-> Quality(freshness, warned)]

\* refresh_cached_quote, with the mutant that serves what it stored.
ServeAsStored(quote, served) == quote
RefreshCachedQuote(quote, served) ==
    View(quote.interval, quote.event, quote.observed, quote.seen, quote.warned, served)

-----------------------------------------------------------------------------
NoRead == [pc |-> "idle", kind |-> "none", interval |-> "none", observed |-> 0, seen |-> 0,
           sent |-> 0, view |-> None]
Ended(kind, view) ==
    IF view = None THEN [NoRead EXCEPT !.pc = "done"]
    ELSE [NoRead EXCEPT !.pc = "done", !.kind = kind, !.observed = Wall, !.seen = ticks, !.view = view]

QuoteInit ==
    /\ ticks = 1 /\ wallBehind = 0
    /\ quoteCache = None
    /\ marketGate = OpenGate
    /\ datasetsUsed = 0
    /\ reads = [t \in Readers |-> NoRead]
    /\ asks = 0 /\ leaves = <<>> /\ paused = None

Free(t) == reads[t].pc \in {"idle", "done"} /\ asks < MaxReads /\ asks' = asks + 1

\* _cached finds a quote young enough; a wall clock behind the observation
\* makes refresh_cached_quote fail, which drops the quote.
CacheLive == quoteCache # None /\ ticks - quoteCache.storedAt <= QuoteLife /\ Wall >= quoteCache.view.observed

QuoteFromCache(t) ==
    /\ Free(t) /\ CacheLive
    /\ reads' = [reads EXCEPT ![t] = Ended("cache", RefreshCachedQuote(quoteCache.view, Wall))]
    /\ UNCHANGED <<ticks, wallBehind, quoteCache, marketGate, datasetsUsed, leaves, paused>>

\* bars, and quote without a live cached one: the gate first, by a reading of
\* the clock, then the projection's own reading of the wall clock.
Admission(t, kind, interval) ==
    \E now \in Readings(ticks) :
        LET verdict == Admit(marketGate, now)
        IN  /\ marketGate' = verdict.gate
            /\ leaves' = IF verdict.admitted THEN Append(leaves, ticks) ELSE leaves
            /\ reads' = [reads EXCEPT ![t] =
                  IF verdict.admitted
                  THEN [NoRead EXCEPT !.pc = "openbb", !.kind = kind, !.interval = interval,
                                      !.observed = Wall, !.seen = ticks, !.sent = ticks]
                  ELSE Ended(kind, None)]

Quote(t) ==
    /\ Free(t) /\ ~CacheLive
    /\ quoteCache' = None
    /\ Admission(t, "quote", "minute")
    /\ UNCHANGED <<ticks, wallBehind, datasetsUsed, paused>>

Bars(t) ==
    /\ Free(t)
    /\ \E interval \in {"minute", "day"} : Admission(t, "bars", interval)
    /\ UNCHANGED <<ticks, wallBehind, quoteCache, datasetsUsed, paused>>

\* The time stamp of the newest bar in an answer written at a time; a
\* provider may lag.
NewestBars(interval, written) ==
    {b \in 0 .. written : IF interval = "day" THEN b % SessionDay = 0 ELSE IsOpenAt(b)}

\* The service keeps a quote, and the gate takes note.
Settle(t, view) ==
    /\ marketGate' = Record(marketGate, view # None, ticks)
    /\ paused' = IF marketGate'.blockedUntil # marketGate.blockedUntil THEN ticks ELSE paused
    /\ quoteCache' = IF view # None /\ reads[t].kind = "quote"
                     THEN [storedAt |-> ticks, view |-> view] ELSE quoteCache
    /\ reads' = [reads EXCEPT ![t] = Ended(reads[t].kind, view)]

Projected(t, event, fallback) ==
    View(reads[t].interval, event, reads[t].observed, reads[t].seen, fallback, reads[t].observed)

\* OpenBB answers in time; a bar after the observation makes the whole answer
\* a conflict (_normalize_results), and the failover goes on.
OpenBBAnswers(t) ==
    /\ reads[t].pc = "openbb"
    /\ ticks < reads[t].sent + SourceTimeout
    /\ \E event \in NewestBars(reads[t].interval, ticks) :
          IF event <= reads[t].observed
          THEN Settle(t, Projected(t, event, FALSE))
          ELSE /\ reads' = [reads EXCEPT ![t].pc = "datasets"]
               /\ UNCHANGED <<quoteCache, marketGate, paused>>
    /\ UNCHANGED <<ticks, wallBehind, datasetsUsed, asks, leaves>>

\* No credential, a status, an empty or unreadable body, a timeout: whatever
\* _http_failure and _provider_failure make of it, the next source is tried.
OpenBBFails(t) ==
    /\ reads[t].pc = "openbb"
    /\ reads' = [reads EXCEPT ![t].pc = "datasets"]
    /\ UNCHANGED <<ticks, wallBehind, quoteCache, marketGate, datasetsUsed, asks, leaves, paused>>

\* FailoverLatestMarketDataSource has no source left: a failure.
AllFailed(t) == Settle(t, None)

\* Financial Datasets refuses all but daily bars, and may refuse those: for
\* want of its API key, or of a request left in its lifetime budget.
DatasetsRefuses(t) ==
    /\ reads[t].pc = "datasets"
    /\ AllFailed(t)
    /\ UNCHANGED <<ticks, wallBehind, datasetsUsed, asks, leaves>>

\* _consume_budget, then the request.
DatasetsAsk(t) ==
    /\ reads[t].pc = "datasets" /\ reads[t].interval = "day"
    /\ datasetsUsed < DatasetsBudget
    /\ datasetsUsed' = datasetsUsed + 1
    /\ reads' = [reads EXCEPT ![t].pc = "datasets_sent", ![t].sent = ticks]
    /\ UNCHANGED <<ticks, wallBehind, quoteCache, marketGate, asks, leaves, paused>>

\* _normalized_prices_error compares dates, LatestMarketDataObservation times.
DatasetsAnswers(t) ==
    /\ reads[t].pc = "datasets_sent"
    /\ ticks < reads[t].sent + SourceTimeout
    /\ \E event \in NewestBars("day", ticks) :
          Settle(t, IF event <= reads[t].observed THEN Projected(t, event, TRUE) ELSE None)
    /\ UNCHANGED <<ticks, wallBehind, datasetsUsed, asks, leaves>>

DatasetsFails(t) ==
    /\ reads[t].pc = "datasets_sent"
    /\ AllFailed(t)
    /\ UNCHANGED <<ticks, wallBehind, datasetsUsed, asks, leaves>>

\* Time passes between questions and while a source is waited for.
QuoteTick ==
    /\ ticks < MaxQuoteTick
    /\ \A t \in Readers : reads[t].pc \in {"idle", "openbb", "datasets_sent", "done"}
    /\ \A t \in Readers : reads[t].pc \in {"openbb", "datasets_sent"} => ticks < reads[t].sent + SourceTimeout
    /\ ticks' = ticks + 1
    /\ leaves' = Unexpired(leaves, ticks + 1)
    /\ UNCHANGED <<wallBehind, quoteCache, marketGate, datasetsUsed, reads, asks, paused>>

\* The wall clock is set back, once.
SetBack ==
    /\ wallBehind = 0 /\ wallBehind' = 1
    /\ UNCHANGED <<ticks, quoteCache, marketGate, datasetsUsed, reads, asks, leaves, paused>>

QuoteNext ==
    \/ QuoteTick \/ SetBack
    \/ \E t \in Readers :
          \/ QuoteFromCache(t) \/ Quote(t) \/ Bars(t)
          \/ OpenBBAnswers(t) \/ OpenBBFails(t)
          \/ DatasetsRefuses(t) \/ DatasetsAsk(t) \/ DatasetsAnswers(t) \/ DatasetsFails(t)

QuoteSpec == QuoteInit /\ [][QuoteNext]_quoteVars
-----------------------------------------------------------------------------
\* What is served is judged by the time of serving: a quote called current is
\* no older than its interval's limit, give or take the time its sources
\* take, and not even that from the cache; one of good quality carries no
\* warning; and none was observed longer ago than the cache keeps it and its
\* sources take, however late a slower thread stores an older one
\* (refresh_cached_quote and _quality of latest_market_data.py; _cached of
\* gui.py).
QuoteIsHonest ==
    \A t \in Readers : reads[t].view # None =>
        LET v == reads[t].view
            late == IF reads[t].kind = "cache" THEN 0 ELSE 2 * SourceTimeout
        IN  /\ v.freshness = "current" => reads[t].observed - v.event <= CurrentAge + late
            /\ v.quality = "available" => ~v.warned
            /\ reads[t].seen - v.seen <= QuoteLife + 2 * SourceTimeout

\* However the threads' readings and steps interleave, no more requests are
\* let through within a minute, less the time a thread may stall, than
\* PROVIDER_REQUESTS_PER_MINUTE, and none during a pause after repeated
\* failures (_ProviderRequestGate of gui.py).
GateHolds ==
    /\ Cardinality({i \in DOMAIN leaves : ticks - leaves[i] < Minute - MaxStall}) <= GateRequests
    /\ paused # None =>
          \A i \in DOMAIN leaves : leaves[i] > paused => leaves[i] >= paused + GateCooldown

\* QuotesHold: quotes are honest about their age, and asked for within the limits
\* of their provider.
QuotesHold == QuoteIsHonest /\ GateHolds
=============================================================================

------------------------------ MODULE Backtest ------------------------------
(***************************************************************************)
(* Parity of the backtest engines.  One canonical job is given to the      *)
(* reference engine, to Nautilus and to LEAN in turn                       *)
(* (application/evaluation/engine_parity.py).  A sidecar plans the fills   *)
(* of the job bar by bar (sidecars/*/engine.py), has its native engine     *)
(* execute the planned children, and restates what came back in canonical  *)
(* prices, fees and balances (sidecars/*/adapter.py); the contract derives *)
(* the plan once more and refuses a result that is not it                  *)
(* (stonks_contracts/_backtest_validation.py).  A native engine may split, *)
(* lose, repeat or delay a fill.  Prices, fees and quantities are counted  *)
(* in quanta.                                                              *)
(***************************************************************************)
EXTENDS Integers, Sequences, FiniteSets, FiniteSetsExt, SequencesExt, Nothing

CONSTANTS
    Sessions,       \* <<[opens, closes]>> of the calendar, in order
    BarSets,        \* sequences of bars [opens, closes, open, volume, tradable]
    OrderShapes,    \* [side, limit, qty, tif, issued, until]
    OpeningCash,    \* amounts a job may open with
    OpeningUnits,
    MaxOrders,      \* orders of a job
    Share,          \* max_volume_participation is 1 / Share
    SpreadBps, ImpactBps, FeeBps, MinimumFee,
    MaxChildren,    \* max_schedule_children
    ParityAsOf, ParityDeadline, MaxParityTime

ASSUME CostAssumption == /\ Share > 0 /\ MinimumFee >= 0
                         /\ {SpreadBps, ImpactBps, FeeBps} \subseteq 0..10000
                         /\ SpreadBps + ImpactBps < 10000

VARIABLES
    job,          \* bars, orders, cash
    parityTime,
    turn,         \* the engine whose turn it is, by number
    engine,       \* what it is doing: step, the trace, whether the native run was faithful
    results,      \* accepted results, in the order of the engines
    parity        \* the report, a failure, or None
backtestVars == <<job, parityTime, turn, engine, results, parity>>

Engines == <<"reference", "nautilus", "lean">>
Bars == job.bars
Orders == job.orders

-----------------------------------------------------------------------------
(* The contract: calendar, jobs, economics.                                *)

\* BacktestCalendarIndex.session_for_bar
SessionOf(bar) ==
    LET fits == {s \in DOMAIN Sessions : Sessions[s].opens <= bar.opens /\ bar.closes <= Sessions[s].closes}
    IN  IF fits = {} THEN None ELSE Max(fits)
\* first_session_date: the first that closes after the order was issued.
FirstSession(order) ==
    LET later == {s \in DOMAIN Sessions : Sessions[s].closes > order.issued}
    IN  IF later = {} \/ Sessions[Min(later)].opens >= order.until THEN None ELSE Min(later)

\* BacktestDataset and _bar_is_valid
DatasetValid(bars) ==
    /\ \A k \in 1..(Len(bars) - 1) : bars[k].closes <= bars[k + 1].opens
    /\ \A k \in 1..Len(bars) : /\ bars[k].opens < bars[k].closes /\ bars[k].closes <= ParityAsOf
                               /\ SessionOf(bars[k]) # None
\* _job_inputs_are_valid: orders in the order they were issued, sales above a quantum.
JobValid(bars, orders) ==
    /\ \A k \in 1..(Len(orders) - 1) : orders[k].issued <= orders[k + 1].issued
    /\ \A k \in 1..Len(orders) :
         /\ orders[k].issued < orders[k].until
         /\ orders[k].side = "sell" =>
              \A b \in 1..Len(bars) : bars[b].open * (10000 - SpreadBps - ImpactBps) >= 10000

CeilOf(a, b) == (a + b - 1) \div b

\* floor_quantum of the volume an order book takes.
Capacity(bar) == bar.volume \div Share

\* canonical_fill_price: the open, moved against the order, rounded against it.
AdverseNum(order, bar) ==
    IF bar.volume = 0 THEN SpreadBps
    ELSE SpreadBps * bar.volume + ImpactBps * Min({bar.volume, order.qty * Share})
AdverseDen(bar) == 10000 * (IF bar.volume = 0 THEN 1 ELSE bar.volume)
Adjusted(order, bar) ==
    LET d == AdverseDen(bar)
        n == AdverseNum(order, bar)
    IN  IF order.side = "buy" THEN CeilOf(bar.open * (d + n), d) ELSE (bar.open * (d - n)) \div d
CanonicalPrice(order, bar) ==
    IF order.limit = None THEN Adjusted(order, bar)
    ELSE IF order.side = "buy"
    THEN IF bar.open <= order.limit THEN Min({Adjusted(order, bar), order.limit}) ELSE None
    ELSE IF bar.open >= order.limit THEN Max({Adjusted(order, bar), order.limit}) ELSE None

CanonicalFee(qty, price) == Max({CeilOf(qty * price * FeeBps, 10000), MinimumFee})

CanonicalStatus(order, filled) ==
    IF filled = order.qty THEN "filled"
    ELSE IF filled > 0 THEN "partially_filled"
    ELSE IF order.tif \in {"ioc", "day"} THEN "cancelled"
    ELSE IF ParityAsOf >= order.until THEN "expired" ELSE "accepted"

\* _is_order_opportunity: the next bar, never the one the order was issued in.
Opportunity(order, bar) == order.issued < bar.opens /\ bar.opens < order.until

-----------------------------------------------------------------------------
(* The plan, as Nautilus and the contract derive it.                       *)

NoPlan == [left |-> [o \in 1..Len(Orders) |-> Orders[o].qty], tried |-> {}, cap |-> 0, plan |-> <<>>]

PlanOn(acc, o, b) ==
    LET order == Orders[o]
        bar == Bars[b]
        tries == IF order.tif = "ioc" THEN [acc EXCEPT !.tried = @ \cup {o}] ELSE acc
        q == Min({acc.left[o], acc.cap})
    IN  IF \/ acc.left[o] <= 0 \/ o \in acc.tried \/ ~Opportunity(order, bar)
           \/ order.tif = "day" /\ FirstSession(order) # SessionOf(bar)
        THEN acc
        ELSE IF ~bar.tradable \/ CanonicalPrice(order, bar) = None \/ q <= 0 THEN tries
        ELSE [tries EXCEPT !.left[o] = @ - q, !.cap = @ - q,
                           !.plan = Append(@, [order |-> o, bar |-> b, qty |-> q])]

\* _expected_fill_schedules
ExpectedPlan ==
    FoldLeft(LAMBDA acc, b :
               FoldLeft(LAMBDA a, o : PlanOn(a, o, b), [acc EXCEPT !.cap = Capacity(Bars[b])],
                        [k \in 1..Len(Orders) |-> k]),
             NoPlan, [k \in 1..Len(Bars) |-> k]).plan
\* Nautilus' _schedule, which also counts its children.
NautilusPlan == IF Len(ExpectedPlan) > MaxChildren THEN None ELSE ExpectedPlan

-----------------------------------------------------------------------------
(* LEAN's own plan.                                                        *)

\* _schedule_order_on_bar marks the attempt before it looks at the bar.
LeanTries(acc, o, b) ==
    IF Orders[o].tif = "ioc" THEN [acc EXCEPT !.tried = @ \cup {o}] ELSE acc

LeanPlanOn(acc, o, b) ==
    LET q == Min({acc.left[o], acc.cap})
        due == /\ acc.left[o] > 0 /\ o \notin acc.tried
               /\ Opportunity(Orders[o], Bars[b])
               /\ Orders[o].tif = "day" => FirstSession(Orders[o]) = SessionOf(Bars[b])
        price == CanonicalPrice(Orders[o], Bars[b])
    IN  IF ~due THEN acc
        ELSE IF ~Bars[b].tradable \/ price = None \/ q <= 0 THEN LeanTries(acc, o, b)
        ELSE [LeanTries(acc, o, b) EXCEPT
                !.left[o] = @ - q, !.cap = @ - q,
                !.plan = Append(@, [order |-> o, bar |-> b, qty |-> q])]

\* _day_sessions raises for a day order without a session: the job is refused.
LeanSupports == \A o \in 1..Len(Orders) : Orders[o].tif = "day" => FirstSession(Orders[o]) # None
LeanPlan ==
    LET plan == FoldLeft(LAMBDA acc, b :
                           FoldLeft(LAMBDA a, o : LeanPlanOn(a, o, b), [acc EXCEPT !.cap = Capacity(Bars[b])],
                                    [k \in 1..Len(Orders) |-> k]),
                         NoPlan, [k \in 1..Len(Bars) |-> k]).plan
    IN  IF ~LeanSupports \/ Len(plan) > MaxChildren THEN None ELSE plan

\* _scheduled_child: a limit far enough that the native engine fills at the open.
NativeLimit(order, bar) ==
    IF order.limit = None THEN None
    ELSE IF order.side = "buy" THEN Max({order.limit, bar.open + 1}) ELSE Min({order.limit, bar.open - 1})
NativeCrosses(child) ==
    LET limit == NativeLimit(Orders[child.order], Bars[child.bar])
    IN  limit # None => IF Orders[child.order].side = "buy" THEN Bars[child.bar].open < limit
                                                            ELSE Bars[child.bar].open > limit

Plan(e) == CASE e = "lean" -> LeanPlan
             [] e = "nautilus" -> NautilusPlan
             [] e = "reference" -> ExpectedPlan

-----------------------------------------------------------------------------
(* The adapters: what a trace becomes.                                     *)

FilledBy(fills, o) ==
    MapThenSumSet(LAMBDA k : IF fills[k].order = o THEN fills[k].qty ELSE 0, 1..Len(fills))

\* _map_fill
Priced(fill) ==
    LET order == Orders[fill.order]
        price == CanonicalPrice(order, Bars[fill.bar])
    IN  [order |-> fill.order, bar |-> fill.bar, qty |-> fill.qty, price |-> price,
         fee |-> CanonicalFee(fill.qty, price)]

\* What a fill does to the cash and to the units.
CashEffect(f) ==
    IF Orders[f.order].side = "buy" THEN -(f.qty * f.price) - f.fee ELSE f.qty * f.price - f.fee
UnitEffect(f) == IF Orders[f.order].side = "buy" THEN f.qty ELSE -f.qty
TotalOver(Effect(_), fills, n) == MapThenSumSet(LAMBDA k : Effect(fills[k]), 1..n)

\* fills in the order of their time, then of the order's sequence
InTime(fills) == SortSeq(fills, LAMBDA f, g : f.bar < g.bar \/ (f.bar = g.bar /\ f.order < g.order))

\* _map_result and _project
MapResult(trace) ==
    LET fills == InTime([k \in 1..Len(trace) |-> Priced(trace[k])])
    IN  [fills |-> fills,
         outcomes |-> [o \in 1..Len(Orders) |-> [filled |-> FilledBy(fills, o),
                                                 status |-> CanonicalStatus(Orders[o], FilledBy(fills, o))]],
         cash |-> job.cash + TotalOver(CashEffect, fills, Len(fills)),
         units |-> OpeningUnits + TotalOver(UnitEffect, fills, Len(fills)),
         fees |-> MapThenSumSet(LAMBDA k : fills[k].fee, 1..Len(fills))]
NautilusResult(trace) == MapResult(trace)

\* _map_outcomes raises, and the balances of a result cannot be negative.
Representable(r) ==
    /\ \A o \in 1..Len(Orders) : r.outcomes[o].filled <= Orders[o].qty
    /\ r.cash >= 0 /\ r.units >= 0

\* Mutant: only how much an order was filled is compared.
FilledAsPlanned(r) ==
    \A o \in 1..Len(Orders) : FilledBy(r.fills, o) <= FilledBy(ExpectedPlan, o)
\* _validate_next_bar_sequence
FillsMatchSchedule(r) ==
    \A o \in 1..Len(Orders) :
        LET shown(f) == [bar |-> f.bar, qty |-> f.qty]
            of(fills) == LET mine == SelectSeq(fills, LAMBDA f : f.order = o)
                         IN  [k \in 1..Len(mine) |-> shown(mine[k])]
        IN  of(r.fills) = of(ExpectedPlan)

\* _fill_matches_input
EconomicsMatch(r) ==
    \A k \in 1..Len(r.fills) :
        LET f == r.fills[k]
        IN  /\ Bars[f.bar].tradable /\ Opportunity(Orders[f.order], Bars[f.bar])
            /\ f.qty <= Orders[f.order].qty
            /\ f.price = CanonicalPrice(Orders[f.order], Bars[f.bar])
            /\ f.fee = CanonicalFee(f.qty, f.price)
\* _validate_volume_caps
VolumeCaps(r) ==
    \A b \in 1..Len(Bars) :
        MapThenSumSet(LAMBDA k : IF r.fills[k].bar = b THEN r.fills[k].qty ELSE 0, 1..Len(r.fills)) <= Capacity(Bars[b])
\* _validate_projection: at no fill on the way.
NeverNegative(r) ==
    \A n \in 1..Len(r.fills) :
        /\ job.cash + TotalOver(CashEffect, r.fills, n) >= 0
        /\ OpeningUnits + TotalOver(UnitEffect, r.fills, n) >= 0

\* validate_backtest_result
ValidAgainstJob(r) ==
    EconomicsMatch(r) /\ FillsMatchSchedule(r) /\ VolumeCaps(r) /\ NeverNegative(r)

-----------------------------------------------------------------------------
(* A parity evaluation.                                                    *)

NoEngine == [step |-> "idle", trace |-> <<>>, faithful |-> TRUE]

BacktestInit ==
    /\ job \in {j \in [bars : BarSets, orders : UNION {[1..n -> OrderShapes] : n \in 1..MaxOrders}, cash : OpeningCash] :
                  DatasetValid(j.bars) /\ JobValid(j.bars, j.orders)}
    /\ parityTime = 0 /\ turn = 1 /\ engine = NoEngine
    /\ results = <<>> /\ parity = None

ParityTick ==
    /\ parity = None /\ parityTime < MaxParityTime
    /\ parityTime' = parityTime + 1
    /\ UNCHANGED <<job, turn, engine, results, parity>>

Fails(why) ==
    /\ parity' = [ok |-> FALSE, why |-> why, engine |-> Engines[turn], faithful |-> engine.faithful]
    /\ engine' = NoEngine
    /\ UNCHANGED <<job, parityTime, turn, results>>

\* _preflight of the adapter and of the backend, then the plan.
StartEngine ==
    /\ parity = None /\ turn <= Len(Engines) /\ engine.step = "idle"
    /\ IF parityTime > ParityDeadline THEN Fails("deadline_expired")
       ELSE IF Plan(Engines[turn]) = None THEN Fails("engine_unsupported_job")
       ELSE /\ engine' = [NoEngine EXCEPT !.step = "native", !.trace = Plan(Engines[turn])]
            /\ UNCHANGED <<job, parityTime, turn, results, parity>>

\* The native engine fills every child that crosses at its bar.
NativeFills ==
    /\ engine.step = "native"
    /\ engine' = [engine EXCEPT !.step = "map",
                                !.trace = SelectSeq(@, LAMBDA c : Engines[turn] = "lean" => NativeCrosses(c))]
    /\ UNCHANGED <<job, parityTime, turn, results, parity>>

\* ... or splits a fill, fills less, not at all or more.
NativeDistorts(k, how) ==
    /\ engine.step = "native" /\ k \in 1..Len(engine.trace)
    /\ LET f == engine.trace[k]
           others == RemoveAt(engine.trace, k)
       IN  /\ how \in {"split", "short"} => f.qty > 1
           /\ engine' = [step |-> "map", faithful |-> FALSE, trace |->
                CASE how = "split" -> others \o <<[f EXCEPT !.qty = 1], [f EXCEPT !.qty = @ - 1]>>
                  [] how = "short" -> Append(others, [f EXCEPT !.qty = 1])
                  [] how = "lost" -> others
                  [] how = "twice" -> others \o <<f, f>>]
    /\ UNCHANGED <<job, parityTime, turn, results, parity>>

\* A timeout, a lost process, a fill at another time, an event that is not of the schedule.
NativeBreaks ==
    /\ engine.step = "native"
    /\ Fails("engine_failed")

\* The adapter's second look at the clock, the mapping and the validation.
AcceptResult ==
    /\ engine.step = "map"
    /\ LET r == IF Engines[turn] = "nautilus" THEN NautilusResult(engine.trace) ELSE MapResult(engine.trace)
       IN  IF parityTime > ParityDeadline THEN Fails("deadline_expired")
           ELSE IF ~(Representable(r) /\ ValidAgainstJob(r)) THEN Fails("invalid_engine_output")
           ELSE /\ results' = Append(results, r)
                /\ turn' = turn + 1 /\ engine' = NoEngine
                /\ UNCHANGED <<job, parityTime, parity>>

\* _compare over the dimensions of a result.
Same(r, s) ==
    /\ r.outcomes = s.outcomes /\ r.cash = s.cash /\ r.units = s.units /\ r.fees = s.fees
    /\ Len(r.fills) = Len(s.fills)
    /\ \A k \in 1..Len(r.fills) : Cardinality({i \in DOMAIN r.fills : r.fills[i] = r.fills[k]})
                                    = Cardinality({i \in DOMAIN s.fills : s.fills[i] = r.fills[k]})

\* The status a report may carry.
StatusOf(rs) ==
    IF \A k \in 2..Len(rs) : Same(rs[1], rs[k]) THEN "canonical_parity" ELSE "engine_specific"

\* _build_report
BuildReport ==
    /\ parity = None /\ turn > Len(Engines)
    /\ parity' = [ok |-> TRUE, status |-> StatusOf(results)]
    /\ UNCHANGED <<job, parityTime, turn, engine, results>>

BacktestNext ==
    \/ ParityTick \/ StartEngine \/ NativeFills \/ NativeBreaks \/ AcceptResult \/ BuildReport
    \/ \E k \in 1..(MaxOrders * Len(Bars)), how \in {"split", "short", "lost", "twice"} : NativeDistorts(k, how)

-----------------------------------------------------------------------------
(* Properties.                                                             *)

\* How much of an order is due at a bar, stated without the loops: on its
\* first bar for an immediate order, in its first session for a day order,
\* otherwise on every bar while it is valid, never more than is left of the
\* order and of the bar after the orders before it.
At(fills, o, b) ==
    MapThenSumSet(LAMBDA k : IF fills[k].order = o /\ fills[k].bar = b THEN fills[k].qty ELSE 0, 1..Len(fills))
Due(fills, o, b) ==
    LET order == Orders[o]
        bar == Bars[b]
        open == {k \in 1..Len(Bars) : order.issued < Bars[k].opens /\ Bars[k].opens < order.until}
        marketable == order.limit # None => IF order.side = "buy" THEN bar.open <= order.limit ELSE bar.open >= order.limit
        wanted == order.qty - MapThenSumSet(LAMBDA k : At(fills, o, k), 1..(b - 1))
        onOffer == Capacity(bar) - MapThenSumSet(LAMBDA k : At(fills, k, b), 1..(o - 1))
    IN  IF /\ b \in open /\ bar.tradable /\ marketable
           /\ order.tif = "ioc" => b = Min(open)
           /\ order.tif = "day" => \A s \in DOMAIN Sessions :
                (Sessions[s].opens <= bar.opens /\ bar.opens < Sessions[s].closes) =>
                    \A t \in 1..(s - 1) : Sessions[t].closes <= order.issued
        THEN Min({wanted, onOffer}) ELSE 0
IsDue(fills) == \A o \in 1..Len(Orders), b \in 1..Len(Bars) : At(fills, o, b) = Due(fills, o, b)

\* An accepted result is the canonical one, whatever the native engine did
\* with its children: exactly the fills that are due, paid for at every step
\* out of what was there; so engines that all answered agree, and the report
\* says so.
AcceptedIsCanonical ==
    /\ \A k \in 1..Len(results) :
         /\ IsDue(results[k].fills)
         /\ \A n \in 1..Len(results[k].fills) :
              /\ job.cash + TotalOver(CashEffect, results[k].fills, n) >= 0
              /\ OpeningUnits + TotalOver(UnitEffect, results[k].fills, n) >= 0
    /\ parity # None /\ parity.ok => parity.status = "canonical_parity"

\* A sidecar whose native engine did what it was told is not refused by the
\* contract for it: only a job that overdraws its cash or its units is.
FaithfulRunIsAccepted ==
    (parity # None /\ ~parity.ok /\ parity.faithful /\ parity.why = "invalid_engine_output") =>
        LET r == MapResult(ExpectedPlan)
        IN  \E n \in 1..Len(r.fills) :
              \/ job.cash + TotalOver(CashEffect, r.fills, n) < 0
              \/ OpeningUnits + TotalOver(UnitEffect, r.fills, n) < 0

\* ParityHolds: what the contract accepts is canonical, and a faithful engine is
\* accepted.
ParityHolds == AcceptedIsCanonical /\ FaithfulRunIsAccepted
=============================================================================

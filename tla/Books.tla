------------------------------- MODULE Books -------------------------------
(***************************************************************************)
(* The arithmetic of one paper account: signals become a target            *)
(* (application/portfolio/build_target.py), the risk gate judges it        *)
(* (application/risk/evaluate.py), its orders reserve cash or units        *)
(* (authorize.py), the reference broker fills them from a bar              *)
(* (adapters/execution/paper.py), each fill is posted to the ledger        *)
(* (application/ledger/post.py) and the account is valued                  *)
(* (application/monitoring).  PaperTrading has the same operations with    *)
(* their interleavings and without the numbers; here transactions are      *)
(* atomic.                                                                 *)
(*                                                                         *)
(* Money is counted in quanta of the currency and quantities in quanta of  *)
(* the instrument.  A price is a number of quanta over Scale, so that a    *)
(* notional need not be a whole number of quanta.  Ratios, basis points    *)
(* included, are numbers over Unit.  Quantizing a ratio to 12 decimals is  *)
(* left out.  Only market day orders pass the gate.                        *)
(***************************************************************************)
EXTENDS Integers, Sequences, FiniteSets, FiniteSetsExt, Nothing

CONSTANTS
    Instrument, VotingStrategy,
    OpeningCash,        \* the opening snapshot: cash and no position
    Scale,              \* price ticks in a quantum of cash
    Unit,               \* ratios are multiples of 1/Unit
    Prices, Volumes,    \* prices and volumes of marks and bars
    Votes,              \* value times confidence of a signal
    WeightOf,           \* [VotingStrategy -> weight]
    SectorOf, ClassOf,  \* [Instrument -> sector], [Instrument -> asset class]
    DailyVolume,        \* [Instrument -> average daily volume]
    Portfolio,          \* config/policies/portfolio_v1.yaml
    Risk,               \* config/policies/risk_v1.yaml
    Execution,          \* config/execution/paper_v1.yaml
    OpenTimes,          \* the instants at which the market is open
    MaxRounds, MaxTime, MaxNavs   \* bounds

\* PortfolioPolicy, HardRiskPolicy and PaperExecutionPolicy: their validators.
PortfolioPolicyValid(p) ==
    /\ MapThenSumSet(LAMBDA s : WeightOf[s], VotingStrategy) = Unit
    /\ p.shrinkage \in 1..Unit /\ p.maxWeight \in 1..Unit
    /\ p.deadband \in 0..Unit /\ p.penalty \in 0..Unit /\ p.cost \in 0..Unit

RiskPolicyValid(p) ==
    /\ \A v \in {p.maxSingle, p.maxSector, p.maxClass, p.maxAdv} : v \in 1..Unit
    /\ p.maxGross > 0 /\ p.maxNet > 0 /\ p.maxTurnover > 0
    /\ p.minNet \in 0..p.maxNet
    /\ p.maxDrawdown \in 0..Unit /\ p.maxLoss \in 0..Unit
    /\ p.valid > 0 /\ p.maxAge >= 0 /\ p.maxPending >= 0 /\ p.classes # {}

ExecutionPolicyValid(p) ==
    /\ p.participation \in 1..Unit
    /\ \A v \in {p.adverse, p.impact, p.fee} : v \in 0..Unit
    /\ p.minimumFee \in Nat

ASSUME PolicyAssumption ==
    PortfolioPolicyValid(Portfolio) /\ RiskPolicyValid(Risk) /\ ExecutionPolicyValid(Execution)
\* A quantum of the instrument may be worth less than a quantum of cash.
ASSUME TickAssumption == Scale \in Nat \ {0} /\ Prices \subseteq Nat \ {0}
ASSUME BooksAssumption ==
    /\ OpeningCash \in Nat /\ Unit \in Nat \ {0} /\ OpenTimes \subseteq Nat
    /\ WeightOf \in [VotingStrategy -> 1..Unit] /\ DailyVolume \in [Instrument -> Nat \ {0}]

Round == 1..MaxRounds
Orders == Round \X Instrument

VARIABLES
    now,       \* the clock
    quote,     \* the marks the caller has: [at, price]
    target,    \* the target that was built and not yet judged, or None
    account,   \* paper_account with its cash and position projections
    orders,    \* [Orders -> the order and its reservation, or None]
    round,     \* decisions made
    ledger,    \* [LedgerAccount -> debit minus credit]
    head,      \* [seq, at]: number and instant of the last journal transaction
    decision,  \* the newest risk_decision row, or None
    navs,      \* paper_portfolio_valuation rows
    outcome    \* the last outcome that was computed, with its reflection, or None
bookVars == <<now, quote, target, account, orders, round, ledger, head, decision, navs, outcome>>

-----------------------------------------------------------------------------
(* Rounding.                                                               *)

CeilDiv(a, b) == -((-a) \div b)
HalfEven(a, b) ==
    LET q == a \div b
        twice == 2 * (a % b)
    IN  CASE twice < b -> q
          [] twice > b -> q + 1
          [] OTHER     -> IF q % 2 = 0 THEN q ELSE q + 1
Abs(n) == IF n < 0 THEN -n ELSE n
Total(f, S) == MapThenSumSet(LAMBDA x : f[x], S)

-----------------------------------------------------------------------------
(* The account.                                                            *)

CashAccount == <<"asset", "cash">>
Clearing == <<"clearing", "cash">>
Fees == <<"fee", "cash">>
Pnl == <<"pnl", "cash">>
ValueOf(i) == <<"value", i>>
UnitsOf(i) == <<"units", i>>
ClearingOf(i) == <<"clearing_units", i>>
Money == {CashAccount, Clearing, Fees, Pnl} \cup {ValueOf(i) : i \in Instrument}
LedgerAccount == Money \cup UNION {{UnitsOf(i), ClearingOf(i)} : i \in Instrument}

\* The records are built by pydantic models whose validators raise.
CashBalance(a) == a.reserved \in 0..a.settled
PositionBalance(p) == p.units \in Nat /\ p.held \in 0..p.units
PaperAccountState(a) ==
    /\ CashBalance(a)
    /\ \A i \in DOMAIN a.positions : PositionBalance(a.positions[i])

Positions == DOMAIN account.positions
Units(i) == IF i \in Positions THEN account.positions[i].units ELSE 0
AvailableUnits(i) == IF i \in Positions THEN account.positions[i].units - account.positions[i].held ELSE 0
AvailableCash == account.settled - account.reserved

Placed == {o \in Orders : orders[o] # None}
PendingStatus == {"created", "accepted", "partially_filled"}
PendingOrders == {o \in Placed : orders[o].status \in PendingStatus}
OpenReservations == {o \in Placed : orders[o].state \in {"open", "partially_consumed"}}

\* Net asset value in ticks, at the marks of the quote.
NavTicks == Scale * account.settled + MapThenSumSet(LAMBDA i : Units(i) * quote.price[i], Positions)

BooksInit ==
    /\ now = 0
    /\ quote \in [at: {0}, price: [Instrument -> Prices]]
    /\ target = None
    /\ account = [seq |-> 0, at |-> 0, settled |-> OpeningCash, reserved |-> 0,
                  positions |-> [i \in {} |-> [units |-> 0, held |-> 0]]]
    /\ orders = [o \in Orders |-> None]
    /\ round = 0
    /\ ledger = [l \in LedgerAccount |-> IF l = CashAccount THEN OpeningCash ELSE 0]
    /\ head = [seq |-> 0, at |-> 0]
    /\ decision = None
    /\ navs = <<>>
    /\ outcome = None

Pass ==
    /\ now < MaxTime
    /\ now' = now + 1
    /\ UNCHANGED <<quote, target, account, orders, round, ledger, head, decision, navs, outcome>>

Mark(p) ==
    /\ quote' = [at |-> now, price |-> p]
    /\ quote.at < now   \* one set of marks for an instant
    /\ UNCHANGED <<now, target, account, orders, round, ledger, head, decision, navs, outcome>>

-----------------------------------------------------------------------------
(* The target.                                                             *)

\* _ensemble_score: over Unit^2.
EnsembleScore(v) == MapThenSumSet(LAMBDA s : IF v[s] = None THEN 0 ELSE WeightOf[s] * v[s], VotingStrategy)

\* _allocation: deadband, shrinkage, turnover penalty, the bounds, and the
\* whole number of units below.
TargetQuantity(i, v, nav) ==
    LET score == EnsembleScore(v)
        desired == IF Abs(score) <= Portfolio.deadband * Unit THEN 0 ELSE score * Portfolio.shrinkage
        p == quote.price[i]
        penalized == Units(i) * p * Portfolio.penalty * Unit * Unit * Unit
                       + desired * (Unit - Portfolio.penalty) * nav
    IN  Min({Max({0, penalized \div (Unit * Unit * Unit * Unit * p)}),
             (Portfolio.maxWeight * nav) \div (Unit * p)})

Voted(votes) == {i \in Instrument : \E s \in VotingStrategy : votes[i][s] # None}

\* _target_costs: the traded notional in ticks; its estimated cost in quanta.
Traded(alloc) == MapThenSumSet(LAMBDA i : Abs(alloc[i].to - alloc[i].from) * quote.price[i], DOMAIN alloc)
EstimatedCost(traded) == HalfEven(traded * Portfolio.cost, Unit * Scale)

\* PortfolioTarget.create: what the gate later reads.
PortfolioTarget(votes, alloc, nav) ==
    [seq |-> account.seq, at |-> now, alloc |-> alloc, nav |-> nav, traded |-> Traded(alloc),
     cost |-> EstimatedCost(Traded(alloc)), voted |-> Voted(votes)]

TargetAllocation(i, votes, nav) ==
    LET to == TargetQuantity(i, votes[i], nav)
    IN  [from |-> Units(i), to |-> to, worth |-> to * quote.price[i]]

\* build_target, on a snapshot of the account and the marks of the quote.
BuildTarget(votes) ==
    LET known == Positions \cup Voted(votes)
        nav == NavTicks
        alloc == [i \in known |-> TargetAllocation(i, votes, nav)]
    IN  /\ target = None /\ round < MaxRounds
        /\ known # {} /\ nav > 0
        /\ target' = PortfolioTarget(votes, alloc, nav)
        /\ UNCHANGED <<now, quote, account, orders, round, ledger, head, decision, navs, outcome>>

-----------------------------------------------------------------------------
(* The risk gate: evaluate.                                                *)

Deltas == {i \in DOMAIN target.alloc : target.alloc[i].to # target.alloc[i].from}
Delta(i) == target.alloc[i].to - target.alloc[i].from
Buys == {i \in Deltas : Delta(i) > 0}
Within(ticks, limit) == ticks * Unit <= limit * target.nav
Worth(S) == MapThenSumSet(LAMBDA i : target.alloc[i].worth, S)

TargetBinding ==
    /\ target.seq = account.seq /\ target.at <= now
    /\ \A i \in Positions : i \in DOMAIN target.alloc /\ target.alloc[i].from = Units(i)
DataFreshness == now - quote.at \in 0..Risk.maxAge
SignalFreshness == Buys \subseteq target.voted
CashAvailable ==
    Scale * target.cost + MapThenSumSet(LAMBDA i : Delta(i) * quote.price[i], Buys) <= Scale * AvailableCash
PositionAvailable == \A i \in Deltas \ Buys : -Delta(i) <= AvailableUnits(i)
PendingWithinLimit == Cardinality(PendingOrders) + Cardinality(Deltas) <= Risk.maxPending
ReservationsReconcile ==
    /\ OpenReservations = PendingOrders
    /\ \A o \in OpenReservations : now < orders[o].until
AdvParticipation == \A i \in Deltas : Abs(Delta(i)) * Unit <= Risk.maxAdv * DailyVolume[i]
MarketSession == Deltas # {} => now \in OpenTimes
SinglePosition == \A i \in DOMAIN target.alloc : Within(target.alloc[i].worth, Risk.maxSingle)
SectorExposure ==
    \A i \in DOMAIN target.alloc :
        Within(Worth({j \in DOMAIN target.alloc : SectorOf[j] = SectorOf[i]}), Risk.maxSector)
AssetClass ==
    \A i \in DOMAIN target.alloc :
        /\ ClassOf[i] \in Risk.classes
        /\ Within(Worth({j \in DOMAIN target.alloc : ClassOf[j] = ClassOf[i]}), Risk.maxClass)
GrossExposure == Within(Worth(DOMAIN target.alloc), Risk.maxGross)
NetExposure ==
    /\ Within(Worth(DOMAIN target.alloc), Risk.maxNet)
    /\ Risk.minNet * target.nav <= Worth(DOMAIN target.alloc) * Unit
Turnover == Within(target.traded, Risk.maxTurnover)
\* The caller's high watermark is the highest value recorded so far, the
\* reference of the day the opening cash.
LossWithin(reference, limit) ==
    (Scale * reference - NavTicks) * Unit <= limit * Scale * reference
HighWatermark == Max({OpeningCash} \cup {navs[k].nav : k \in DOMAIN navs})
Drawdown == LossWithin(HighWatermark, Risk.maxDrawdown)
DailyLoss == LossWithin(OpeningCash, Risk.maxLoss)

Approved ==
    /\ TargetBinding /\ DataFreshness /\ SignalFreshness
    /\ CashAvailable /\ PositionAvailable /\ PendingWithinLimit /\ ReservationsReconcile
    /\ AdvParticipation /\ MarketSession
    /\ SinglePosition /\ SectorExposure /\ AssetClass /\ GrossExposure /\ NetExposure
    /\ Turnover /\ NavTicks > 0 /\ Drawdown /\ DailyLoss

-----------------------------------------------------------------------------
(* Authorization: evaluate_and_authorize.                                  *)

\* _build_pairs: a buy carries its share of the estimated cost.
ReservationAmount(i) ==
    LET worth == Abs(Delta(i)) * quote.price[i]
        all == MapThenSumSet(LAMBDA j : Abs(Delta(j)) * quote.price[j], Deltas)
    IN  IF Delta(i) > 0 THEN CeilDiv(worth * all + Scale * target.cost * worth, Scale * all)
        ELSE -Delta(i)

CashToReserve == MapThenSumSet(ReservationAmount, Buys)

\* _reserve_projection refuses to reserve more than what is available.
Reservable == CashToReserve <= AvailableCash

\* create_order_intent with create_reservation.
OrderIntent(i) ==
    [side |-> IF Delta(i) > 0 THEN "buy" ELSE "sell", qty |-> Abs(Delta(i)),
     amount |-> ReservationAmount(i), left |-> ReservationAmount(i), state |-> "open",
     status |-> "created", filled |-> 0, seq |-> account.seq + 1,
     from |-> now, until |-> now + Risk.valid, fill |-> None]

\* _reserve_projection for every order of the batch.
Reserved ==
    [account EXCEPT !.seq = @ + 1, !.at = now, !.reserved = @ + CashToReserve,
                    !.positions = [i \in Positions |->
                        [@[i] EXCEPT !.held = @ + IF i \in Deltas \ Buys THEN ReservationAmount(i) ELSE 0]]]

\* RiskDecision: what the gate said, of which account, and for how long.
RiskDecision == [seq |-> account.seq, at |-> now, until |-> now + Risk.valid, approved |-> Approved]

\* The target is rejected, or asks for nothing: the decision alone is saved.
RejectTarget ==
    /\ target # None
    /\ target.seq = account.seq
    /\ ~Approved \/ Deltas = {}
    /\ decision' = RiskDecision
    /\ target' = None /\ round' = round + 1
    /\ UNCHANGED <<now, quote, account, orders, ledger, head, navs, outcome>>

AuthorizeTarget ==
    /\ target # None
    /\ target.seq = account.seq
    /\ Approved /\ Deltas # {}
    /\ Reservable
    /\ round' = round + 1
    /\ orders' = [o \in Orders |-> IF o[1] = round + 1 /\ o[2] \in Deltas THEN OrderIntent(o[2]) ELSE orders[o]]
    /\ account' = Reserved
    /\ decision' = RiskDecision
    /\ target' = None
    /\ UNCHANGED <<now, quote, ledger, head, navs, outcome>>

\* The account moved since the snapshot, or the rounded reservations need more
\* than what is available: the transaction is rolled back.
AuthorizeConflict ==
    /\ target # None
    /\ \/ target.seq # account.seq
       \/ Approved /\ ~Reservable
    /\ target' = None /\ round' = round + 1
    /\ UNCHANGED <<now, quote, account, orders, ledger, head, decision, navs, outcome>>

-----------------------------------------------------------------------------
(* The broker: ReferencePaperBroker.execute.                               *)

\* A command is issued for an order the account still stands at, and executes
\* once; until then a bar may have opened, and have been published.
Executable(o) ==
    /\ o \in Placed
    /\ orders[o].status = "created"
    /\ orders[o].state = "open"
    /\ account.seq = orders[o].seq

\* _next_bar: the first tradable bar after the command, within its validity.
NextBar(o) ==
    {None} \cup [at: (orders[o].from + 1)..(Min({now, orders[o].until}) - 1), open: Prices, volume: Volumes]

\* _fill_price: the spread, the slippage and the impact against the order,
\* rounded to a tick against it too.
FillPrice(o, b) ==
    LET full == b.volume * Execution.participation
        part == IF b.volume = 0 THEN 0 ELSE Min({full, orders[o].qty * Unit})
        bps == Execution.adverse * full + Execution.impact * part
    IN  IF full = 0 THEN b.open
        ELSE IF orders[o].side = "buy" THEN CeilDiv(b.open * (Unit * full + bps), Unit * full)
        ELSE (b.open * (Unit * full - bps)) \div (Unit * full)

Fee(q, p) == Max({CeilDiv(q * p * Execution.fee, Unit * Scale), Execution.minimumFee})

\* _cash_consumption, in ticks.
CashConsumption(q, p) == q * p + Scale * Fee(q, p)

\* _affordable_quantity: an estimate, corrected downwards.
AffordableQuantity(q, p, cash) ==
    LET rough == (Max({0, cash - Execution.minimumFee}) * Scale * Unit) \div (p * (Unit + Execution.fee))
    IN  Max({0} \cup {k \in 0..Min({q, rough}) : CashConsumption(k, p) <= Scale * cash})

FillQuantity(o, b, p) ==
    LET cap == Min({orders[o].qty, (b.volume * Execution.participation) \div Unit})
    IN  IF orders[o].side = "sell" THEN Min({cap, orders[o].left})
        ELSE AffordableQuantity(cap, p, orders[o].left)

\* _reservation_after_fill: what a fill takes out of its reservation.
ConsumedBy(o, q, p) ==
    IF orders[o].side = "sell" THEN q ELSE CeilDiv(q * p + Scale * Fee(q, p), Scale)

\* release_reservation, or expire_reservation when its time is over.
ReleasedState(o, at) == IF at >= orders[o].until THEN "expired" ELSE "released"

\* What the projections reserve for o falls by n.
Unreserved(o, n) ==
    IF orders[o].side = "buy" THEN [account EXCEPT !.reserved = @ - n]
    ELSE [account EXCEPT !.positions[o[2]].held = @ - n]

\* _pending_or_expired: no bar to trade on.
ExecuteWithoutBar(o) ==
    /\ Executable(o)
    /\ IF now < orders[o].until
       THEN /\ orders' = [orders EXCEPT ![o].status = "accepted"]
            /\ UNCHANGED account
       ELSE /\ orders' = [orders EXCEPT ![o].status = "expired", ![o].left = 0,
                                        ![o].state = ReleasedState(o, orders[o].until)]
            /\ account' = Unreserved(o, orders[o].left)
    /\ UNCHANGED <<now, quote, target, round, ledger, head, decision, navs, outcome>>

\* _terminal_without_fill: not even one unit.
ExecuteWithoutUnit(o, b) ==
    /\ Executable(o) /\ b # None
    /\ FillQuantity(o, b, FillPrice(o, b)) = 0
    /\ orders' = [orders EXCEPT ![o].status = "rejected", ![o].left = 0,
                                ![o].state = ReleasedState(o, orders[o].from)]
    /\ account' = Unreserved(o, orders[o].left)
    /\ UNCHANGED <<now, quote, target, round, ledger, head, decision, navs, outcome>>

-----------------------------------------------------------------------------
(* The ledger: build_fill_journal and what the posting changes.            *)

Gross(f) == HalfEven(f.qty * f.price, Scale)

\* Debit minus credit of the postings of a buy.
BuyPostings(f) ==
    [l \in LedgerAccount |->
        CASE l = ValueOf(f.instrument)    -> Gross(f)
          [] l = CashAccount              -> -(Gross(f) + f.fee)
          [] l = Fees                     -> f.fee
          [] l = UnitsOf(f.instrument)    -> f.qty
          [] l = ClearingOf(f.instrument) -> -f.qty
          [] OTHER                        -> 0]

\* Mutant: a sale of several units takes the average cost of one out of the books.
SoldCostOfOne(f) == HalfEven(ledger[ValueOf(f.instrument)], ledger[UnitsOf(f.instrument)])

\* The average cost of what is sold; all that is left with the last unit.
SoldCost(f) ==
    LET units == ledger[UnitsOf(f.instrument)]
        basis == ledger[ValueOf(f.instrument)]
    IN  IF units = f.qty THEN basis ELSE HalfEven(basis * f.qty, units)

SellPostings(f) ==
    [l \in LedgerAccount |->
        CASE l = ValueOf(f.instrument)    -> -SoldCost(f)
          [] l = CashAccount              -> Gross(f) - f.fee
          [] l = Fees                     -> f.fee
          [] l = Pnl                      -> SoldCost(f) - Gross(f)
          [] l = UnitsOf(f.instrument)    -> -f.qty
          [] l = ClearingOf(f.instrument) -> f.qty
          [] OTHER                        -> 0]

\* _sell_postings refuses a sale without a cost basis, or one whose share of it
\* is rounded to nothing: the execution fails and its transaction is undone.
BasisAvailable(f) ==
    /\ ledger[UnitsOf(f.instrument)] >= f.qty /\ ledger[ValueOf(f.instrument)] > 0
    /\ SoldCost(f) \in 1..ledger[ValueOf(f.instrument)]

\* JournalTransaction: balanced in every commodity.
Balanced(j) ==
    /\ Total(j, Money) = 0
    /\ \A i \in Instrument : j[UnitsOf(i)] + j[ClearingOf(i)] = 0

\* _apply_cash and _apply_positions: the projections follow the ledger.
SettledAccount(a, books, i) ==
    LET kept == IF i \in DOMAIN a.positions THEN a.positions[i].held ELSE 0
    IN  [a EXCEPT !.seq = @ + 1, !.at = now, !.settled = books[CashAccount],
                  !.positions = [j \in DOMAIN @ \cup {i} |->
                       IF j = i THEN [units |-> books[UnitsOf(i)], held |-> kept] ELSE @[j]]]

\* _filled_outcome, the journal and the projections in one transaction.
ExecuteWithFill(o, b) ==
    LET p == FillPrice(o, b)
        q == FillQuantity(o, b, p)
        f == [instrument |-> o[2], qty |-> q, price |-> p, fee |-> Fee(q, p), at |-> b.at]
        used == ConsumedBy(o, q, p)
        done == q = orders[o].qty
        left == orders[o].left - used
        j == IF orders[o].side = "buy" THEN BuyPostings(f) ELSE SellPostings(f)
        books == [l \in LedgerAccount |-> ledger[l] + j[l]]
    IN  /\ Executable(o) /\ b # None /\ q > 0
        /\ orders[o].side = "sell" => BasisAvailable(f)
        /\ Gross(f) > 0 /\ f.at >= head.at /\ Balanced(j)
        /\ orders' = [orders EXCEPT ![o] =
              [@ EXCEPT !.status = IF done THEN "filled" ELSE "partially_filled", !.filled = q,
                        !.left = IF done THEN 0 ELSE left,
                        !.state = IF left = 0 THEN "consumed" ELSE IF done THEN "released" ELSE "partially_consumed",
                        !.fill = f]]
        /\ ledger' = books
        /\ head' = [seq |-> head.seq + 1, at |-> f.at]
        /\ account' = SettledAccount(Unreserved(o, IF done THEN orders[o].left ELSE used), books, o[2])
        /\ UNCHANGED <<now, quote, target, round, decision, navs, outcome>>

-----------------------------------------------------------------------------
(* Valuation and outcome: application/monitoring.                          *)

\* mark_to_market.
Valuation ==
    LET worth == MapThenSumSet(LAMBDA i : HalfEven(ledger[UnitsOf(i)] * quote.price[i], Scale),
                               {i \in Instrument : ledger[UnitsOf(i)] > 0})
    IN  [at |-> now, marked |-> quote.at, ledger |-> head.seq, cash |-> ledger[CashAccount],
         worth |-> worth, nav |-> ledger[CashAccount] + worth, fees |-> ledger[Fees]]

\* PortfolioValuation: the validator of the record.
ValuationValid(v) ==
    /\ v.marked <= v.at
    /\ v.nav = v.cash + v.worth
    /\ v.cash >= 0 /\ v.worth >= 0 /\ v.fees >= 0

\* _valuation_is_current: bound to the ledger of the account as it stands.
ValuationIsCurrent(v) == v.ledger = head.seq

\* record_nav_projection: only of the ledger as it stands.
RecordNav ==
    /\ Len(navs) < MaxNavs
    /\ head.at <= now
    /\ navs # <<>> => navs[Len(navs)].at < now   \* one valuation of an instant
    /\ ValuationValid(Valuation) /\ ValuationIsCurrent(Valuation)
    /\ navs' = Append(navs, Valuation)
    /\ UNCHANGED <<now, quote, target, account, orders, round, ledger, head, decision, outcome>>

\* _fill_error: the fills of the decision between the two valuations.
OutcomeFills(r) ==
    {o \in Placed : o[1] = r /\ orders[o].fill # None
                     /\ orders[o].fill.at > navs[1].at /\ orders[o].fill.at <= navs[Len(navs)].at}

\* _validate_bindings: ordered valuations that start after the decision.
OutcomeBindings(r) ==
    /\ \A k \in 1..(Len(navs) - 1) :
         navs[k].at < navs[k + 1].at /\ navs[k].ledger <= navs[k + 1].ledger
    /\ \E o \in Placed : o[1] = r /\ orders[o].from <= navs[1].at

\* _max_drawdown: the deepest fall below the highest value so far, over Unit.
MaxDrawdown(vs) ==
    LET peak(k) == Max({vs[j].nav : j \in 1..k})
    IN  Min({0} \cup {HalfEven((vs[k].nav - peak(k)) * Unit, peak(k)) : k \in DOMAIN vs})

\* OutcomeEvidence: the validator of the record.
OutcomeValid(x) ==
    /\ navs[Len(navs)].at <= x.at
    /\ x.drawdown \in -Unit..0
    /\ x.fees = navs[Len(navs)].fees - navs[1].fees

\* build_outcome of decision r over the recorded valuations; refused when the
\* fees of its fills are not what the ledger was charged.
BuildOutcome(r) ==
    LET start == navs[1]
        end == navs[Len(navs)]
        charged == MapThenSumSet(LAMBDA o : orders[o].fill.fee, OutcomeFills(r))
    IN  /\ Len(navs) >= 2
        /\ OutcomeBindings(r)
        /\ start.nav > 0
        /\ end.fees - start.fees = charged
        /\ outcome = None
        /\ outcome' = [round |-> r, at |-> now, fees |-> charged, gain |-> end.nav - start.nav,
                       drawdown |-> MaxDrawdown(navs), reflection |-> None]
        /\ OutcomeValid(outcome')
        /\ UNCHANGED <<now, quote, target, account, orders, round, ledger, head, decision, navs>>

\* save_outcome_evidence: the evidence item that is made of an outcome.
OutcomeEvidence(x) == [outcome |-> x.round, available |-> x.at]

\* ReflectionContext: research scoped to exactly that evidence.
ReflectionContext(x, deadline) ==
    [evidence |-> OutcomeEvidence(x), created |-> now, deadline |-> deadline, accepted |-> FALSE]

\* _history_matches: the evidence is of this outcome, once it may be consumed.
HistoryMatches(x) == OutcomeEvidence(x).available <= now

\* build_reflection_context.
Reflect(deadline) ==
    /\ outcome # None
    /\ outcome.reflection = None
    /\ HistoryMatches(outcome) /\ now < deadline
    /\ outcome' = [outcome EXCEPT !.reflection = ReflectionContext(outcome, deadline)]
    /\ UNCHANGED <<now, quote, target, account, orders, round, ledger, head, decision, navs>>

\* accept_reflection_artifact: research that was made in the time of its context
\* and cites the outcome; the decision and the books stay.
AcceptReflection(cited) ==
    /\ outcome # None
    /\ outcome.reflection # None
    /\ now \in outcome.reflection.created..outcome.reflection.deadline
    /\ cited = outcome.reflection.evidence.outcome
    /\ ~outcome.reflection.accepted
    /\ outcome' = [outcome EXCEPT !.reflection.accepted = TRUE]
    /\ UNCHANGED <<now, quote, target, account, orders, round, ledger, head, decision, navs>>

-----------------------------------------------------------------------------
(* What may be read of the account: adapters/postgres/paper_projections.py. *)

\* PortfolioProjection: what is available of the account, and what is pending.
PortfolioProjection(a) ==
    [cash |-> a.settled - a.reserved,
     units |-> [i \in DOMAIN a.positions |-> a.positions[i].units - a.positions[i].held],
     pending |-> PendingOrders]

\* get_portfolio.
PortfolioAnswer == PortfolioProjection(account)

\* ProjectedCashBalance and ProjectedPositionBalance: their validators.
ProjectionValid(a) == a.cash >= 0 /\ \A i \in DOMAIN a.units : a.units[i] >= 0

\* get_nav: the newest valuation, or a conflict when the ledger went on.
NavAnswer ==
    IF navs # <<>> /\ ValuationIsCurrent(navs[Len(navs)]) THEN navs[Len(navs)] ELSE None

\* RiskProjection: current is currently_authorized, as of now.
RiskProjection(d) ==
    [approved |-> d.approved,
     current |-> d.approved /\ d.at <= now /\ now < d.until /\ d.seq = account.seq]

\* get_risk: the newest decision.
RiskAnswer == IF decision = None THEN None ELSE RiskProjection(decision)

-----------------------------------------------------------------------------
BooksNext ==
    \/ Pass
    \/ \E p \in [Instrument -> Prices] : Mark(p)
    \/ \E v \in [Instrument -> [VotingStrategy -> Votes \cup {None}]] : BuildTarget(v)
    \/ RejectTarget \/ AuthorizeTarget \/ AuthorizeConflict
    \/ \E o \in Orders :
         \/ ExecuteWithoutBar(o)
         \/ Executable(o) /\ \E b \in NextBar(o) : ExecuteWithoutUnit(o, b)
         \/ Executable(o) /\ \E b \in NextBar(o) : ExecuteWithFill(o, b)
    \/ RecordNav
    \/ \E r \in Round : BuildOutcome(r)
    \/ \E t \in 1..MaxTime : Reflect(t)
    \/ \E r \in Round : AcceptReflection(r)

-----------------------------------------------------------------------------
(* Properties.                                                             *)

\* AccountReservation, ReservationMutation and consume_reservation.
ReservationValid(o) ==
    /\ o.left \in 0..o.amount /\ o.amount > 0
    /\ o.state = "open" => o.left = o.amount
    /\ o.state = "partially_consumed" => o.left > 0 /\ o.left < o.amount
    /\ o.state \in {"consumed", "released", "expired"} => o.left = 0

\* OrderEvent and ExecutionReceipt.
ReceiptValid(o) ==
    /\ o.filled \in 0..o.qty /\ o.qty > 0
    /\ o.status = "filled" <=> o.filled = o.qty
    /\ o.status = "partially_filled" => o.filled > 0
    /\ o.fill # None => o.fill.qty = o.filled /\ o.fill.price > 0
    /\ o.fill = None => o.filled = 0

\* What reservations hold is exactly what the projections say is reserved, and
\* never more than what is settled: the amounts that the risk gate, the broker
\* and the ledger round each in their own way never leave an account whose
\* CashBalance, PositionBalance or AccountReservation its validator refuses to
\* build, which would make the account unreadable.
RoundingsAgree ==
    /\ PaperAccountState(account)
    /\ \A o \in Placed : ReservationValid(orders[o]) /\ ReceiptValid(orders[o])
    /\ account.reserved = MapThenSumSet(LAMBDA o : orders[o].left, {o \in Placed : orders[o].side = "buy"})
    /\ \A i \in Positions : account.positions[i].held =
           MapThenSumSet(LAMBDA o : orders[o].left, {o \in Placed : orders[o].side = "sell" /\ o[2] = i})

\* What was bought of i never cost less than a quantum of cash for each quantum
\* of the instrument.
WellPaid(i) ==
    \A o \in Placed : o[2] = i /\ orders[o].side = "buy" /\ orders[o].fill # None =>
        Gross(orders[o].fill) >= orders[o].fill.qty

\* However the average cost of repeated sales was rounded, no unit that is left
\* is without a basis and no basis without a unit as long as each purchase cost
\* a quantum a unit, and a sale of any part can then be posted: it does not trip
\* the switch with "Sell cost basis is unavailable".  Of cheaper instruments a
\* small sale may be refused, but what was gained and paid in fees still
\* accounts for every quantum between the opening cash and the cash with the
\* inventory at cost.
BasisLasts ==
    /\ \A i \in Instrument :
         /\ ledger[ValueOf(i)] >= 0 /\ (ledger[UnitsOf(i)] = 0 => ledger[ValueOf(i)] = 0)
         /\ WellPaid(i) =>
              /\ ledger[ValueOf(i)] >= ledger[UnitsOf(i)]
              /\ \A q \in 1..ledger[UnitsOf(i)] : BasisAvailable([instrument |-> i, qty |-> q])
    /\ ledger[CashAccount] + MapThenSumSet(LAMBDA i : ledger[ValueOf(i)], Instrument)
         = OpeningCash - ledger[Pnl] - ledger[Fees]

\* Reads of different tables tell one story: a portfolio can be shown, a NAV that
\* get_nav still answers is the cash of the account and the fees of the ledger
\* with every open position in it that is worth a quantum, and a decision that get_risk shows as
\* currently authorized was made on an account that had the reservation of every
\* pending order: it has placed none itself.
ReadsAgree ==
    /\ ProjectionValid(PortfolioAnswer)
    /\ NavAnswer # None =>
         /\ NavAnswer.cash = account.settled /\ NavAnswer.fees = ledger[Fees]
         /\ NavAnswer.worth > 0 => \E i \in Positions : Units(i) > 0
         /\ (\E i \in Positions : Units(i) >= Scale) => NavAnswer.worth > 0
    /\ RiskAnswer # None => (RiskAnswer.current => \A o \in PendingOrders : orders[o].seq <= decision.seq)

\* A fill takes no more cash than its reservation still held, and brings the
\* position no further than the target its decision approved: what the broker
\* pays is rounded half even in the ledger and upwards in the reservation.
FillsStayWithinTheTarget ==
    [][\A o \in Placed :
         (orders'[o].fill # orders[o].fill) =>
             /\ account.settled - account'.settled <= (IF orders[o].side = "buy" THEN orders[o].left ELSE orders'[o].fill.fee)
             /\ Abs(account'.positions[o[2]].units - Units(o[2])) <= orders[o].qty]_bookVars

\* BooksAgree: what the risk gate, the broker and the ledger each round in their
\* own way stays one account that can be read, sold from and accounted for, and
\* a fill stays within what was approved and reserved for it.
BooksAgree == [](RoundingsAgree /\ BasisLasts /\ ReadsAgree) /\ FillsStayWithinTheTarget
=============================================================================

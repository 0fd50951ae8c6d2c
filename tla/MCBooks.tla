------------------------------ MODULE MCBooks ------------------------------
(* From the registry to the books, each on its own: a strategy that its      *)
(* owner and a peer review; and two instruments of one sector, one strategy, *)
(* prices of a few ticks, of which one is below a quantum of cash.           *)
EXTENDS Books, Strategy, TLC

CONSTANTS i1, i2, s1, c1, c2, d1, d2, e1, e2

MCWeightOf == [s \in VotingStrategy |-> Unit]
MCSectorOf == [i \in Instrument |-> "sector"]
MCClassOf == [i \in Instrument |-> IF i = i1 THEN "equity" ELSE "etf"]
MCDailyVolume == [i \in Instrument |-> 80]
MCPortfolio == [shrinkage |-> 10, maxWeight |-> 9, deadband |-> 1, penalty |-> 1, cost |-> 1]
MCRisk == [valid |-> 5, maxAge |-> 1, maxPending |-> 3, classes |-> {"equity", "etf"},
           maxSingle |-> 9, maxSector |-> 10, maxClass |-> 9, maxAdv |-> 5, maxGross |-> 10,
           minNet |-> 0, maxNet |-> 10, maxTurnover |-> 10, maxDrawdown |-> 5, maxLoss |-> 5]
MCExecution == [participation |-> 5, adverse |-> 1, impact |-> 1, fee |-> 1, minimumFee |-> 1]

MCAsOf == (d1 :> 0) @@ (d2 :> 1)
MCFailing == (d1 :> {}) @@ (d2 :> {"calibration"})
MCOwner == [s \in Strategies |-> "owner"]
MCMaxVersion == [s \in Strategies |-> 5]
Reviewer(subject, targets) ==
    [kind |-> "human", subject |-> subject, roles |-> {"strategy_reviewer"},
     identity |-> NoIdentity, targets |-> targets]
MCPrincipal ==
    (c1 :> Reviewer("owner", {})) @@ (c2 :> Reviewer("peer", {[kind |-> "strategy", id |-> s1]}))

\* Two decisions and no valuations; one decision that is evaluated; or three
\* decisions about one instrument, that may be bought for less than a quantum a
\* unit and is then worth more.  The first decision is made at
\* once; the mark of one instrument moves, the bars of both.
VARIABLE part

MCMarks == {8, 10}

Init ==
    /\ BooksInit /\ quote.price[i2] = 10 /\ RegistryInit
    /\ part \in {"trades", "values", "sales", "registry"}
    /\ quote.price[i1] = IF part \in {"trades", "sales"} THEN 8 ELSE 10

\* A fill of a few units at a bar of the marks' prices.
Ordinary(fill) == fill.qty <= 3 /\ fill.price >= 6

Trading ==
    /\ BooksNext
    /\ quote' # quote => quote'.price[i2] = 10 /\ quote'.price[i1] \in MCMarks
    /\ target' # target /\ round = 0 => now = 0
    /\ part \in {"trades", "sales"} => navs' = <<>>
    /\ part \in {"trades", "values"} =>
         /\ quote' # quote => now >= 2
         /\ now' <= 4 /\ (target' # None => round < 2 /\ now <= 3)
         /\ \A o \in Placed : orders'[o].fill # orders[o].fill => Ordinary(orders'[o].fill)
    /\ part = "values" =>
         /\ now' <= 3 /\ (target' # target => round = 0 /\ navs = <<>>)
         /\ outcome' # None /\ outcome'.reflection # None => outcome'.reflection.deadline <= 4
         /\ \A o \in Placed : orders'[o].fill # None => orders'[o].fill.qty <= 2
    /\ part = "sales" =>
         /\ quote' # quote => now \in {2, 4} /\ target = None
         /\ target' # None => now \in OpenTimes /\ DOMAIN target'.alloc = {i1}
         /\ orders' # orders => now \in {0, 2, 4, 6}
         /\ \A o \in Placed : orders'[o].fill # orders[o].fill => orders'[o].fill.at = now - 1
    /\ UNCHANGED registryVars

\* The ids of reports are interchangeable, so e1 is taken first; a report is
\* registered in the tick that made it; both callers move the strategy, up to
\* its suspension, the first one carries its signals, and its first use ends the behaviour.
Registering ==
    /\ used = None
    /\ RegistryNext
    /\ report'[e2] # None => report'[e1] # None
    /\ \A r \in Report : report'[r] # report[r] => report'[r].createdAt = dbNow
    /\ signal'[c2] = None
    /\ \A c \in Caller : loaded'[c] # None /\ loaded'[c].request # None =>
         loaded'[c].request.to # "retired"
    /\ UNCHANGED bookVars

Next ==
    /\ IF part = "registry" THEN Registering ELSE Trading
    /\ UNCHANGED part
Spec == Init /\ [][Next]_<<bookVars, registryVars, part>>
=============================================================================

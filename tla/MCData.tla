------------------------------- MODULE MCData -------------------------------
(* Company data of either market, quotes, recorded data and the page that    *)
(* shows them in the browser, each on its own.                              *)
EXTENDS OfficialData, Quotes, Replay, ConsolePage, TLC

CONSTANTS
    f1, f2,
    MaxWire     \* bound: requests of the research panel under way

VARIABLE part

\* The report of day 2 corrects that of day 0.
MCPeriodOf == [d \in 0 .. MaxTick |-> IF d = 1 THEN "second" ELSE "first"]
MCEndOf == ("first" :> 0) @@ ("second" :> 1)

MCFixtureAsOf == [f \in Fixtures |-> IF f = f1 THEN 1 ELSE 0]
MCFixtureState == [f \in Fixtures |-> IF f = f1 THEN "available" ELSE "stale"]
MCFixtureConflicts == [f \in Fixtures |-> FALSE]

Init ==
    /\ OfficialInit /\ QuoteInit
    /\ ReplayInit
    /\ part \in {"US", "TW", "quotes", "replay", "panel", "chart", "form"}
    /\ PageInit
    /\ part # "chart" => market.sel = CHOOSE s \in Selections : TRUE
    /\ part # "replay" => files = [f \in Fixtures |-> "recorded"]

Next ==
    \/ /\ part \in Markets /\ OfficialNext
       /\ \A c \in Callers : calls'[c].market \in {"none", part}
       /\ UNCHANGED <<quoteVars, replayVars, pageVars, part>>
    \/ part = "quotes" /\ QuoteNext /\ UNCHANGED <<officialVars, replayVars, pageVars, part>>
    \/ part = "replay" /\ ReplayNext /\ UNCHANGED <<officialVars, quoteVars, pageVars, part>>
    \/ /\ \/ part = "panel" /\ PanelNext /\ Cardinality(wire') <= MaxWire
          \/ part = "chart" /\ ChartNext
          \/ part = "form" /\ FormNext
       /\ UNCHANGED <<officialVars, quoteVars, replayVars, part>>

Spec == Init /\ [][Next]_<<officialVars, quoteVars, replayVars, pageVars, part>>
=============================================================================

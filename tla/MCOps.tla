------------------------------- MODULE MCOps -------------------------------
(* What runs around the platform, each on its own: the community platform,   *)
(* the in-memory cycle, the local console and the parity of the backtest     *)
(* engines.                                                                  *)
EXTENDS Platform, LocalRun, ConsoleRuns, ConsoleServe, Backtest, TLC

CONSTANTS a1, a2, c1, c2, k1, k2, k3, s1, s2, w1, w2

VARIABLE part

MCReputation == [a \in Authors |-> IF a = a1 THEN 2 ELSE 1]

\* Requests of two accounts; one key is used twice, one request sees the future.
MCRequests == {
    [key |-> k1, account |-> w1, symbol |-> s1, eligible |-> TRUE, future |-> FALSE],
    [key |-> k2, account |-> w1, symbol |-> s2, eligible |-> TRUE, future |-> FALSE],
    [key |-> k3, account |-> w1, symbol |-> s1, eligible |-> TRUE, future |-> FALSE],
    [key |-> k2, account |-> w2, symbol |-> s1, eligible |-> TRUE, future |-> TRUE]}

Bar(opens, open, volume, tradable) ==
    [opens |-> opens, closes |-> opens + 1, open |-> open, volume |-> volume, tradable |-> tradable]
MCSessions == <<[opens |-> 1, closes |-> 3], [opens |-> 5, closes |-> 7]>>
MCBarSets == {<<Bar(1, 20, 4, TRUE), Bar(2, 22, 2, t), Bar(5, 20, 4, TRUE)>> : t \in BOOLEAN}
\* Orders of the first morning, and orders issued late that may miss every session.
MCOrderShapes ==
    [side : {"buy", "sell"}, limit : {None, 21}, qty : {1, 3}, tif : {"day", "gtc", "ioc"}, issued : {0}, until : {6}]
      \cup [side : {"buy"}, limit : {None}, qty : {3}, tif : {"day", "gtc", "ioc"}, issued : {1, 3}, until : {4, 6}]

ServeOff == withResearch = FALSE /\ withPaper = FALSE
OneJob == CHOOSE j \in [bars : BarSets, orders : [1..1 -> OrderShapes], cash : OpeningCash] : TRUE
BacktestOff == job = OneJob /\ parityTime = 0 /\ turn = 1 /\ engine = NoEngine /\ results = <<>> /\ parity = None

Init ==
    /\ part \in {"feedback", "events", "local", "console", "serve", "settings", "parity"}
    /\ PlatformInit /\ LocalInit /\ ConsoleInit
    /\ ServeInit /\ (part # "serve" => ServeOff)
    /\ SettingInit /\ (part # "settings" => baseline = None)
    /\ IF part = "parity" THEN BacktestInit ELSE BacktestOff

Next ==
    \/ /\ (part = "feedback" \/ part = "events") /\ PlatformNext
       /\ part = "feedback" =>
            /\ pcall'[c2] = Idle /\ pcall'[c1].op # "events"
            /\ \A r \in ToSet(feed') : ~(r.agrees /\ r.injected)
       /\ part = "events" => platTime' = 0 /\ \A c \in PCallers : pcall'[c].op # "publish"
       /\ UNCHANGED <<localVars, consoleVars, serveVars, settingVars, backtestVars, part>>
    \/ /\ part = "local" /\ LocalNext
       /\ UNCHANGED <<platformVars, consoleVars, serveVars, settingVars, backtestVars, part>>
    \/ /\ part = "console" /\ ConsoleNext
       /\ UNCHANGED <<platformVars, localVars, serveVars, settingVars, backtestVars, part>>
    \/ /\ part = "serve" /\ ServeNext
       /\ UNCHANGED <<platformVars, localVars, consoleVars, settingVars, backtestVars, part>>
    \/ /\ part = "settings" /\ SettingNext
       /\ UNCHANGED <<platformVars, localVars, consoleVars, serveVars, backtestVars, part>>
    \/ /\ part = "parity" /\ BacktestNext
       /\ UNCHANGED <<platformVars, localVars, consoleVars, serveVars, settingVars, part>>

vars == <<platformVars, localVars, consoleVars, serveVars, settingVars, backtestVars, part>>

Spec == Init /\ [][Next]_vars

\* ConsoleHolds: the local console starts one run at a time and tells its browsers
\* one story of it, calls no service ready that had fallen before it was asked, leaves
\* behind only what could not be stopped or what an interrupted step made, and numbers
\* its model settings so that a number names one of them.
ConsoleHolds == OneRunAtATime /\ StreamIsTheRun /\ NothingIsLeft /\ ConsoleTellsTheTruth
                /\ GenerationNamesTheView
=============================================================================

----------------------------- MODULE ConsolePage -----------------------------
(***************************************************************************)
(* The console in the browser (gui/assets/research.js, terminal.js and     *)
(* settings.js): one thread, but every await lets other clicks, answers    *)
(* and stream events in.  An action is what runs between two awaits.       *)
(* A request is answered from the server's state of some moment and its    *)
(* answer arrives at a later one, in any order.                            *)
(***************************************************************************)
EXTENDS Naturals, FiniteSets, Nothing

CONSTANTS
    PageRuns,       \* runs the server may be asked to start
    Selections,     \* symbol, interval and range of a chart
    MaxSerial,      \* bound: starts and openings, and loads of a chart
    MaxFlips        \* bound: how often the research service comes and goes

\* No run is called "failed", and None is no EventSource.
ASSUME PageAssumption ==
    /\ "failed" \notin PageRuns
    /\ None \notin [serial : Nat, run : PageRuns, state : {"open", "refused"}]

VARIABLES
    server,     \* [runs, ready, generation, flips]
    wire,       \* requests and answers under way
    research,   \* research.js `state'
    panel,      \* what the research panel shows
    source,     \* the EventSource, or None
    past,       \* the history list on the page: pairs of run and status
    market,     \* terminal.js `state'
    settings    \* settings.js `state'

pageVars == <<server, wire, research, panel, source, past, market, settings>>

Active == {"queued", "running"}
PageAsks(kind, serial, subject) == [kind |-> kind, serial |-> serial, of |-> subject, result |-> None]

PageInit ==
    /\ server = [runs |-> [r \in PageRuns |-> "absent"], ready |-> TRUE, generation |-> 1, flips |-> 0]
    /\ wire = {PageAsks("capabilities", 0, None)}
    /\ research = [serial |-> 0, run |-> None, busy |-> FALSE, ready |-> FALSE, hasResult |-> FALSE]
    /\ panel = [view |-> "empty", detail |-> None, cards |-> None]
    /\ source = None /\ past = {}
    /\ market \in [sel : Selections, serial : {0}, loading : {FALSE}, view : {None}]
    /\ settings = [busy |-> FALSE, shown |-> None]

-----------------------------------------------------------------------------
(* The server and the network.                                             *)

RunMoves(r) ==
    /\ \/ server.runs[r] = "queued" /\ server' = [server EXCEPT !.runs[r] = "running"]
       \/ server.runs[r] = "running" /\ server' = [server EXCEPT !.runs[r] = "finished"]
    /\ UNCHANGED <<wire, research, panel, source, past, market, settings>>

ServiceFlips ==
    /\ server.flips < MaxFlips
    /\ server' = [server EXCEPT !.ready = ~@, !.flips = @ + 1]
    /\ UNCHANGED <<wire, research, panel, source, past, market, settings>>

PageAnswered(q, answer) == wire' = (wire \ {q}) \cup {[q EXCEPT !.result = [ok |-> TRUE, data |-> answer]]}
PageFailed(q) == wire' = (wire \ {q}) \cup {[q EXCEPT !.result = [ok |-> FALSE]]}

\* A run is created unless one is active; the answer of one that is created
\* may be lost.
PostRun(q) ==
    \/ /\ \A r \in PageRuns : server.runs[r] \notin Active
       /\ \E r \in PageRuns :
            /\ server.runs[r] = "absent"
            /\ server' = [server EXCEPT !.runs[r] = "queued"]
            /\ PageAnswered(q, r) \/ PageFailed(q)
    \/ PageFailed(q) /\ UNCHANGED server

\* The model settings are replaced or removed: a new generation.
ChangeModel(q) ==
    \/ server' = [server EXCEPT !.generation = @ + 1] /\ (PageAnswered(q, server.generation + 1) \/ PageFailed(q))
    \/ PageFailed(q) /\ UNCHANGED server

\* What the server answers a read with.
ReadBy(q) ==
    CASE q.kind \in {"detail", "open"} -> server.runs[q.of]
      [] q.kind = "list" -> {<<r, server.runs[r]>> : r \in {s \in PageRuns : server.runs[s] # "absent"}}
      [] q.kind = "capabilities" -> [ready |-> server.ready, generation |-> server.generation]
      [] OTHER -> q.of

PageServe(q) ==
    /\ q \in wire /\ q.result = None
    /\ CASE q.kind = "post" -> PostRun(q)
         [] q.kind = "change" -> ChangeModel(q)
         [] OTHER -> (PageAnswered(q, ReadBy(q)) \/ PageFailed(q)) /\ UNCHANGED server
    /\ UNCHANGED <<research, panel, source, past, market, settings>>

Arrived(q) == q \in wire /\ q.result # None

-----------------------------------------------------------------------------
(* research.js                                                             *)

\* `if (serial !== state.serial) return'
SerialIsCurrent(q) == q.serial = research.serial

\* finish: the history and the capabilities are read again.
Finishing == {PageAsks("list", 0, None), PageAsks("capabilities", 0, None)}

\* start, when it is ready and not busy.
StartResearch ==
    /\ research.ready /\ ~research.busy /\ research.serial < MaxSerial
    /\ research' = [research EXCEPT !.serial = @ + 1, !.run = None, !.busy = TRUE, !.hasResult = FALSE]
    /\ panel' = [panel EXCEPT !.view = "progress"]
    /\ wire' = wire \cup {PageAsks("post", research.serial + 1, None)}
    /\ UNCHANGED <<server, source, past, market, settings>>

\* finishFailure.  The cards of the evidence are left as they are.
FinishFailure(q) ==
    /\ research' = [research EXCEPT !.busy = FALSE, !.hasResult = TRUE]
    /\ panel' = [panel EXCEPT !.view = "results", !.detail = "failed"]
    /\ wire' = (wire \ {q}) \cup Finishing
    /\ UNCHANGED source

Dropped(q) ==
    /\ wire' = wire \ {q}
    /\ UNCHANGED <<research, panel, source>>

\* renderProgress with stream: the run's events are followed.
FollowRun(q, r) ==
    /\ research' = [research EXCEPT !.run = r]
    /\ panel' = [panel EXCEPT !.view = "progress"]
    /\ source' = [serial |-> q.serial, run |-> r, state |-> "open"]
    /\ wire' = wire \ {q}

\* renderDetail, loadEvidence and finish.
RenderDetail(q) ==
    /\ research' = [research EXCEPT !.busy = FALSE, !.hasResult = TRUE]
    /\ panel' = [view |-> "results", detail |-> q.of, cards |-> None]
    /\ wire' = (wire \ {q}) \cup Finishing \cup {PageAsks("evidence", q.serial, q.of)}
    /\ UNCHANGED source

PostAnswered(q) ==
    /\ Arrived(q) /\ q.kind = "post"
    /\ IF ~SerialIsCurrent(q) THEN Dropped(q)
       ELSE IF q.result.ok THEN FollowRun(q, q.result.data) ELSE FinishFailure(q)
    /\ UNCHANGED <<server, past, market, settings>>

\* The detail of a run that ended, or of one opened from the history.
DetailAnswered(q) ==
    /\ Arrived(q) /\ q.kind \in {"detail", "open"}
    /\ IF ~SerialIsCurrent(q) THEN Dropped(q)
       ELSE IF ~q.result.ok THEN FinishFailure(q)
       ELSE IF q.kind = "open" /\ q.result.data \in Active THEN FollowRun(q, q.of)
       ELSE RenderDetail(q)
    /\ UNCHANGED <<server, past, market, settings>>

EvidenceAnswered(q) ==
    /\ Arrived(q) /\ q.kind = "evidence"
    /\ panel' = IF SerialIsCurrent(q) /\ q.result.ok THEN [panel EXCEPT !.cards = q.of] ELSE panel
    /\ wire' = wire \ {q}
    /\ UNCHANGED <<server, research, source, past, market, settings>>

\* consume: the stream is closed at a terminal event and the detail is read.
StreamEvent ==
    /\ source # None /\ source.state = "open" /\ source.serial = research.serial
    /\ panel' = [panel EXCEPT !.view = "progress"]
    /\ IF server.runs[source.run] \in Active THEN UNCHANGED <<source, wire>>
       ELSE source' = None /\ wire' = wire \cup {PageAsks("detail", source.serial, source.run)}
    /\ UNCHANGED <<server, research, past, market, settings>>

\* An answer that is no event stream ends an EventSource for good; onerror
\* cannot tell it from a lost connection, which the browser opens again.
StreamRefused ==
    /\ source # None /\ source.state = "open"
    /\ source' = [source EXCEPT !.state = "refused"]
    /\ UNCHANGED <<server, wire, research, panel, past, market, settings>>

\* openHistory: another run is followed or shown; the stream is closed.
OpenHistory(r, status) ==
    /\ <<r, status>> \in past /\ research.serial < MaxSerial
    /\ research' = [research EXCEPT !.serial = @ + 1, !.run = r, !.busy = (status \in Active)]
    /\ source' = None
    /\ wire' = wire \cup {PageAsks("open", research.serial + 1, r)}
    /\ UNCHANGED <<server, panel, past, market, settings>>

\* loadHistory: the newest answer to arrive is shown.
ListAnswered(q) ==
    /\ Arrived(q) /\ q.kind = "list"
    /\ past' = IF q.result.ok THEN q.result.data ELSE {}
    /\ wire' = wire \ {q}
    /\ UNCHANGED <<server, research, panel, source, market, settings>>

-----------------------------------------------------------------------------
(* terminal.js and settings.js                                             *)

\* loadCapabilities: at start, every 30 seconds, when research ends and when
\* the settings changed.
LoadCapabilities ==
    /\ PageAsks("capabilities", 0, None) \notin wire
    /\ wire' = wire \cup {PageAsks("capabilities", 0, None)}
    /\ UNCHANGED <<server, research, panel, source, past, market, settings>>

\* configure of research.js (with unavailable) and of settings.js.
CapabilitiesAnswered(q) ==
    LET ready == q.result.ok /\ q.result.data.ready
    IN  /\ Arrived(q) /\ q.kind = "capabilities"
        /\ research' = [research EXCEPT !.ready = ready]
        /\ panel' = IF ~ready \/ (~research.busy /\ ~research.hasResult)
                    THEN [panel EXCEPT !.view = "empty"] ELSE panel
        /\ settings' = [settings EXCEPT !.shown = IF q.result.ok THEN q.result.data.generation ELSE None]
        /\ wire' = (wire \ {q}) \cup (IF ready THEN {PageAsks("list", 0, None)} ELSE {})
        /\ UNCHANGED <<server, source, past, market>>

\* loadSymbol by the user, or quietly by autoRefresh for what is selected.
LoadSymbol(sel, quiet) ==
    /\ quiet => sel = market.sel /\ ~market.loading
    /\ market.serial < MaxSerial
    /\ market' = [sel |-> sel, serial |-> market.serial + 1, loading |-> TRUE,
                  view |-> IF quiet THEN market.view ELSE None]
    /\ wire' = wire \cup {PageAsks(IF quiet THEN "quiet_bars" ELSE "bars", market.serial + 1, sel)}
    /\ UNCHANGED <<server, research, panel, source, past, settings>>

\* Mutant: the chart shows whatever arrives.
AnyBars(q) == TRUE

IsSelected(q) == q.serial = market.serial /\ q.of = market.sel

\* A quiet load that failed leaves the last view.
BarsAnswered(q) ==
    /\ Arrived(q) /\ q.kind \in {"bars", "quiet_bars"}
    /\ market' = IF ~IsSelected(q) THEN market
                 ELSE [market EXCEPT !.loading = FALSE,
                                     !.view = IF q.result.ok THEN q.of
                                              ELSE IF q.kind = "bars" THEN None ELSE @]
    /\ wire' = wire \ {q}
    /\ UNCHANGED <<server, research, panel, source, past, settings>>

\* save and clearSettings.
ChangeSettings ==
    /\ ~settings.busy /\ settings.shown # None
    /\ server.generation < MaxSerial
    /\ settings' = [settings EXCEPT !.busy = TRUE]
    /\ wire' = wire \cup {PageAsks("change", 0, None)}
    /\ UNCHANGED <<server, research, panel, source, past, market>>

ChangeAnswered(q) ==
    /\ Arrived(q) /\ q.kind = "change"
    /\ settings' = [busy |-> FALSE, shown |-> IF q.result.ok THEN q.result.data ELSE settings.shown]
    /\ wire' = (wire \ {q}) \cup (IF q.result.ok THEN {PageAsks("capabilities", 0, None)} ELSE {})
    /\ UNCHANGED <<server, research, panel, source, past, market>>

PanelNext ==
    \/ \E r \in PageRuns : RunMoves(r)
    \/ StartResearch \/ StreamEvent \/ StreamRefused
    \/ \E r \in PageRuns, status \in Active \cup {"finished"} : OpenHistory(r, status)
    \/ \E q \in wire : PageServe(q) \/ PostAnswered(q) \/ DetailAnswered(q) \/ EvidenceAnswered(q)
                         \/ ListAnswered(q) \/ CapabilitiesAnswered(q)
ChartNext ==
    \/ \E sel \in Selections, quiet \in BOOLEAN : LoadSymbol(sel, quiet)
    \/ \E q \in wire : PageServe(q) \/ BarsAnswered(q)
FormNext ==
    \/ ServiceFlips \/ LoadCapabilities \/ ChangeSettings
    \/ \E q \in wire : PageServe(q) \/ ChangeAnswered(q) \/ CapabilitiesAnswered(q) \/ ListAnswered(q)

PageNext == PanelNext \/ ChartNext \/ FormNext
PageSpec == PageInit /\ [][PageNext]_pageVars

-----------------------------------------------------------------------------
(* Properties.                                                             *)

\* What is on the page belongs together, however late the answers come: the
\* evidence cards are those of the run whose conclusions are shown, that run
\* is the one last asked for unless its successor's answer is still to come,
\* and the chart is the selected one.
ShownIsAskedFor ==
    /\ panel.detail \in PageRuns =>
         /\ panel.cards \in {None, panel.detail}
         /\ panel.view = "results" =>
              \/ panel.detail = research.run
              \/ \E q \in wire : q.serial = research.serial /\ q.kind \in {"post", "open"}
    /\ market.view \in {None, market.sel}

\* A page that says it is busy has something under way that ends it: an
\* answer to its own last request, or a stream it still listens to (one that
\* the server refused is the exception, see StreamRefused).
BusyEnds ==
    /\ research.busy =>
         \/ \E q \in wire : q.serial = research.serial /\ q.kind \in {"post", "detail", "open"}
         \/ source # None /\ source.serial = research.serial /\ source.run = research.run
    /\ market.loading => \E q \in wire : q.serial = market.serial /\ q.kind \in {"bars", "quiet_bars"}
    /\ settings.busy => \E q \in wire : q.kind = "change"

\* PageHolds: the page shows what was asked for last, and is busy only while
\* something is under way that ends it.
PageHolds == ShownIsAskedFor /\ BusyEnds
=============================================================================

------------------------------ MODULE Strategy ------------------------------
(***************************************************************************)
(* The way of a strategy from its registration to a portfolio target:      *)
(* evaluation reports (application/evaluation), the registry with its      *)
(* compare-and-swap transitions and audit events                           *)
(* (adapters/postgres/strategy_repository.py, the triggers of migration    *)
(* 0009), the alpha signals (application/signals) and the targets built    *)
(* from them (application/portfolio).                                      *)
(*                                                                         *)
(* A caller is a use case of application/strategies/manage.py or a step of *)
(* the paper cycle.  It reads a registry row in one statement and uses it  *)
(* in later ones: `loaded' is that row, which the SQL session's identity map (or *)
(* the command that carries a StrategyRegistryEntry) keeps as it was.      *)
(* An update holds the row's lock until its commit, and events of a        *)
(* strategy are inserted under it, so each of the other steps is one       *)
(* action.                                                                 *)
(*                                                                         *)
(* What an evaluation finds is a function of its data: the hash of a       *)
(* report leaves out its id and its validity, so it is the pair of the     *)
(* strategy and the data.                                                  *)
(***************************************************************************)
EXTENDS Integers, Sequences, SequencesExt, Access, Nothing

CONSTANTS
    Strategies,   \* registered identities (strategy_id, strategy_version)
    Report,       \* ids of evaluation reports
    Data,         \* dataset snapshots
    Caller,       \* principals with a use case under way
    AsOf,         \* [Data -> Nat], dataset.as_of
    Failing,      \* [Data -> SUBSET EvaluationCheckKind], what the gate finds
    Owner,        \* [Strategies -> subject], manifest.owner
    Deployment,   \* deployment_state of the forecast mapper's configuration
    Principal,    \* [Caller -> principal]
    ValidFor,     \* report_valid_days
    StaleAfter,   \* stale_minutes
    ExpiresAfter, \* expires_minutes
    MaxVersion,   \* [Strategies -> Nat], bound of a row's version
    MaxDbNow      \* bound of the clock

EvaluationCheckKind == {"point_in_time", "leakage", "survivorship", "reproducibility",
    "baseline_comparison", "cost_sensitivity", "drawdown", "calibration", "overfitting"}
PromotionState == {"draft", "evaluating", "rejected", "shadow", "paper_eligible",
                   "suspended", "retired"}

ASSUME StrategyAssumption ==
    /\ None \notin Report
    /\ AsOf \in [Data -> Nat]
    /\ Failing \in [Data -> SUBSET EvaluationCheckKind]
    /\ Deployment \in {"shadow", "paper_eligible"}
    /\ {ValidFor, StaleAfter, ExpiresAfter} \subseteq Nat \ {0}
    /\ MaxVersion \in [Strategies -> Nat \ {0}]
    /\ StaleAfter < ExpiresAfter
    /\ MaxDbNow \in Nat
    /\ \A c \in Caller : WellFormed(Principal[c])

VARIABLES
    dbNow,      \* the database's clock
    row,      \* [Strategies -> RegistryRow]
    events,   \* [Strategies -> Seq(AuditEvent)]
    report,   \* [Report -> ReportRow], the rows of strategy_evaluation_report
    loaded,  \* [Caller -> the row it read and the transition it validated, or None]
    signal,   \* [Caller -> the alpha signal it carries, or None]
    used      \* the last use of a signal, a decision or a target; None before

registryVars == <<dbNow, row, events, report, loaded, signal, used>>

ReportId == Report \cup {None}
StrategyKind == {"opinion_mapper", "forecast_mapper"}
RegistryRow == [kind: StrategyKind, state: PromotionState, report: ReportId, version: Nat,
                updatedAt: Nat]
AuditEvent == [from: PromotionState \cup {"none"}, to: PromotionState,
               report: ReportId, at: Nat]
ReportRow == [strategy: Strategies, data: Data, passed: BOOLEAN, calibrated: BOOLEAN,
              createdAt: Nat, validUntil: Nat]
Request == [to: PromotionState, report: ReportId]
Seen == [strategy: Strategies, row: RegistryRow, request: Request \cup {None}]
Signal == [strategy: Strategies, report: Report, generatedAt: Nat]
Use == [by: {"decision", "target"}, strategy: Strategies, report: Report,
        generatedAt: Nat, asOf: Nat]

Unregistered == [kind |-> "opinion_mapper", state |-> "draft", report |-> None,
                 version |-> 0, updatedAt |-> 0]

RegistryTypeOK ==
    /\ dbNow \in 0..MaxDbNow
    /\ row \in [Strategies -> RegistryRow]
    /\ events \in [Strategies -> Seq(AuditEvent)]
    /\ \A r \in Report : report[r] \in ReportRow \cup {None}
    /\ \A c \in Caller : loaded[c] \in Seen \cup {None} /\ signal[c] \in Signal \cup {None}
    /\ used \in Use \cup {None}

-----------------------------------------------------------------------------
(* The registry's rules.                                                   *)

\* _ALLOWED_TRANSITIONS, and the same list in the trigger.
Allowed ==
    [draft          |-> {"evaluating"},
     evaluating     |-> {"rejected", "shadow"},
     rejected       |-> {},
     shadow         |-> {"paper_eligible"},
     paper_eligible |-> {"suspended", "retired"},
     suspended      |-> {"evaluating", "retired"},
     retired        |-> {}]
CanTransition(from, to) == to \in Allowed[from]

\* StrategyTransitionRequest.validate_transition.
ValidRequest(from, to, r) ==
    /\ CanTransition(from, to)
    /\ to \in {"rejected", "shadow", "paper_eligible"} => r # None

Registered(s) == row[s].version > 0
HashOf(rep) == <<rep.strategy, rep.data>>

\* list_events: the chain is unbroken.  A link is the event before it.
EventsAreLinked(log) ==
    \A i \in DOMAIN log : log[i].from = IF i = 1 THEN "none" ELSE log[i - 1].to

\* _validate_current_audit: the row that was read is what the last event says.
CurrentAudit(s, entry) ==
    /\ events[s] # <<>> /\ EventsAreLinked(events[s])
    /\ Len(events[s]) = entry.version
    /\ Last(events[s]).to = entry.state
    /\ Last(events[s]).report = entry.report

\* _evaluation_allows_target.
EvaluationAllows(rep, to, at) ==
    CASE to \in {"shadow", "paper_eligible"} -> rep.passed /\ rep.validUntil > at
      [] to = "rejected" -> ~rep.passed
      [] OTHER -> TRUE

\* _resolve_transition_evaluation: the report named by the request, bound to s.
Resolves(s, r) == r # None => report[r] # None /\ report[r].strategy = s

\* _apply_transition_update: the row the request names, or no row.
Swapped(s, entry, to, r) ==
    [kind |-> entry.kind, state |-> to, report |-> IF r = None THEN entry.report ELSE r,
     version |-> entry.version + 1, updatedAt |-> dbNow]

\* Mutant: the trigger trusts the report's validity to the validation before it.
TriggerAcceptsUndated(s, new) ==
    /\ new.version = row[s].version + 1
    /\ CanTransition(row[s].state, new.state)
    /\ new.report # None => report[new.report] # None /\ report[new.report].strategy = s

\* validate_strategy_registry_mutation, the trigger, on an update to new.
TriggerAccepts(s, new) ==
    /\ new.version = row[s].version + 1
    /\ CanTransition(row[s].state, new.state)
    /\ new.state \in PromotionState \ {"draft", "evaluating"} => new.report # None
    /\ new.report # None =>
         /\ report[new.report] # None /\ report[new.report].strategy = s
         /\ new.state \in {"shadow", "paper_eligible"} =>
              report[new.report].passed /\ report[new.report].validUntil > dbNow

\* _new_event, _event_row.
EventOf(from, new) == [from |-> from, to |-> new.state, report |-> new.report, at |-> dbNow]

\* require_strategy_audit_event, the deferred trigger, and validate_strategy_audit_chain.
EventMatches(s, e, new) ==
    /\ Len(events[s]) + 1 = new.version
    /\ e.from = IF new.version = 1 THEN "none" ELSE row[s].state
    /\ e.to = new.state /\ e.report = new.report /\ e.at = new.updatedAt

\* _authorize_strategy.
MayAccess(c, permission, s) ==
    AuthorizedOwner(Principal[c], permission, [kind |-> "strategy", id |-> s], Owner[s])

-----------------------------------------------------------------------------
(* The repository's operations and the use cases around them.              *)

RegistryInit ==
    /\ dbNow = 0
    /\ row = [s \in Strategies |-> Unregistered]
    /\ events = [s \in Strategies |-> <<>>]
    /\ report = [r \in Report |-> None]
    /\ loaded = [c \in Caller |-> None]
    /\ signal = [c \in Caller |-> None]
    /\ used = None

DbTick ==
    /\ dbNow < MaxDbNow
    /\ dbNow' = dbNow + 1
    /\ UNCHANGED <<row, events, report, loaded, signal, used>>

\* register: a draft and the first event; a registered identity conflicts.
Register(s, kind) ==
    /\ ~Registered(s)
    /\ LET new == [Unregistered EXCEPT !.kind = kind, !.version = 1, !.updatedAt = dbNow]
       IN  /\ EventMatches(s, EventOf("none", new), new)
           /\ row' = [row EXCEPT ![s] = new]
           /\ events' = [events EXCEPT ![s] = <<EventOf("none", new)>>]
    /\ UNCHANGED <<dbNow, report, loaded, signal, used>>

\* What _checks and audit_dataset find in the data.  A data set that fails its
\* audit is refused; the other failures are recorded in the report.
Audited(d) == Failing[d] \cap {"point_in_time", "leakage", "survivorship"} = {}

\* evaluate_for_promotion: the report on d, made at the caller's created_at.
ReportOn(s, d, created) ==
    [strategy |-> s, data |-> d, passed |-> Failing[d] = {},
     calibrated |-> "calibration" \notin Failing[d],
     createdAt |-> created, validUntil |-> created + ValidFor]

\* register_evaluation: a report id and a hash are used once.
RegisterEvaluation(r, s, d, created) ==
    /\ Registered(s) /\ CurrentAudit(s, row[s])
    /\ Audited(d) /\ AsOf[d] <= created
    /\ report[r] = None
    /\ \A o \in Report :
         report[o] # None => HashOf(report[o]) # HashOf(ReportOn(s, d, created))
    /\ report' = [report EXCEPT ![r] = ReportOn(s, d, created)]
    /\ UNCHANGED <<dbNow, row, events, loaded, signal, used>>

\* _get_row: the first statement of every use case.
Get(c, s) ==
    /\ Registered(s)
    /\ MayAccess(c, "read", s)
    /\ loaded' = [loaded EXCEPT ![c] = [strategy |-> s, row |-> row[s], request |-> None]]
    /\ UNCHANGED <<dbNow, row, events, report, signal, used>>

\* transition, up to its update: the request expects the row that was read.
ValidateTransition(c, to, r) ==
    /\ loaded[c] # None /\ loaded[c].request = None
    /\ LET s == loaded[c].strategy
           entry == loaded[c].row
       IN  /\ MayAccess(c, "review_strategy", s)
           /\ entry.version < MaxVersion[s]
           /\ CurrentAudit(s, entry)
           /\ ValidRequest(entry.state, to, r)
           /\ Resolves(s, r)
           /\ r # None => EvaluationAllows(report[r], to, dbNow)
    /\ loaded' = [loaded EXCEPT ![c].request = [to |-> to, report |-> r]]
    /\ UNCHANGED <<dbNow, row, events, report, signal, used>>

\* The WHERE of _apply_transition_update.
Precondition(s, entry) == row[s].version = entry.version /\ row[s].state = entry.state

\* _apply_transition_update and _append_transition_event, in one transaction
\* that holds the row; a refusal leaves nothing.
ApplyTransition(c) ==
    /\ loaded[c] # None /\ loaded[c].request # None
    /\ LET s == loaded[c].strategy
           entry == loaded[c].row
           new == Swapped(s, entry, loaded[c].request.to, loaded[c].request.report)
           event == EventOf(entry.state, new)
           accepted == /\ Precondition(s, entry) /\ TriggerAccepts(s, new)
                       /\ EventMatches(s, event, new)
       IN  IF accepted
           THEN /\ row' = [row EXCEPT ![s] = new]
                /\ events' = [events EXCEPT ![s] = Append(@, event)]
                /\ loaded' = [loaded EXCEPT ![c] = [strategy |-> s, row |-> new, request |-> None]]
           ELSE /\ loaded' = [loaded EXCEPT ![c] = None]
                /\ UNCHANGED <<row, events>>
    /\ UNCHANGED <<dbNow, report, signal, used>>

-----------------------------------------------------------------------------
(* Signals, eligibility and targets.                                       *)

\* The report bound to the entry a command carries, passed and not out of date.
Bound(entry, s) ==
    /\ entry.report # None
    /\ report[entry.report].strategy = s
    /\ report[entry.report].passed

SignalOf(s, entry) == [strategy |-> s, report |-> entry.report, generatedAt |-> dbNow]

\* map_opinion_to_alpha, _binding_error.
MapOpinion(c) ==
    /\ loaded[c] # None
    /\ LET s == loaded[c].strategy
           entry == loaded[c].row
       IN  /\ entry.kind = "opinion_mapper"
           /\ entry.state = "paper_eligible"
           /\ Bound(entry, s) /\ report[entry.report].validUntil > dbNow
           /\ signal' = [signal EXCEPT ![c] = SignalOf(s, entry)]
    /\ UNCHANGED <<dbNow, row, events, report, loaded, used>>

\* map_kronos_to_alpha, _binding_error: in the state its configuration deploys.
MapKronosForecast(c) ==
    /\ loaded[c] # None
    /\ LET s == loaded[c].strategy
           entry == loaded[c].row
       IN  /\ entry.kind = "forecast_mapper"
           /\ entry.state = Deployment
           /\ Bound(entry, s) /\ report[entry.report].validUntil > dbNow
           /\ report[entry.report].calibrated
           /\ signal' = [signal EXCEPT ![c] = SignalOf(s, entry)]
    /\ UNCHANGED <<dbNow, row, events, report, loaded, used>>

\* evaluate_signal_eligibility, _ineligibility_reason.
Eligible(sig, entry, at) ==
    /\ at < sig.generatedAt + ExpiresAfter /\ at < sig.generatedAt + StaleAfter
    /\ entry.state = "paper_eligible"
    /\ Bound(entry, sig.strategy) /\ report[entry.report].validUntil > at
    /\ sig.report = entry.report

UseOf(by, sig, at) ==
    [by |-> by, strategy |-> sig.strategy, report |-> sig.report,
     generatedAt |-> sig.generatedAt, asOf |-> at]

\* check_signal_eligibility: get and get_evaluation validate the row that was
\* read against the events of this moment.
DecidesEligible(c) ==
    /\ loaded[c] # None /\ signal[c] # None
    /\ loaded[c].strategy = signal[c].strategy
    /\ CurrentAudit(loaded[c].strategy, loaded[c].row)
    /\ Eligible(signal[c], loaded[c].row, dbNow)

CheckSignalEligibility(c) ==
    /\ DecidesEligible(c)
    /\ used' = UseOf("decision", signal[c], dbNow)
    /\ UNCHANGED <<dbNow, row, events, report, loaded, signal>>

\* Mutant: an entry or a report of after the snapshot's as_of is not refused.
KnownAtSignalOnly(sig, entry, at) == sig.generatedAt <= at

\* _candidate_error: nothing a target rests on is later than its as_of.
KnownAt(sig, entry, at) ==
    /\ sig.generatedAt <= at
    /\ entry.updatedAt <= at /\ report[sig.report].createdAt <= at

\* build_target, on the entry that the command carries.
SelectSignals(c, at) ==
    /\ loaded[c] # None /\ signal[c] # None
    /\ loaded[c].strategy = signal[c].strategy
    /\ KnownAt(signal[c], loaded[c].row, at)
    /\ Eligible(signal[c], loaded[c].row, at)
    /\ used' = UseOf("target", signal[c], at)
    /\ UNCHANGED <<dbNow, row, events, report, loaded, signal>>

RegistryNext ==
    \/ DbTick
    \/ \E s \in Strategies, kind \in StrategyKind : Register(s, kind)
    \/ \E r \in Report, s \in Strategies, d \in Data, created \in 0..dbNow :
         RegisterEvaluation(r, s, d, created)
    \/ \E c \in Caller, s \in Strategies : Get(c, s)
    \/ \E c \in Caller, to \in PromotionState, r \in ReportId : ValidateTransition(c, to, r)
    \/ \E c \in Caller : ApplyTransition(c)
    \/ \E c \in Caller : MapOpinion(c) \/ MapKronosForecast(c) \/ CheckSignalEligibility(c)
    \/ \E c \in Caller, at \in 0..dbNow : SelectSignals(c, at)

RegistrySpec == RegistryInit /\ [][RegistryNext]_registryVars

-----------------------------------------------------------------------------
(* Properties.                                                             *)

\* The keys of strategy_evaluation_report: a report of a registered strategy,
\* and no two of one hash.
EvaluationTable ==
    \A r \in Report : report[r] # None =>
        /\ Registered(report[r].strategy)
        /\ \A q \in Report : report[q] # None /\ HashOf(report[q]) = HashOf(report[r]) => q = r

\* The keys of strategy_audit_event: the events of a registered strategy, one of
\* each sequence, the first without a link.
AuditTable(s) ==
    /\ ~Registered(s) => events[s] = <<>>
    /\ \A i \in DOMAIN events[s] : (i = 1) = (events[s][i].from = "none")

\* RegistryAudited: a registry row is what its audit events say, in every interleaving of
\* validations and updates: the chain is linked, the last event is the row, and
\* every promotion names a report of this strategy that had passed and was still
\* valid at the update, however long before it the validation was; and the rows
\* satisfy the constraints of their tables.
RegistryAudited ==
    /\ RegistryTypeOK
    /\ EvaluationTable
    /\ \A s \in Strategies :
         /\ AuditTable(s)
         /\ Registered(s) => CurrentAudit(s, row[s]) /\ row[s].updatedAt = Last(events[s]).at
         /\ \A i \in DOMAIN events[s] :
              LET e == events[s][i]
              IN  e.to \in {"shadow", "paper_eligible"} =>
                    /\ report[e.report].strategy = s /\ report[e.report].passed
                    /\ e.at < report[e.report].validUntil

\* UseIsBacked: nothing is traded on a strategy that was not promoted on
\* evidence that held: behind every decision and every target there is a
\* promotion of this strategy to paper_eligible, no later than the instant the
\* use speaks of, on the very report the signal carries, which had passed and was
\* valid both when it promoted and at that instant; and the signal was fresh
\* then.  And when check_signal_eligibility says yes, the strategy is
\* paper_eligible with that report at this moment, though the row was read
\* earlier and another caller may have suspended it since.
UseIsBacked ==
    /\ used # None =>
        /\ \E i \in DOMAIN events[used.strategy] :
             LET e == events[used.strategy][i]
             IN  /\ e.to = "paper_eligible" /\ e.report = used.report
                 /\ e.at <= used.asOf /\ e.at < report[used.report].validUntil
        /\ report[used.report].passed /\ report[used.report].strategy = used.strategy
        /\ used.asOf < report[used.report].validUntil
        /\ used.generatedAt <= used.asOf /\ used.asOf < used.generatedAt + StaleAfter
    /\ \A c \in Caller : DecidesEligible(c) =>
        /\ row[signal[c].strategy].state = "paper_eligible"
        /\ row[signal[c].strategy].report = signal[c].report
=============================================================================

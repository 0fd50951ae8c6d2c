---------------------------- MODULE PaperTrading ----------------------------
(***************************************************************************)
(* Paper trading: risk authorization that reserves what an order will use, *)
(* execution by the reference broker with its journal, reconciliation, and *)
(* the kill switches that stop it (application/{risk,execution,ledger,     *)
(* operations} over adapters/postgres/{trading_*,ledger_repository,        *)
(* paper_operations}).                                                     *)
(*                                                                         *)
(* An action is a transaction, or a part of one where other transactions   *)
(* can commit in between: PostgreSQL runs them READ COMMITTED.  An         *)
(* execution locks the switch rows first and the account row later; the    *)
(* ledger checks lock nothing and read with several statements.            *)
(*                                                                         *)
(* Cash and instruments are commodities counted in whole units.  An order  *)
(* and its reservation are created together and share a row here.  Hashes, *)
(* event chains and fees are left out; a fill's price stands for price and *)
(* fee together.  The clock is only the set of decisions that have expired.*)
(***************************************************************************)
EXTENDS Integers, Sequences, FiniteSets, FiniteSetsExt, Nothing

CONSTANTS
    Account,           \* paper accounts
    Instrument,        \* instruments
    Decision,          \* approved risk decisions
    Order,             \* order intents
    AccountOf,         \* [Decision -> Account]
    DecisionOf,        \* [Order -> Decision]; the orders of one are a batch
    InstrumentOf,      \* [Order -> Instrument]
    Side,              \* [Order -> {"buy", "sell"}]
    Qty,               \* [Order -> Nat], the authorized quantity
    Opening,           \* [Account -> [Commodity -> Nat]], the opening snapshot
    MarkPrice,         \* unit price when a decision is made
    Price,             \* unit prices a bar may have
    MaxPendingOrders,  \* policy.max_pending_orders
    MaxVersion,        \* bound: version of the global switch
    MaxActions,        \* bound: operator actions
    Checker,           \* the ledger checks that are run
    Fragile            \* accounts whose ledger rows may be damaged from outside

Cash == "cash"
Commodity == Instrument \cup {Cash}
Global == "global"
Scope == Account \cup {Global}

ASSUME OrderAssumption ==
    /\ AccountOf \in [Decision -> Account]
    /\ DecisionOf \in [Order -> Decision]
    /\ InstrumentOf \in [Order -> Instrument]
    /\ Side \in [Order -> {"buy", "sell"}]
    /\ Qty \in [Order -> Nat \ {0}]
    /\ Opening \in [Account -> [Commodity -> Nat]]
    \* batch_identity_is_valid: one order per instrument in a batch
    /\ \A o, p \in Order : DecisionOf[o] = DecisionOf[p] /\ InstrumentOf[o] = InstrumentOf[p] => o = p
ASSUME PriceAssumption == MarkPrice \in Nat \ {0} /\ Price \subseteq Nat \ {0}
ASSUME LimitAssumption ==
    /\ MaxPendingOrders \in Nat /\ MaxVersion \in Nat /\ MaxActions \in Nat
    /\ Fragile \subseteq Account
    /\ Checker \subseteq {"replay", "daily", "operator"}
ASSUME NameAssumption == Global \notin Account /\ Cash \notin Instrument /\ None \notin Order

VARIABLES
    account,    \* [Account -> [seq, ledger, projected]]: aggregate_sequence,
                \* ledger_sequence and the projections' updated_sequence
    balance,    \* [Account -> [Commodity -> [settled, reserved]]]
    order,      \* [Order -> row of the order and of its reservation]
    issued,     \* orders an execution command was built for
    receipts,   \* [Order -> the status its execution receipt states, or None]
    fills,      \* paper_fill rows
    journal,    \* journal_transaction rows
    switch,     \* [Scope -> paper_kill_switch row]; version 0 is no row
    actions,    \* paper_operator_action rows, in sequence
    exec,       \* the execution that holds the switch rows' locks, or None
    check,      \* [Checker -> a ledger check under way, or None]
    alarm,      \* failures that were rolled back and still have to trip the switch
    observed,   \* accounts for which a fresh all-clear of the switches is held
    expired,    \* decisions whose validity is over
    drift       \* accounts whose ledger rows were damaged

deskVars == <<account, balance, order, issued, receipts, fills, journal, switch,
          actions, exec, check, alarm, observed, expired, drift>>
books == <<account, balance, order, fills, journal, receipts>>

OrderStatus == {"absent", "created", "accepted", "partially_filled", "filled",
                "rejected", "cancelled", "expired"}
Pending == {"created", "accepted", "partially_filled"}

\* _TRANSITIONS: the statuses that may follow one.
Transition(status) ==
    CASE status = "created"          -> {"accepted", "rejected", "cancelled", "expired"}
      [] status = "accepted"         -> {"partially_filled", "filled", "cancelled", "expired"}
      [] status = "partially_filled" -> {"partially_filled", "filled", "cancelled", "expired"}
      [] OTHER                       -> {}

ReservationState == {"none", "open", "partially_consumed", "consumed", "released", "expired"}
Reason == {"ledger_invariant_mismatch", "ledger_reconciliation_failed"}
ActionType == {"activated", "reconciled", "reconciliation_failed", "resumed", "resume_rejected"}

\* The rows of the tables.
AccountRow == [seq: Nat, ledger: Nat, projected: Nat]
ProjectionRow == [settled: Nat, reserved: Nat]
OrderRow == [status: OrderStatus, filled: Nat, held: Nat,
             reservation: ReservationState, seq: Nat]
FillRow == [order: Order, qty: Nat, price: Nat]
JournalRow == [account: Account, seq: Nat, order: Order, qty: Nat, price: Nat]
SwitchRow == [active: BOOLEAN, version: Nat,
              reason: Reason \cup {"initialized", "operator", "resumed"}]
ActionRow == [type: ActionType, scope: Scope, version: Nat, cancelled: SUBSET Order]
ReceiptRow == OrderStatus \ {"absent", "created", "cancelled"}

DeskTypeOK ==
    /\ account \in [Account -> AccountRow]
    /\ balance \in [Account -> [Commodity -> ProjectionRow]]
    /\ order \in [Order -> OrderRow]
    /\ issued \subseteq Order
    /\ receipts \in [Order -> ReceiptRow \cup {None}]
    /\ fills \subseteq FillRow
    /\ journal \subseteq JournalRow
    /\ switch \in [Scope -> SwitchRow]
    /\ actions \in Seq(ActionRow)
    /\ exec \in [order: Order, seq: Nat] \cup {None}
    /\ check \in [Checker -> [account: Account, seq: Nat] \cup {None}]
    /\ alarm \subseteq Reason
    /\ observed \subseteq Account
    /\ expired \subseteq Decision
    /\ drift \subseteq Account

-----------------------------------------------------------------------------
(* Reading the books.                                                      *)

OrdersOf(d) == {o \in Order : DecisionOf[o] = d}
Owner(o) == AccountOf[DecisionOf[o]]
PendingOf(a) == {o \in Order : Owner(o) = a /\ order[o].status \in Pending}
AccountsIn(s) == IF s = Global THEN Account ELSE {s}

JournalOf(a) == {t \in journal : t.account = a}

\* What an order's reservation holds: cash to buy, units to sell.
HeldIn(o) == IF Side[o] = "buy" THEN Cash ELSE InstrumentOf[o]
ReserveAmount(o) == IF Side[o] = "buy" THEN Qty[o] * MarkPrice ELSE Qty[o]

Consumes(o, q, p) == IF Side[o] = "buy" THEN q * p ELSE q

OpenReservation(o) == order[o].reservation \in {"open", "partially_consumed"}
Stopped(a) == switch[Global].active \/ switch[a].active

\* The change of commodity c that a fill brings.
Moves(t, c) ==
    LET sign == IF Side[t.order] = "buy" THEN 1 ELSE -1
    IN  CASE c = Cash                  -> -sign * t.qty * t.price
          [] c = InstrumentOf[t.order] -> sign * t.qty
          [] OTHER                     -> 0

\* replay_journal: the opening snapshot and every posting after it.
Replayed(a, c) ==
    Opening[a][c] + MapThenSumSet(LAMBDA t : Moves(t, c), JournalOf(a))

\* _validate_fill_state: the order of a fill is filled to the sum of its fills.
FillStateKnown(f) ==
    /\ order[f.order].status \in {"partially_filled", "filled"}
    /\ order[f.order].filled = MapThenSumSet(LAMBDA g : g.qty, {g \in fills : g.order = f.order})

\* validate_account_graph with get_projection, on one consistent state.
GraphValid(a) ==
    /\ a \notin drift
    /\ account[a].projected = account[a].seq
    /\ {t.seq : t \in JournalOf(a)} = 1..account[a].ledger
    /\ \A c \in Commodity : balance[a][c].settled = Replayed(a, c)
    /\ \A f \in {g \in fills : Owner(g.order) = a} :
         /\ Cardinality({t \in journal : t.order = f.order /\ t.qty = f.qty}) = 1
         /\ FillStateKnown(f)

\* _validate_status_quantities.
StatusFits(o, status, filled) ==
    /\ status = "accepted" => filled = 0
    /\ status = "partially_filled" => filled \in 1..(Qty[o] - 1)
    /\ status = "filled" => filled = Qty[o]

\* append_order_event: the next event of an order.  An expiry is dated at the
\* end of the validity, a cancellation by the database clock before that end;
\* the other events carry the time of the command or of the bar.
MayAppend(o, from, to, filled) ==
    /\ to \in Transition(from)
    /\ to = "expired" => DecisionOf[o] \in expired
    /\ to = "cancelled" => DecisionOf[o] \notin expired
    /\ filled \in order[o].filled..Qty[o]
    /\ StatusFits(o, to, filled)

\* _validate_state_amount: what a reservation in a state may still hold.
AmountFits(o, state, held) ==
    CASE state = "open"               -> held = ReserveAmount(o)
      [] state = "partially_consumed" -> held \in 1..(ReserveAmount(o) - 1)
      [] OTHER                        -> held = 0

\* Mutant: the switch rows are read without FOR UPDATE.
SwitchRowsUnlocked == TRUE

\* No execution holds the switch rows, which it locked FOR UPDATE.
SwitchRowsFree == exec = None

\* Selling what the opening snapshot brought in has no cost basis: the journal
\* cannot be built, whatever was bought since.
Unvalued(o) == Side[o] = "sell" /\ Opening[Owner(o)][InstrumentOf[o]] > 0

\* _release_reservation with _release_projection: possible only while the
\* account is at the sequence the reservation was made at.
Releasable(o) ==
    /\ OpenReservation(o)
    /\ account[Owner(o)].projected = order[o].seq
    /\ balance[Owner(o)][HeldIn(o)].reserved >= order[o].held

-----------------------------------------------------------------------------
DeskInit ==
    /\ account = [a \in Account |-> [seq |-> 0, ledger |-> 0, projected |-> 0]]
    /\ balance = [a \in Account |-> [c \in Commodity |->
                    [settled |-> Opening[a][c], reserved |-> 0]]]
    /\ order = [o \in Order |-> [status |-> "absent", filled |-> 0, held |-> 0,
                                 reservation |-> "none", seq |-> 0]]
    /\ issued = {}
    /\ receipts = [o \in Order |-> None]
    /\ fills = {} /\ journal = {}
    /\ switch = [s \in Scope |-> [active |-> FALSE, reason |-> "initialized",
                                  version |-> IF s = Global THEN 1 ELSE 0]]
    /\ actions = <<>>
    /\ exec = None
    /\ check = [k \in Checker |-> None]
    /\ alarm = {}
    /\ observed = {} /\ expired = {} /\ drift = {}

-----------------------------------------------------------------------------
(* The surroundings: time, observations, damage, crashes.                  *)

Expire(d) ==
    /\ d \notin expired
    /\ expired' = expired \cup {d}
    /\ UNCHANGED <<books, issued, switch, actions, exec, check, alarm, observed, drift>>

\* The caller of the risk gate reads the switches; the reading may be up to
\* max_kill_switch_age_seconds old when the decision is made.
Observe(a) ==
    /\ ~Stopped(a)
    /\ observed' = observed \cup {a}
    /\ UNCHANGED <<books, issued, switch, actions, exec, check, alarm, expired, drift>>

ObservationAges(a) ==
    /\ a \in observed
    /\ observed' = observed \ {a}
    /\ UNCHANGED <<books, issued, switch, actions, exec, check, alarm, expired, drift>>

Damage(a) ==
    /\ a \in Fragile
    /\ drift' = drift \cup {a}
    /\ UNCHANGED <<books, issued, switch, actions, exec, check, alarm, observed, expired>>

\* The process dies between its rollback and the transaction that trips.
LoseAlarm(r) ==
    /\ alarm' = alarm \ {r}
    /\ alarm' # alarm
    /\ UNCHANGED <<books, issued, switch, actions, exec, check, observed, expired, drift>>

-----------------------------------------------------------------------------
(* Authorization.                                                          *)

\* The amount of commodity c that a batch reserves.
Need(d, c) == MapThenSumSet(ReserveAmount, {o \in OrdersOf(d) : HeldIn(o) = c})

\* The checks of the risk gate that read the account: the switches, the open
\* reservations, the pending orders and what is available.
RiskApproves(d) ==
    LET a == AccountOf[d]
    IN  /\ a \in observed
        /\ {o \in Order : Owner(o) = a /\ OpenReservation(o)} = PendingOf(a)
        /\ \A o \in PendingOf(a) : DecisionOf[o] \notin expired
        /\ Cardinality(PendingOf(a)) + Cardinality(OrdersOf(d)) <= MaxPendingOrders
        /\ \A c \in Commodity : balance[a][c].reserved + Need(d, c) <= balance[a][c].settled

\* No order of the batch is found by its idempotency key.
NewBatch(d) == \A o \in OrdersOf(d) : order[o].status = "absent"

\* create_reservation with the order it is made for.
NewOrder(o, seq) ==
    [status |-> "created", filled |-> 0, held |-> ReserveAmount(o),
     reservation |-> "open", seq |-> seq]

\* evaluate_and_authorize: decision, reservations and orders in one
\* transaction that moves the account by one sequence.  A repeated decision
\* finds its orders by their idempotency keys and changes nothing.
Authorize(d) ==
    LET a == AccountOf[d]
        seq == account[a].seq + 1
    IN  /\ NewBatch(d)
        /\ d \notin expired
        /\ RiskApproves(d)
        /\ account[a].projected = account[a].seq
        /\ account' = [account EXCEPT ![a].seq = seq, ![a].projected = seq]
        /\ balance' = [balance EXCEPT ![a] = [c \in Commodity |->
                         [@[c] EXCEPT !.reserved = @ + Need(d, c)]]]
        /\ order' = [o \in Order |->
                       IF DecisionOf[o] = d THEN NewOrder(o, seq) ELSE order[o]]
        /\ UNCHANGED <<issued, receipts, fills, journal, switch, actions, exec, check,
                       alarm, observed, expired, drift>>

\* _validate_command_binding: the reservation is open and the account is still
\* at the sequence it was made at.
CommandBinds(o) ==
    /\ order[o].reservation = "open"
    /\ account[Owner(o)].seq = order[o].seq
    /\ DecisionOf[o] \notin expired

IssueCommand(o) ==
    /\ o \notin issued
    /\ CommandBinds(o)
    /\ issued' = issued \cup {o}
    /\ UNCHANGED <<books, switch, actions, exec, check, alarm, observed, expired, drift>>

-----------------------------------------------------------------------------
(* Execution.                                                              *)

\* get_execution_record: the receipt an earlier execution of the command left.
Replays(o) == receipts[o] # None

\* PaperExecutionRequest: the reservation is the one the command was bound to,
\* at the sequence of both, and the order is not terminal.
RequestHolds(o) ==
    /\ account[Owner(o)].seq = order[o].seq
    /\ order[o].reservation = "open"
    /\ order[o].status \in Pending

\* _execute_once up to the reads of the account: no receipt yet, switches
\* inactive and their rows locked, the account still where the command says.
\* The execution of another order waits for the locks.
ExecuteBegin(o) ==
    /\ o \in issued
    /\ ~Replays(o)
    /\ SwitchRowsFree
    /\ ~Stopped(Owner(o))
    /\ RequestHolds(o)
    /\ exec' = [order |-> o, seq |-> account[Owner(o)].seq]
    /\ UNCHANGED <<books, issued, switch, actions, check, alarm, observed, expired, drift>>

\* Mutant: the account sequence is not compared again under the lock.
NeverOvertaken == exec = None

\* The account moved since it was read.
Overtaken == account[Owner(exec.order)].seq # exec.seq

\* apply_paper_execution locks the account and finds another sequence.
ExecuteStale ==
    /\ exec # None
    /\ Overtaken
    /\ exec' = None
    /\ UNCHANGED <<books, issued, switch, actions, check, alarm, observed, expired, drift>>

\* The ledger cannot be read or written: the transaction is rolled back and the
\* global switch is tripped in another one.  A projection read half before and
\* half after an authorization does not match either.
ExecuteFault ==
    /\ exec # None
    /\ \/ Owner(exec.order) \in drift
       \/ Overtaken
       \/ Unvalued(exec.order)
    /\ exec' = None
    /\ alarm' = alarm \cup {"ledger_invariant_mismatch"}
    /\ UNCHANGED <<books, issued, switch, actions, check, observed, expired, drift>>

\* _validate_identity and _suffix: the persisted order, events, fills and
\* reservation are the ones the simulation started from.
Persisted(o) ==
    /\ order[o].status = "created"
    /\ order[o].reservation = "open"
    /\ \A f \in fills : f.order # o

Executing(o) ==
    /\ exec # None
    /\ o = exec.order
    /\ ~Overtaken
    /\ Persisted(o)
    /\ Owner(o) \notin drift

\* ReferencePaperBroker.execute: a rejection is the order's first event, every
\* other answer follows the acceptance of the command.
Answers(o, status, filled) ==
    IF status = "rejected" THEN MayAppend(o, "created", status, filled)
    ELSE /\ MayAppend(o, "created", "accepted", 0)
         /\ status = "accepted" \/ MayAppend(o, "accepted", status, filled)

\* _mutate: the reservation's next state, with the order it belongs to.
Mutated(o, status, filled, held, reservation) ==
    [order EXCEPT ![o].status = status, ![o].filled = filled,
                  ![o].held = held, ![o].reservation = reservation]

\* apply_paper_execution: the order and its reservation after the broker's
\* answer, what is no longer held freed in the projection, and the receipt.
ApplyExecution(o, status, filled, held, reservation) ==
    /\ Answers(o, status, filled)
    /\ AmountFits(o, reservation, held)
    /\ order' = Mutated(o, status, filled, held, reservation)
    /\ receipts' = [receipts EXCEPT ![o] = status]
    /\ held # order[o].held => Releasable(o)
    /\ exec' = None
    /\ UNCHANGED <<issued, switch, actions, check, alarm, observed, expired, drift>>

\* Mutant: the reservation is closed and the projection keeps what it held.
FreedNothing(o, held) == balance

Freed(o, held) ==
    [balance EXCEPT ![Owner(o)][HeldIn(o)].reserved = @ - (order[o].held - held)]

\* No tradable bar yet: the command is accepted and its receipt says so.
ExecutePending(o) ==
    /\ Executing(o)
    /\ DecisionOf[o] \notin expired
    /\ ApplyExecution(o, "accepted", 0, order[o].held, "open")
    /\ UNCHANGED <<account, balance, fills, journal>>

\* No tradable bar before the validity ended.
ExecuteExpired(o) ==
    /\ Executing(o)
    /\ DecisionOf[o] \in expired
    /\ ApplyExecution(o, "expired", 0, 0, "expired")
    /\ balance' = Freed(o, 0)
    /\ UNCHANGED <<account, fills, journal>>

\* The bar's volume or the reservation does not allow a single unit.
ExecuteRejected(o) ==
    /\ Executing(o)
    /\ ApplyExecution(o, "rejected", 0, 0, "released")
    /\ balance' = Freed(o, 0)
    /\ UNCHANGED <<account, fills, journal>>

\* _apply_cash and _apply_positions: the projection rows after a posting.
SettledRows(rows, t) ==
    [rows EXCEPT ![t.account] = [c \in Commodity |-> [@[c] EXCEPT !.settled = @ + Moves(t, c)]]]

NewFill(o, q, p) == [order |-> o, qty |-> q, price |-> p]

\* build_fill_journal: the entry of a fill on the head of the account's ledger.
NewEntry(f) ==
    [account |-> Owner(f.order), seq |-> account[Owner(f.order)].ledger + 1,
     order |-> f.order, qty |-> f.qty, price |-> f.price]

\* _validate_source: the entry's fill is in the table, and nothing else is.
SourceHolds(t) == NewFill(t.order, t.qty, t.price) \in fills'

\* _advance_account: the account and its ledger move by one, and so does every
\* projection row.
Advanced(a) ==
    [account EXCEPT ![a] = [seq |-> @.seq + 1, ledger |-> @.ledger + 1,
                            projected |-> @.seq + 1]]

\* append: the entry, the account and the projections, starting from the rows
\* the execution has freed its reservation in.
AppendJournal(t, rows) ==
    /\ SourceHolds(t)
    /\ journal' = journal \cup {t}
    /\ account' = Advanced(t.account)
    /\ balance' = SettledRows(rows, t)

\* A fill of q units at p, journalled in the same transaction.
ExecuteFill(o, q, p) ==
    LET left == order[o].held - Consumes(o, q, p)
        done == q = Qty[o]
        held == IF done THEN 0 ELSE left
    IN  /\ Executing(o)
        /\ q <= Qty[o]
        /\ left >= 0
        /\ ~Unvalued(o)
        /\ ApplyExecution(o, IF done THEN "filled" ELSE "partially_filled", q, held,
                          IF left = 0 THEN "consumed"
                          ELSE IF done THEN "released" ELSE "partially_consumed")
        /\ fills' = fills \cup {NewFill(o, q, p)}
        /\ AppendJournal(NewEntry(NewFill(o, q, p)), Freed(o, held))

-----------------------------------------------------------------------------
(* The kill switches.                                                      *)

\* Mutant: the version of the row is not advanced.
TripInPlace(r) ==
    /\ r \in alarm
    /\ SwitchRowsFree
    /\ switch[Global].version < MaxVersion
    /\ alarm' = alarm \ {r}
    /\ switch' = [switch EXCEPT ![Global].active = TRUE, ![Global].reason = r]
    /\ UNCHANGED <<books, issued, actions, exec, check, observed, expired, drift>>

\* activate_global_kill_switch: the system's own activation.
Trip(r) ==
    /\ r \in alarm
    /\ SwitchRowsFree
    /\ switch[Global].version < MaxVersion
    /\ alarm' = alarm \ {r}
    /\ switch' = IF switch[Global].active /\ switch[Global].reason = r THEN switch
                 ELSE [switch EXCEPT ![Global] =
                         [active |-> TRUE, reason |-> r, version |-> @.version + 1]]
    /\ UNCHANGED <<books, issued, actions, exec, check, observed, expired, drift>>

NewAction(type, s, version, cancelled) ==
    [type |-> type, scope |-> s, version |-> version, cancelled |-> cancelled]

\* _append_action: the next entry behind the locked head of the log.
AppendAction(type, s, version, cancelled) ==
    /\ Len(actions) < MaxActions
    /\ actions' = Append(actions, NewAction(type, s, version, cancelled))

SetSwitch(s, on, why) ==
    switch' = [switch EXCEPT ![s] = [active |-> on, reason |-> why, version |-> @.version + 1]]

\* What a cancellation makes of a pending order: past its validity it expires.
CancelledAs(o) == IF DecisionOf[o] \in expired THEN "expired" ELSE "cancelled"

Cancellable(s) ==
    \A a \in AccountsIn(s) : \A o \in PendingOf(a) :
        /\ MayAppend(o, order[o].status, CancelledAs(o), order[o].filled)
        /\ Releasable(o)

\* _activate with _cancel_pending_orders: the switch, the pending orders of the
\* scope and their reservations in one transaction, or nothing at all.
ActivateAndCancel(s, type, why) ==
    LET cancelled == UNION {PendingOf(a) : a \in AccountsIn(s)}
        Freeing(a, c) == MapThenSumSet(LAMBDA o : order[o].held,
                                       {o \in cancelled : Owner(o) = a /\ HeldIn(o) = c})
    IN  /\ SwitchRowsFree
        /\ Cancellable(s)
        /\ SetSwitch(s, TRUE, why)
        /\ order' = [o \in Order |->
                       IF o \notin cancelled THEN order[o]
                       ELSE [order[o] EXCEPT !.status = CancelledAs(o), !.held = 0,
                                !.reservation = IF CancelledAs(o) = "expired" THEN "expired"
                                                ELSE "released"]]
        /\ balance' = [a \in Account |-> [c \in Commodity |->
                         [balance[a][c] EXCEPT !.reserved = @ - Freeing(a, c)]]]
        /\ AppendAction(type, s, switch[s].version + 1, cancelled)

Activate(s) ==
    /\ ActivateAndCancel(s, "activated", "operator")
    /\ UNCHANGED <<account, issued, receipts, fills, journal, exec, check, alarm,
                   observed, expired, drift>>

\* prepare_resume: the switch rows are locked and the switch is active.
PrepareResume(s) == switch[s].active /\ SwitchRowsFree

CompleteResume(s) ==
    /\ SetSwitch(s, FALSE, "resumed")
    /\ AppendAction("resumed", s, switch[s].version + 1, {})

\* resume_paper: the accounts of the scope are locked and reconciled first.
ResumeSound(s) ==
    /\ PrepareResume(s)
    /\ \A a \in AccountsIn(s) : GraphValid(a)
    /\ CompleteResume(s)
    /\ UNCHANGED <<books, issued, exec, check, alarm, observed, expired, drift>>

\* A scope that does not reconcile stays stopped, and the refusal is logged.
ResumeRejected(s) ==
    /\ PrepareResume(s)
    /\ \E a \in AccountsIn(s) : ~GraphValid(a)
    /\ AppendAction("resume_rejected", s, switch[s].version, {})
    /\ UNCHANGED <<switch, books, issued, exec, check, alarm, observed, expired, drift>>

-----------------------------------------------------------------------------
(* Checks of the ledger that lock nothing: the replay of an execution that *)
(* has a receipt with fills, the daily reconciliation, and the operator's. *)

CheckBegin(k, a) ==
    /\ check[k] = None
    /\ k = "replay" => \E f \in fills : Owner(f.order) = a
    /\ check' = [check EXCEPT ![k] = [account |-> a, seq |-> account[a].seq]]
    /\ UNCHANGED <<books, issued, switch, actions, exec, alarm, observed, expired, drift>>

CheckEnd(k) == check' = [check EXCEPT ![k] = None]

\* record_reconciliation: the operator's check is logged with the version of
\* the global switch, whose row it locks.
RecordReconciliation(a) ==
    /\ SwitchRowsFree
    /\ AppendAction("reconciled", a, switch[Global].version, {})

CheckPasses(k) ==
    /\ check[k] # None
    /\ GraphValid(check[k].account)
    /\ CheckEnd(k)
    /\ IF k = "operator" THEN RecordReconciliation(check[k].account) ELSE UNCHANGED actions
    /\ UNCHANGED <<books, issued, switch, exec, alarm, observed, expired, drift>>

\* What was read does not fit together.
CheckMismatches(k) ==
    /\ check[k] # None
    /\ \/ ~GraphValid(check[k].account)
       \/ account[check[k].account].seq # check[k].seq

\* A replay or the daily reconciliation trips the switch in another transaction.
CheckAlarms(k) ==
    /\ k # "operator"
    /\ CheckMismatches(k)
    /\ CheckEnd(k)
    /\ alarm' = alarm \cup {IF k = "replay" THEN "ledger_invariant_mismatch"
                                            ELSE "ledger_reconciliation_failed"}
    /\ UNCHANGED <<books, issued, switch, actions, exec, observed, expired, drift>>

\* reconcile_paper_state: the failed check activates the global switch itself,
\* unless that activation is refused.
OperatorCheckFails ==
    /\ "operator" \in Checker
    /\ CheckMismatches("operator")
    /\ SwitchRowsFree
    /\ CheckEnd("operator")
    /\ \/ ActivateAndCancel(Global, "reconciliation_failed", "ledger_reconciliation_failed")
       \/ ~Cancellable(Global) /\ UNCHANGED <<order, balance, switch, actions>>
    /\ UNCHANGED <<account, issued, receipts, fills, journal, exec, alarm, observed,
                   expired, drift>>

-----------------------------------------------------------------------------
Execute(o) ==
    \/ ExecuteBegin(o)
    \/ ExecutePending(o) \/ ExecuteExpired(o) \/ ExecuteRejected(o)
    \/ \E q \in 1..Qty[o], p \in Price : ExecuteFill(o, q, p)

DeskNext ==
    \/ \E d \in Decision : Expire(d) \/ Authorize(d)
    \/ \E a \in Account : Observe(a) \/ ObservationAges(a) \/ Damage(a)
    \/ \E o \in Order : IssueCommand(o) \/ Execute(o)
    \/ ExecuteStale \/ ExecuteFault
    \/ \E r \in Reason : Trip(r) \/ LoseAlarm(r)
    \/ \E s \in Scope : Activate(s) \/ ResumeSound(s) \/ ResumeRejected(s)
    \/ \E k \in Checker, a \in Account : CheckBegin(k, a)
    \/ \E k \in Checker : CheckPasses(k) \/ CheckAlarms(k)
    \/ OperatorCheckFails

Spec == DeskInit /\ [][DeskNext]_deskVars

-----------------------------------------------------------------------------
(* What the database refuses (migrations 0010 to 0013): the CHECK, UNIQUE  *)
(* and FOREIGN KEY constraints, as predicates of the rows, and the         *)
(* triggers, as predicates of the rows before and after a transaction.  A  *)
(* transaction that breaks one is rolled back, so that none may.           *)

\* paper_cash_projection and paper_position_projection.
ProjectionTables(a) == \A c \in Commodity : balance[a][c].reserved <= balance[a][c].settled

\* account_reservation and order_intent: one row of each for every order.
ReservationTable(o) ==
    /\ order[o].held <= ReserveAmount(o)
    /\ order[o].reservation # "none" <=> order[o].seq \in 1..account[Owner(o)].seq

OrderTable(o) == order[o].status = "absent" <=> order[o].reservation = "none"

\* paper_fill and journal_transaction: a fill belongs to an order, an entry to
\* a fill; the entries of an account and the entry of a fill are unique.
FillTable == \A f \in fills : order[f.order].status # "absent"

JournalTable ==
    /\ \A t \in journal : t.seq > 0 /\ NewFill(t.order, t.qty, t.price) \in fills
    /\ \A t, u \in journal :
         \/ t.account = u.account /\ t.seq = u.seq
         \/ NewFill(t.order, t.qty, t.price) = NewFill(u.order, u.qty, u.price)
         => t = u

\* paper_execution_receipt and paper_operator_action.
ReceiptTable(o) == receipts[o] # None => order[o].status # "absent"

ActionTable == \A i \in 1..Len(actions) : actions[i].version > 0

\* paper_kill_switch: a switch without a row is not active.
SwitchTable(s) == switch[s].active => switch[s].version > 0

TablesHold ==
    /\ \A a \in Account : ProjectionTables(a)
    /\ \A o \in Order : ReservationTable(o) /\ OrderTable(o) /\ ReceiptTable(o)
    /\ \A s \in Scope : SwitchTable(s)
    /\ FillTable /\ JournalTable /\ ActionTable

\* validate_paper_account_mutation with the event chain of the account.
AccountGuard(a) ==
    account'[a] # account[a] =>
        /\ account'[a].seq = account[a].seq + 1
        /\ account'[a].ledger \in {account[a].ledger, account[a].ledger + 1}

\* validate_paper_cash_projection and validate_paper_position_projection.
ProjectionGuard(a) ==
    balance'[a] # balance[a] => account'[a].projected = account'[a].seq

\* validate_account_reservation_projection with the reservation's event chain.
ReservationGuard(o) ==
    IF order[o].reservation = "none"
    THEN order'[o].reservation \in {"none", "open"} /\ AmountFits(o, order'[o].reservation, order'[o].held)
    ELSE order'[o].seq = order[o].seq /\ order'[o].held <= order[o].held

\* validate_order_event_chain: a transaction appends up to two events.
OrderGuard(o) ==
    order[o].status # "absent" =>
        /\ \/ order'[o].status \in {order[o].status} \cup Transition(order[o].status)
           \/ \E s \in Transition(order[o].status) : order'[o].status \in Transition(s)
        /\ order[o].filled <= order'[o].filled

\* validate_journal_transaction_chain: the next entry of the account, and the
\* older ones as they were.
JournalGuard(a) ==
    /\ \A t \in journal : t \in journal'
    /\ \A t \in journal' \ journal : t.account = a => t.seq = account[a].ledger + 1

\* require_fill_accounting.
FillGuard ==
    /\ \A f \in fills : f \in fills'
    /\ \A f \in fills' \ fills :
         /\ \E t \in journal' : NewFill(t.order, t.qty, t.price) = f /\ t.account = Owner(f.order)
         /\ order'[f.order].status \in {"partially_filled", "filled"}

\* validate_paper_kill_switch_mutation.
SwitchGuard(s) == switch'[s] # switch[s] => switch'[s].version = switch[s].version + 1

\* validate_paper_operator_audit_head with the chain of the actions.
HeadGuard ==
    actions' # actions =>
        /\ Len(actions') = Len(actions) + 1
        /\ \A i \in 1..Len(actions) : actions'[i] = actions[i]

GuardsAccept ==
    /\ \A a \in Account : AccountGuard(a) /\ ProjectionGuard(a) /\ JournalGuard(a)
    /\ \A o \in Order : ReservationGuard(o) /\ OrderGuard(o)
    /\ \A s \in Scope : SwitchGuard(s)
    /\ FillGuard /\ HeadGuard

-----------------------------------------------------------------------------
(* Properties.                                                             *)

\* BooksReconcile: every state that authorization, execution and cancellation
\* commit passes the full reconciliation (only damage from outside fails it);
\* what the projections show as reserved is exactly what the open reservations
\* still hold, and it is covered by what is settled, through every batch, fill,
\* expiry and mass cancellation; and an order is filled by its own receipt only,
\* once, for no more than was authorized and no more than was reserved for it;
\* and the rows satisfy every constraint of their tables.
BooksReconcile ==
    /\ DeskTypeOK
    /\ TablesHold
    /\ \A a \in Account \ drift : GraphValid(a)
    /\ \A a \in Account, c \in Commodity :
         balance[a][c].reserved =
             MapThenSumSet(LAMBDA o : order[o].held,
                           {o \in Order : OpenReservation(o) /\ Owner(o) = a /\ HeldIn(o) = c})
    /\ \A f \in fills :
         /\ receipts[f.order] \in {"partially_filled", "filled"}
         /\ f.qty <= Qty[f.order]
         /\ Side[f.order] = "buy" => f.qty * f.price <= Qty[f.order] * MarkPrice
         /\ \A g \in fills : f.order = g.order => f = g

\* LogAgrees: an operator who finds the switch at the version of a logged
\* activation or resumption finds it in the state which that entry records.
LogAgrees ==
    \A i \in 1..Len(actions) :
        LET e == actions[i]
        IN  /\ e.type \in {"activated", "reconciliation_failed", "resumed"}
            /\ e.version = switch[e.scope].version
            => switch[e.scope].active = (e.type # "resumed")

\* StopIsAvailable: at any time an operator can activate a switch: every pending
\* order in its scope can be terminated and its reservation released.
StopIsAvailable == \A s \in Scope : Cancellable(s)

\* NoFillWhileStopped: no step books a fill while the global switch or the
\* account's own is active, although the switches were read earlier.
NoFillWhileStopped ==
    [][\A f \in fills' \ fills : ~Stopped(Owner(f.order))]_deskVars

\* ExecutionIsBound: whatever an execution answers, it is recorded on the account
\* sequence at which the order's reservation was made, so nothing else happened
\* to the account between the decision and the answer; executing again, under
\* whatever later market, returns that receipt and books nothing; a terminal
\* order stays; nothing is booked on an account whose ledger is damaged, and no
\* resumption covers such an account; and no step is refused by a trigger.
ExecutionIsBound ==
    [][/\ \A o \in Order :
            /\ receipts'[o] # receipts[o] => account[Owner(o)].seq = order[o].seq
            /\ receipts[o] # None => receipts'[o] = receipts[o]
            /\ order[o].status \notin Pending \cup {"absent"} => order'[o] = order[o]
       /\ \A f \in fills' \ fills : Owner(f.order) \notin drift
       /\ \A s \in Scope : switch[s].active /\ ~switch'[s].active
                             => AccountsIn(s) \cap drift = {}
       /\ GuardsAccept]_deskVars
=============================================================================

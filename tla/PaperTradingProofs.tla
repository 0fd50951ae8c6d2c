-------------------------- MODULE PaperTradingProofs -------------------------
(***************************************************************************)
(* Proofs about PaperTrading, for any number of accounts, orders and       *)
(* checks: what the kill switches, the operator log, the receipts and the  *)
(* database's triggers promise.  Sums over orders and fills are left to    *)
(* TLC, and so are the projections' amounts, which are such sums.          *)
(***************************************************************************)
EXTENDS PaperTrading, TLAPS

USE OrderAssumption, PriceAssumption, NameAssumption
    DEF OrderAssumption, PriceAssumption, NameAssumption

-----------------------------------------------------------------------------
(* Quantities and rows.                                                    *)

\* What an order reserves and what a fill of it consumes are counted in units.
LEMMA Amounts ==
    ASSUME NEW o \in Order
    PROVE  /\ Qty[o] \in Nat \ {0} /\ ReserveAmount(o) \in Nat \ {0}
           /\ Owner(o) \in Account /\ Side[o] \in {"buy", "sell"}
           /\ \A q \in Nat, p \in Price : Consumes(o, q, p) \in Nat
<1>1. \A x, y \in Nat : x * y \in Nat
  OBVIOUS
<1>2. \A x, y \in Nat \ {0} : x * y \in Nat \ {0}
  OBVIOUS
<1> QED
  BY <1>1, <1>2 DEF ReserveAmount, Owner, Consumes

-----------------------------------------------------------------------------
(* The shape of the tables, without the amounts of the projections.        *)

DeskShape ==
    /\ account \in [Account -> AccountRow]
    /\ order \in [Order -> OrderRow]
    /\ receipts \in [Order -> ReceiptRow \cup {None}]
    /\ switch \in [Scope -> SwitchRow]
    /\ actions \in Seq(ActionRow)
    /\ exec \in [order: Order, seq: Nat] \cup {None}
    /\ check \in [Checker -> [account: Account, seq: Nat] \cup {None}]

\* What one step does to one account, one order and one switch.
AccountKept(a) == account'[a] = account[a]

AccountMoved(a, new) ==
    /\ new \in {account[a].ledger, account[a].ledger + 1}
    /\ account'[a] = [seq |-> account[a].seq + 1, ledger |-> new, projected |-> account[a].seq + 1]

OrderKept(o) == order'[o] = order[o] /\ receipts'[o] = receipts[o]

Placed(o) ==
    /\ order[o].status = "absent" /\ order'[o] = NewOrder(o, account[Owner(o)].seq + 1)
    /\ AccountMoved(Owner(o), account[Owner(o)].ledger)
    /\ receipts'[o] = receipts[o]

Answered(o, status, filled, held, state) ==
    /\ Executing(o) /\ exec' = None
    /\ Answers(o, status, filled) /\ AmountFits(o, state, held) /\ held <= order[o].held
    /\ order'[o] = [order[o] EXCEPT !.status = status, !.filled = filled,
                                    !.held = held, !.reservation = state]
    /\ receipts'[o] = status

Withdrawn(o) ==
    /\ exec = None
    /\ order[o].status \in Pending /\ Releasable(o)
    /\ MayAppend(o, order[o].status, CancelledAs(o), order[o].filled)
    /\ order'[o] = [order[o] EXCEPT !.status = CancelledAs(o), !.held = 0,
                      !.reservation = IF CancelledAs(o) = "expired" THEN "expired" ELSE "released"]
    /\ receipts'[o] = receipts[o]

OrderStep(o) ==
    \/ OrderKept(o)
    \/ Placed(o)
    \/ \E status \in ReceiptRow, filled, held \in Nat, state \in ReservationState \ {"none"} :
         Answered(o, status, filled, held, state)
    \/ Withdrawn(o)

AccountStep(a) == AccountKept(a) \/ \E new \in Nat : AccountMoved(a, new)

\* The steps that write no book, no switch and no log.
Quiet ==
    \/ \E d \in Decision : Expire(d)
    \/ \E a \in Account : Observe(a) \/ ObservationAges(a) \/ Damage(a)
    \/ \E o \in Order : IssueCommand(o) \/ ExecuteBegin(o)
    \/ ExecuteStale \/ ExecuteFault
    \/ \E r \in Reason : LoseAlarm(r)
    \/ \E k \in Checker, a \in Account : CheckBegin(k, a)
    \/ \E k \in Checker : CheckAlarms(k)
    \/ UNCHANGED deskVars

\* The broker's answers.
Answer(o) ==
    \/ ExecutePending(o) \/ ExecuteExpired(o) \/ ExecuteRejected(o)
    \/ \E q \in 1..Qty[o], p \in Price : ExecuteFill(o, q, p)

LEMMA QuietSteps ==
    ASSUME Quiet
    PROVE  UNCHANGED <<account, balance, order, fills, journal, receipts, switch, actions>>
BY DEF Quiet, Expire, Observe, ObservationAges, Damage, IssueCommand, ExecuteBegin, ExecuteStale,
       ExecuteFault, LoseAlarm, CheckBegin, CheckAlarms, books, deskVars

\* An answer is recorded on the order that is executed and on no other.
LEMMA AnswerSteps ==
    ASSUME DeskShape, NEW k \in Order, Answer(k), NEW o \in Order
    PROVE  /\ UNCHANGED <<switch, actions, check, drift>> /\ exec' = None /\ Executing(k)
           /\ o # k => OrderKept(o)
           /\ o = k => \E status \in ReceiptRow, filled, held \in Nat,
                          state \in ReservationState \ {"none"} :
                         Answered(o, status, filled, held, state)
<1>0. /\ order[k] \in OrderRow /\ order[k].held \in Nat /\ order[k].filled \in Nat
      /\ Qty[k] \in Nat
  BY Amounts DEF DeskShape, OrderRow
<1>1. ASSUME NEW status \in ReceiptRow, NEW filled \in Nat, NEW held \in Nat,
             NEW state \in ReservationState \ {"none"}, held <= order[k].held, Executing(k),
             ApplyExecution(k, status, filled, held, state)
      PROVE  /\ UNCHANGED <<switch, actions, check, drift>> /\ exec' = None /\ Executing(k)
             /\ o # k => OrderKept(o)
             /\ o = k => Answered(o, status, filled, held, state)
  <2>1. /\ Answers(k, status, filled) /\ AmountFits(k, state, held)
        /\ order' = Mutated(k, status, filled, held, state)
        /\ receipts' = [receipts EXCEPT ![k] = status] /\ exec' = None
        /\ UNCHANGED <<switch, actions, check, drift>>
    BY <1>1 DEF ApplyExecution
  <2>2. o # k => OrderKept(o)
    BY <2>1 DEF DeskShape, Mutated, OrderKept
  <2>3. order'[k] = [order[k] EXCEPT !.status = status, !.filled = filled,
                                    !.held = held, !.reservation = state]
    BY <2>1 DEF DeskShape, Mutated
  <2>4. receipts'[k] = status
    BY <2>1 DEF DeskShape
  <2> QED
    BY <1>1, <2>1, <2>2, <2>3, <2>4 DEF Answered
<1>2. CASE ExecutePending(k)
  <2>1. Executing(k) /\ ApplyExecution(k, "accepted", 0, order[k].held, "open")
    BY <1>2 DEF ExecutePending
  <2>2. "accepted" \in ReceiptRow /\ "open" \in ReservationState \ {"none"}
    BY DEF ReceiptRow, OrderStatus, ReservationState
  <2>3. order[k].held <= order[k].held
    BY <1>0
  <2> QED
    BY <1>0, <1>1, <2>1, <2>2, <2>3
<1>3. CASE ExecuteExpired(k)
  BY <1>0, <1>1, <1>3 DEF ExecuteExpired, ReceiptRow, OrderStatus, ReservationState
<1>4. CASE ExecuteRejected(k)
  BY <1>0, <1>1, <1>4 DEF ExecuteRejected, ReceiptRow, OrderStatus, ReservationState
<1>5. ASSUME NEW q \in 1..Qty[k], NEW p \in Price, ExecuteFill(k, q, p)
      PROVE  /\ UNCHANGED <<switch, actions, check, drift>> /\ exec' = None /\ Executing(k)
             /\ o # k => OrderKept(o)
             /\ o = k => \E status \in ReceiptRow, filled, held \in Nat,
                            state \in ReservationState \ {"none"} :
                           Answered(o, status, filled, held, state)
  <2> DEFINE left == order[k].held - Consumes(k, q, p)
             done == q = Qty[k]
             held == IF done THEN 0 ELSE left
             status == IF done THEN "filled" ELSE "partially_filled"
             state == IF left = 0 THEN "consumed" ELSE IF done THEN "released"
                      ELSE "partially_consumed"
  <2>1. left >= 0 /\ Executing(k) /\ ApplyExecution(k, status, q, held, state)
    BY <1>5 DEF ExecuteFill
  <2>2. q \in Nat /\ Consumes(k, q, p) \in Nat
    BY <1>0, Amounts
  <2>3. left \in Nat /\ left <= order[k].held
    BY <1>0, <2>1, <2>2
  <2>4. held \in Nat /\ held <= order[k].held
    BY <1>0, <2>3
  <2>5. status \in ReceiptRow /\ state \in ReservationState \ {"none"}
    BY DEF ReceiptRow, OrderStatus, ReservationState
  <2> HIDE DEF held, status, state
  <2> QED
    BY <1>1, <2>1, <2>2, <2>4, <2>5
<1> QED
  BY <1>2, <1>3, <1>4, <1>5 DEF Answer

\* A step of an operator or of a trip, on orders.
LEMMA CancelSteps ==
    ASSUME DeskShape, NEW s \in Scope, NEW type, NEW why, ActivateAndCancel(s, type, why),
           receipts' = receipts, NEW o \in Order
    PROVE  OrderKept(o) \/ Withdrawn(o)
<1> DEFINE cancelled == UNION {PendingOf(a) : a \in AccountsIn(s)}
<1>1. /\ exec = None /\ Cancellable(s)
      /\ order' = [k \in Order |->
                       IF k \notin cancelled THEN order[k]
                       ELSE [order[k] EXCEPT !.status = CancelledAs(k), !.held = 0,
                                !.reservation = IF CancelledAs(k) = "expired" THEN "expired"
                                                ELSE "released"]]
  BY DEF ActivateAndCancel, SwitchRowsFree
<1>2. ASSUME o \in cancelled
      PROVE  /\ order[o].status \in Pending /\ Releasable(o)
             /\ MayAppend(o, order[o].status, CancelledAs(o), order[o].filled)
  <2>1. PICK a \in AccountsIn(s) : o \in PendingOf(a)
    BY <1>2
  <2>2. order[o].status \in Pending
    BY <2>1 DEF PendingOf
  <2> QED
    BY <1>1, <2>1, <2>2 DEF Cancellable
<1> HIDE DEF cancelled
<1>3. CASE o \in cancelled
  BY <1>1, <1>2, <1>3 DEF Withdrawn
<1>4. CASE o \notin cancelled
  BY <1>1, <1>4 DEF OrderKept
<1> QED
  BY <1>3, <1>4

\* The steps of the switches and of the log.
Operating ==
    \/ \E r \in Reason : Trip(r)
    \/ \E s \in Scope : Activate(s) \/ ResumeSound(s) \/ ResumeRejected(s)
    \/ \E k \in Checker : CheckPasses(k)
    \/ OperatorCheckFails

LEMMA DeskSteps ==
    ASSUME [DeskNext]_deskVars
    PROVE  \/ Quiet \/ Operating \/ \E d \in Decision : Authorize(d)
           \/ \E o \in Order : Answer(o)
BY DEF DeskNext, Quiet, Operating, Execute, Answer

\* Every step keeps an order, places it, answers it or withdraws it.
LEMMA OrderSteps ==
    ASSUME DeskShape, [DeskNext]_deskVars
    PROVE  \A o \in Order : OrderStep(o)
<1> SUFFICES ASSUME NEW o \in Order PROVE OrderStep(o)
  OBVIOUS
<1>1. CASE Quiet
  BY <1>1, QuietSteps DEF OrderStep, OrderKept
<1>2. ASSUME NEW d \in Decision, Authorize(d) PROVE OrderStep(o)
  <2> DEFINE a == AccountOf[d]
             seq == account[a].seq + 1
  <2>1. /\ NewBatch(d) /\ receipts' = receipts
        /\ account' = [account EXCEPT ![a].seq = seq, ![a].projected = seq]
        /\ order' = [k \in Order |-> IF DecisionOf[k] = d THEN NewOrder(k, seq) ELSE order[k]]
    BY <1>2 DEF Authorize
  <2>2. CASE DecisionOf[o] = d
    <3>1. Owner(o) = a /\ order[o].status = "absent" /\ a \in Account
      BY <2>1, <2>2 DEF Owner, NewBatch, OrdersOf
    <3>2. account[a] \in AccountRow
      BY <3>1 DEF DeskShape
    <3>3. account'[a] = [account[a] EXCEPT !.seq = seq, !.projected = seq]
      BY <2>1, <3>1 DEF DeskShape
    <3>4. account'[a] = [seq |-> seq, ledger |-> account[a].ledger, projected |-> seq]
      BY <3>2, <3>3 DEF AccountRow
    <3> QED
      BY <2>1, <2>2, <3>1, <3>4 DEF OrderStep, Placed, AccountMoved
  <2>3. CASE DecisionOf[o] # d
    BY <2>1, <2>3 DEF OrderStep, OrderKept
  <2> QED
    BY <2>2, <2>3
<1>3. ASSUME NEW k \in Order, Answer(k) PROVE OrderStep(o)
  BY <1>3, AnswerSteps DEF OrderStep
<1>4. CASE Operating
  <2>1. ASSUME order' = order, receipts' = receipts PROVE OrderStep(o)
    BY <2>1 DEF OrderStep, OrderKept
  <2>2. ASSUME NEW s \in Scope, Activate(s) PROVE OrderStep(o)
    BY <2>2, CancelSteps DEF Activate, OrderStep
  <2>3. CASE OperatorCheckFails
    <3>1. CASE ActivateAndCancel(Global, "reconciliation_failed", "ledger_reconciliation_failed")
      BY <2>3, <3>1, CancelSteps DEF OperatorCheckFails, OrderStep, Scope
    <3> QED
      BY <2>1, <2>3, <3>1 DEF OperatorCheckFails
  <2> QED
    BY <1>4, <2>1, <2>2, <2>3 DEF Operating, Trip, ResumeSound, ResumeRejected, CheckPasses, books
<1> QED
  BY <1>1, <1>2, <1>3, <1>4, DeskSteps

\* Every step leaves an account where it is or moves it by one sequence.
LEMMA AccountSteps ==
    ASSUME DeskShape, [DeskNext]_deskVars
    PROVE  \A a \in Account : AccountStep(a)
<1> SUFFICES ASSUME NEW a \in Account PROVE AccountStep(a)
  OBVIOUS
<1>0. account[a] \in AccountRow /\ account[a].ledger \in Nat
  BY DEF DeskShape, AccountRow
<1>1. ASSUME account' = account PROVE AccountStep(a)
  BY <1>1 DEF AccountStep, AccountKept
<1>2. ASSUME NEW d \in Decision, Authorize(d) PROVE AccountStep(a)
  <2> DEFINE b == AccountOf[d]
             seq == account[b].seq + 1
  <2>1. account' = [account EXCEPT ![b].seq = seq, ![b].projected = seq]
    BY <1>2 DEF Authorize
  <2>2. CASE a = b
    <3>1. account'[a] = [account[a] EXCEPT !.seq = seq, !.projected = seq]
      BY <2>1, <2>2 DEF DeskShape
    <3>2. account'[a] = [seq |-> seq, ledger |-> account[a].ledger, projected |-> seq]
      BY <1>0, <3>1 DEF AccountRow
    <3> QED
      BY <1>0, <2>2, <3>2 DEF AccountStep, AccountMoved
  <2>3. CASE a # b
    BY <2>1, <2>3 DEF DeskShape, AccountStep, AccountKept
  <2> QED
    BY <2>2, <2>3
<1>3. ASSUME NEW k \in Order, NEW q \in 1..Qty[k], NEW p \in Price, ExecuteFill(k, q, p)
      PROVE  AccountStep(a)
  <2>1. account' = Advanced(NewEntry(NewFill(k, q, p)).account)
    BY <1>3 DEF ExecuteFill, AppendJournal
  <2>2. NewEntry(NewFill(k, q, p)).account = Owner(k)
    BY DEF NewEntry, NewFill
  <2>3. CASE a = Owner(k)
    <3>1. account' = [account EXCEPT ![a] = [seq |-> account[a].seq + 1,
                        ledger |-> account[a].ledger + 1, projected |-> account[a].seq + 1]]
      BY <2>1, <2>2, <2>3 DEF Advanced
    <3>2. account'[a] = [seq |-> account[a].seq + 1, ledger |-> account[a].ledger + 1,
                         projected |-> account[a].seq + 1]
      BY <3>1 DEF DeskShape
    <3> QED
      BY <1>0, <3>2 DEF AccountStep, AccountMoved
  <2>4. CASE a # Owner(k)
    BY <2>1, <2>2, <2>4 DEF Advanced, DeskShape, AccountStep, AccountKept
  <2> QED
    BY <2>3, <2>4
<1>4. ASSUME NEW k \in Order, Answer(k) PROVE AccountStep(a)
  BY <1>1, <1>3, <1>4 DEF Answer, ExecutePending, ExecuteExpired, ExecuteRejected
<1>5. CASE Quiet
  BY <1>1, <1>5, QuietSteps
<1>6. CASE Operating
  BY <1>1, <1>6 DEF Operating, Trip, Activate, ResumeSound, ResumeRejected, CheckPasses,
                    OperatorCheckFails, books
<1> QED
  BY <1>2, <1>4, <1>5, <1>6, DeskSteps

-----------------------------------------------------------------------------
(* The switches and the operator log.                                      *)

Setting == {"activated", "reconciliation_failed", "resumed"}

SwitchRowOf(on, why, version) == [active |-> on, reason |-> why, version |-> version]

\* The system trips the global switch.
Tripped ==
    /\ exec = None /\ exec' = None /\ actions' = actions
    /\ \E r \in Reason :
         switch' = [switch EXCEPT ![Global] =
                      SwitchRowOf(TRUE, r, switch[Global].version + 1)]

\* An operator sets the switch s, and the log says so.
Set(s, type) ==
    /\ exec = None /\ exec' = None
    /\ \E why \in Reason \cup {"operator", "resumed"} :
         switch' = [switch EXCEPT ![s] =
                      SwitchRowOf(type # "resumed", why, switch[s].version + 1)]
    /\ \E cancelled \in SUBSET Order :
         actions' = Append(actions, NewAction(type, s, switch[s].version + 1, cancelled))

\* The log notes something that sets no switch.
Noted ==
    /\ switch' = switch
    /\ \E type \in ActionType \ Setting, s \in Scope, t \in Scope :
         /\ switch[t].active \/ t = Global
         /\ actions' = Append(actions, NewAction(type, s, switch[t].version, {}))

LogStep ==
    \/ switch' = switch /\ actions' = actions
    \/ Tripped
    \/ \E s \in Scope, type \in Setting : Set(s, type)
    \/ Noted

LEMMA LogSteps ==
    ASSUME DeskShape, [DeskNext]_deskVars
    PROVE  LogStep
<1> USE DEF Scope
<1>1. ASSUME switch' = switch, actions' = actions PROVE LogStep
  BY <1>1 DEF LogStep
<1>2. CASE Quiet
  BY <1>1, <1>2, QuietSteps
<1>3. ASSUME NEW d \in Decision, Authorize(d) PROVE LogStep
  BY <1>1, <1>3 DEF Authorize
<1>4. ASSUME NEW o \in Order, Answer(o) PROVE LogStep
  BY <1>1, <1>4, AnswerSteps
<1>5. ASSUME NEW r \in Reason, Trip(r) PROVE LogStep
  BY <1>1, <1>5 DEF Trip, LogStep, Tripped, SwitchRowOf, SwitchRowsFree
<1>6. ASSUME NEW s \in Scope, NEW type \in Setting \ {"resumed"},
             NEW why \in Reason \cup {"operator", "resumed"},
             ActivateAndCancel(s, type, why), exec' = exec
      PROVE  LogStep
  <2> DEFINE cancelled == UNION {PendingOf(a) : a \in AccountsIn(s)}
  <2>1. cancelled \in SUBSET Order
    BY DEF PendingOf
  <2>2. exec = None /\ SetSwitch(s, TRUE, why) /\ AppendAction(type, s, switch[s].version + 1, cancelled)
    BY <1>6 DEF ActivateAndCancel, SwitchRowsFree
  <2> HIDE DEF cancelled
  <2>3. Set(s, type)
    BY <1>6, <2>1, <2>2 DEF Set, SetSwitch, AppendAction, SwitchRowOf
  <2> QED
    BY <2>3 DEF LogStep
<1>7. ASSUME NEW s \in Scope, Activate(s) PROVE LogStep
  BY <1>6, <1>7 DEF Activate, Setting
<1>8. CASE OperatorCheckFails
  <2>1. CASE ActivateAndCancel(Global, "reconciliation_failed", "ledger_reconciliation_failed")
    BY <1>6, <1>8, <2>1 DEF OperatorCheckFails, Setting, Reason
  <2> QED
    BY <1>1, <1>8, <2>1 DEF OperatorCheckFails
<1>9. ASSUME NEW s \in Scope, ResumeSound(s) PROVE LogStep
  <2>1. Set(s, "resumed")
    BY <1>9 DEF ResumeSound, PrepareResume, CompleteResume, SwitchRowsFree, Set, SetSwitch,
                AppendAction, SwitchRowOf
  <2> QED
    BY <2>1 DEF LogStep, Setting
<1>10. ASSUME NEW s \in Scope, ResumeRejected(s) PROVE LogStep
  <2>1. Noted
    BY <1>10 DEF ResumeRejected, PrepareResume, AppendAction, Noted, ActionType, Setting
  <2> QED
    BY <2>1 DEF LogStep
<1>11. ASSUME NEW k \in Checker, CheckPasses(k) PROVE LogStep
  <2>1. CASE k = "operator"
    <3>1. check[k].account \in Account
      BY <1>11 DEF CheckPasses, DeskShape
    <3>2. Noted
      BY <1>11, <2>1, <3>1 DEF CheckPasses, RecordReconciliation, AppendAction, Noted, ActionType,
                               Setting
    <3> QED
      BY <3>2 DEF LogStep
  <2> QED
    BY <1>1, <1>11, <2>1 DEF CheckPasses
<1> QED
  BY <1>2, <1>3, <1>4, <1>5, <1>7, <1>8, <1>9, <1>10, <1>11, DeskSteps DEF Operating

-----------------------------------------------------------------------------
(* The inductive invariant.                                                *)

AccountInv(a) == account[a].projected = account[a].seq

OrderInv(o) ==
    /\ ReservationTable(o) /\ OrderTable(o) /\ ReceiptTable(o)
    /\ order[o].reservation = "none" => order[o].held = 0 /\ order[o].seq = 0

\* The execution that holds the locks: the switches are as it read them, and its
\* order is as it was authorized and has no receipt.
ExecInv ==
    exec # None =>
        /\ ~Stopped(Owner(exec.order))
        /\ order[exec.order].status # "absent" /\ order[exec.order].seq = exec.seq
        /\ receipts[exec.order] = None

SwitchInv == switch[Global].version > 0 /\ \A s \in Scope : SwitchTable(s)

\* No entry of the log is ahead of its switch, and the latest setting is in force.
LogInv ==
    \A i \in 1..Len(actions) :
        LET e == actions[i]
        IN  /\ e.version > 0
            /\ e.type \in Setting =>
                 /\ e.version <= switch[e.scope].version
                 /\ e.version = switch[e.scope].version =>
                      switch[e.scope].active = (e.type # "resumed")

DeskInv ==
    /\ DeskShape
    /\ \A a \in Account : AccountInv(a)
    /\ \A o \in Order : OrderInv(o)
    /\ ExecInv /\ SwitchInv /\ LogInv

LEMMA SwitchStep ==
    ASSUME DeskShape, SwitchInv, LogInv, LogStep
    PROVE  /\ switch' \in [Scope -> SwitchRow] /\ actions' \in Seq(ActionRow)
           /\ SwitchInv' /\ LogInv'
<1>0. switch \in [Scope -> SwitchRow] /\ actions \in Seq(ActionRow) /\ Global \in Scope
  BY DEF DeskShape, Scope
<1>1. ASSUME NEW s \in Scope, NEW on \in BOOLEAN, NEW why \in Reason \cup {"operator", "resumed"},
             switch' = [switch EXCEPT ![s] = SwitchRowOf(on, why, switch[s].version + 1)]
      PROVE  /\ switch' \in [Scope -> SwitchRow] /\ SwitchInv'
             /\ switch'[s].version = switch[s].version + 1 /\ switch'[s].active = on
             /\ \A t \in Scope \ {s} : switch'[t] = switch[t]
  <2> DEFINE row == SwitchRowOf(on, why, switch[s].version + 1)
  <2>1. switch[s].version \in Nat
    BY <1>0 DEF SwitchRow
  <2>2. row \in SwitchRow /\ row.active = on /\ row.version = switch[s].version + 1
    BY <2>1 DEF SwitchRow, SwitchRowOf
  <2> HIDE DEF row
  <2>3. switch'[s] = row /\ \A t \in Scope \ {s} : switch'[t] = switch[t]
    BY <1>0, <1>1 DEF row
  <2>4. switch' \in [Scope -> SwitchRow]
    BY <1>0, <1>1, <2>2 DEF row
  <2>5. SwitchInv'
    <3>1. switch'[s].version > 0
      BY <2>1, <2>2, <2>3
    <3>2. switch'[Global].version > 0
      BY <1>0, <2>3, <3>1 DEF SwitchInv
    <3>3. ASSUME NEW t \in Scope \ {s} PROVE switch'[t].active => switch'[t].version > 0
      <4>1. switch'[t] = switch[t]
        BY <2>3
      <4>2. switch[t].active => switch[t].version > 0
        BY DEF SwitchInv, SwitchTable
      <4> QED
        BY <4>1, <4>2
    <3> QED
      BY <3>1, <3>2, <3>3 DEF SwitchInv, SwitchTable
  <2> QED
    BY <2>2, <2>3, <2>4, <2>5
<1>2. CASE switch' = switch /\ actions' = actions
  BY <1>0, <1>2 DEF SwitchInv, SwitchTable, LogInv
<1>3. CASE Tripped
  <2>1. PICK r \in Reason : switch' = [switch EXCEPT ![Global] =
                                         SwitchRowOf(TRUE, r, switch[Global].version + 1)]
    BY <1>3 DEF Tripped
  <2>2. /\ switch' \in [Scope -> SwitchRow] /\ SwitchInv'
        /\ switch'[Global].version = switch[Global].version + 1
        /\ \A t \in Scope \ {Global} : switch'[t] = switch[t]
    BY <1>0, <1>1, <2>1
  <2>3. LogInv'
    <3> SUFFICES ASSUME NEW i \in 1..Len(actions), actions[i].type \in Setting
                 PROVE  /\ actions[i].version <= switch'[actions[i].scope].version
                        /\ actions[i].version = switch'[actions[i].scope].version =>
                             switch'[actions[i].scope].active = (actions[i].type # "resumed")
      BY <1>3 DEF Tripped, LogInv
    <3>1. actions[i] \in ActionRow
      BY <1>0
    <3>2. actions[i].version \in Nat /\ actions[i].scope \in Scope
      BY <3>1 DEF ActionRow
    <3>3. /\ actions[i].version <= switch[actions[i].scope].version
          /\ actions[i].version = switch[actions[i].scope].version =>
                             switch[actions[i].scope].active = (actions[i].type # "resumed")
      BY DEF LogInv
    <3>4. switch[Global].version \in Nat
      BY <1>0 DEF SwitchRow
    <3>5. CASE actions[i].scope = Global
      BY <2>2, <3>2, <3>3, <3>4, <3>5
    <3>6. CASE actions[i].scope # Global
      <4>1. switch'[actions[i].scope] = switch[actions[i].scope]
        BY <2>2, <3>2, <3>6
      <4> QED
        BY <3>3, <4>1
    <3> QED
      BY <3>5, <3>6
  <2> QED
    BY <1>0, <1>3, <2>2, <2>3 DEF Tripped
<1>4. ASSUME NEW s \in Scope, NEW type \in Setting, Set(s, type)
      PROVE  /\ switch' \in [Scope -> SwitchRow] /\ actions' \in Seq(ActionRow)
             /\ SwitchInv' /\ LogInv'
  <2>1. PICK why \in Reason \cup {"operator", "resumed"} :
          switch' = [switch EXCEPT ![s] =
                       SwitchRowOf(type # "resumed", why, switch[s].version + 1)]
    BY <1>4 DEF Set
  <2>2. PICK cancelled \in SUBSET Order :
          actions' = Append(actions, NewAction(type, s, switch[s].version + 1, cancelled))
    BY <1>4 DEF Set
  <2> DEFINE new == NewAction(type, s, switch[s].version + 1, cancelled)
  <2>3. /\ switch' \in [Scope -> SwitchRow] /\ SwitchInv'
        /\ switch'[s].version = switch[s].version + 1
        /\ switch'[s].active = (type # "resumed")
        /\ \A t \in Scope \ {s} : switch'[t] = switch[t]
    BY <1>1, <2>1
  <2>4. switch[s].version \in Nat
    BY <1>0 DEF SwitchRow
  <2>5. /\ new \in ActionRow /\ new.type = type /\ new.scope = s
        /\ new.version = switch[s].version + 1
    BY <2>4 DEF NewAction, ActionRow, ActionType, Setting
  <2> HIDE DEF new
  <2>6. /\ actions' \in Seq(ActionRow) /\ Len(actions') = Len(actions) + 1
        /\ actions'[Len(actions) + 1] = new
        /\ \A i \in 1..Len(actions) : actions'[i] = actions[i]
    BY <1>0, <2>2, <2>5 DEF new
  <2>7. LogInv'
    <3> SUFFICES ASSUME NEW i \in 1..Len(actions')
                 PROVE  LET e == actions'[i]
                        IN  /\ e.version > 0
                            /\ e.type \in Setting =>
                                 /\ e.version <= switch'[e.scope].version
                                 /\ e.version = switch'[e.scope].version =>
                                      switch'[e.scope].active = (e.type # "resumed")
      BY DEF LogInv
    <3>1. CASE i = Len(actions) + 1
      BY <2>3, <2>4, <2>5, <2>6, <3>1
    <3>2. CASE i # Len(actions) + 1
      <4>1. i \in 1..Len(actions) /\ actions'[i] = actions[i]
        BY <1>0, <2>6, <3>2
      <4>2. actions[i] \in ActionRow
        BY <1>0, <4>1
      <4>3. actions[i].version \in Nat /\ actions[i].scope \in Scope
        BY <4>2 DEF ActionRow
      <4>4. /\ actions[i].version > 0
            /\ actions[i].type \in Setting =>
               /\ actions[i].version <= switch[actions[i].scope].version
               /\ actions[i].version = switch[actions[i].scope].version =>
                    switch[actions[i].scope].active = (actions[i].type # "resumed")
        BY <4>1 DEF LogInv
      <4> QED
        BY <2>3, <2>4, <4>1, <4>3, <4>4
    <3> QED
      BY <3>1, <3>2
  <2> QED
    BY <2>3, <2>6, <2>7
<1>5. CASE Noted
  <2>1. PICK type \in ActionType \ Setting, s \in Scope, t \in Scope :
          /\ switch[t].active \/ t = Global
          /\ actions' = Append(actions, NewAction(type, s, switch[t].version, {}))
    BY <1>5 DEF Noted
  <2> DEFINE new == NewAction(type, s, switch[t].version, {})
  <2>2. switch[t].version \in Nat /\ switch[t].version > 0
    BY <1>0, <2>1 DEF SwitchRow, SwitchInv, SwitchTable
  <2>3. /\ new \in ActionRow /\ new.type = type /\ new.version > 0
    BY <2>2 DEF NewAction, ActionRow
  <2> HIDE DEF new
  <2>4. /\ actions' \in Seq(ActionRow) /\ Len(actions') = Len(actions) + 1
        /\ actions'[Len(actions) + 1] = new
        /\ \A i \in 1..Len(actions) : actions'[i] = actions[i]
    BY <1>0, <2>1, <2>3 DEF new
  <2>5. switch' = switch
    BY <1>5 DEF Noted
  <2>6. LogInv'
    <3> SUFFICES ASSUME NEW i \in 1..Len(actions')
                 PROVE  LET e == actions'[i]
                        IN  /\ e.version > 0
                            /\ e.type \in Setting =>
                                 /\ e.version <= switch'[e.scope].version
                                 /\ e.version = switch'[e.scope].version =>
                                      switch'[e.scope].active = (e.type # "resumed")
      BY DEF LogInv
    <3>1. CASE i = Len(actions) + 1
      BY <2>1, <2>3, <2>4, <3>1
    <3>2. CASE i # Len(actions) + 1
      <4>1. i \in 1..Len(actions) /\ actions'[i] = actions[i]
        BY <1>0, <2>4, <3>2
      <4> QED
        BY <2>5, <4>1 DEF LogInv
    <3> QED
      BY <3>1, <3>2
  <2>7. SwitchInv'
    BY <2>5 DEF SwitchInv, SwitchTable
  <2> QED
    BY <1>0, <2>4, <2>5, <2>6, <2>7
<1> QED
  BY <1>2, <1>3, <1>4, <1>5 DEF LogStep

\* What a step makes of a row: its type, its account's sequence and its guards.
LEMMA OrderInvStep ==
    ASSUME DeskInv, NEW o \in Order, OrderStep(o), AccountStep(Owner(o))
    PROVE  /\ order'[o] \in OrderRow /\ receipts'[o] \in ReceiptRow \cup {None}
           /\ OrderInv(o)' /\ ReservationGuard(o) /\ OrderGuard(o)
           /\ receipts'[o] # receipts[o] => account[Owner(o)].seq = order[o].seq
           /\ receipts[o] # None => receipts'[o] = receipts[o]
           /\ order[o].status \notin Pending \cup {"absent"} => order'[o] = order[o]
           /\ order[o].status # "absent" => order'[o].status # "absent" /\ order'[o].seq = order[o].seq
<1> DEFINE a == Owner(o)
           old == order[o]
           new == order'[o]
<1>0. /\ a \in Account /\ account[a] \in AccountRow /\ account[a].seq \in Nat
      /\ old \in OrderRow /\ old.seq \in Nat /\ old.held \in Nat /\ old.filled \in Nat
      /\ old.status \in OrderStatus /\ old.reservation \in ReservationState
      /\ receipts[o] \in ReceiptRow \cup {None} /\ ReserveAmount(o) \in Nat \ {0} /\ Qty[o] \in Nat
  BY Amounts DEF DeskInv, DeskShape, AccountRow, OrderRow
<1>1. /\ old.held <= ReserveAmount(o)
      /\ old.reservation # "none" <=> old.seq \in 1..account[a].seq
      /\ old.status = "absent" <=> old.reservation = "none"
      /\ receipts[o] # None => old.status # "absent"
      /\ old.reservation = "none" => old.held = 0 /\ old.seq = 0
  BY DEF DeskInv, OrderInv, ReservationTable, OrderTable, ReceiptTable
<1>2. account'[a].seq \in Nat /\ account'[a].seq >= account[a].seq
  <2>1. CASE AccountKept(a)
    BY <1>0, <2>1 DEF AccountKept
  <2>2. ASSUME NEW n \in Nat, AccountMoved(a, n) PROVE account'[a].seq = account[a].seq + 1
    BY <2>2 DEF AccountMoved
  <2> QED
    BY <1>0, <2>1, <2>2 DEF AccountStep
<1>g. ASSUME new.seq = old.seq, new.reservation # "none", old.reservation # "none",
             new.status # "absent", new.held \in Nat, new.held <= old.held
      PROVE  OrderInv(o)'
  BY <1>g, <1>0, <1>1, <1>2, Amounts
     DEF OrderInv, ReservationTable, OrderTable, ReceiptTable, Owner, ReserveAmount
<1>3. CASE OrderKept(o)
  <2>1. new = old /\ receipts'[o] = receipts[o]
    BY <1>3 DEF OrderKept
  <2>2. OrderInv(o)'
    <3>1. new.reservation # "none" <=> new.seq \in 1..account'[a].seq
      BY <1>0, <1>1, <1>2, <2>1
    <3> QED
      BY <1>1, <2>1, <3>1
         DEF OrderInv, ReservationTable, OrderTable, ReceiptTable, Owner, ReserveAmount
  <2>3. ReservationGuard(o) /\ OrderGuard(o)
    BY <1>0, <1>1, <2>1 DEF ReservationGuard, OrderGuard, AmountFits
  <2> QED
    BY <1>0, <2>1, <2>2, <2>3
<1>4. CASE Placed(o)
  <2>1. /\ old.status = "absent" /\ new = NewOrder(o, account[a].seq + 1)
        /\ account'[a].seq = account[a].seq + 1 /\ receipts'[o] = receipts[o]
    BY <1>4 DEF Placed, AccountMoved
  <2>2. /\ new.status = "created" /\ new.held = ReserveAmount(o) /\ new.reservation = "open"
        /\ new.seq = account[a].seq + 1 /\ new \in OrderRow
    BY <1>0, <2>1 DEF NewOrder, OrderRow, OrderStatus, ReservationState
  <2> HIDE DEF new, old
  <2>3. OrderInv(o)'
    BY <1>0, <2>1, <2>2
       DEF OrderInv, ReservationTable, OrderTable, ReceiptTable, Owner, ReserveAmount, new
  <2>4. ReservationGuard(o) /\ OrderGuard(o)
    BY <1>1, <2>1, <2>2 DEF ReservationGuard, OrderGuard, AmountFits, new, old
  <2>5. receipts[o] = None
    BY <1>1, <2>1
  <2> QED
    BY <1>0, <2>1, <2>2, <2>3, <2>4, <2>5 DEF new, old
<1>5. ASSUME NEW status \in ReceiptRow, NEW filled \in Nat, NEW held \in Nat,
             NEW state \in ReservationState \ {"none"}, Answered(o, status, filled, held, state)
      PROVE  /\ new \in OrderRow /\ receipts'[o] \in ReceiptRow \cup {None}
             /\ OrderInv(o)' /\ ReservationGuard(o) /\ OrderGuard(o)
             /\ account[a].seq = old.seq /\ receipts[o] = None /\ old.status = "created"
             /\ new.status # "absent" /\ new.seq = old.seq
  <2>1. /\ exec # None /\ o = exec.order /\ account[a].seq = exec.seq
        /\ old.status = "created" /\ old.reservation = "open"
    BY <1>5 DEF Answered, Executing, Overtaken, Persisted
  <2>2. /\ Answers(o, status, filled) /\ held <= old.held /\ receipts'[o] = status
        /\ new = [old EXCEPT !.status = status, !.filled = filled,
                             !.held = held, !.reservation = state]
    BY <1>5 DEF Answered
  <2>3. old.seq = exec.seq /\ receipts[o] = None
    BY <2>1 DEF DeskInv, ExecInv
  <2>4. status \in OrderStatus /\ status \notin {"absent", "created", "cancelled"}
    BY DEF ReceiptRow
  <2>5. /\ new \in OrderRow /\ new.status = status /\ new.filled = filled /\ new.held = held
        /\ new.reservation = state /\ new.seq = old.seq
    BY <1>0, <2>2, <2>4 DEF OrderRow
  <2>6. /\ old.filled <= filled
        /\ \/ status \in Transition("created")
           \/ status \in Transition("accepted") /\ "accepted" \in Transition("created")
    BY <1>0, <2>1, <2>2 DEF Answers, MayAppend
  <2> HIDE DEF new, old
  <2>7. OrderInv(o)'
    BY <1>g, <2>1, <2>2, <2>4, <2>5
  <2>8. ReservationGuard(o)
    BY <2>1, <2>2, <2>5 DEF ReservationGuard, new, old
  <2>9. OrderGuard(o)
    BY <2>1, <2>5, <2>6 DEF OrderGuard, new, old
  <2> QED
    BY <2>1, <2>2, <2>3, <2>4, <2>5, <2>7, <2>8, <2>9
<1>6. CASE Withdrawn(o)
  <2>0. PICK status \in {"expired", "cancelled"}, state \in {"expired", "released"} :
          /\ status = CancelledAs(o)
          /\ state = IF CancelledAs(o) = "expired" THEN "expired" ELSE "released"
    BY DEF CancelledAs
  <2>1. /\ old.status \in Pending /\ OpenReservation(o) /\ receipts'[o] = receipts[o]
        /\ MayAppend(o, old.status, status, old.filled)
        /\ new = [old EXCEPT !.status = status, !.held = 0, !.reservation = state]
    BY <1>6, <2>0 DEF Withdrawn, Releasable
  <2>2. /\ status \in {"expired", "cancelled"} /\ state \in {"expired", "released"}
        /\ status \in OrderStatus /\ state \in ReservationState
    BY DEF OrderStatus, ReservationState
  <2>3. /\ new \in OrderRow /\ new.status = status /\ new.filled = old.filled /\ new.held = 0
        /\ new.reservation = state /\ new.seq = old.seq
    <3>1. old \in OrderRow /\ new = [old EXCEPT !.status = status, !.held = 0, !.reservation = state]
      BY <1>0, <2>1
    <3> HIDE DEF new, old
    <3>2. new.status = status /\ new.held = 0 /\ new.reservation = state
      BY <3>1 DEF OrderRow
    <3>3. new.filled = old.filled /\ new.seq = old.seq
      BY <3>1 DEF OrderRow
    <3>4. new \in OrderRow
      BY <2>2, <3>1 DEF OrderRow
    <3> QED
      BY <3>2, <3>3, <3>4
  <2>4. old.reservation # "none" /\ status \in Transition(old.status)
    BY <2>1 DEF OpenReservation, MayAppend
  <2> HIDE DEF new, old
  <2>5. OrderInv(o)'
    BY <1>0, <1>g, <2>2, <2>3, <2>4
  <2>6. ReservationGuard(o)
    BY <1>0, <2>3, <2>4 DEF ReservationGuard, new, old
  <2>7. OrderGuard(o)
    BY <1>0, <2>3, <2>4 DEF OrderGuard, new, old
  <2>8. old.status \in Pending /\ receipts'[o] = receipts[o]
    BY <2>1
  <2> QED
    BY <1>0, <2>2, <2>3, <2>5, <2>6, <2>7, <2>8 DEF new, old
<1>7. CASE \E status \in ReceiptRow, filled, held \in Nat, state \in ReservationState \ {"none"} :
             Answered(o, status, filled, held, state)
  BY <1>5, <1>7 DEF Pending
<1> QED
  BY <1>3, <1>4, <1>6, <1>7 DEF OrderStep

\* The locks are taken by the begin of an execution only.
LEMMA ExecSteps ==
    ASSUME DeskShape, [DeskNext]_deskVars
    PROVE  /\ exec' = None \/ exec' = exec \/ \E o \in Order : ExecuteBegin(o)
           /\ check' \in [Checker -> [account: Account, seq: Nat] \cup {None}]
<1>0. check \in [Checker -> [account: Account, seq: Nat] \cup {None}]
  BY DEF DeskShape
<1>1. ASSUME NEW k \in Checker, CheckEnd(k)
      PROVE  check' \in [Checker -> [account: Account, seq: Nat] \cup {None}]
  BY <1>0, <1>1 DEF CheckEnd
<1>2. ASSUME NEW k \in Checker, NEW a \in Account, CheckBegin(k, a)
      PROVE  check' \in [Checker -> [account: Account, seq: Nat] \cup {None}]
  <2>1. account[a].seq \in Nat
    BY DEF DeskShape, AccountRow
  <2> QED
    BY <1>0, <1>2, <2>1 DEF CheckBegin
<1>3. CASE Quiet
  <2>1. exec' = None \/ exec' = exec \/ \E o \in Order : ExecuteBegin(o)
    BY <1>3 DEF Quiet, Expire, Observe, ObservationAges, Damage, IssueCommand, ExecuteStale,
                ExecuteFault, LoseAlarm, CheckBegin, CheckAlarms, deskVars
  <2>2. check' \in [Checker -> [account: Account, seq: Nat] \cup {None}]
    BY <1>0, <1>1, <1>2, <1>3
       DEF Quiet, Expire, Observe, ObservationAges, Damage, IssueCommand, ExecuteBegin, ExecuteStale,
           ExecuteFault, LoseAlarm, CheckAlarms, deskVars
  <2> QED
    BY <2>1, <2>2
<1>4. CASE Operating
  BY <1>0, <1>1, <1>4 DEF Operating, Trip, Activate, ResumeSound, ResumeRejected, CheckPasses,
                          OperatorCheckFails
<1>5. ASSUME NEW d \in Decision, Authorize(d) PROVE exec' = exec /\ check' = check
  BY <1>5 DEF Authorize
<1>6. ASSUME NEW o \in Order, Answer(o) PROVE exec' = None /\ check' = check
  BY <1>6, AnswerSteps
<1> QED
  BY <1>0, <1>3, <1>4, <1>5, <1>6, DeskSteps

\* The invariant holds in every reachable state.
THEOREM DeskInvariant == Spec => []DeskInv
<1>1. DeskInit => DeskInv
  <2> SUFFICES ASSUME DeskInit PROVE DeskInv
    OBVIOUS
  <2>1. DeskShape
    BY DEF DeskInit, DeskShape, AccountRow, OrderRow, OrderStatus, ReservationState, SwitchRow
  <2>2. \A a \in Account : AccountInv(a)
    BY DEF DeskInit, AccountInv
  <2>3. \A o \in Order : OrderInv(o)
    BY Amounts DEF DeskInit, OrderInv, ReservationTable, OrderTable, ReceiptTable, Owner
  <2>4. ExecInv /\ SwitchInv /\ LogInv
    BY DEF DeskInit, ExecInv, SwitchInv, SwitchTable, LogInv, Scope
  <2> QED
    BY <2>1, <2>2, <2>3, <2>4 DEF DeskInv
<1>2. DeskInv /\ [DeskNext]_deskVars => DeskInv'
  <2> SUFFICES ASSUME DeskInv, [DeskNext]_deskVars PROVE DeskInv'
    OBVIOUS
  <2>0. /\ DeskShape /\ (\A a \in Account : AccountStep(a)) /\ (\A o \in Order : OrderStep(o))
        /\ LogStep
    BY AccountSteps, OrderSteps, LogSteps DEF DeskInv
  <2>1. \A a \in Account : account'[a] \in AccountRow /\ AccountInv(a)'
    <3> SUFFICES ASSUME NEW a \in Account PROVE account'[a] \in AccountRow /\ AccountInv(a)'
      OBVIOUS
    <3>1. account[a] \in AccountRow /\ account[a].seq \in Nat /\ account[a].ledger \in Nat
          /\ account[a].projected = account[a].seq
      BY DEF DeskInv, DeskShape, AccountRow, AccountInv
    <3>2. CASE AccountKept(a)
      BY <3>1, <3>2 DEF AccountKept, AccountInv
    <3>3. ASSUME NEW n \in Nat, AccountMoved(a, n) PROVE account'[a] \in AccountRow /\ AccountInv(a)'
      BY <3>1, <3>3 DEF AccountMoved, AccountRow, AccountInv
    <3> QED
      BY <2>0, <3>2, <3>3 DEF AccountStep
  <2>2. account' \in [Account -> AccountRow]
    <3>1. account' = [a \in Account |-> account'[a]]
      <4>1. CASE account' = account
        BY <2>0, <4>1 DEF DeskShape
      <4>2. ASSUME NEW d \in Decision, Authorize(d) PROVE account' = [a \in Account |-> account'[a]]
        BY <2>0, <4>2 DEF Authorize, DeskShape
      <4>3. ASSUME NEW k \in Order, NEW q \in 1..Qty[k], NEW p \in Price, ExecuteFill(k, q, p)
            PROVE  account' = [a \in Account |-> account'[a]]
        BY <2>0, <4>3 DEF ExecuteFill, AppendJournal, Advanced, DeskShape
      <4>4. ASSUME NEW k \in Order, Answer(k) PROVE account' = [a \in Account |-> account'[a]]
        BY <4>1, <4>3, <4>4 DEF Answer, ExecutePending, ExecuteExpired, ExecuteRejected
      <4>5. CASE Quiet
        BY <4>1, <4>5, QuietSteps
      <4>6. CASE Operating
        BY <4>1, <4>6 DEF Operating, Trip, Activate, ResumeSound, ResumeRejected, CheckPasses,
                          OperatorCheckFails, books
      <4> QED
        BY <4>2, <4>4, <4>5, <4>6, DeskSteps
    <3> QED
      BY <2>1, <3>1
  <2>3. \A o \in Order : /\ order'[o] \in OrderRow /\ receipts'[o] \in ReceiptRow \cup {None}
                         /\ OrderInv(o)'
                         /\ order[o].status # "absent" =>
                              order'[o].status # "absent" /\ order'[o].seq = order[o].seq
    BY <2>0, OrderInvStep, Amounts
  <2>4. /\ order' = [o \in Order |-> order'[o]] /\ receipts' = [o \in Order |-> receipts'[o]]
    <3>1. ASSUME order' = order, receipts' = receipts
          PROVE  order' = [o \in Order |-> order'[o]] /\ receipts' = [o \in Order |-> receipts'[o]]
      BY <2>0, <3>1 DEF DeskShape
    <3>2. ASSUME NEW d \in Decision, Authorize(d)
          PROVE  order' = [o \in Order |-> order'[o]] /\ receipts' = [o \in Order |-> receipts'[o]]
      BY <2>0, <3>2 DEF Authorize, DeskShape
    <3>3. ASSUME NEW o \in Order, NEW status, NEW filled, NEW held, NEW state,
                 ApplyExecution(o, status, filled, held, state)
          PROVE  order' = [k \in Order |-> order'[k]] /\ receipts' = [k \in Order |-> receipts'[k]]
      BY <2>0, <3>3 DEF ApplyExecution, Mutated, DeskShape
    <3>4. ASSUME NEW o \in Order, Answer(o)
          PROVE  order' = [k \in Order |-> order'[k]] /\ receipts' = [k \in Order |-> receipts'[k]]
      BY <3>3, <3>4 DEF Answer, ExecutePending, ExecuteExpired, ExecuteRejected, ExecuteFill
    <3>5. CASE Quiet
      BY <3>1, <3>5, QuietSteps
    <3>6. ASSUME NEW s, NEW type, NEW why, ActivateAndCancel(s, type, why), receipts' = receipts
          PROVE  order' = [o \in Order |-> order'[o]] /\ receipts' = [o \in Order |-> receipts'[o]]
      BY <2>0, <3>6 DEF ActivateAndCancel, DeskShape
    <3>7. CASE Operating
      BY <3>1, <3>6, <3>7 DEF Operating, Trip, Activate, ResumeSound, ResumeRejected, CheckPasses,
                              OperatorCheckFails, books
    <3> QED
      BY <3>2, <3>4, <3>5, <3>7, DeskSteps
  <2>5. order' \in [Order -> OrderRow] /\ receipts' \in [Order -> ReceiptRow \cup {None}]
    BY <2>3, <2>4
  <2>6. /\ switch' \in [Scope -> SwitchRow] /\ actions' \in Seq(ActionRow) /\ SwitchInv' /\ LogInv'
    BY <2>0, SwitchStep DEF DeskInv
  <2>7. ASSUME NEW o \in Order, ExecuteBegin(o)
        PROVE  exec' \in [order: Order, seq: Nat] /\ ExecInv'
    <3>1. account[Owner(o)].seq \in Nat
      BY Amounts DEF DeskInv, DeskShape, AccountRow
    <3>2. exec' = [order |-> o, seq |-> account[Owner(o)].seq]
      BY <2>7 DEF ExecuteBegin
    <3>3. exec'.order = o /\ exec'.seq = account[Owner(o)].seq /\ exec' \in [order: Order, seq: Nat]
      BY <3>1, <3>2
    <3>4. /\ ~Stopped(Owner(o)) /\ order[o].status # "absent" /\ order[o].seq = account[Owner(o)].seq
          /\ receipts[o] = None /\ UNCHANGED <<order, receipts, switch>>
      BY <2>7 DEF ExecuteBegin, RequestHolds, Replays, Pending, books
    <3>5. ~Stopped(Owner(o))'
      BY <3>4 DEF Stopped, Owner
    <3> QED
      BY <3>3, <3>4, <3>5 DEF ExecInv, Owner, Stopped
  <2>8. ASSUME exec' = exec, exec # None PROVE ExecInv'
    <3>1. /\ exec.order \in Order /\ ~Stopped(Owner(exec.order))
          /\ order[exec.order].status # "absent" /\ order[exec.order].seq = exec.seq
          /\ receipts[exec.order] = None
      BY <2>0, <2>8 DEF DeskInv, DeskShape, ExecInv
    <3>2. switch' = switch
      BY <2>0, <2>8 DEF LogStep, Tripped, Set, Noted
    <3>3. receipts'[exec.order] = None
      BY <2>0, <2>8, <3>1 DEF OrderStep, OrderKept, Placed, Answered, Withdrawn
    <3>4. ~Stopped(Owner(exec.order))'
      BY <2>8, <3>1, <3>2 DEF Stopped, Owner
    <3> QED
      BY <2>3, <2>8, <3>1, <3>3, <3>4 DEF ExecInv
  <2>9. /\ ExecInv' /\ exec' \in [order: Order, seq: Nat] \cup {None}
        /\ check' \in [Checker -> [account: Account, seq: Nat] \cup {None}]
    BY <2>0, <2>7, <2>8, ExecSteps DEF ExecInv, DeskShape
  <2> QED
    BY <2>1, <2>2, <2>3, <2>5, <2>6, <2>9 DEF DeskInv, DeskShape
<1> QED
  BY <1>1, <1>2, PTL DEF Spec

-----------------------------------------------------------------------------
(* What it gives.                                                          *)

\* A new fill is the one of the execution that holds the locks, with its entry.
LEMMA FillSteps ==
    ASSUME DeskShape, [DeskNext]_deskVars
    PROVE  \/ fills' = fills /\ journal' = journal
           \/ \E o \in Order : \E q \in 1..Qty[o], p \in Price : ExecuteFill(o, q, p)
<1>1. CASE Quiet
  BY <1>1, QuietSteps
<1>2. CASE Operating
  BY <1>2 DEF Operating, Trip, Activate, ResumeSound, ResumeRejected, CheckPasses,
              OperatorCheckFails, books
<1>3. ASSUME NEW d \in Decision, Authorize(d) PROVE fills' = fills /\ journal' = journal
  BY <1>3 DEF Authorize
<1>4. ASSUME NEW o \in Order, Answer(o)
      PROVE  \/ fills' = fills /\ journal' = journal
             \/ \E q \in 1..Qty[o], p \in Price : ExecuteFill(o, q, p)
  BY <1>4 DEF Answer, ExecutePending, ExecuteExpired, ExecuteRejected
<1> QED
  BY <1>1, <1>2, <1>3, <1>4, DeskSteps

\* No step books a fill while a switch that covers its account is active,
\* although the switches were read when the execution began.
THEOREM NothingFillsWhileStopped == Spec => NoFillWhileStopped
<1>1. DeskInv /\ [DeskNext]_deskVars => \A f \in fills' \ fills : ~Stopped(Owner(f.order))
  <2> SUFFICES ASSUME DeskInv, [DeskNext]_deskVars, NEW f \in fills' \ fills
               PROVE  ~Stopped(Owner(f.order))
    OBVIOUS
  <2>0. PICK o \in Order : \E q \in 1..Qty[o], p \in Price : ExecuteFill(o, q, p)
    BY FillSteps DEF DeskInv
  <2>1. PICK q \in 1..Qty[o], p \in Price : ExecuteFill(o, q, p)
    BY <2>0
  <2>2. f = NewFill(o, q, p)
    BY <2>1 DEF ExecuteFill
  <2>3. f.order = o /\ exec # None /\ exec.order = o
    BY <2>1, <2>2 DEF NewFill, ExecuteFill, Executing
  <2> QED
    BY <2>3 DEF DeskInv, ExecInv
<1> QED
  BY <1>1, DeskInvariant, PTL DEF Spec, NoFillWhileStopped

\* Whoever finds a switch at the version of a logged activation or resumption
\* finds it in the state which that entry records.
THEOREM LogAlwaysAgrees == Spec => []LogAgrees
<1>1. DeskInv => LogAgrees
  BY DEF DeskInv, LogInv, LogAgrees, Setting
<1> QED
  BY <1>1, DeskInvariant, PTL

\* The triggers on the account, projection, journal and fill tables accept what a
\* step writes.
LEMMA LedgerGuards ==
    ASSUME DeskInv, DeskInv', [DeskNext]_deskVars
    PROVE  /\ \A a \in Account : AccountGuard(a) /\ ProjectionGuard(a) /\ JournalGuard(a)
           /\ FillGuard
           /\ \A f \in fills' \ fills : Owner(f.order) \notin drift
<1>1. ASSUME NEW a \in Account PROVE AccountGuard(a) /\ ProjectionGuard(a)
  <2>1. AccountStep(a)
    BY AccountSteps DEF DeskInv
  <2>2. ASSUME NEW n \in Nat, AccountMoved(a, n) PROVE AccountGuard(a)
    BY <2>2 DEF AccountMoved, AccountGuard
  <2>3. AccountGuard(a)
    BY <2>1, <2>2 DEF AccountStep, AccountKept, AccountGuard
  <2>4. ProjectionGuard(a)
    BY DEF DeskInv, AccountInv, ProjectionGuard
  <2> QED
    BY <2>3, <2>4
<1>2. CASE fills' = fills /\ journal' = journal
  BY <1>1, <1>2 DEF JournalGuard, FillGuard
<1>3. ASSUME NEW o \in Order, NEW q \in 1..Qty[o], NEW p \in Price, ExecuteFill(o, q, p)
      PROVE  /\ \A a \in Account : JournalGuard(a)
             /\ FillGuard
             /\ \A f \in fills' \ fills : Owner(f.order) \notin drift
  <2> DEFINE new == NewFill(o, q, p)
             entry == NewEntry(new)
             status == IF q = Qty[o] THEN "filled" ELSE "partially_filled"
  <2>1. /\ fills' = fills \cup {new} /\ journal' = journal \cup {entry} /\ Executing(o)
    BY <1>3 DEF ExecuteFill, AppendJournal
  <2>2. /\ new.order = o /\ new.qty = q /\ new.price = p
        /\ entry.account = Owner(o) /\ entry.seq = account[Owner(o)].ledger + 1
        /\ NewFill(entry.order, entry.qty, entry.price) = new
    BY DEF NewFill, NewEntry
  <2>3. order'[o].status \in {"partially_filled", "filled"}
    <3>1. PICK held, state : ApplyExecution(o, status, q, held, state)
      BY <1>3 DEF ExecuteFill
    <3>2. order' = Mutated(o, status, q, held, state)
      BY <3>1 DEF ApplyExecution
    <3>3. order[o] \in OrderRow
      BY DEF DeskInv, DeskShape
    <3> HIDE DEF status
    <3>4. order'[o].status = status
      BY <3>2, <3>3 DEF Mutated, DeskInv, DeskShape, OrderRow
    <3> QED
      BY <3>4 DEF status
  <2> HIDE DEF new, entry
  <2>4. \A a \in Account : JournalGuard(a)
    BY <2>1, <2>2 DEF JournalGuard
  <2>5. FillGuard
    BY <2>1, <2>2, <2>3 DEF FillGuard
  <2>6. Owner(o) \notin drift
    BY <2>1 DEF Executing
  <2> QED
    BY <2>1, <2>2, <2>4, <2>5, <2>6
<1> QED
  BY <1>1, <1>2, <1>3, FillSteps DEF DeskInv

\* The triggers on the switches and on the log accept what a step writes, and
\* only a resumption that reconciled the accounts of its scope ends a stop.
LEMMA SwitchGuards ==
    ASSUME DeskInv, [DeskNext]_deskVars
    PROVE  /\ \A s \in Scope : SwitchGuard(s)
           /\ HeadGuard
           /\ \A s \in Scope : switch[s].active /\ ~switch'[s].active
                                 => AccountsIn(s) \cap drift = {}
<1>0. /\ switch \in [Scope -> SwitchRow] /\ actions \in Seq(ActionRow) /\ LogStep /\ Global \in Scope
  BY LogSteps DEF DeskInv, DeskShape, Scope
<1>1. ASSUME NEW s \in Scope, NEW on, NEW why, NEW t \in Scope,
             switch' = [switch EXCEPT ![s] = SwitchRowOf(on, why, switch[s].version + 1)]
      PROVE  SwitchGuard(t)
  BY <1>0, <1>1 DEF SwitchGuard, SwitchRowOf
<1>2. \A s \in Scope : SwitchGuard(s)
  <2>1. CASE switch' = switch
    BY <2>1 DEF SwitchGuard
  <2>2. CASE Tripped
    BY <1>0, <1>1, <2>2 DEF Tripped
  <2>3. ASSUME NEW s \in Scope, NEW type \in Setting, Set(s, type)
        PROVE  \A t \in Scope : SwitchGuard(t)
    BY <1>1, <2>3 DEF Set
  <2> QED
    BY <1>0, <2>1, <2>2, <2>3 DEF LogStep, Noted
<1>3. HeadGuard
  <2>1. CASE actions' = actions
    BY <2>1 DEF HeadGuard
  <2>2. ASSUME NEW e, actions' = Append(actions, e) PROVE HeadGuard
    BY <1>0, <2>2 DEF HeadGuard
  <2> QED
    BY <1>0, <2>1, <2>2 DEF LogStep, Tripped, Set, Noted
<1>4. ASSUME NEW s \in Scope, switch[s].active, ~switch'[s].active
      PROVE  AccountsIn(s) \cap drift = {}
  <2>1. switch' # switch
    BY <1>4
  <2>2. CASE Quiet
    BY <2>1, <2>2, QuietSteps
  <2>3. ASSUME NEW d \in Decision, Authorize(d) PROVE FALSE
    BY <2>1, <2>3 DEF Authorize
  <2>4. ASSUME NEW o \in Order, Answer(o) PROVE FALSE
    BY <2>1, <2>4, AnswerSteps DEF DeskInv
  <2>5. ASSUME NEW t \in Scope, ResumeSound(t) PROVE AccountsIn(s) \cap drift = {}
    <3>1. SetSwitch(t, FALSE, "resumed") /\ \A a \in AccountsIn(t) : a \notin drift
      BY <2>5 DEF ResumeSound, CompleteResume, GraphValid
    <3>2. s = t
      <4>1. s # t => switch'[s] = switch[s]
        BY <1>0, <3>1 DEF SetSwitch
      <4> QED
        BY <1>4, <4>1
    <3> QED
      BY <3>1, <3>2
  <2>6. ASSUME NEW t \in Scope, NEW why, SetSwitch(t, TRUE, why) PROVE FALSE
    <3>1. s # t => switch'[s] = switch[s]
      BY <1>0, <2>6 DEF SetSwitch
    <3>2. s = t => switch'[s].active = TRUE
      BY <1>0, <2>6 DEF SetSwitch
    <3> QED
      BY <1>4, <3>1, <3>2
  <2>7. ASSUME NEW r \in Reason, Trip(r) PROVE FALSE
    <3>1. SetSwitch(Global, TRUE, r)
      BY <2>1, <2>7 DEF Trip, SetSwitch
    <3> QED
      BY <1>0, <2>6, <3>1
  <2>8. ASSUME NEW t \in Scope, Activate(t) PROVE FALSE
    BY <2>6, <2>8 DEF Activate, ActivateAndCancel
  <2>9. ASSUME NEW t \in Scope, ResumeRejected(t) PROVE FALSE
    BY <2>1, <2>9 DEF ResumeRejected
  <2>10. ASSUME NEW k \in Checker, CheckPasses(k) PROVE FALSE
    BY <2>1, <2>10 DEF CheckPasses
  <2>11. ASSUME OperatorCheckFails PROVE FALSE
    BY <1>0, <2>1, <2>6, <2>11 DEF OperatorCheckFails, ActivateAndCancel
  <2> QED
    BY <2>2, <2>3, <2>4, <2>5, <2>7, <2>8, <2>9, <2>10, <2>11, DeskSteps DEF Operating
<1> QED
  BY <1>2, <1>3, <1>4

\* Whatever an execution answers is recorded at the sequence its order was
\* authorized at; a receipt and a terminal order stay; nothing is booked on and no
\* resumption covers a damaged ledger; and no trigger refuses a step.
THEOREM ExecutionsAreBound == Spec => ExecutionIsBound
<1>1. DeskInv /\ DeskInv' /\ [DeskNext]_deskVars =>
        /\ \A o \in Order :
             /\ receipts'[o] # receipts[o] => account[Owner(o)].seq = order[o].seq
             /\ receipts[o] # None => receipts'[o] = receipts[o]
             /\ order[o].status \notin Pending \cup {"absent"} => order'[o] = order[o]
        /\ \A f \in fills' \ fills : Owner(f.order) \notin drift
        /\ \A s \in Scope : switch[s].active /\ ~switch'[s].active
                              => AccountsIn(s) \cap drift = {}
        /\ GuardsAccept
  <2> SUFFICES ASSUME DeskInv, DeskInv', [DeskNext]_deskVars
               PROVE  /\ \A o \in Order :
                           /\ receipts'[o] # receipts[o] => account[Owner(o)].seq = order[o].seq
                           /\ receipts[o] # None => receipts'[o] = receipts[o]
                           /\ order[o].status \notin Pending \cup {"absent"} => order'[o] = order[o]
                      /\ \A f \in fills' \ fills : Owner(f.order) \notin drift
                      /\ \A s \in Scope : switch[s].active /\ ~switch'[s].active
                                            => AccountsIn(s) \cap drift = {}
                      /\ GuardsAccept
    OBVIOUS
  <2>1. \A o \in Order : OrderStep(o) /\ AccountStep(Owner(o))
    BY OrderSteps, AccountSteps, Amounts DEF DeskInv
  <2>2. \A o \in Order :
          /\ ReservationGuard(o) /\ OrderGuard(o)
          /\ receipts'[o] # receipts[o] => account[Owner(o)].seq = order[o].seq
          /\ receipts[o] # None => receipts'[o] = receipts[o]
          /\ order[o].status \notin Pending \cup {"absent"} => order'[o] = order[o]
    BY <2>1, OrderInvStep
  <2> QED
    BY <2>2, LedgerGuards, SwitchGuards DEF GuardsAccept
<1> QED
  BY <1>1, DeskInvariant, PTL DEF Spec, ExecutionIsBound
=============================================================================

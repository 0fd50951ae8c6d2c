----------------------------- MODULE LocalRun -----------------------------
(***************************************************************************)
(* The in-memory paper cycle behind the fake-cycle command and the         *)
(* capacity probe (adapters/fakes/platform.py): threads run requests under *)
(* one lock per account, look an idempotency key up before and after they  *)
(* wait for it, and remember runs for replay.  Money is counted in units   *)
(* of the currency, as all prices are whole.                               *)
(***************************************************************************)
EXTENDS Integers, Sequences, FiniteSets, FiniteSetsExt, Nothing

CONSTANTS
    RunThreads, Keys, LocalAccounts, Symbols,
    Requests,       \* [key, account, symbol, eligible, future]
    InitialCash,
    MaxAnswers      \* bound

CurrentPrice == 100
NextPrice == 101
FillFee == 1
TargetPercent == 5
Deadband == 4..6

VARIABLES
    books,     \* _accounts: cash, positions, sequence
    lock,      \* [LocalAccounts -> the thread that holds the account's lock, or None]
    memo,      \* _idempotency: [Keys -> request and result, or None]
    runs,      \* _runs: [Requests -> the account before and the result, or None]
    journals,  \* _journals: [LocalAccounts -> quantities and costs posted]
    running,   \* [RunThreads -> the call under way]
    answered   \* number of answers given
localVars == <<books, lock, memo, runs, journals, running, answered>>

NoCall == [step |-> "idle"]

LocalInit ==
    /\ books = [a \in LocalAccounts |-> [cash |-> InitialCash, held |-> [s \in Symbols |-> 0], seq |-> 0]]
    /\ lock = [a \in LocalAccounts |-> None]
    /\ memo = [k \in Keys |-> None]
    /\ runs = [r \in Requests |-> None]
    /\ journals = [a \in LocalAccounts |-> <<>>]
    /\ running = [t \in RunThreads |-> NoCall]
    /\ answered = 0

-----------------------------------------------------------------------------
(* One cycle on a locked account.                                          *)

Nav(b) == b.cash + MapThenSumSet(LAMBDA s : b.held[s] * CurrentPrice, Symbols)

\* _build_target: within the deadband nothing is traded.
Delta(b, r) ==
    LET worth == b.held[r.symbol] * CurrentPrice
        nav == Nav(b)
    IN  IF ~r.eligible \/ (Min(Deadband) * nav <= 100 * worth /\ 100 * worth <= Max(Deadband) * nav) THEN 0
        ELSE (nav * TargetPercent) \div (100 * CurrentPrice) - b.held[r.symbol]

\* _reservation_cash
Cost(q) == IF q <= 0 THEN 0 ELSE q * NextPrice + FillFee

\* _evaluate_risk: evidence of the future, sales and purchases beyond the cash.
RiskAccepts(b, r) == ~r.future /\ Delta(b, r) >= 0 /\ Cost(Delta(b, r)) <= b.cash

\* _execute_if_approved: reserve, fill at the next price, release.
Filled(b, r) == IF RiskAccepts(b, r) THEN Delta(b, r) ELSE 0
After(b, r) ==
    IF Filled(b, r) = 0 THEN b
    ELSE [cash |-> b.cash - Cost(Filled(b, r)), held |-> [b.held EXCEPT ![r.symbol] = @ + Filled(b, r)],
          seq |-> b.seq + 2]

\* The balanced entries a fill adds to the journal.
JournalForFill(b, r) ==
    IF Filled(b, r) = 0 THEN <<>> ELSE <<[symbol |-> r.symbol, qty |-> Filled(b, r)]>>

Result(b, r) ==
    [status |-> IF RiskAccepts(b, r) THEN "completed" ELSE "rejected",
     fill |-> Filled(b, r), projection |-> After(b, r)]

\* replay: the recorded account with the recorded fill applied.
Replayed(run, r) ==
    IF run.result.fill = 0 THEN run.before
    ELSE [cash |-> run.before.cash - Cost(run.result.fill),
          held |-> [run.before.held EXCEPT ![r.symbol] = @ + run.result.fill],
          seq |-> run.before.seq + 2]

-----------------------------------------------------------------------------
(* run.                                                                    *)

\* _cached raises when the key was used for another request.
Remembered(r) == memo[r.key] # None

Answer(t) == running' = [running EXCEPT ![t] = NoCall] /\ answered' = answered + 1

Call(t, r) ==
    /\ running[t] = NoCall /\ answered < MaxAnswers
    /\ IF Remembered(r) THEN Answer(t)
       ELSE running' = [running EXCEPT ![t] = [step |-> "waits", request |-> r]] /\ UNCHANGED answered
    /\ UNCHANGED <<books, lock, memo, runs, journals>>

\* Mutant: the key is not looked up again once the lock is held.
NotAgain(r) == FALSE
CachedAgain(r) == Remembered(r)

\* _run_locked under the account's lock.
RunLocked(t) ==
    LET r == running[t].request
        b == books[r.account]
    IN  /\ running[t].step = "waits"
        /\ lock[r.account] = None
        /\ IF CachedAgain(r)
           THEN Answer(t) /\ UNCHANGED <<books, lock, runs, journals>>
           ELSE /\ lock' = [lock EXCEPT ![r.account] = t]
                /\ books' = [books EXCEPT ![r.account] = After(b, r)]
                /\ runs' = [runs EXCEPT ![r] = [before |-> b, result |-> Result(b, r)]]
                /\ journals' = [journals EXCEPT ![r.account] = @ \o JournalForFill(b, r)]
                /\ running' = [running EXCEPT ![t].step = "ran"]
                /\ UNCHANGED answered
        /\ UNCHANGED memo

\* The result is remembered while the lock is still held.
Remember(t) ==
    LET r == running[t].request
    IN  /\ running[t].step = "ran"
        /\ memo' = [memo EXCEPT ![r.key] = [request |-> r, result |-> runs[r].result]]
        /\ lock' = [lock EXCEPT ![r.account] = None]
        /\ Answer(t)
        /\ UNCHANGED <<books, runs, journals>>

LocalNext ==
    \E t \in RunThreads :
        \/ \E r \in Requests : Call(t, r)
        \/ RunLocked(t) \/ Remember(t)

\* The books are what the recorded runs did to them: every run replays to the
\* projection it answered with, and its fill is in the account's journal
\* exactly once, however often and by how many threads the request was sent.
RunsReplay ==
    \A a \in LocalAccounts :
        LET done == {r \in Requests : r.account = a /\ runs[r] # None}
            bought(s) == MapThenSumSet(LAMBDA r : runs[r].result.fill, {r \in done : r.symbol = s})
            posted(s) == MapThenSumSet(LAMBDA k : journals[a][k].qty, {k \in DOMAIN journals[a] : journals[a][k].symbol = s})
        IN  /\ \A r \in done : Replayed(runs[r], r) = runs[r].result.projection
            /\ \A s \in Symbols : books[a].held[s] = bought(s) /\ posted(s) = bought(s)
            /\ books[a].cash = InitialCash - MapThenSumSet(LAMBDA r : Cost(runs[r].result.fill), done)
=============================================================================

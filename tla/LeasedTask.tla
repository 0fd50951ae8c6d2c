----------------------------- MODULE LeasedTask -----------------------------
(***************************************************************************)
(* What the job queue promises, whatever rows, nonces, events and workers  *)
(* it is made of: a task is held by one holder at a time, for a time; it   *)
(* is taken from a holder only when that time is over, at most MaxAttempts *)
(* times; only the holder finishes it, in time and once; and a task that   *)
(* is done or dead stays as it is.  Several tasks may move in one step,    *)
(* because one transaction of the queue buries all that are overdue.       *)
(***************************************************************************)
EXTENDS Naturals

CONSTANTS Task, Outcome, NoOutcome, MaxAttempts

VARIABLES
    clock,
    task     \* [Task -> TaskState]

TaskState == [state: {"none", "open", "held", "done", "dead"}, attempts: Nat,
              until: Nat, outcome: Outcome \cup {NoOutcome}]

Init ==
    /\ clock = 0
    /\ task = [t \in Task |->
                 [state |-> "none", attempts |-> 0, until |-> 0, outcome |-> NoOutcome]]

\* The steps of one task, from the state `old' to the state `new'.
Submit(old, new) == old.state = "none" /\ new = [old EXCEPT !.state = "open"]

Lease(old, new) ==
    /\ old.state = "open" \/ (old.state = "held" /\ old.until <= clock)
    /\ old.attempts < MaxAttempts
    /\ new.until > clock
    /\ new = [old EXCEPT !.state = "held", !.attempts = @ + 1, !.until = new.until]

Release(old, new) ==
    /\ old.state = "held" /\ clock < old.until
    /\ old.attempts < MaxAttempts
    /\ new = [old EXCEPT !.state = "open", !.until = 0]

Finish(old, new) ==
    /\ old.state = "held" /\ clock < old.until
    /\ new.outcome \in Outcome
    /\ new = [old EXCEPT !.state = "done", !.outcome = new.outcome]

Bury(old, new) ==
    /\ old.state \in {"open", "held"}
    /\ new = [old EXCEPT !.state = "dead", !.until = 0]

Next ==
    \/ clock' > clock /\ task' = task
    \/ /\ clock' = clock
       /\ \E moved \in SUBSET Task :
            /\ \A t \in Task \ moved : task'[t] = task[t]
            /\ \A t \in moved :
                 \/ Submit(task[t], task'[t])
                 \/ Lease(task[t], task'[t])
                 \/ Release(task[t], task'[t])
                 \/ Finish(task[t], task'[t])
                 \/ Bury(task[t], task'[t])

Spec == Init /\ [][Next]_<<clock, task>>
=============================================================================

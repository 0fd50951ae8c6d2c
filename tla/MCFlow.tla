------------------------------- MODULE MCFlow -------------------------------
(* What the jobs drive, each on its own: a cycle of two stages driven by two *)
(* overlapping calls with two attempts, so that a retry, an expired lease    *)
(* and a late call all occur; and two senders with a report to deliver and a *)
(* row of another topic, which the claim hands out all the same.  A lease on *)
(* a message is longer than the first backoff, so that a refusal can come    *)
(* too late for the retry it asks for.  The third part is the paper desk.    *)
EXTENDS PaperCycle, Delivery, PaperTrading

\* One account: a batch that buys i1 and sells from the opening position in
\* i2, then a decision to sell what was bought.
DeskAccountOf == [d1 |-> "acme", d2 |-> "acme"]
DeskDecisionOf == [b1 |-> "d1", s2 |-> "d1", s1 |-> "d2"]
DeskInstrumentOf == [b1 |-> "i1", s2 |-> "i2", s1 |-> "i1"]
DeskSide == [b1 |-> "buy", s2 |-> "sell", s1 |-> "sell"]
DeskQty == [b1 |-> 2, s2 |-> 1, s1 |-> 1]
DeskOpening == [acme |-> [cash |-> 4, i1 |-> 0, i2 |-> 1]]

VARIABLE part

Init == CycleInit /\ DeliveryInit /\ DeskInit /\ part \in {"cycle", "delivery", "desk"}

Next ==
    \/ part = "cycle" /\ CycleNext /\ UNCHANGED <<deliveryVars, deskVars, part>>
    \/ part = "delivery" /\ DeliveryNext /\ UNCHANGED <<cycleVars, deskVars, part>>
    \/ part = "desk" /\ DeskNext /\ UNCHANGED <<cycleVars, deliveryVars, part>>

flowVars == <<cycleVars, deliveryVars, deskVars, part>>

Cycling(A) == part = "cycle" /\ A /\ UNCHANGED <<deliveryVars, deskVars, part>>
Delivering(A) == part = "delivery" /\ A /\ UNCHANGED <<cycleVars, deskVars, part>>

\* Time passes; workers poll the queue, and some process polls the outbox.
\* Nothing else is promised: not that a call or a sender goes on, nor that an
\* operator acts.
FairSpec ==
    /\ Init /\ [][Next]_flowVars
    /\ WF_flowVars(Cycling(CycleTick) \/ Delivering(DeliveryTick))
    /\ WF_flowVars(\/ Cycling(DeadLetterUnclaimable)
                   \/ Delivering(\E s \in Sender : ClaimMessages(s)))

\* FlowSettles: every cycle is settled, even if every call of it crashes; every
\* message is published or uses up its attempts, even if senders crash.
FlowSettles ==
    <>(CASE part = "cycle" -> CycleSettled [] part = "delivery" -> MessagesSettled [] OTHER -> TRUE)
=============================================================================

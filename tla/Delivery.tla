------------------------------ MODULE Delivery ------------------------------
(***************************************************************************)
(* Delivery of reports through the durable outbox: the leases and fences   *)
(* of adapters/postgres/outbox, the delivery of one lease by               *)
(* application/reporting/deliver, and the channels of adapters/delivery    *)
(* with the receipts they remember.                                        *)
(*                                                                         *)
(* A sender is a process with one set of channel adapters, which delivers  *)
(* each lease it claimed once: it may be slow, or crash and forget both    *)
(* its leases and its receipts.  Time is relative: a row counts down to    *)
(* the end of its lease and to its not_before, a sender counts up from the *)
(* moment it was given as `now'.  attempts and lease_generation move       *)
(* together, in claim only: `attempts' stands for both, and `owner' for    *)
(* lease_owner and lease_nonce, which are written together.  The reader of *)
(* an email or a webhook may use the idempotency key it is given to drop a *)
(* repetition; `sent' counts what leaves, whatever the reader does.        *)
(***************************************************************************)
EXTENDS Integers, FiniteSets, FiniteSetsExt, Nothing

CONSTANTS
    Msg,          \* outbox rows
    Sender,       \* delivering processes
    Deliverable,  \* rows of the topic report.delivery.requested
    Configured,   \* rows whose channel has a recipient
    MaxDeliveries,  \* max_attempts of a row
    MessageLease,     \* length of a lease, in ticks
    Limit,        \* rows one claim may take (at most 100 in the code)
    MaxBackoff    \* cap of the backoff (300 in the code)

ASSUME SetAssumption ==
    /\ Deliverable \subseteq Msg
    /\ Configured \subseteq Msg
    /\ None \notin Sender
ASSUME MessageAssumption ==
    /\ MaxDeliveries \in Nat \ {0}
    /\ MessageLease \in Nat \ {0}
    /\ Limit \in Nat \ {0}
    /\ MaxBackoff \in Nat \ {0}

VARIABLES
    row,      \* [Msg -> OutboxRow]
    held,     \* [Sender -> SUBSET Lease], claimed and not yet worked on
    task,     \* [Sender -> Task], the delivery a process is in
    cache,    \* [Sender -> SUBSET Msg], the adapters' receipts
    sent      \* [Msg -> Nat], times the message left for its reader

deliveryVars == <<row, held, task, cache, sent>>

OutboxRow == [published: BOOLEAN, attempts: 0..MaxDeliveries,
              owner: Sender \cup {None}, leaseLeft: 0..MessageLease, wait: 0..MaxBackoff]
Lease == [msg: Msg, attempts: 1..MaxDeliveries]
Task == [pc: {"idle", "deliver", "ack", "nack"}, lease: Lease \cup {None},
         elapsed: 0..MaxBackoff]

IdleSender == [pc |-> "idle", lease |-> None, elapsed |-> 0]

DeliveryTypeOK ==
    /\ row \in [Msg -> OutboxRow]
    /\ held \in [Sender -> SUBSET Lease]
    /\ task \in [Sender -> Task]
    /\ cache \in [Sender -> SUBSET Msg]
    /\ sent \in [Msg -> Nat]

-----------------------------------------------------------------------------
\* Mutant: a row is due only when no lease was left behind.
DueWhenUnowned(m) ==
    /\ ~row[m].published
    /\ row[m].wait = 0
    /\ row[m].attempts < MaxDeliveries
    /\ row[m].owner = None

\* The rows the claim query selects from.
Due(m) ==
    /\ ~row[m].published
    /\ row[m].wait = 0
    /\ row[m].attempts < MaxDeliveries
    /\ row[m].leaseLeft = 0

MatchesFence(s, l) == row[l.msg].owner = s /\ row[l.msg].attempts = l.attempts

\* Mutant: the lease is compared and its end is not.
HoldsUnexpiring(s, l) == ~row[l.msg].published /\ MatchesFence(s, l)

\* The lease is the row's current one, live, and the row is not published.
Holds(s, l) ==
    ~row[l.msg].published /\ MatchesFence(s, l) /\ row[l.msg].leaseLeft > 0

\* _nack: 2 ** min(attempts, 8) seconds, at most MaxBackoff.
Backoff(attempts) ==
    LET delay == 2 ^ (IF attempts < 8 THEN attempts ELSE 8)
    IN  IF delay < MaxBackoff THEN delay ELSE MaxBackoff

-----------------------------------------------------------------------------
DeliveryInit ==
    /\ row = [m \in Msg |-> [published |-> FALSE, attempts |-> 0, owner |-> None,
                             leaseLeft |-> 0, wait |-> 0]]
    /\ held = [s \in Sender |-> {}]
    /\ task = [s \in Sender |-> IdleSender]
    /\ cache = [s \in Sender |-> {}]
    /\ sent = [m \in Msg |-> 0]

Down(n) == IF n = 0 THEN 0 ELSE n - 1

\* Time passes for everyone; elapsed time beyond the longest backoff is alike.
DeliveryTick ==
    /\ row' = [m \in Msg |-> [row[m] EXCEPT !.leaseLeft = Down(@), !.wait = Down(@)]]
    /\ task' = [s \in Sender |->
         IF task[s].pc = "idle" \/ task[s].elapsed = MaxBackoff THEN task[s]
         ELSE [task[s] EXCEPT !.elapsed = @ + 1]]
    /\ UNCHANGED <<held, cache, sent>>

\* Mutants: the claim does not count the attempt, or makes the lease a tick too long.
ClaimedUncounted(r, s) == [r EXCEPT !.owner = s, !.leaseLeft = MessageLease]
ClaimedTooLong(r, s) ==
    [r EXCEPT !.owner = s, !.leaseLeft = MessageLease + 1, !.attempts = @ + 1]

Claimed(r, s) == [r EXCEPT !.owner = s, !.leaseLeft = MessageLease, !.attempts = @ + 1]

\* claim: up to Limit due rows, of every topic.  Rows that other transactions
\* lock are skipped, which is a claim made just after those; the order by
\* not_before decides which rows a full batch leaves out: any may be.
ClaimMessages(s) ==
    LET due == {m \in Msg : Due(m)}
        size == IF Cardinality(due) < Limit THEN Cardinality(due) ELSE Limit
    IN  /\ due # {}
        /\ \E batch \in kSubset(size, due) :
             /\ row' = [m \in Msg |-> IF m \in batch THEN Claimed(row[m], s) ELSE row[m]]
             /\ held' = [held EXCEPT ![s] = @ \cup
                  {[msg |-> m, attempts |-> row[m].attempts + 1] : m \in batch}]
        /\ UNCHANGED <<task, cache, sent>>

\* deliver_outbox_lease begins.  A row of another topic is refused without an
\* acknowledgement of any kind, so its lease runs out.
Begin(s, l) ==
    /\ task[s].pc = "idle"
    /\ l \in held[s]
    /\ l.msg \in Deliverable
    /\ task' = [task EXCEPT ![s] = [pc |-> "deliver", lease |-> l, elapsed |-> 0]]
    /\ held' = [held EXCEPT ![s] = @ \ {l}]
    /\ UNCHANGED <<row, cache, sent>>

AfterFailure(s) == "nack"

\* The adapter's own memory of what it delivered, lost with the process.
Cached(s, m) == m \in cache[s]
Receipt(s, m) == cache' = [cache EXCEPT ![s] = @ \cup {m}]

\* An email or a webhook without a recipient answers that it was skipped.
Skipped(m) == m \notin Configured

\* A remembered receipt answers, an unconfigured channel skips, and otherwise
\* the channel sends or fails: before the message left, or after some or all of
\* it did.
Deliver(s) ==
    LET m == task[s].lease.msg IN
    /\ task[s].pc = "deliver"
    /\ \/ /\ Cached(s, m) \/ Skipped(m)
          /\ task' = [task EXCEPT ![s].pc = "ack"]
          /\ Receipt(s, m)
          /\ UNCHANGED sent
       \/ /\ ~Cached(s, m) /\ ~Skipped(m)
          /\ sent' = [sent EXCEPT ![m] = @ + 1]
          /\ task' = [task EXCEPT ![s].pc = "ack"]
          /\ Receipt(s, m)
       \/ /\ ~Cached(s, m) /\ ~Skipped(m)
          /\ sent' \in {sent, [sent EXCEPT ![m] = @ + 1]}
          /\ task' = [task EXCEPT ![s].pc = AfterFailure(s)]
          /\ UNCHANGED cache
    /\ UNCHANGED <<row, held>>

\* The artifact cannot be read or was altered, or its channel is missing.
Unreadable(s) ==
    /\ task[s].pc = "deliver"
    /\ task' = [task EXCEPT ![s].pc = "nack"]
    /\ UNCHANGED <<row, held, cache, sent>>

Published(r) == [r EXCEPT !.published = TRUE, !.leaseLeft = 0]

\* ack publishes under the live lease; repeated by its winner it answers the
\* same receipt, and anybody else is refused.  The call ends in every case.
Ack(s) ==
    LET l == task[s].lease IN
    /\ task[s].pc = "ack"
    /\ row' = IF Holds(s, l) THEN [row EXCEPT ![l.msg] = Published(@)] ELSE row
    /\ task' = [task EXCEPT ![s] = IdleSender]
    /\ UNCHANGED <<held, cache, sent>>

\* nack asks for a retry, counted from the `now' of the call: refused if that
\* moment has passed meanwhile or the lease is not live.
Nack(s) ==
    LET l == task[s].lease
        left == Backoff(l.attempts) - task[s].elapsed
    IN  /\ task[s].pc = "nack"
        /\ row' = IF left > 0 /\ Holds(s, l)
                  THEN [row EXCEPT ![l.msg].wait = left, ![l.msg].owner = None,
                                   ![l.msg].leaseLeft = 0]
                  ELSE row
        /\ task' = [task EXCEPT ![s] = IdleSender]
        /\ UNCHANGED <<held, cache, sent>>

\* A process dies and its successor remembers nothing.
Crash(s) ==
    /\ held[s] # {} \/ task[s] # IdleSender \/ cache[s] # {}
    /\ held' = [held EXCEPT ![s] = {}]
    /\ task' = [task EXCEPT ![s] = IdleSender]
    /\ cache' = [cache EXCEPT ![s] = {}]
    /\ UNCHANGED <<row, sent>>

DeliveryNext ==
    \/ DeliveryTick
    \/ \E s \in Sender : \/ ClaimMessages(s)
                         \/ \E l \in held[s] : Begin(s, l)
                         \/ Deliver(s)
                         \/ Unreadable(s)
                         \/ Ack(s)
                         \/ Nack(s)
                         \/ Crash(s)

DeliverySpec == DeliveryInit /\ [][DeliveryNext]_deliveryVars

-----------------------------------------------------------------------------
(* Properties.                                                             *)

\* DeliveriesAgree: what is marked published left for its reader, unless its
\* channel has none; crashes, retries and late senders repeat a message at most
\* once per attempt; and the sender that published it, and no other, can repeat
\* its acknowledgement and be answered.
DeliveriesAgree ==
    /\ DeliveryTypeOK
    /\ \A m \in Msg :
         /\ sent[m] <= row[m].attempts
         /\ row[m].published => /\ sent[m] > 0 \/ m \notin Configured
                               /\ row[m].owner \in Sender

\* PublishedByHolder: a message is published by the sender whose lease was live
\* at that moment, and is never claimed or changed again.
PublishedByHolder ==
    [][\A m \in Msg :
         /\ ~row[m].published /\ row'[m].published =>
              /\ row[m].leaseLeft > 0
              /\ \E s \in Sender : task[s].pc = "ack"
                                /\ task[s].lease = [msg |-> m, attempts |-> row[m].attempts]
         /\ row[m].published => row'[m] = row[m]]_deliveryVars

\* Every message is published or used up its attempts.
MessagesSettled == \A m \in Msg : row[m].published \/ row[m].attempts = MaxDeliveries
=============================================================================

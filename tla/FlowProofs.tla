--------------------------- MODULE FlowProofs -------------------------------
(***************************************************************************)
(* Proofs about how a paper report comes about and how it leaves: the      *)
(* outbox (Delivery) first, then the paper cycle (PaperCycle).             *)
(***************************************************************************)
EXTENDS Delivery, PaperCycle, FiniteSetTheorems, WellFoundedInduction, TLAPS

-----------------------------------------------------------------------------
(***************************************************************************)
(* Proofs about the outbox's leases and the senders that deliver under     *)
(* them: for any rows, senders, limits of attempts and lengths of leases.  *)
(*                                                                         *)
(* DeliveriesAgree is not inductive: that a message leaves at most once    *)
(* per attempt rests on leases that are still to be used.  Outstanding(m)  *)
(* are the attempts of m that somebody may yet send under; the inductive   *)
(* invariant counts them together with what was sent, and says that no two *)
(* senders hold the same one.                                              *)
(***************************************************************************)

USE SetAssumption, MessageAssumption

LeaseOf(m, a) == [msg |-> m, attempts |-> a]

\* Sender s may yet send message m under attempt a.
Unused(s, m, a) ==
    \/ LeaseOf(m, a) \in held[s]
    \/ task[s].pc = "deliver" /\ task[s].lease = LeaseOf(m, a)

Outstanding(m) == {a \in 1..MaxDeliveries : \E s \in Sender : Unused(s, m, a)}

\* The message left, or its channel has nobody to reach.
Out(m) == sent[m] > 0 \/ m \notin Configured

MessageInv(m) ==
    /\ \A a \in Outstanding(m) : a <= row[m].attempts
    /\ sent[m] + Cardinality(Outstanding(m)) <= row[m].attempts
    /\ row[m].published => /\ Out(m) /\ row[m].owner \in Sender
                           /\ row[m].leaseLeft = 0 /\ row[m].wait = 0
    /\ row[m].leaseLeft > 0 => row[m].wait = 0

SenderInv(s) ==
    /\ task[s].pc # "idle" => task[s].lease \in Lease
    /\ task[s].pc = "deliver" => task[s].lease \notin held[s]
    /\ task[s].pc = "ack" => Out(task[s].lease.msg)
    /\ \A m \in cache[s] : Out(m)

OneHolder ==
    \A s, t \in Sender, m \in Msg, a \in 1..MaxDeliveries :
        Unused(s, m, a) /\ Unused(t, m, a) => s = t

DeliveryInv ==
    /\ DeliveryTypeOK
    /\ \A m \in Msg : MessageInv(m)
    /\ \A s \in Sender : SenderInv(s)
    /\ OneHolder

-----------------------------------------------------------------------------
(* What a step makes of the leases.                                        *)

LEMMA BackoffIsInteger == ASSUME NEW n \in Nat PROVE Backoff(n) \in Int /\ Backoff(n) <= MaxBackoff
<1> DEFINE k == IF n < 8 THEN n ELSE 8
           delay == 2 ^ k
<1>1. k \in Nat
  OBVIOUS
<1> HIDE DEF k
<1>2. delay \in Int
  BY <1>1
<1> HIDE DEF delay
<1>3. Backoff(n) = IF delay < MaxBackoff THEN delay ELSE MaxBackoff
  BY DEF Backoff, k, delay
<1> QED
  BY <1>2, <1>3

\* The leases are as they were or fewer, no row is claimed, and nothing leaves.
NoLeaseTaken ==
    /\ \A s \in Sender, m \in Msg, a \in 1..MaxDeliveries : Unused(s, m, a)' => Unused(s, m, a)
    /\ \A m \in Msg : row'[m].attempts = row[m].attempts
    /\ sent' = sent

\* The message of sender s leaves, and the lease it left under is used up.
Sends(s) ==
    /\ \A t \in Sender, m \in Msg, a \in 1..MaxDeliveries : Unused(t, m, a)' => Unused(t, m, a)
    /\ row' = row
    /\ \E m \in Msg, a \in 1..MaxDeliveries :
         /\ Unused(s, m, a) /\ ~Unused(s, m, a)'
         /\ sent' = [sent EXCEPT ![m] = @ + 1]

\* Sender s takes the next attempt of the rows in batch.
Takes(s, batch) ==
    /\ \A m \in batch : Due(m)
    /\ \A t \in Sender, m \in Msg, a \in 1..MaxDeliveries :
         Unused(t, m, a)' => \/ Unused(t, m, a)
                             \/ t = s /\ m \in batch /\ a = row[m].attempts + 1
    /\ \A t \in Sender : \A l \in held'[t] :
         \/ l \in held[t]
         \/ t = s /\ l.msg \in batch /\ l.attempts = row[l.msg].attempts + 1
    /\ row' = [m \in Msg |-> IF m \in batch THEN Claimed(row[m], s) ELSE row[m]]
    /\ UNCHANGED <<task, cache, sent>>

LEMMA TickSteps ==
    ASSUME DeliveryInv, DeliveryTick
    PROVE  NoLeaseTaken /\ DeliveryTypeOK'
<1>1. ASSUME NEW s \in Sender
      PROVE  /\ task'[s].pc = task[s].pc /\ task'[s].lease = task[s].lease /\ held'[s] = held[s]
             /\ task'[s] \in Task
  <2>1. task[s] \in Task
    BY DEF DeliveryInv, DeliveryTypeOK
  <2>2. CASE task[s].pc = "idle" \/ task[s].elapsed = MaxBackoff
    BY <2>1, <2>2 DEF DeliveryTick
  <2>3. CASE ~(task[s].pc = "idle" \/ task[s].elapsed = MaxBackoff)
    <3>1. task'[s] = [task[s] EXCEPT !.elapsed = @ + 1]
      BY <2>3 DEF DeliveryTick
    <3>2. held' = held
      BY DEF DeliveryTick
    <3> QED
      BY <2>1, <2>3, <3>1, <3>2 DEF Task
  <2> QED
    BY <2>2, <2>3
<1>2. ASSUME NEW m \in Msg
      PROVE  row'[m].attempts = row[m].attempts /\ row'[m] \in OutboxRow
  <2>1. row[m] \in OutboxRow
    BY DEF DeliveryInv, DeliveryTypeOK
  <2>2. row'[m] = [row[m] EXCEPT !.leaseLeft = Down(@), !.wait = Down(@)]
    BY DEF DeliveryTick
  <2>3. Down(row[m].leaseLeft) \in 0..MessageLease /\ Down(row[m].wait) \in 0..MaxBackoff
    BY <2>1 DEF OutboxRow, Down
  <2> QED
    BY <2>1, <2>2, <2>3 DEF OutboxRow
<1>3. NoLeaseTaken
  BY <1>1, <1>2 DEF NoLeaseTaken, Unused, DeliveryTick
<1>4. row' = [m \in Msg |-> row'[m]] /\ task' = [s \in Sender |-> task'[s]]
  BY DEF DeliveryTick
<1>5. row' \in [Msg -> OutboxRow] /\ task' \in [Sender -> Task]
  BY <1>1, <1>2, <1>4
<1> QED
  BY <1>3, <1>5 DEF DeliveryTypeOK, DeliveryInv, DeliveryTick

LEMMA ClaimSteps ==
    ASSUME DeliveryInv, NEW s \in Sender, ClaimMessages(s)
    PROVE  DeliveryTypeOK' /\ \E batch \in SUBSET Msg : Takes(s, batch)
<1> DEFINE due == {m \in Msg : Due(m)}
           size == IF Cardinality(due) < Limit THEN Cardinality(due) ELSE Limit
<1>1. PICK batch \in kSubset(size, due) :
        /\ row' = [m \in Msg |-> IF m \in batch THEN Claimed(row[m], s) ELSE row[m]]
        /\ held' = [held EXCEPT ![s] = @ \cup
             {[msg |-> m, attempts |-> row[m].attempts + 1] : m \in batch}]
  BY DEF ClaimMessages
<1>2. batch \subseteq due
  BY DEF kSubset
<1> HIDE DEF due, size
<1>3. \A m \in batch : m \in Msg /\ Due(m)
  BY <1>2 DEF due
<1>4. held'[s] = held[s] \cup {LeaseOf(m, row[m].attempts + 1) : m \in batch}
  BY <1>1 DEF DeliveryInv, DeliveryTypeOK, LeaseOf
<1>5. \A t \in Sender : t # s => held'[t] = held[t]
  BY <1>1 DEF DeliveryInv, DeliveryTypeOK
<1>6. ASSUME NEW t \in Sender, NEW m \in Msg, NEW a \in 1..MaxDeliveries, Unused(t, m, a)'
      PROVE  Unused(t, m, a) \/ (t = s /\ m \in batch /\ a = row[m].attempts + 1)
  <2>1. task' = task
    BY DEF ClaimMessages
  <2>2. CASE t # s
    BY <1>5, <1>6, <2>1, <2>2 DEF Unused
  <2>3. CASE t = s /\ LeaseOf(m, a) \notin held[s]
    <3>1. SUFFICES ASSUME LeaseOf(m, a) \in held'[s] PROVE m \in batch /\ a = row[m].attempts + 1
      BY <1>6, <2>1, <2>3 DEF Unused
    <3>2. PICK k \in batch : LeaseOf(m, a) = LeaseOf(k, row[k].attempts + 1)
      BY <1>4, <2>3, <3>1
    <3> QED
      BY <3>2 DEF LeaseOf
  <2> QED
    BY <2>2, <2>3 DEF Unused
<1>7. Takes(s, batch)
  <2>1. ASSUME NEW t \in Sender, NEW l \in held'[t]
        PROVE  \/ l \in held[t]
               \/ t = s /\ l.msg \in batch /\ l.attempts = row[l.msg].attempts + 1
    BY <1>4, <1>5, <2>1 DEF LeaseOf
  <2> QED
    BY <1>1, <1>3, <1>6, <2>1 DEF Takes, ClaimMessages
<1>8. ASSUME NEW m \in Msg PROVE row'[m] \in OutboxRow
  <2>1. row[m] \in OutboxRow
    BY DEF DeliveryInv, DeliveryTypeOK
  <2>2. CASE m \in batch
    <3>1. row'[m] = Claimed(row[m], s) /\ row[m].attempts < MaxDeliveries
      BY <1>1, <1>3, <2>2 DEF Due
    <3>2. row[m] = [published |-> row[m].published, attempts |-> row[m].attempts,
                    owner |-> row[m].owner, leaseLeft |-> row[m].leaseLeft, wait |-> row[m].wait]
      BY <2>1 DEF OutboxRow
    <3>3. row'[m] = [published |-> row[m].published, attempts |-> row[m].attempts + 1,
                     owner |-> s, leaseLeft |-> MessageLease, wait |-> row[m].wait]
      BY <3>1, <3>2 DEF Claimed
    <3>4. row[m].attempts + 1 \in 0..MaxDeliveries
      BY <2>1, <3>1 DEF OutboxRow
    <3> QED
      BY <2>1, <3>3, <3>4 DEF OutboxRow
  <2>3. CASE m \notin batch
    BY <1>1, <2>1, <2>3
  <2> QED
    BY <2>2, <2>3
<1>9. ASSUME NEW m \in batch PROVE LeaseOf(m, row[m].attempts + 1) \in Lease
  <2>1. row[m].attempts \in 0..MaxDeliveries /\ row[m].attempts < MaxDeliveries
    BY <1>3 DEF DeliveryInv, DeliveryTypeOK, OutboxRow, Due
  <2> QED
    BY <1>3, <2>1 DEF LeaseOf, Lease
<1>10. held' \in [Sender -> SUBSET Lease]
  <2>1. {LeaseOf(m, row[m].attempts + 1) : m \in batch} \subseteq Lease
    BY <1>9
  <2>2. {[msg |-> m, attempts |-> row[m].attempts + 1] : m \in batch}
          = {LeaseOf(m, row[m].attempts + 1) : m \in batch}
    BY DEF LeaseOf
  <2>3. held' = [held EXCEPT ![s] = @ \cup {LeaseOf(m, row[m].attempts + 1) : m \in batch}]
    BY <1>1, <2>2
  <2> QED
    BY <2>1, <2>3 DEF DeliveryInv, DeliveryTypeOK
<1>11. row' \in [Msg -> OutboxRow]
  BY <1>1, <1>8
<1> QED
  BY <1>3, <1>7, <1>10, <1>11 DEF DeliveryTypeOK, DeliveryInv, ClaimMessages

LEMMA BeginSteps ==
    ASSUME DeliveryInv, NEW s \in Sender, NEW l \in held[s], Begin(s, l)
    PROVE  NoLeaseTaken /\ DeliveryTypeOK'
<1>1. l \in Lease
  BY DEF DeliveryInv, DeliveryTypeOK
<1>2. \A t \in Sender : t # s => task'[t] = task[t] /\ held'[t] = held[t]
  BY DEF Begin, DeliveryInv, DeliveryTypeOK
<1>3. task'[s].lease = l /\ held'[s] = held[s] \ {l}
  BY DEF Begin, DeliveryInv, DeliveryTypeOK
<1>4. ASSUME NEW t \in Sender, NEW m \in Msg, NEW a \in 1..MaxDeliveries, Unused(t, m, a)'
      PROVE  Unused(t, m, a)
  <2>1. CASE t = s
    BY <1>3, <1>4, <2>1 DEF Unused
  <2>2. CASE t # s
    BY <1>2, <1>4, <2>2 DEF Unused
  <2> QED
    BY <2>1, <2>2
<1>5. NoLeaseTaken
  BY <1>4 DEF NoLeaseTaken, Begin
<1>6. [pc |-> "deliver", lease |-> l, elapsed |-> 0] \in Task
  BY <1>1 DEF Task
<1> QED
  BY <1>5, <1>6 DEF DeliveryTypeOK, DeliveryInv, Begin

\* The step of a task to another pc, with its lease as it was.
LEMMA TaskMoves ==
    ASSUME DeliveryInv, NEW s \in Sender, task[s].pc = "deliver", held' = held, row' = row,
           NEW next \in {"ack", "nack"}, task' = [task EXCEPT ![s].pc = next]
    PROVE  /\ task' \in [Sender -> Task]
           /\ task'[s].pc = next /\ task'[s].lease = task[s].lease
           /\ \A t \in Sender : t # s => task'[t] = task[t]
           /\ task[s].lease \in Lease
           /\ \A t \in Sender, m \in Msg, a \in 1..MaxDeliveries :
                Unused(t, m, a)' => Unused(t, m, a)
           /\ \E m \in Msg, a \in 1..MaxDeliveries :
                /\ task[s].lease = LeaseOf(m, a) /\ task[s].lease.msg = m
                /\ Unused(s, m, a) /\ ~Unused(s, m, a)'
<1>1. task[s] \in Task /\ task \in [Sender -> Task]
  BY DEF DeliveryInv, DeliveryTypeOK
<1>2. task'[s] = [task[s] EXCEPT !.pc = next]
  BY <1>1
<1>3. task'[s] \in Task /\ task'[s].pc = next /\ task'[s].lease = task[s].lease
  BY <1>1, <1>2 DEF Task
<1>4. \A t \in Sender : t # s => task'[t] = task[t]
  BY <1>1
<1>5. task' \in [Sender -> Task]
  <2>1. \A t \in Sender : task'[t] \in Task
    BY <1>1, <1>3, <1>4
  <2>2. task' = [t \in Sender |-> task'[t]]
    BY <1>1
  <2> QED
    BY <2>1, <2>2
<1>6. task[s].lease \in Lease /\ task[s].lease \notin held[s]
  BY DEF DeliveryInv, SenderInv
<1>7. ASSUME NEW t \in Sender, NEW m \in Msg, NEW a \in 1..MaxDeliveries, Unused(t, m, a)'
      PROVE  Unused(t, m, a)
  <2>1. CASE t = s
    BY <1>3, <1>7, <2>1 DEF Unused
  <2>2. CASE t # s
    BY <1>4, <1>7, <2>2 DEF Unused
  <2> QED
    BY <2>1, <2>2
<1>8. PICK m \in Msg, a \in 1..MaxDeliveries : task[s].lease = LeaseOf(m, a)
  BY <1>6 DEF Lease, LeaseOf
<1>9. task[s].lease.msg = m
  BY <1>8 DEF LeaseOf
<1>10. Unused(s, m, a) /\ ~Unused(s, m, a)'
  BY <1>3, <1>6, <1>8 DEF Unused
<1> QED
  BY <1>3, <1>4, <1>5, <1>6, <1>7, <1>8, <1>9, <1>10

LEMMA DeliverSteps ==
    ASSUME DeliveryInv, NEW s \in Sender, Deliver(s) \/ Unreadable(s)
    PROVE  /\ NoLeaseTaken \/ Sends(s)
           /\ DeliveryTypeOK'
           /\ \A t \in Sender : SenderInv(t)'
<1>1. task[s].pc = "deliver" /\ held' = held /\ row' = row
  BY DEF Deliver, Unreadable
<1>2. PICK next \in {"ack", "nack"} : task' = [task EXCEPT ![s].pc = next]
  BY DEF Deliver, Unreadable, AfterFailure
<1>3. PICK m \in Msg, a \in 1..MaxDeliveries :
        /\ task[s].lease = LeaseOf(m, a) /\ task[s].lease.msg = m
        /\ Unused(s, m, a) /\ ~Unused(s, m, a)'
  BY <1>1, <1>2, TaskMoves
<1>4. /\ task' \in [Sender -> Task]
      /\ task'[s].pc = next /\ task'[s].lease = task[s].lease /\ task'[s].lease.msg = m
      /\ \A t \in Sender : t # s => task'[t] = task[t]
      /\ task[s].lease \in Lease
      /\ \A t \in Sender, k \in Msg, n \in 1..MaxDeliveries : Unused(t, k, n)' => Unused(t, k, n)
      /\ sent' = sent \/ sent' = [sent EXCEPT ![m] = @ + 1]
  <2>1. sent' = sent \/ sent' = [sent EXCEPT ![m] = @ + 1]
    BY <1>3 DEF Deliver, Unreadable
  <2> QED
    BY <1>1, <1>2, <1>3, <2>1, TaskMoves
<1>5. sent \in [Msg -> Nat] /\ cache \in [Sender -> SUBSET Msg]
  BY DEF DeliveryInv, DeliveryTypeOK
<1>6. /\ sent' \in [Msg -> Nat]
      /\ \A k \in Msg : Out(k) => Out(k)'
  BY <1>4, <1>5 DEF Out
<1>7. CASE cache' = cache /\ next = "nack"
  <2>1. DeliveryTypeOK'
    BY <1>1, <1>4, <1>6, <1>7 DEF DeliveryTypeOK, DeliveryInv
  <2>2. ASSUME NEW t \in Sender PROVE SenderInv(t)'
    <3>1. SenderInv(t) /\ (task[t].pc = "ack" => task[t].lease.msg \in Msg)
      BY DEF DeliveryInv, SenderInv, Lease
    <3>2. CASE t = s
      BY <1>1, <1>4, <1>5, <1>6, <1>7, <3>1, <3>2 DEF SenderInv
    <3>3. CASE t # s
      <4>1. task'[t] = task[t] /\ held'[t] = held[t] /\ cache'[t] = cache[t]
        BY <1>1, <1>4, <1>7, <3>3
      <4> QED
        BY <1>5, <1>6, <3>1, <4>1 DEF SenderInv
    <3> QED
      BY <3>2, <3>3
  <2>3. NoLeaseTaken \/ Sends(s)
    BY <1>1, <1>3, <1>4 DEF NoLeaseTaken, Sends
  <2> QED
    BY <2>1, <2>2, <2>3
<1>8. CASE cache' = [cache EXCEPT ![s] = @ \cup {m}] /\ Out(m)'
  <2>1. DeliveryTypeOK'
    BY <1>1, <1>4, <1>5, <1>6, <1>8 DEF DeliveryTypeOK, DeliveryInv
  <2>2. ASSUME NEW t \in Sender PROVE SenderInv(t)'
    <3>1. SenderInv(t) /\ (task[t].pc = "ack" => task[t].lease.msg \in Msg)
      BY DEF DeliveryInv, SenderInv, Lease
    <3>2. CASE t = s
      <4>1. \A k \in cache'[s] : Out(k)'
        BY <1>5, <1>6, <1>8, <3>1, <3>2 DEF SenderInv
      <4> QED
        BY <1>1, <1>4, <1>8, <3>2, <4>1 DEF SenderInv
    <3>3. CASE t # s
      <4>1. task'[t] = task[t] /\ held'[t] = held[t] /\ cache'[t] = cache[t]
        BY <1>1, <1>4, <1>5, <1>8, <3>3
      <4> QED
        BY <1>5, <1>6, <3>1, <4>1 DEF SenderInv
    <3> QED
      BY <3>2, <3>3
  <2>3. NoLeaseTaken \/ Sends(s)
    BY <1>1, <1>3, <1>4 DEF NoLeaseTaken, Sends
  <2> QED
    BY <2>1, <2>2, <2>3
<1>9. \/ cache' = cache /\ next = "nack"
      \/ cache' = [cache EXCEPT ![s] = @ \cup {m}] /\ Out(m)'
  <2>1. CASE Unreadable(s)
    <3>1. task'[s].pc = "nack" /\ cache' = cache
      BY <2>1 DEF Unreadable, DeliveryInv, DeliveryTypeOK
    <3> QED
      BY <1>4, <3>1
  <2>2. CASE Deliver(s) /\ (Cached(s, m) \/ Skipped(m)) /\ Receipt(s, m) /\ sent' = sent
    <3>1. Out(m)
      BY <2>2 DEF Cached, Skipped, DeliveryInv, SenderInv, Out
    <3> QED
      BY <1>6, <2>2, <3>1 DEF Receipt
  <2>3. CASE Deliver(s) /\ sent' = [sent EXCEPT ![m] = @ + 1] /\ Receipt(s, m)
    BY <1>5, <2>3 DEF Receipt, Out
  <2>4. CASE Deliver(s) /\ task' = [task EXCEPT ![s].pc = AfterFailure(s)] /\ cache' = cache
    <3>1. task'[s].pc = "nack"
      BY <2>4 DEF AfterFailure, DeliveryInv, DeliveryTypeOK
    <3> QED
      BY <1>4, <2>4, <3>1
  <2> QED
    BY <1>3, <2>1, <2>2, <2>3, <2>4 DEF Deliver
<1> QED
  BY <1>7, <1>8, <1>9

\* A sender ends its task: with what it was given, or with nothing left.
LEMMA EndSteps ==
    ASSUME DeliveryInv, NEW s \in Sender, Ack(s) \/ Nack(s) \/ Crash(s), row' \in [Msg -> OutboxRow],
           \A m \in Msg : row'[m].attempts = row[m].attempts
    PROVE  NoLeaseTaken /\ DeliveryTypeOK' /\ \A t \in Sender : SenderInv(t)'
<1>1. /\ task \in [Sender -> Task] /\ held \in [Sender -> SUBSET Lease]
      /\ cache \in [Sender -> SUBSET Msg]
  BY DEF DeliveryInv, DeliveryTypeOK
<1>2. /\ task' = [task EXCEPT ![s] = IdleSender] /\ sent' = sent
      /\ held' = held \/ held' = [held EXCEPT ![s] = {}]
      /\ cache' = cache \/ cache' = [cache EXCEPT ![s] = {}]
      /\ held' = held \/ task[s].pc # "deliver" \/ held'[s] = {}
  BY <1>1 DEF Ack, Nack, Crash
<1>3. IdleSender \in Task /\ IdleSender.pc = "idle"
  BY DEF IdleSender, Task
<1>4. /\ task' \in [Sender -> Task] /\ held' \in [Sender -> SUBSET Lease]
      /\ cache' \in [Sender -> SUBSET Msg]
  BY <1>1, <1>2, <1>3
<1>5. /\ task'[s].pc = "idle"
      /\ \A t \in Sender : /\ t # s => task'[t] = task[t]
                           /\ held'[t] \subseteq held[t] /\ cache'[t] \subseteq cache[t]
  BY <1>1, <1>2, <1>3
<1>6. NoLeaseTaken
  BY <1>2, <1>5 DEF NoLeaseTaken, Unused
<1>7. DeliveryTypeOK'
  BY <1>2, <1>4 DEF DeliveryTypeOK, DeliveryInv
<1>8. ASSUME NEW t \in Sender PROVE SenderInv(t)'
  <2>1. SenderInv(t) /\ \A m : Out(m) => Out(m)'
    BY <1>2 DEF DeliveryInv, Out
  <2>2. CASE t = s
    BY <1>5, <2>1, <2>2 DEF SenderInv
  <2>3. CASE t # s
    <3>1. task'[t] = task[t] /\ held'[t] \subseteq held[t] /\ cache'[t] \subseteq cache[t]
      BY <1>5, <2>3
    <3> QED
      BY <2>1, <3>1 DEF SenderInv
  <2> QED
    BY <2>2, <2>3
<1> QED
  BY <1>6, <1>7, <1>8

\* What a step makes of one row.
RowKept(m) == row'[m] = row[m]
RowCounts(m) ==
    /\ row'[m].published = row[m].published /\ row'[m].owner = row[m].owner
    /\ row'[m].attempts = row[m].attempts
    /\ row'[m].leaseLeft = Down(row[m].leaseLeft) /\ row'[m].wait = Down(row[m].wait)
RowClaimed(m) == ~row[m].published /\ ~row'[m].published /\ row'[m].wait = 0
RowReturned(m) == ~row[m].published /\ ~row'[m].published /\ row'[m].leaseLeft = 0
RowPublished(m) ==
    /\ ~row[m].published /\ row[m].leaseLeft > 0
    /\ \E s \in Sender : /\ task[s].pc = "ack" /\ task[s].lease = LeaseOf(m, row[m].attempts)
                         /\ row'[m].owner = s
    /\ row'[m].leaseLeft = 0 /\ row'[m].wait = row[m].wait

RowStep(m) ==
    RowKept(m) \/ RowCounts(m) \/ RowClaimed(m) \/ RowReturned(m) \/ RowPublished(m)

LEMMA AckRow ==
    ASSUME DeliveryInv, NEW s \in Sender, Ack(s)
    PROVE  /\ row' \in [Msg -> OutboxRow]
           /\ \A m \in Msg : row'[m].attempts = row[m].attempts /\ RowStep(m)
<1> DEFINE l == task[s].lease
<1>1. l \in Lease /\ row \in [Msg -> OutboxRow]
  BY DEF Ack, DeliveryInv, DeliveryTypeOK, SenderInv
<1>2. CASE ~Holds(s, l)
  BY <1>1, <1>2 DEF Ack, RowStep, RowKept
<1>3. CASE Holds(s, l)
  <2>1. PICK k \in Msg, n \in 1..MaxDeliveries : l = LeaseOf(k, n)
    BY <1>1 DEF Lease, LeaseOf
  <2>2. l.msg = k /\ l.attempts = n
    BY <2>1 DEF LeaseOf
  <2>3. /\ ~row[k].published /\ row[k].leaseLeft > 0 /\ row[k].owner = s /\ row[k].attempts = n
        /\ row' = [row EXCEPT ![k] = Published(@)]
    BY <1>3, <2>2 DEF Holds, MatchesFence, Ack
  <2>4. row[k] \in OutboxRow /\ row'[k] = Published(row[k])
    BY <1>1, <2>3
  <2>5. /\ row'[k] \in OutboxRow /\ row'[k].attempts = n /\ row'[k].published
        /\ row'[k].owner = s /\ row'[k].leaseLeft = 0 /\ row'[k].wait = row[k].wait
    <3>1. row'[k] = [published |-> TRUE, attempts |-> row[k].attempts, owner |-> row[k].owner,
                     leaseLeft |-> 0, wait |-> row[k].wait]
      BY <2>4 DEF OutboxRow, Published
    <3>2. row'[k] \in OutboxRow
      BY <2>4, <3>1 DEF OutboxRow
    <3> QED
      BY <2>3, <3>1, <3>2
  <2>6. RowPublished(k)
    BY <2>1, <2>3, <2>5 DEF RowPublished, Ack
  <2>7. \A m \in Msg : m # k => row'[m] = row[m]
    BY <1>1, <2>3
  <2>8. row' \in [Msg -> OutboxRow]
    BY <1>1, <2>3, <2>4, <2>5
  <2> QED
    BY <2>3, <2>5, <2>6, <2>7, <2>8 DEF RowStep, RowKept
<1> QED
  BY <1>2, <1>3

LEMMA NackRow ==
    ASSUME DeliveryInv, NEW s \in Sender, Nack(s)
    PROVE  /\ row' \in [Msg -> OutboxRow]
           /\ \A m \in Msg : row'[m].attempts = row[m].attempts /\ RowStep(m)
<1> DEFINE l == task[s].lease
           left == Backoff(l.attempts) - task[s].elapsed
<1>1. l \in Lease /\ row \in [Msg -> OutboxRow] /\ task[s].elapsed \in Nat
  BY DEF Nack, DeliveryInv, DeliveryTypeOK, SenderInv, Task
<1>2. CASE ~(left > 0 /\ Holds(s, l))
  BY <1>1, <1>2 DEF Nack, RowStep, RowKept
<1>3. CASE left > 0 /\ Holds(s, l)
  <2>1. PICK k \in Msg, n \in 1..MaxDeliveries : l = LeaseOf(k, n)
    BY <1>1 DEF Lease, LeaseOf
  <2>2. l.msg = k /\ l.attempts = n
    BY <2>1 DEF LeaseOf
  <2>3. left \in 1..MaxBackoff
    <3>1. Backoff(n) \in Int /\ Backoff(n) <= MaxBackoff
      BY BackoffIsInteger
    <3> QED
      BY <1>1, <1>3, <2>2, <3>1
  <2> HIDE DEF left
  <2>4. /\ ~row[k].published
        /\ row' = [row EXCEPT ![k].wait = left, ![k].owner = None, ![k].leaseLeft = 0]
    BY <1>3, <2>2 DEF Holds, Nack, left
  <2>5. row[k] \in OutboxRow
    BY <1>1
  <2>6. row'[k] = [[[row[k] EXCEPT !.wait = left] EXCEPT !.owner = None] EXCEPT !.leaseLeft = 0]
    BY <1>1, <2>4
  <2>7. /\ row'[k] \in OutboxRow /\ row'[k].attempts = row[k].attempts /\ ~row'[k].published
        /\ row'[k].leaseLeft = 0
    <3>1. row'[k] = [published |-> row[k].published, attempts |-> row[k].attempts,
                     owner |-> None, leaseLeft |-> 0, wait |-> left]
      BY <2>5, <2>6 DEF OutboxRow
    <3>2. row'[k] \in OutboxRow
      BY <2>3, <2>5, <3>1 DEF OutboxRow
    <3> QED
      BY <2>4, <3>1, <3>2
  <2>8. \A m \in Msg : m # k => row'[m] = row[m]
    BY <1>1, <2>4
  <2>9. row' \in [Msg -> OutboxRow]
    <3>1. row' = [m \in Msg |-> row'[m]]
      BY <1>1, <2>4
    <3> QED
      BY <1>1, <2>7, <2>8, <3>1
  <2> QED
    BY <2>4, <2>7, <2>8, <2>9 DEF RowStep, RowKept, RowReturned
<1> QED
  BY <1>2, <1>3

-----------------------------------------------------------------------------
(* The count of what was sent and of what may yet be sent.                 *)

LeaseStep ==
    \/ NoLeaseTaken
    \/ \E s \in Sender : Sends(s)
    \/ \E s \in Sender, batch \in SUBSET Msg : Takes(s, batch)

Counted(m) ==
    /\ \A a \in Outstanding(m) : a <= row[m].attempts
    /\ sent[m] + Cardinality(Outstanding(m)) <= row[m].attempts

LEMMA OutstandingIsFinite ==
    ASSUME NEW m \in Msg
    PROVE  IsFiniteSet(Outstanding(m)) /\ IsFiniteSet(Outstanding(m)')
<1>1. IsFiniteSet(1..MaxDeliveries)
  BY FS_Interval
<1> QED
  BY <1>1, FS_Subset DEF Outstanding

LEMMA CountSteps ==
    ASSUME DeliveryInv, DeliveryTypeOK', LeaseStep
    PROVE  OneHolder' /\ \A m \in Msg : Counted(m)'
<1>0. /\ \A m \in Msg : Counted(m) /\ row[m] \in OutboxRow /\ sent[m] \in Nat
      /\ \A m \in Msg : row'[m] \in OutboxRow /\ sent'[m] \in Nat
  BY DEF DeliveryInv, MessageInv, Counted, DeliveryTypeOK
<1>1. \A m \in Msg : /\ Cardinality(Outstanding(m)) \in Nat
                     /\ Cardinality(Outstanding(m)') \in Nat
                     /\ Outstanding(m)' \subseteq Outstanding(m) =>
                          Cardinality(Outstanding(m)') <= Cardinality(Outstanding(m))
  BY OutstandingIsFinite, FS_CardinalityType, FS_Subset
<1>2. ASSUME \A s \in Sender, m \in Msg, a \in 1..MaxDeliveries : Unused(s, m, a)' => Unused(s, m, a)
      PROVE  OneHolder' /\ \A m \in Msg : Outstanding(m)' \subseteq Outstanding(m)
  <2>1. OneHolder'
    BY <1>2 DEF OneHolder, DeliveryInv
  <2>2. \A m \in Msg : Outstanding(m)' \subseteq Outstanding(m)
    BY <1>2 DEF Outstanding
  <2> QED
    BY <2>1, <2>2
<1>3. CASE NoLeaseTaken
  <2>1. ASSUME NEW m \in Msg PROVE Counted(m)'
    <3>1. row'[m].attempts = row[m].attempts /\ sent'[m] = sent[m]
      BY <1>3 DEF NoLeaseTaken
    <3>2. row[m].attempts \in Nat
      BY <1>0 DEF OutboxRow
    <3> QED
      BY <1>0, <1>1, <1>2, <1>3, <3>1, <3>2 DEF Counted, NoLeaseTaken
  <2> QED
    BY <1>2, <1>3, <2>1 DEF NoLeaseTaken
<1>4. ASSUME NEW s \in Sender, Sends(s) PROVE OneHolder' /\ \A m \in Msg : Counted(m)'
  <2>1. PICK k \in Msg, n \in 1..MaxDeliveries :
          /\ Unused(s, k, n) /\ ~Unused(s, k, n)'
          /\ sent' = [sent EXCEPT ![k] = @ + 1]
    BY <1>4 DEF Sends
  <2>2. OneHolder' /\ \A m \in Msg : Outstanding(m)' \subseteq Outstanding(m)
    BY <1>2, <1>4 DEF Sends
  <2>3. row' = row /\ sent'[k] = sent[k] + 1 /\ \A m \in Msg : m # k => sent'[m] = sent[m]
    BY <1>4, <2>1 DEF Sends, DeliveryInv, DeliveryTypeOK
  <2>4. n \in Outstanding(k) /\ n \notin Outstanding(k)'
    <3>1. n \in Outstanding(k)
      BY <2>1 DEF Outstanding
    <3>2. \A t \in Sender : ~Unused(t, k, n)'
      <4>1. SUFFICES ASSUME NEW t \in Sender, Unused(t, k, n)' PROVE FALSE
        OBVIOUS
      <4>2. Unused(t, k, n)
        BY <1>4, <4>1 DEF Sends
      <4>3. t = s
        BY <2>1, <4>2 DEF DeliveryInv, OneHolder
      <4> QED
        BY <2>1, <4>1, <4>3
    <3> QED
      BY <3>1, <3>2 DEF Outstanding
  <2>5. Cardinality(Outstanding(k)') <= Cardinality(Outstanding(k)) - 1
    <3>1. Outstanding(k)' \subseteq Outstanding(k) \ {n}
      BY <2>2, <2>4
    <3>2. /\ IsFiniteSet(Outstanding(k) \ {n})
          /\ Cardinality(Outstanding(k) \ {n}) = Cardinality(Outstanding(k)) - 1
      BY <2>4, OutstandingIsFinite, FS_RemoveElement
    <3> QED
      BY <3>1, <3>2, FS_Subset
  <2>6. ASSUME NEW m \in Msg PROVE Counted(m)'
    <3>1. row[m].attempts \in Nat
      BY <1>0 DEF OutboxRow
    <3>2. CASE m = k
      BY <1>0, <1>1, <2>2, <2>3, <2>5, <3>1, <3>2 DEF Counted
    <3>3. CASE m # k
      BY <1>0, <1>1, <2>2, <2>3, <3>1, <3>3 DEF Counted
    <3> QED
      BY <3>2, <3>3
  <2> QED
    BY <2>2, <2>6
<1>5. ASSUME NEW s \in Sender, NEW batch \in SUBSET Msg, Takes(s, batch)
      PROVE  OneHolder' /\ \A m \in Msg : Counted(m)'
  <2>1. sent' = sent
    BY <1>5 DEF Takes
  <2>2. ASSUME NEW m \in Msg
        PROVE  /\ row[m].attempts \in 0..MaxDeliveries
               /\ m \in batch => row[m].attempts + 1 \in 1..MaxDeliveries
                                   /\ row'[m].attempts = row[m].attempts + 1
               /\ m \notin batch => row'[m] = row[m]
    <3>1. row[m].attempts \in 0..MaxDeliveries /\ row[m] \in OutboxRow
      BY <1>0 DEF OutboxRow
    <3>2. ASSUME m \in batch
          PROVE  row[m].attempts + 1 \in 1..MaxDeliveries /\ row'[m].attempts = row[m].attempts + 1
      <4>1. row'[m] = Claimed(row[m], s) /\ row[m].attempts < MaxDeliveries
        BY <1>5, <3>2 DEF Takes, Due
      <4> QED
        BY <3>1, <4>1 DEF Claimed, OutboxRow
    <3> QED
      BY <1>5, <3>1, <3>2 DEF Takes
  <2>3. ASSUME NEW m \in Msg, NEW t \in Sender, NEW a \in 1..MaxDeliveries, Unused(t, m, a)'
        PROVE  \/ Unused(t, m, a) /\ a \in Outstanding(m) /\ a <= row[m].attempts
               \/ t = s /\ m \in batch /\ a = row[m].attempts + 1
    BY <1>0, <1>5, <2>3 DEF Takes, Outstanding, Counted
  <2>4. OneHolder'
    <3> SUFFICES ASSUME NEW t \in Sender, NEW u \in Sender, NEW m \in Msg, NEW a \in 1..MaxDeliveries,
                        Unused(t, m, a)', Unused(u, m, a)'
                 PROVE  t = u
      BY DEF OneHolder
    <3>1. CASE a <= row[m].attempts
      <4>1. Unused(t, m, a) /\ Unused(u, m, a)
        BY <2>2, <2>3, <3>1
      <4> QED
        BY <4>1 DEF DeliveryInv, OneHolder
    <3>2. CASE ~(a <= row[m].attempts)
      BY <2>3, <3>2
    <3> QED
      BY <3>1, <3>2
  <2>5. ASSUME NEW m \in Msg PROVE Counted(m)'
    <3>1. CASE m \notin batch
      <4>1. Outstanding(m)' \subseteq Outstanding(m)
        BY <2>3, <3>1 DEF Outstanding
      <4> QED
        BY <1>0, <1>1, <2>1, <2>2, <3>1, <4>1 DEF Counted
    <3>2. CASE m \in batch
      <4> DEFINE next == row[m].attempts + 1
      <4>1. Outstanding(m)' \subseteq Outstanding(m) \cup {next}
        BY <2>3 DEF Outstanding
      <4>2. \A a \in Outstanding(m) : a <= row[m].attempts /\ a \in Nat
        <5>1. Counted(m)
          BY <1>0
        <5>2. Outstanding(m) \subseteq Nat
          BY DEF Outstanding
        <5> QED
          BY <5>1, <5>2 DEF Counted
      <4>3. next \notin Outstanding(m)
        BY <2>2, <4>2
      <4>4. /\ IsFiniteSet(Outstanding(m) \cup {next})
            /\ Cardinality(Outstanding(m) \cup {next}) = Cardinality(Outstanding(m)) + 1
        BY <4>3, OutstandingIsFinite, FS_AddElement
      <4>5. Cardinality(Outstanding(m)') <= Cardinality(Outstanding(m)) + 1
        BY <4>1, <4>4, FS_Subset
      <4>6. \A a \in Outstanding(m)' : a <= next
        BY <2>2, <4>1, <4>2
      <4>7. row'[m].attempts = next /\ row[m].attempts \in Nat /\ sent'[m] = sent[m]
        BY <2>1, <2>2, <3>2
      <4>8. sent[m] + Cardinality(Outstanding(m)) <= row[m].attempts /\ sent[m] \in Nat
        BY <1>0 DEF Counted
      <4>9. sent'[m] + Cardinality(Outstanding(m)') <= row'[m].attempts
        BY <1>1, <4>5, <4>7, <4>8
      <4> QED
        BY <4>6, <4>7, <4>9 DEF Counted
    <3> QED
      BY <3>1, <3>2
  <2> QED
    BY <2>4, <2>5
<1> QED
  BY <1>3, <1>4, <1>5 DEF LeaseStep

\* Every step of the outbox and its senders, in these terms.
LEMMA DeliverySteps ==
    ASSUME DeliveryInv, [DeliveryNext]_deliveryVars
    PROVE  /\ DeliveryTypeOK' /\ LeaseStep
           /\ \A m \in Msg : RowStep(m)
           /\ \A s \in Sender : SenderInv(s)'
           /\ \A m \in Msg : Out(m) => Out(m)'
<1>1. CASE UNCHANGED deliveryVars
  <2>1. /\ DeliveryTypeOK' /\ NoLeaseTaken /\ \A m \in Msg : RowStep(m)
    BY <1>1 DEF DeliveryInv, DeliveryTypeOK, deliveryVars, NoLeaseTaken, Unused, RowStep, RowKept
  <2>2. \A m : Out(m)' = Out(m)
    BY <1>1 DEF deliveryVars, Out
  <2>3. \A s \in Sender : SenderInv(s)'
    BY <1>1, <2>2 DEF DeliveryInv, SenderInv, deliveryVars
  <2> QED
    BY <2>1, <2>2, <2>3 DEF LeaseStep
<1>2. CASE DeliveryTick
  <2>1. NoLeaseTaken /\ DeliveryTypeOK' /\ UNCHANGED <<held, cache, sent>>
    BY <1>2, TickSteps DEF DeliveryTick
  <2>2. ASSUME NEW m \in Msg PROVE RowStep(m)
    <3>1. row[m] \in OutboxRow
      BY DEF DeliveryInv, DeliveryTypeOK
    <3>2. row[m] = [published |-> row[m].published, attempts |-> row[m].attempts,
                    owner |-> row[m].owner, leaseLeft |-> row[m].leaseLeft, wait |-> row[m].wait]
      BY <3>1 DEF OutboxRow
    <3>3. row'[m] = [published |-> row[m].published, attempts |-> row[m].attempts,
                     owner |-> row[m].owner, leaseLeft |-> Down(row[m].leaseLeft),
                     wait |-> Down(row[m].wait)]
      BY <1>2, <3>2 DEF DeliveryTick
    <3> QED
      BY <3>3 DEF RowStep, RowCounts
  <2>3. \A m : Out(m)' = Out(m)
    BY <2>1 DEF Out
  <2>4. ASSUME NEW s \in Sender PROVE SenderInv(s)'
    <3>1. task[s] \in Task /\ SenderInv(s)
      BY DEF DeliveryInv, DeliveryTypeOK
    <3>2. task'[s].pc = task[s].pc /\ task'[s].lease = task[s].lease
      BY <1>2, <3>1 DEF DeliveryTick, Task
    <3> QED
      BY <2>1, <2>3, <3>1, <3>2 DEF SenderInv
  <2> QED
    BY <2>1, <2>2, <2>3, <2>4 DEF LeaseStep
<1>3. ASSUME NEW s \in Sender, ClaimMessages(s)
      PROVE  /\ DeliveryTypeOK' /\ LeaseStep
             /\ \A m \in Msg : RowStep(m)
             /\ \A t \in Sender : SenderInv(t)'
             /\ \A m \in Msg : Out(m) => Out(m)'
  <2>1. PICK batch \in SUBSET Msg : Takes(s, batch)
    BY <1>3, ClaimSteps
  <2>2. \A m : Out(m)' = Out(m)
    BY <2>1 DEF Takes, Out
  <2>3. ASSUME NEW m \in Msg PROVE RowStep(m)
    <3>1. CASE m \notin batch
      BY <2>1, <3>1 DEF Takes, RowStep, RowKept
    <3>2. CASE m \in batch
      <4>1. row'[m] = Claimed(row[m], s) /\ ~row[m].published /\ row[m].wait = 0
        BY <2>1, <3>2 DEF Takes, Due
      <4>2. row[m] \in OutboxRow
        BY DEF DeliveryInv, DeliveryTypeOK
      <4>3. row[m] = [published |-> row[m].published, attempts |-> row[m].attempts,
                      owner |-> row[m].owner, leaseLeft |-> row[m].leaseLeft, wait |-> row[m].wait]
        BY <4>2 DEF OutboxRow
      <4>4. row'[m] = [published |-> row[m].published, attempts |-> row[m].attempts + 1,
                       owner |-> s, leaseLeft |-> MessageLease, wait |-> row[m].wait]
        BY <4>1, <4>3 DEF Claimed
      <4> QED
        BY <4>1, <4>4 DEF RowStep, RowClaimed
    <3> QED
      BY <3>1, <3>2
  <2>4. ASSUME NEW t \in Sender PROVE SenderInv(t)'
    <3>1. SenderInv(t) /\ task' = task /\ cache' = cache
      BY <2>1 DEF DeliveryInv, Takes
    <3>2. ASSUME task[t].pc = "deliver", task[t].lease \in held'[t] PROVE FALSE
      <4>1. task[t].lease \in Lease /\ task[t].lease \notin held[t]
        BY <3>1, <3>2 DEF SenderInv
      <4>2. PICK m \in Msg, a \in 1..MaxDeliveries : task[t].lease = LeaseOf(m, a)
        BY <4>1 DEF Lease, LeaseOf
      <4>3. task[t].lease.msg = m /\ task[t].lease.attempts = a
        BY <4>2 DEF LeaseOf
      <4>4. a = row[m].attempts + 1
        BY <2>1, <3>2, <4>1, <4>3 DEF Takes
      <4>5. a \in Outstanding(m)
        BY <3>2, <4>2 DEF Outstanding, Unused
      <4>6. a <= row[m].attempts /\ row[m].attempts \in Nat
        BY <4>5 DEF DeliveryInv, MessageInv, DeliveryTypeOK, OutboxRow
      <4> QED
        BY <4>4, <4>6
    <3> QED
      BY <2>2, <3>1, <3>2 DEF SenderInv
  <2> QED
    BY <1>3, <2>1, <2>2, <2>3, <2>4, ClaimSteps DEF LeaseStep
<1>4. ASSUME NEW s \in Sender, NEW l \in held[s], Begin(s, l)
      PROVE  /\ DeliveryTypeOK' /\ LeaseStep
             /\ \A m \in Msg : RowStep(m)
             /\ \A t \in Sender : SenderInv(t)'
             /\ \A m \in Msg : Out(m) => Out(m)'
  <2>1. NoLeaseTaken /\ DeliveryTypeOK'
    BY <1>4, BeginSteps
  <2>2. UNCHANGED <<row, cache, sent>>
    BY <1>4 DEF Begin
  <2>3. \A m : Out(m)' = Out(m)
    BY <2>2 DEF Out
  <2>4. ASSUME NEW t \in Sender PROVE SenderInv(t)'
    <3>1. SenderInv(t) /\ l \in Lease
      BY DEF DeliveryInv, DeliveryTypeOK
    <3>2. CASE t # s
      <4>1. task'[t] = task[t] /\ held'[t] = held[t]
        BY <1>4, <3>2 DEF Begin, DeliveryInv, DeliveryTypeOK
      <4> QED
        BY <2>2, <2>3, <3>1, <4>1 DEF SenderInv
    <3>3. CASE t = s
      <4>1. task'[s].pc = "deliver" /\ task'[s].lease = l /\ held'[s] = held[s] \ {l}
        BY <1>4 DEF Begin, DeliveryInv, DeliveryTypeOK
      <4> QED
        BY <2>2, <2>3, <3>1, <3>3, <4>1 DEF SenderInv
    <3> QED
      BY <3>2, <3>3
  <2> QED
    BY <2>1, <2>2, <2>3, <2>4 DEF LeaseStep, RowStep, RowKept
<1>5. ASSUME NEW s \in Sender, Deliver(s) \/ Unreadable(s)
      PROVE  /\ DeliveryTypeOK' /\ LeaseStep
             /\ \A m \in Msg : RowStep(m)
             /\ \A t \in Sender : SenderInv(t)'
             /\ \A m \in Msg : Out(m) => Out(m)'
  <2>1. /\ NoLeaseTaken \/ Sends(s)
        /\ DeliveryTypeOK'
        /\ \A t \in Sender : SenderInv(t)'
    BY <1>5, DeliverSteps
  <2>2. row' = row
    BY <1>5 DEF Deliver, Unreadable
  <2>3. \A m \in Msg : sent'[m] >= sent[m] /\ sent[m] \in Nat /\ sent'[m] \in Nat
    BY <2>1 DEF NoLeaseTaken, Sends, DeliveryInv, DeliveryTypeOK
  <2> QED
    BY <2>1, <2>2, <2>3 DEF LeaseStep, RowStep, RowKept, Out
<1>6. ASSUME NEW s \in Sender, Ack(s) \/ Nack(s) \/ Crash(s)
      PROVE  /\ DeliveryTypeOK' /\ LeaseStep
             /\ \A m \in Msg : RowStep(m)
             /\ \A t \in Sender : SenderInv(t)'
             /\ \A m \in Msg : Out(m) => Out(m)'
  <2>1. CASE Crash(s)
    <3>1. row' = row
      BY <2>1 DEF Crash
    <3>2. row' \in [Msg -> OutboxRow] /\ \A m \in Msg : row'[m].attempts = row[m].attempts /\ RowStep(m)
      BY <3>1 DEF DeliveryInv, DeliveryTypeOK, RowStep, RowKept
    <3> QED
      BY <2>1, <3>2, EndSteps DEF LeaseStep, Out, NoLeaseTaken
  <2>2. CASE Ack(s) \/ Nack(s)
    <3>1. row' \in [Msg -> OutboxRow] /\ \A m \in Msg : row'[m].attempts = row[m].attempts /\ RowStep(m)
      BY <2>2, AckRow, NackRow
    <3> QED
      BY <2>2, <3>1, EndSteps DEF LeaseStep, Out, NoLeaseTaken
  <2> QED
    BY <1>6, <2>1, <2>2
<1> QED
  BY <1>1, <1>2, <1>3, <1>4, <1>5, <1>6 DEF DeliveryNext

LEMMA MessageStep ==
    ASSUME DeliveryInv, DeliveryTypeOK', NEW m \in Msg, RowStep(m), Out(m) => Out(m)', Counted(m)'
    PROVE  MessageInv(m)' /\ (row[m].published => row'[m] = row[m])
<1>1. MessageInv(m) /\ row[m] \in OutboxRow /\ row'[m] \in OutboxRow
  BY DEF DeliveryInv, DeliveryTypeOK
<1>2. row[m].leaseLeft \in Nat /\ row[m].wait \in Nat
  BY <1>1 DEF OutboxRow
<1>3. CASE RowKept(m)
  BY <1>1, <1>3 DEF RowKept, MessageInv, Counted
<1>4. CASE RowCounts(m)
  <2>1. /\ row'[m].published => row[m].published
        /\ row[m].published => row'[m].leaseLeft = 0 /\ row'[m].wait = 0
        /\ row'[m].leaseLeft > 0 => row'[m].wait = 0
    BY <1>1, <1>2, <1>4 DEF RowCounts, Down, MessageInv
  <2>2. MessageInv(m)'
    BY <1>1, <1>4, <2>1 DEF RowCounts, MessageInv, Counted
  <2>3. ASSUME row[m].published PROVE row'[m] = row[m]
    <3>1. row[m].leaseLeft = 0 /\ row[m].wait = 0
      BY <1>1, <2>3 DEF MessageInv
    <3>2. row[m] = [published |-> row[m].published, attempts |-> row[m].attempts,
                    owner |-> row[m].owner, leaseLeft |-> row[m].leaseLeft, wait |-> row[m].wait]
      BY <1>1 DEF OutboxRow
    <3>3. row'[m] = [published |-> row'[m].published, attempts |-> row'[m].attempts,
                     owner |-> row'[m].owner, leaseLeft |-> row'[m].leaseLeft,
                     wait |-> row'[m].wait]
      BY <1>1 DEF OutboxRow
    <3> QED
      BY <1>4, <2>1, <2>3, <3>1, <3>2, <3>3 DEF RowCounts
  <2> QED
    BY <2>2, <2>3
<1>5. CASE RowClaimed(m)
  BY <1>1, <1>5 DEF RowClaimed, MessageInv, Counted
<1>6. CASE RowReturned(m)
  BY <1>1, <1>6 DEF RowReturned, MessageInv, Counted
<1>7. CASE RowPublished(m)
  <2>1. PICK s \in Sender : /\ task[s].pc = "ack" /\ task[s].lease = LeaseOf(m, row[m].attempts)
                            /\ row'[m].owner = s
    BY <1>7 DEF RowPublished
  <2>2. Out(m)
    <3>1. task[s].lease.msg = m
      BY <2>1 DEF LeaseOf
    <3> QED
      BY <2>1, <3>1 DEF DeliveryInv, SenderInv
  <2> QED
    BY <1>1, <1>7, <2>1, <2>2 DEF RowPublished, MessageInv, Counted
<1> QED
  BY <1>3, <1>4, <1>5, <1>6, <1>7 DEF RowStep

\* What a sender may yet send and what it sent never exceed a row's attempts;
\* no two senders hold the same attempt; whoever is about to acknowledge a row
\* has sent it; and a published row is at rest.
THEOREM DeliveryInvariant == DeliverySpec => []DeliveryInv
<1>1. DeliveryInit => DeliveryInv
  <2> SUFFICES ASSUME DeliveryInit PROVE DeliveryInv
    OBVIOUS
  <2>1. DeliveryTypeOK
    BY DEF DeliveryInit, DeliveryTypeOK, OutboxRow, Task, IdleSender
  <2>2. \A s \in Sender, m \in Msg, a \in 1..MaxDeliveries : ~Unused(s, m, a)
    BY DEF DeliveryInit, Unused, IdleSender
  <2>3. \A m \in Msg : Outstanding(m) = {}
    BY <2>2 DEF Outstanding
  <2>4. ASSUME NEW m \in Msg PROVE MessageInv(m)
    <3>1. row[m] = [published |-> FALSE, attempts |-> 0, owner |-> None, leaseLeft |-> 0, wait |-> 0]
      BY DEF DeliveryInit
    <3>2. sent[m] = 0
      BY DEF DeliveryInit
    <3> QED
      BY <2>3, <3>1, <3>2, FS_EmptySet DEF MessageInv
  <2>5. \A s \in Sender : SenderInv(s)
    BY DEF DeliveryInit, SenderInv, IdleSender
  <2> QED
    BY <2>1, <2>2, <2>4, <2>5 DEF DeliveryInv, OneHolder
<1>2. DeliveryInv /\ [DeliveryNext]_deliveryVars => DeliveryInv'
  <2> SUFFICES ASSUME DeliveryInv, [DeliveryNext]_deliveryVars PROVE DeliveryInv'
    OBVIOUS
  <2>1. /\ DeliveryTypeOK' /\ LeaseStep
        /\ \A m \in Msg : RowStep(m)
        /\ \A s \in Sender : SenderInv(s)'
        /\ \A m \in Msg : Out(m) => Out(m)'
    BY DeliverySteps
  <2>2. OneHolder' /\ \A m \in Msg : Counted(m)'
    BY <2>1, CountSteps
  <2>3. \A m \in Msg : MessageInv(m)'
    BY <2>1, <2>2, MessageStep
  <2> QED
    BY <2>1, <2>2, <2>3 DEF DeliveryInv
<1> QED
  BY <1>1, <1>2, PTL DEF DeliverySpec

\* Whatever senders crash, repeat or come late: a published message left for its
\* reader (unless its channel has none), it left at most once per attempt, and
\* one sender can repeat the acknowledgement.
THEOREM DeliveriesAlwaysAgree == DeliverySpec => []DeliveriesAgree
<1>1. DeliveryInv => DeliveriesAgree
  <2> SUFFICES ASSUME DeliveryInv, NEW m \in Msg
               PROVE  /\ sent[m] <= row[m].attempts
                      /\ row[m].published => /\ sent[m] > 0 \/ m \notin Configured
                                             /\ row[m].owner \in Sender
    BY DEF DeliveryInv, DeliveriesAgree
  <2>1. MessageInv(m) /\ sent[m] \in Nat /\ row[m].attempts \in Nat
    BY DEF DeliveryInv, DeliveryTypeOK, OutboxRow
  <2>2. Cardinality(Outstanding(m)) \in Nat
    BY OutstandingIsFinite, FS_CardinalityType
  <2> QED
    BY <2>1, <2>2 DEF MessageInv, Out
<1> QED
  BY <1>1, DeliveryInvariant, PTL

\* A message is published under the lease that was live at that moment, by the
\* sender that held it, and never changes again.
THEOREM PublishedOnlyByHolder == DeliverySpec => PublishedByHolder
<1>1. DeliveryInv /\ [DeliveryNext]_deliveryVars =>
        \A m \in Msg :
          /\ ~row[m].published /\ row'[m].published =>
               /\ row[m].leaseLeft > 0
               /\ \E s \in Sender : task[s].pc = "ack"
                                 /\ task[s].lease = [msg |-> m, attempts |-> row[m].attempts]
          /\ row[m].published => row'[m] = row[m]
  <2> SUFFICES ASSUME DeliveryInv, [DeliveryNext]_deliveryVars, NEW m \in Msg
               PROVE  /\ ~row[m].published /\ row'[m].published =>
                           /\ row[m].leaseLeft > 0
                           /\ \E s \in Sender : task[s].pc = "ack"
                                 /\ task[s].lease = [msg |-> m, attempts |-> row[m].attempts]
                      /\ row[m].published => row'[m] = row[m]
    OBVIOUS
  <2>1. RowStep(m) /\ (Out(m) => Out(m)') /\ DeliveryTypeOK'
    BY DeliverySteps
  <2>2. Counted(m)'
    BY CountSteps, DeliverySteps
  <2>3. row[m].published => row'[m] = row[m]
    BY <2>1, <2>2, MessageStep
  <2>4. ASSUME ~row[m].published, row'[m].published
        PROVE  /\ row[m].leaseLeft > 0
               /\ \E s \in Sender : task[s].pc = "ack" /\ task[s].lease = LeaseOf(m, row[m].attempts)
    BY <2>1, <2>4 DEF RowStep, RowKept, RowCounts, RowClaimed, RowReturned, RowPublished
  <2> QED
    BY <2>3, <2>4 DEF LeaseOf
<1> QED
  BY <1>1, DeliveryInvariant, PTL DEF DeliverySpec, PublishedByHolder

HIDE MessageAssumption
HIDE SetAssumption

-----------------------------------------------------------------------------
(***************************************************************************)
(* Proofs about the paper cycle: for any number of calls, stages and       *)
(* attempts, any lengths of leases and any deadline.                       *)
(*                                                                         *)
(* The rows (job, run, log) change in the steps of RowSteps only, and the  *)
(* saved state moves in a checkpoint only, by one stage.  What a call      *)
(* holds in memory is a prefix of the saved state and stays one because    *)
(* the saved state only grows; that it performs at most one stage after    *)
(* the run was settled needs where it can then be (ProcInv) and that a     *)
(* completed cycle has all its stages (RowsInv).                           *)
(***************************************************************************)

USE BoundAssumption

-----------------------------------------------------------------------------
(* Sets of positions, and sequences.                                       *)

\* A set of positions has a last one.
LEMMA LastPosition ==
    ASSUME NEW n \in Nat, NEW S \in SUBSET (1..n), S # {}
    PROVE  Max(S) \in S /\ \A y \in S : Max(S) >= y
<1> DEFINE T == {k \in Nat : n - k \in S}
           R == OpToRel(<, Nat)
<1>1. T \subseteq Nat /\ T # {}
  <2>1. PICK x \in S : TRUE
    OBVIOUS
  <2>2. n - x \in Nat /\ n - (n - x) = x
    OBVIOUS
  <2>3. n - x \in T
    BY <2>1, <2>2
  <2> QED
    BY <2>3
<1>2. PICK k \in T : \A j \in T : ~(<<j, k>> \in R)
  <2> HIDE DEF T, R
  <2>1. IsWellFoundedOn(R, Nat)
    BY NatLessThanWellFounded DEF R
  <2> QED
    BY <1>1, <2>1, WFMin
<1>3. \A j \in T : ~(j < k)
  BY <1>2 DEF OpToRel
<1>4. n - k \in S /\ \A y \in S : n - k >= y
  <2>1. n - k \in S
    OBVIOUS
  <2>2. ASSUME NEW y \in S PROVE n - k >= y
    <3>1. n - y \in Nat /\ n - (n - y) = y
      OBVIOUS
    <3>2. n - y \in T
      BY <3>1
    <3>3. ~(n - y < k)
      BY <1>3, <3>2
    <3> QED
      BY <3>1, <3>3
  <2> QED
    BY <2>1, <2>2
<1> QED
  BY <1>4 DEF Max

LEMMA PrefixByPosition ==
    ASSUME NEW S, NEW s \in Seq(S), NEW t \in Seq(S)
    PROVE  IsPrefix(s, t) <=> Len(s) <= Len(t) /\ \A i \in 1..Len(s) : s[i] = t[i]
<1>1. ASSUME Len(s) <= Len(t)
      PROVE  /\ Len(SubSeq(s, 1, Len(s))) = Len(s) /\ Len(SubSeq(t, 1, Len(s))) = Len(s)
             /\ \A i \in 1..Len(s) : SubSeq(s, 1, Len(s))[i] = s[i] /\ SubSeq(t, 1, Len(s))[i] = t[i]
             /\ SubSeq(s, 1, Len(s)) \in Seq(S) /\ SubSeq(t, 1, Len(s)) \in Seq(S)
  BY <1>1
<1>2. ASSUME Len(s) <= Len(t), \A i \in 1..Len(s) : s[i] = t[i]
      PROVE  SubSeq(s, 1, Len(s)) = SubSeq(t, 1, Len(s))
  BY <1>1, <1>2
<1> QED
  BY <1>1, <1>2 DEF IsPrefix

LEMMA PrefixChains ==
    ASSUME NEW S, NEW s \in Seq(S), NEW t \in Seq(S), NEW u \in Seq(S)
    PROVE  /\ IsPrefix(s, s)
           /\ IsPrefix(s, t) /\ IsPrefix(t, u) => IsPrefix(s, u)
  BY PrefixByPosition

LEMMA FrontOfAppend ==
    ASSUME NEW S, NEW s \in Seq(S), NEW x \in S
    PROVE  /\ Front(Append(s, x)) = s /\ Append(s, x) \in Seq(S)
           /\ Len(Append(s, x)) = Len(s) + 1
  BY DEF Front

-----------------------------------------------------------------------------
(* The log of a run.                                                       *)

\* The checkpoints before position i, and the state they arrive at.
Before(i) == {k \in Checkpoints : k < i}
Chained(i) ==
    IF Before(i) = {} THEN Len(log[i].outputs) = 1
    ELSE Extends(log[i].outputs, log[Max(Before(i))].outputs)

LEMMA ReadableLog ==
    Readable <=> /\ \A i \in DOMAIN log : log[i].type \in CycleEvent
                 /\ \A i \in Checkpoints : Chained(i)
                 /\ run.version = Len(log) + 1
  BY DEF Readable, Chained, Before

LEMMA StateIsSequence == ASSUME log \in Seq(EventRow) PROVE State \in Seq(Proc)
<1>1. CASE Checkpoints = {}
  BY <1>1 DEF State
<1>2. CASE Checkpoints # {}
  <2>1. Checkpoints \subseteq 1..Len(log) /\ Len(log) \in Nat
    BY DEF Checkpoints
  <2>2. Max(Checkpoints) \in 1..Len(log)
    BY <1>2, <2>1, LastPosition
  <2>3. log[Max(Checkpoints)] \in EventRow
    BY <2>2
  <2>4. log[Max(Checkpoints)].outputs \in Seq(Proc)
    BY <2>3 DEF EventRow
  <2> QED
    BY <1>2, <2>4 DEF State
<1> QED
  BY <1>1, <1>2

\* An event behind the log moves the state if and only if it is a checkpoint.
LEMMA LogGrows ==
    ASSUME log \in Seq(EventRow), NEW e \in EventRow, log' = Append(log, e)
    PROVE  /\ log' \in Seq(EventRow) /\ Len(log') = Len(log) + 1 /\ Last(log') = e
           /\ State' = IF e.type = "stage_completed" THEN e.outputs ELSE State
           /\ /\ \A i \in Checkpoints : Chained(i)
              /\ e.type = "stage_completed" => Extends(e.outputs, State)
              => \A i \in Checkpoints' : Chained(i)'
           /\ (\A i \in DOMAIN log : log[i].type \in CycleEvent) /\ e.type \in CycleEvent
              => \A i \in DOMAIN log' : log'[i].type \in CycleEvent
<1> DEFINE n == Len(log)
<1>1. /\ n \in Nat /\ log' \in Seq(EventRow) /\ Len(log') = n + 1 /\ log'[n + 1] = e
      /\ \A i \in 1..n : log'[i] = log[i]
      /\ DOMAIN log = 1..n /\ DOMAIN log' = 1..(n + 1)
  OBVIOUS
<1> HIDE DEF n
<1>2. Last(log') = e
  BY <1>1 DEF Last
<1>3. /\ Checkpoints \subseteq 1..n
      /\ Checkpoints' = IF e.type = "stage_completed" THEN Checkpoints \cup {n + 1} ELSE Checkpoints
  BY <1>1 DEF Checkpoints
<1>4. ASSUME NEW S \in SUBSET Checkpoints, S # {}
      PROVE  Max(S) \in S /\ log'[Max(S)] = log[Max(S)]
  <2>1. Max(S) \in S
    BY <1>1, <1>3, <1>4, LastPosition
  <2> QED
    BY <1>1, <1>3, <2>1
<1>5. State' = IF e.type = "stage_completed" THEN e.outputs ELSE State
  <2>1. CASE e.type = "stage_completed"
    <3>1. Checkpoints' = Checkpoints \cup {n + 1} /\ Checkpoints' \subseteq 1..(n + 1)
      BY <1>1, <1>3, <2>1
    <3>2. /\ Max(Checkpoints \cup {n + 1}) \in Checkpoints \cup {n + 1}
          /\ \A y \in Checkpoints \cup {n + 1} : Max(Checkpoints \cup {n + 1}) >= y
      <4>1. n + 1 \in Nat /\ Checkpoints \cup {n + 1} \in SUBSET (1..(n + 1))
        BY <1>1, <1>3
      <4> QED
        BY <4>1, LastPosition
    <3> DEFINE last == Max(Checkpoints \cup {n + 1})
    <3> HIDE DEF last
    <3>3. last = n + 1
      <4>1. last \in Checkpoints \cup {n + 1} /\ last >= n + 1
        BY <3>2 DEF last
      <4>2. last \in 1..(n + 1)
        BY <1>1, <1>3, <4>1
      <4> QED
        BY <1>1, <4>1, <4>2
    <3> QED
      BY <1>1, <2>1, <3>1, <3>3 DEF State, last
  <2>2. CASE e.type # "stage_completed"
    <3>1. Checkpoints' = Checkpoints
      BY <1>3, <2>2
    <3>2. CASE Checkpoints = {}
      BY <2>2, <3>1, <3>2 DEF State
    <3>3. CASE Checkpoints # {}
      BY <1>4, <2>2, <3>1, <3>3 DEF State
    <3> QED
      BY <3>2, <3>3
  <2> QED
    BY <2>1, <2>2
<1>6. ASSUME \A i \in Checkpoints : Chained(i),
             e.type = "stage_completed" => Extends(e.outputs, State),
             NEW i \in Checkpoints'
      PROVE  Chained(i)'
  <2>1. CASE i \in Checkpoints
    <3>1. Before(i)' = Before(i) /\ Before(i) \subseteq Checkpoints
      BY <1>1, <1>3, <2>1 DEF Before
    <3>2. log'[i] = log[i]
      BY <1>1, <1>3, <2>1
    <3>3. CASE Before(i) = {}
      BY <1>6, <2>1, <3>1, <3>2, <3>3 DEF Chained
    <3>4. CASE Before(i) # {}
      <4>1. log'[Max(Before(i))] = log[Max(Before(i))]
        BY <1>4, <3>1, <3>4
      <4> QED
        BY <1>6, <2>1, <3>1, <3>2, <3>4, <4>1 DEF Chained
    <3> QED
      BY <3>3, <3>4
  <2>2. CASE i \notin Checkpoints
    <3>1. i = n + 1 /\ e.type = "stage_completed" /\ log'[i] = e
      BY <1>1, <1>3, <1>6, <2>2
    <3>2. Before(i)' = Checkpoints
      <4>1. \A k \in Checkpoints : k \in Checkpoints' /\ k < i
        BY <1>1, <1>3, <3>1
      <4>2. \A k \in Checkpoints' : k < i => k \in Checkpoints
        BY <1>1, <1>3, <3>1
      <4> QED
        BY <4>1, <4>2 DEF Before
    <3>3. Extends(e.outputs, State)
      BY <1>6, <3>1
    <3>4. CASE Checkpoints = {}
      <4>1. State = <<>>
        BY <3>4 DEF State
      <4>2. Len(e.outputs) = 1
        BY <3>3, <4>1 DEF Extends
      <4> QED
        BY <3>1, <3>2, <3>4, <4>2 DEF Chained
    <3>5. CASE Checkpoints # {}
      <4>1. log'[Max(Checkpoints)] = log[Max(Checkpoints)]
        BY <1>4, <3>5
      <4>2. State = log[Max(Checkpoints)].outputs
        BY <3>5 DEF State
      <4> QED
        BY <3>1, <3>2, <3>3, <3>5, <4>1, <4>2 DEF Chained
    <3> QED
      BY <3>4, <3>5
  <2> QED
    BY <2>1, <2>2
<1>7. (\A i \in DOMAIN log : log[i].type \in CycleEvent) /\ e.type \in CycleEvent
        => \A i \in DOMAIN log' : log'[i].type \in CycleEvent
  BY <1>1
<1> QED
  BY <1>1, <1>2, <1>5, <1>6, <1>7 DEF n

-----------------------------------------------------------------------------
(* The rows.                                                               *)

RowsType == now \in Nat /\ job \in JobRow /\ run \in RunRow /\ log \in Seq(EventRow)

RowsInv ==
    /\ RowsType
    /\ run.status = "succeeded" <=> job.status = "succeeded"
    /\ run.status = "failed"    <=> job.status = "dead_letter"
    /\ run.status = "cancelled" <=> job.status = "cancelled"
    /\ job.status = "queued" => job.attempts < MaxAttempts /\ job.notBefore < Deadline
    /\ job.status = "leased" => job.attempts > 0
    /\ job.status \in {"queued", "leased", "succeeded"} => Readable
    /\ job.status = "succeeded" => CompletedAuthority(job.attempts) /\ Len(State) = Stages

\* What a step may do to the rows.
RowsStep ==
    /\ RowsInv'
    /\ \/ State' = State
       \/ Extends(State', State) /\ Last(log').attempt = job.attempts /\ job.leaseUntil > now
    /\ run.status \in Settled => UNCHANGED <<run, job, log>>

LEMMA AuditSteps ==
    ASSUME RowsType, NEW type \in CycleEvent \cup {"job.dead_lettered"}, NEW a \in 0..MaxAttempts,
           NEW outputs \in Seq(Proc), NEW status \in RunStatus, AppendAudit(type, a, outputs, status)
    PROVE  /\ log' \in Seq(EventRow) /\ run' \in RunRow /\ run'.status = status
           /\ Last(log').attempt = a
           /\ State' = IF type = "stage_completed" THEN outputs ELSE State
           /\ Readable /\ type \in CycleEvent /\ (type = "stage_completed" => Extends(outputs, State))
              => Readable'
<1> DEFINE e == [type |-> type, attempt |-> a, outputs |-> outputs]
<1>1. e \in EventRow /\ e.type = type /\ e.attempt = a /\ e.outputs = outputs
  BY DEF EventRow
<1>2. log' = Append(log, e) /\ run' = [status |-> status, version |-> run.version + 1]
  BY DEF AppendAudit
<1> HIDE DEF e
<1>3. run' \in RunRow /\ run'.status = status /\ run'.version = run.version + 1
  BY <1>2 DEF RowsType, RunRow
<1>4. log \in Seq(EventRow)
  BY DEF RowsType
<1>5. /\ log' \in Seq(EventRow) /\ Len(log') = Len(log) + 1 /\ Last(log') = e
      /\ State' = IF e.type = "stage_completed" THEN e.outputs ELSE State
  BY <1>1, <1>2, <1>4, LogGrows
<1>6. ASSUME Readable, type \in CycleEvent, type = "stage_completed" => Extends(outputs, State)
      PROVE  Readable'
  <2>1. /\ \A i \in DOMAIN log : log[i].type \in CycleEvent
        /\ \A i \in Checkpoints : Chained(i)
        /\ run.version = Len(log) + 1
    BY <1>6, ReadableLog
  <2>2. /\ \A i \in Checkpoints' : Chained(i)'
        /\ \A i \in DOMAIN log' : log'[i].type \in CycleEvent
    BY <1>1, <1>2, <1>4, <1>6, <2>1, LogGrows
  <2>3. run'.version = Len(log') + 1
    BY <1>3, <1>4, <1>5, <2>1
  <2>4. Readable' <=> /\ \A i \in DOMAIN log' : log'[i].type \in CycleEvent
                      /\ \A i \in Checkpoints' : Chained(i)'
                      /\ run'.version = Len(log') + 1
    BY DEF Readable, Chained, Before
  <2> QED
    BY <2>2, <2>3, <2>4
<1> QED
  BY <1>1, <1>3, <1>5, <1>6

LEMMA JobRecord ==
    ASSUME job \in JobRow
    PROVE  job = [status |-> job.status, attempts |-> job.attempts, held |-> job.held,
                  leaseUntil |-> job.leaseUntil, notBefore |-> job.notBefore, result |-> job.result]
  BY DEF JobRow

\* A job row that gives its lease back.
LEMMA ReleasedRow ==
    ASSUME job \in JobRow, NEW status \in JobStatus
    PROVE  /\ Released(job, status) \in JobRow /\ Released(job, status).status = status
           /\ Released(job, status).attempts = job.attempts
           /\ Released(job, status).notBefore = job.notBefore
           /\ \A n \in Int : LET after == [Released(job, status) EXCEPT !.notBefore = n] IN
                /\ after \in JobRow /\ after.status = status /\ after.attempts = job.attempts
                /\ after.notBefore = n
<1> DEFINE r1 == [job EXCEPT !.status = status]
           r2 == [r1 EXCEPT !.held = FALSE]
           r3 == [r2 EXCEPT !.leaseUntil = 0]
           r4(n) == [r3 EXCEPT !.notBefore = n]
<1>1. Released(job, status) = r3
  BY DEF Released
<1>2. /\ r1 \in JobRow /\ r1.status = status /\ r1.attempts = job.attempts
      /\ r1.notBefore = job.notBefore
  BY DEF JobRow
<1> HIDE DEF r1
<1>3. /\ r2 \in JobRow /\ r2.status = status /\ r2.attempts = job.attempts
      /\ r2.notBefore = job.notBefore
  BY <1>2 DEF JobRow
<1> HIDE DEF r2
<1>4. /\ r3 \in JobRow /\ r3.status = status /\ r3.attempts = job.attempts
      /\ r3.notBefore = job.notBefore
  BY <1>3 DEF JobRow
<1> HIDE DEF r3
<1>5. ASSUME NEW n \in Int
      PROVE  /\ r4(n) \in JobRow /\ r4(n).status = status /\ r4(n).attempts = job.attempts
             /\ r4(n).notBefore = n
  BY <1>4 DEF JobRow
<1> QED
  BY <1>1, <1>4, <1>5

\* A verdict other than success, with its event.
LEMMA VerdictSteps ==
    ASSUME RowsInv, now' = now, run.status \notin Settled,
           NEW type \in {"dead_lettered", "cancelled", "job.dead_lettered"},
           NEW a \in 0..MaxAttempts, NEW outputs \in Seq(Proc),
           NEW status \in {"failed", "cancelled"},
           AppendAudit(type, a, outputs, status),
           job' = Released(job, IF status = "failed" THEN "dead_letter" ELSE "cancelled")
    PROVE  RowsStep
<1> DEFINE ended == IF status = "failed" THEN "dead_letter" ELSE "cancelled"
<1>1. ended \in JobStatus /\ status \in RunStatus /\ type \in CycleEvent \cup {"job.dead_lettered"}
  BY DEF JobStatus, RunStatus, CycleEvent
<1>2. job' \in JobRow /\ job'.status = ended
  BY <1>1, ReleasedRow DEF RowsInv, RowsType
<1>3. /\ log' \in Seq(EventRow) /\ run' \in RunRow /\ run'.status = status
      /\ State' = IF type = "stage_completed" THEN outputs ELSE State
  BY <1>1, AuditSteps DEF RowsInv
<1>4. State' = State
  BY <1>3
<1>5. RowsInv'
  BY <1>2, <1>3 DEF RowsInv, RowsType
<1> QED
  BY <1>4, <1>5 DEF RowsStep

LEMMA CycleClaimSteps ==
    ASSUME RowsInv, Claim
    PROVE  RowsStep
<1>1. /\ job \in JobRow /\ now \in Nat /\ job.attempts < MaxAttempts
      /\ job.status \in {"queued", "leased"} /\ UNCHANGED <<now, run, log>>
  BY DEF Claim, RowsInv, RowsType
<1>2. job.attempts \in 0..MaxAttempts
  BY <1>1 DEF JobRow
<1>3. job' = [status |-> "leased", attempts |-> job.attempts + 1, held |-> TRUE,
              leaseUntil |-> now + LeaseFor, notBefore |-> job.notBefore, result |-> job.result]
  BY <1>1, JobRecord DEF Claim
<1>4. job' \in JobRow
  BY <1>1, <1>2, <1>3 DEF JobRow, JobStatus
<1>5. State' = State
  BY <1>1 DEF State, Checkpoints
<1>6. Readable'
  <2>1. Readable
    BY <1>1 DEF RowsInv
  <2> QED
    BY <1>1, <2>1 DEF Readable, Checkpoints
<1>7. job'.status = "leased" /\ job'.attempts > 0
  BY <1>2, <1>3
<1>8. run.status \notin Settled
  BY <1>1 DEF RowsInv, Settled
<1>9. RowsInv'
  BY <1>1, <1>4, <1>6, <1>7, <1>8 DEF RowsInv, RowsType, Settled
<1> QED
  BY <1>5, <1>8, <1>9 DEF RowsStep

LEMMA RowsKept ==
    ASSUME RowsInv, UNCHANGED <<job, run, log>>, now' \in Nat
    PROVE  RowsStep /\ State' = State
<1>1. State' = State
  BY DEF State, Checkpoints
<1>2. Readable => Readable'
  BY DEF Readable, Checkpoints
<1>3. RowsInv'
  BY <1>1, <1>2 DEF RowsInv, RowsType, CompletedAuthority
<1> QED
  BY <1>1, <1>3 DEF RowsStep

\* A checkpoint that is accepted saves one stage.
LEMMA SaveSteps ==
    ASSUME RowsInv, NEW a \in 0..MaxAttempts, NEW outputs \in Seq(Proc), NEW before,
           Active(a), Readable, NextState(outputs, before), UNCHANGED <<now, job>>,
           AppendAudit("stage_completed", a, outputs, "running")
    PROVE  RowsStep /\ State' = outputs /\ run'.status \notin Settled /\ run.status \notin Settled
<1>1. /\ job.status = "leased" /\ job.attempts = a /\ job.leaseUntil > now
      /\ run.status \in {"pending", "running"} /\ Extends(outputs, State)
  BY DEF Active, NextState
<1>2. "stage_completed" \in CycleEvent /\ "running" \in RunStatus
  BY DEF CycleEvent, RunStatus
<1>3. /\ log' \in Seq(EventRow) /\ run' \in RunRow /\ run'.status = "running"
      /\ Last(log').attempt = a /\ State' = outputs /\ Readable'
  BY <1>1, <1>2, AuditSteps DEF RowsInv
<1>4. RowsInv'
  BY <1>1, <1>3 DEF RowsInv, RowsType
<1> QED
  BY <1>1, <1>3, <1>4 DEF RowsStep, Settled

LEMMA RetryDelayIsInteger ==
    ASSUME NEW n \in Nat \ {0}
    PROVE  RetryDelay(n) \in Int
<1> DEFINE doubled == 2 ^ (n - 1)
<1>1. doubled \in Int
  OBVIOUS
<1> HIDE DEF doubled
<1>2. RetryDelay(n) = BaseRetryDelay * (IF doubled < MaxMultiplier THEN doubled ELSE MaxMultiplier)
  BY DEF RetryDelay, doubled
<1> DEFINE factor == IF doubled < MaxMultiplier THEN doubled ELSE MaxMultiplier
<1>3. factor \in Int
  BY <1>1
<1> HIDE DEF factor
<1> QED
  BY <1>2, <1>3 DEF factor

\* A failed attempt is retried, or the job is given up.
LEMMA FailSteps ==
    ASSUME RowsInv, NEW a \in 0..MaxAttempts, NEW error, now' = now, Active(a), Readable,
           IF Retries(error)
           THEN /\ AppendAudit("retry_scheduled", a, State, "running")
                /\ job' = [Released(job, "queued") EXCEPT !.notBefore = now + RetryDelay(job.attempts)]
           ELSE /\ AppendAudit("dead_lettered", a, State, "failed")
                /\ job' = Released(job, "dead_letter")
    PROVE  RowsStep /\ State' = State /\ run.status \notin Settled
<1>1. /\ run.status \in {"pending", "running"} /\ run.status \notin Settled /\ job.status = "leased"
      /\ State \in Seq(Proc) /\ job \in JobRow /\ now \in Nat
  BY StateIsSequence DEF Active, Settled, RowsInv, RowsType
<1>2. CASE ~Retries(error)
  <2>1. RowsStep
    BY <1>1, <1>2, VerdictSteps
  <2>2. "dead_lettered" \in CycleEvent /\ "failed" \in RunStatus
    BY DEF CycleEvent, RunStatus
  <2>3. State' = State
    BY <1>1, <1>2, <2>2, AuditSteps DEF RowsInv
  <2> QED
    BY <1>1, <2>1, <2>3
<1>3. CASE Retries(error)
  <2>1. job.attempts \in Nat \ {0} /\ job.attempts < MaxAttempts
    BY <1>1, <1>3 DEF RowsInv, JobRow, Retries
  <2> DEFINE at == now + RetryDelay(job.attempts)
  <2>2. at \in Int /\ at < Deadline
    BY <1>1, <1>3, <2>1, RetryDelayIsInteger, SMTT(30) DEF Retries
  <2>3. "retry_scheduled" \in CycleEvent /\ "running" \in RunStatus /\ "queued" \in JobStatus
    BY DEF CycleEvent, RunStatus, JobStatus
  <2>4. job' = [Released(job, "queued") EXCEPT !.notBefore = at]
    BY <1>3
  <2> HIDE DEF at
  <2>5. job' \in JobRow /\ job'.status = "queued" /\ job'.attempts = job.attempts /\ job'.notBefore = at
    BY <1>1, <2>2, <2>3, <2>4, ReleasedRow
  <2>6. /\ log' \in Seq(EventRow) /\ run' \in RunRow /\ run'.status = "running"
        /\ State' = State /\ Readable'
    BY <1>1, <1>3, <2>3, AuditSteps DEF RowsInv
  <2>7. RowsInv'
    BY <1>1, <2>1, <2>2, <2>5, <2>6 DEF RowsInv, RowsType
  <2> QED
    BY <1>1, <2>6, <2>7 DEF RowsStep
<1> QED
  BY <1>2, <1>3

LEMMA CompleteSteps ==
    ASSUME RowsInv, NEW a \in 0..MaxAttempts, now' = now, Active(a), Readable, Len(State) = Stages,
           AppendAudit("completed", a, State, "succeeded"), job' = Completed(job)
    PROVE  RowsStep /\ State' = State /\ run.status \notin Settled
<1>1. /\ run.status \in {"pending", "running"} /\ run.status \notin Settled /\ job.held
      /\ State \in Seq(Proc) /\ job \in JobRow
  BY StateIsSequence DEF Active, Settled, RowsInv, RowsType
<1>2. "completed" \in CycleEvent /\ "succeeded" \in RunStatus /\ "succeeded" \in JobStatus
  BY DEF CycleEvent, RunStatus, JobStatus
<1>3. /\ log' \in Seq(EventRow) /\ run' \in RunRow /\ run'.status = "succeeded"
      /\ State' = State /\ Readable'
  BY <1>1, <1>2, AuditSteps DEF RowsInv
<1>4. job' \in JobRow /\ job'.status = "succeeded" /\ job'.result /\ job'.held
  <2> DEFINE r1 == [job EXCEPT !.status = "succeeded"]
             r2 == [r1 EXCEPT !.result = TRUE]
  <2>1. job' = r2
    BY DEF Completed
  <2>2. r1 \in JobRow /\ r1.status = "succeeded" /\ r1.held = job.held
    BY <1>1, <1>2 DEF JobRow
  <2> HIDE DEF r1
  <2>3. r2 \in JobRow /\ r2.status = "succeeded" /\ r2.held = r1.held /\ r2.result = TRUE
    BY <2>2 DEF JobRow
  <2> HIDE DEF r2
  <2> QED
    BY <1>1, <2>1, <2>2, <2>3
<1>5. CompletedAuthority(job.attempts)'
  BY <1>3, <1>4 DEF CompletedAuthority
<1>6. RowsInv'
  BY <1>3, <1>4, <1>5 DEF RowsInv, RowsType
<1> QED
  BY <1>1, <1>3, <1>6 DEF RowsStep

\* The queue's dead-letter pass, and an operator's cancellation.
LEMMA CycleEndSteps ==
    ASSUME RowsInv, DeadLetterUnclaimable \/ \E v \in 1..(Len(log) + 1) : Cancel(v)
    PROVE  RowsStep /\ State' = State
<1>1. /\ job \in JobRow /\ job.attempts \in 0..MaxAttempts /\ State \in Seq(Proc)
      /\ <<>> \in Seq(Proc) /\ now' = now
  BY StateIsSequence DEF RowsInv, RowsType, JobRow, DeadLetterUnclaimable, Cancel
<1>2. CASE DeadLetterUnclaimable
  <2>1. /\ run.status \notin Settled
        /\ AppendAudit("job.dead_lettered", job.attempts, <<>>, "failed")
        /\ job' = Released(job, "dead_letter")
    BY <1>2 DEF DeadLetterUnclaimable, Unclaimable, RowsInv, Settled
  <2>2. "failed" \in RunStatus
    BY DEF RunStatus
  <2>3. State' = State
    <3>1. RowsType
      BY DEF RowsInv
    <3>2. State' = IF "job.dead_lettered" = "stage_completed" THEN <<>> ELSE State
      BY <1>1, <2>1, <2>2, <3>1, AuditSteps
    <3> QED
      BY <3>2
  <2>4. RowsStep
    BY <1>1, <2>1, VerdictSteps
  <2> QED
    BY <2>3, <2>4
<1>3. ASSUME NEW v \in 1..(Len(log) + 1), Cancel(v) PROVE RowsStep /\ State' = State
  <2>1. /\ run.status \notin Settled
        /\ AppendAudit("cancelled", job.attempts, State, "cancelled")
        /\ job' = Released(job, "cancelled")
    BY <1>3 DEF Cancel, Cancelled, Settled
  <2>2. "cancelled" \in RunStatus /\ "cancelled" \in CycleEvent
    BY DEF RunStatus, CycleEvent
  <2>3. State' = State
    <3>1. RowsType
      BY DEF RowsInv
    <3>2. State' = IF "cancelled" = "stage_completed" THEN State ELSE State
      BY <1>1, <2>1, <2>2, <3>1, AuditSteps
    <3> QED
      BY <3>2
  <2>4. RowsStep
    BY <1>1, <2>1, VerdictSteps
  <2> QED
    BY <2>3, <2>4
<1> QED
  BY <1>2, <1>3

-----------------------------------------------------------------------------
(* The calls.                                                              *)

ProcInv(p) ==
    /\ late[p] \in {0, 1}
    /\ proc[p].pc \in {"stage", "processing", "finalizing"} => IsPrefix(proc[p].outputs, State)
    /\ proc[p].pc = "produced" => Len(proc[p].outputs) > 0 /\ IsPrefix(Front(proc[p].outputs), State)
    /\ proc[p].pc = "finalizing" => Len(proc[p].outputs) = Stages
    /\ late[p] = 1 => run.status \in Settled /\ proc[p].pc \notin {"stage", "processing"}

CycleInv ==
    /\ RowsInv
    /\ lease \in [Attempt -> Nat]
    /\ proc \in [Proc -> ProcState]
    /\ late \in [Proc -> Nat]
    /\ \A p \in Proc : ProcInv(p)

\* The saved state grows by one stage, or not at all.
LEMMA StateGrows ==
    ASSUME RowsInv, RowsStep
    PROVE  /\ State \in Seq(Proc) /\ State' \in Seq(Proc)
           /\ IsPrefix(State, State') /\ Len(State') <= Len(State) + 1
<1>1. State \in Seq(Proc)
  BY StateIsSequence DEF RowsInv, RowsType
<1>2. log' \in Seq(EventRow)
  BY DEF RowsStep, RowsInv, RowsType
<1>3. State' \in Seq(Proc)
  <2>1. (log \in Seq(EventRow) => State \in Seq(Proc))'
    BY StateIsSequence, PTL
  <2> QED
    BY <1>2, <2>1
<1>4. CASE State' = State
  BY <1>1, <1>4, PrefixChains
<1>5. CASE Extends(State', State)
  BY <1>1, <1>3, <1>5 DEF Extends
<1> QED
  BY <1>1, <1>3, <1>4, <1>5 DEF RowsStep

\* A call that does not move is not disturbed by what others do to the rows.
LEMMA OthersKept ==
    ASSUME RowsInv, RowsStep, NEW p \in Proc, ProcInv(p), proc[p] \in ProcState,
           proc'[p] = proc[p], late'[p] = late[p]
    PROVE  ProcInv(p)'
<1>1. /\ State \in Seq(Proc) /\ State' \in Seq(Proc) /\ IsPrefix(State, State')
  BY StateGrows
<1>2. proc[p].outputs \in Seq(Proc)
  BY DEF ProcState
<1>3. ASSUME NEW s \in Seq(Proc), IsPrefix(s, State) PROVE IsPrefix(s, State')
  BY <1>1, <1>3, PrefixChains
<1>4. proc[p].pc = "produced" => Front(proc[p].outputs) \in Seq(Proc)
  BY <1>2 DEF ProcInv, Front
<1>5. run.status \in Settled => run'.status \in Settled
  BY DEF RowsStep
<1> QED
  BY <1>2, <1>3, <1>4, <1>5 DEF ProcInv

\* The calls after call p alone moved to ps.
LEMMA CallMoves ==
    ASSUME CycleInv, RowsStep, lease' = lease, NEW p \in Proc, NEW ps \in ProcState,
           proc' = [proc EXCEPT ![p] = ps], late' \in [Proc -> Nat],
           \A q \in Proc : q # p => late'[q] = late[q],
           /\ late'[p] \in {0, 1}
           /\ ps.pc \in {"stage", "processing", "finalizing"} => IsPrefix(ps.outputs, State')
           /\ ps.pc = "produced" => Len(ps.outputs) > 0 /\ IsPrefix(Front(ps.outputs), State')
           /\ ps.pc = "finalizing" => Len(ps.outputs) = Stages
           /\ late'[p] = 1 => run'.status \in Settled /\ ps.pc \notin {"stage", "processing"}
    PROVE  CycleInv'
<1>1. proc' \in [Proc -> ProcState] /\ proc'[p] = ps /\ \A q \in Proc : q # p => proc'[q] = proc[q]
  BY DEF CycleInv
<1>2. ASSUME NEW q \in Proc PROVE ProcInv(q)'
  <2>1. CASE q = p
    BY <1>1, <2>1 DEF ProcInv
  <2>2. CASE q # p
    BY <1>1, <2>2, OthersKept DEF CycleInv
  <2> QED
    BY <2>1, <2>2
<1> QED
  BY <1>1, <1>2 DEF CycleInv, RowsStep

\* A step that moves no call.
LEMMA CallsKept ==
    ASSUME CycleInv, RowsStep, lease' \in [Attempt -> Nat], UNCHANGED <<proc, late>>
    PROVE  CycleInv'
<1>1. \A p \in Proc : ProcInv(p)'
  BY OthersKept DEF CycleInv
<1> QED
  BY <1>1 DEF CycleInv, RowsStep

LEMMA IdleCall == Idle \in ProcState /\ Idle.pc = "idle"
  BY DEF Idle, ProcState, Pc, Error

\* A call that ends, or that fails, while the rows move as they may.
LEMMA CallEnds ==
    ASSUME CycleInv, RowsStep, UNCHANGED <<lease, late>>, NEW p \in Proc, NEW ps \in ProcState,
           ps.pc \in {"idle", "failing"}, proc' = [proc EXCEPT ![p] = ps]
    PROVE  CycleInv'
<1>1. late' \in [Proc -> Nat] /\ ProcInv(p)
  BY DEF CycleInv
<1>2. late'[p] = 1 => run'.status \in Settled
  BY <1>1 DEF ProcInv, RowsStep
<1> QED
  BY <1>1, <1>2, CallMoves DEF ProcInv

LEMMA FailingCall ==
    ASSUME NEW ps \in ProcState, NEW error \in {"retryable", "permanent"}
    PROVE  Failing(ps, error) \in ProcState /\ Failing(ps, error).pc = "failing"
<1> DEFINE r1 == [ps EXCEPT !.pc = "failing"]
           r2 == [r1 EXCEPT !.error = error]
<1>1. Failing(ps, error) = r2
  BY DEF Failing
<1>2. r1 \in ProcState /\ r1.pc = "failing"
  BY DEF ProcState, Pc
<1> HIDE DEF r1
<1>3. r2 \in ProcState /\ r2.pc = "failing"
  BY <1>2 DEF ProcState, Error
<1> HIDE DEF r2
<1> QED
  BY <1>1, <1>3

LEMMA ResumedCall ==
    ASSUME NEW a \in 0..MaxAttempts, NEW outputs \in Seq(Proc)
    PROVE  /\ Resume(a, outputs) \in ProcState /\ Resume(a, outputs).outputs = outputs
           /\ Resume(a, outputs).pc = IF Len(outputs) = Stages THEN "finalizing" ELSE "stage"
  BY DEF Resume, ProcState, Pc, Error

LEMMA LoadSteps ==
    ASSUME CycleInv, NEW p \in Proc, NEW a \in Attempt, Load(p, a)
    PROVE  CycleInv' /\ RowsStep
<1>1. /\ UNCHANGED <<now, job, run, log, lease, late>> /\ RowsInv /\ a \in 0..MaxAttempts
      /\ proc' = [proc EXCEPT ![p] = Resume(a, State)]
  BY DEF Load, CycleInv, Attempt
<1>2. RowsStep /\ State' = State /\ State \in Seq(Proc)
  BY <1>1, RowsKept, StateIsSequence DEF RowsInv, RowsType
<1>3. /\ Resume(a, State) \in ProcState /\ Resume(a, State).outputs = State
      /\ Resume(a, State).pc = IF Len(State) = Stages THEN "finalizing" ELSE "stage"
  BY <1>1, <1>2, ResumedCall
<1>4. IsPrefix(State, State')
  BY <1>2, PrefixChains
<1>5. late'[p] = 1 => Resume(a, State).pc = "finalizing" /\ run'.status \in Settled
  <2>1. SUFFICES ASSUME late[p] = 1 PROVE Len(State) = Stages /\ run.status \in Settled
    BY <1>1, <1>3
  <2>2. run.status \in Settled
    BY <2>1 DEF CycleInv, ProcInv
  <2>3. CompletedAuthority(a)
    BY <2>2 DEF Load, Active, Settled
  <2> QED
    BY <1>1, <2>2, <2>3 DEF RowsInv, CompletedAuthority
<1>6. late'[p] \in {0, 1} /\ late' \in [Proc -> Nat]
  BY <1>1 DEF CycleInv, ProcInv
<1>7. CycleInv'
  BY <1>1, <1>2, <1>3, <1>4, <1>5, <1>6, CallMoves
<1> QED
  BY <1>2, <1>7

LEMMA BeginStageSteps ==
    ASSUME CycleInv, NEW p \in Proc, BeginStage(p)
    PROVE  CycleInv' /\ RowsStep
<1>1. /\ UNCHANGED <<now, job, run, log, lease, late>> /\ RowsInv /\ proc[p] \in ProcState
      /\ ProcInv(p) /\ proc[p].pc = "stage"
  BY DEF BeginStage, CycleInv
<1>2. RowsStep /\ State' = State
  BY <1>1, RowsKept DEF RowsInv, RowsType
<1>3. CASE proc' = [proc EXCEPT ![p] = Failing(proc[p], "permanent")]
  <2>1. Failing(proc[p], "permanent") \in ProcState /\ Failing(proc[p], "permanent").pc = "failing"
    BY <1>1, FailingCall
  <2> QED
    BY <1>1, <1>2, <1>3, <2>1, CallEnds
<1>4. CASE proc' = [proc EXCEPT ![p] = [proc[p] EXCEPT !.pc = "processing"]]
  <2> DEFINE ps == [proc[p] EXCEPT !.pc = "processing"]
  <2>1. ps \in ProcState /\ ps.pc = "processing" /\ ps.outputs = proc[p].outputs
    BY <1>1 DEF ProcState, Pc
  <2> HIDE DEF ps
  <2>2. proc' = [proc EXCEPT ![p] = ps]
    BY <1>4 DEF ps
  <2>3. late'[p] # 1 /\ late'[p] \in {0, 1} /\ IsPrefix(ps.outputs, State') /\ late' \in [Proc -> Nat]
    BY <1>1, <1>2, <2>1 DEF ProcInv, CycleInv
  <2>4. \A q \in Proc : q # p => late'[q] = late[q]
    BY <1>1
  <2> QED
    BY <1>1, <1>2, <2>1, <2>2, <2>3, <2>4, CallMoves
<1>5. \/ proc' = [proc EXCEPT ![p] = Failing(proc[p], "permanent")]
      \/ proc' = [proc EXCEPT ![p] = [proc[p] EXCEPT !.pc = "processing"]]
  BY DEF BeginStage, CycleInv
<1> QED
  BY <1>2, <1>3, <1>4, <1>5

LEMMA ProcessSteps ==
    ASSUME CycleInv, NEW p \in Proc, Process(p)
    PROVE  CycleInv' /\ RowsStep
<1>1. /\ UNCHANGED <<now, job, run, log, lease>> /\ RowsInv /\ proc[p] \in ProcState
      /\ ProcInv(p) /\ proc[p].pc = "processing" /\ proc[p].outputs \in Seq(Proc)
      /\ late \in [Proc -> Nat] /\ proc \in [Proc -> ProcState]
  BY DEF Process, CycleInv, ProcState
<1>2. RowsStep /\ State' = State
  BY <1>1, RowsKept DEF RowsInv, RowsType
<1>3. late[p] = 0
  BY <1>1 DEF ProcInv
<1>4. /\ late' = [late EXCEPT ![p] = IF run.status \in Settled THEN 1 ELSE 0]
      /\ late' \in [Proc -> Nat]
  BY <1>1, <1>3 DEF Process
<1>5. /\ late'[p] \in {0, 1} /\ (late'[p] = 1 => run'.status \in Settled)
      /\ \A q \in Proc : q # p => late'[q] = late[q]
  BY <1>1, <1>4
<1>6. ASSUME NEW error \in {"retryable", "permanent"},
             proc' = [proc EXCEPT ![p] = Failing(proc[p], error)]
      PROVE  CycleInv'
  <2>1. Failing(proc[p], error) \in ProcState /\ Failing(proc[p], error).pc = "failing"
    BY <1>1, FailingCall
  <2> QED
    BY <1>1, <1>2, <1>4, <1>5, <1>6, <2>1, CallMoves
<1>7. CASE proc' = [proc EXCEPT ![p].pc = "produced", ![p].outputs = Append(@, p)]
  <2> DEFINE r1 == [proc[p] EXCEPT !.pc = "produced"]
             ps == [r1 EXCEPT !.outputs = Append(proc[p].outputs, p)]
  <2>1. r1 \in ProcState /\ r1.pc = "produced" /\ r1.outputs = proc[p].outputs
    BY <1>1 DEF ProcState, Pc
  <2>2. proc' = [proc EXCEPT ![p] = ps]
    BY <1>1, <1>7
  <2>3. /\ Append(proc[p].outputs, p) \in Seq(Proc) /\ Len(Append(proc[p].outputs, p)) > 0
        /\ Front(Append(proc[p].outputs, p)) = proc[p].outputs
    BY <1>1, FrontOfAppend
  <2> HIDE DEF r1
  <2>4. ps \in ProcState /\ ps.pc = "produced" /\ ps.outputs = Append(proc[p].outputs, p)
    BY <2>1, <2>3 DEF ProcState
  <2> HIDE DEF ps
  <2>5. IsPrefix(proc[p].outputs, State')
    BY <1>1, <1>2 DEF ProcInv
  <2>6. Len(ps.outputs) > 0 /\ IsPrefix(Front(ps.outputs), State')
    BY <2>3, <2>4, <2>5
  <2> QED
    BY <1>1, <1>2, <1>4, <1>5, <2>2, <2>4, <2>6, CallMoves
<1> QED
  BY <1>2, <1>6, <1>7 DEF Process

LEMMA CheckpointSteps ==
    ASSUME CycleInv, NEW p \in Proc, Checkpoint(p)
    PROVE  CycleInv' /\ RowsStep
<1> DEFINE ps == proc[p]
           before == Front(ps.outputs)
<1>1. /\ UNCHANGED <<now, job, lease, late>> /\ RowsInv /\ ps \in ProcState /\ ProcInv(p)
      /\ ps.outputs \in Seq(Proc) /\ ps.attempt \in 0..MaxAttempts /\ late \in [Proc -> Nat]
  BY DEF Checkpoint, CycleInv, ProcState
<1>2. CASE /\ Active(ps.attempt) /\ Readable /\ NextState(ps.outputs, before)
           /\ AppendAudit("stage_completed", ps.attempt, ps.outputs, "running")
           /\ proc' = [proc EXCEPT ![p] = Resume(ps.attempt, ps.outputs)]
  <2>1. RowsStep /\ State' = ps.outputs /\ run.status \notin Settled
    BY <1>1, <1>2, SaveSteps
  <2>2. /\ Resume(ps.attempt, ps.outputs) \in ProcState
        /\ Resume(ps.attempt, ps.outputs).outputs = ps.outputs
        /\ Resume(ps.attempt, ps.outputs).pc = IF Len(ps.outputs) = Stages THEN "finalizing" ELSE "stage"
    BY <1>1, ResumedCall
  <2>3. IsPrefix(ps.outputs, State') /\ late'[p] = 0
    <3>1. IsPrefix(ps.outputs, ps.outputs)
      BY <1>1, PrefixChains
    <3> QED
      BY <1>1, <2>1, <3>1 DEF ProcInv
  <2>4. CycleInv'
    <3>0. PICK next \in ProcState : next = Resume(ps.attempt, ps.outputs)
      BY <2>2
    <3>1. next \in ProcState /\ next.pc \in {"stage", "finalizing"}
          /\ next.outputs = ps.outputs /\ (next.pc = "finalizing" => Len(next.outputs) = Stages)
      BY <2>2, <3>0
    <3>2. proc' = [proc EXCEPT ![p] = next]
      BY <1>2, <3>0
    <3>3. IsPrefix(next.outputs, State') /\ lease' = lease
      BY <1>1, <2>3, <3>1
    <3>4. /\ late' \in [Proc -> Nat] /\ late'[p] = 0
          /\ \A q \in Proc : q # p => late'[q] = late[q]
      BY <1>1, <2>3
    <3>5. /\ next.pc \in {"stage", "processing", "finalizing"} => IsPrefix(next.outputs, State')
          /\ next.pc # "produced"
          /\ next.pc = "finalizing" => Len(next.outputs) = Stages
      BY <3>1, <3>3
    <3>6. RowsStep /\ next \in ProcState
      BY <2>1, <3>1
    <3>7. /\ late'[p] \in {0, 1}
          /\ next.pc \in {"stage", "processing", "finalizing"} => IsPrefix(next.outputs, State')
          /\ next.pc = "produced" => Len(next.outputs) > 0 /\ IsPrefix(Front(next.outputs), State')
          /\ next.pc = "finalizing" => Len(next.outputs) = Stages
          /\ late'[p] = 1 => run'.status \in Settled /\ next.pc \notin {"stage", "processing"}
      BY <3>4, <3>5
    <3>8. CycleInv /\ lease' = lease
      BY <3>3
    <3> QED
      BY <3>2, <3>4, <3>6, <3>7, <3>8, CallMoves
  <2> QED
    BY <2>1, <2>4
<1>3. CASE UNCHANGED <<run, log>> /\ proc' = [proc EXCEPT ![p] = Refused(ps)]
  <2>1. RowsStep
    BY <1>1, <1>3, RowsKept DEF RowsInv, RowsType
  <2> QED
    BY <1>1, <1>3, <2>1, IdleCall, CallEnds DEF Refused
<1> QED
  BY <1>2, <1>3 DEF Checkpoint

LEMMA FailureSteps ==
    ASSUME CycleInv, NEW p \in Proc, Fail(p)
    PROVE  CycleInv' /\ RowsStep
<1> DEFINE ps == proc[p]
<1>1. /\ UNCHANGED <<now, lease, late>> /\ RowsInv /\ ps.attempt \in 0..MaxAttempts
      /\ proc' = [proc EXCEPT ![p] = Idle]
  BY DEF Fail, CycleInv, ProcState
<1>2. CASE UNCHANGED <<job, run, log>>
  <2>1. RowsStep
    BY <1>1, <1>2, RowsKept DEF RowsInv, RowsType
  <2> QED
    BY <1>1, <2>1, IdleCall, CallEnds
<1>3. CASE /\ Active(ps.attempt) /\ Readable
           /\ IF Retries(ps.error)
              THEN /\ AppendAudit("retry_scheduled", ps.attempt, State, "running")
                   /\ job' = [Released(job, "queued") EXCEPT
                                 !.notBefore = now + RetryDelay(job.attempts)]
              ELSE /\ AppendAudit("dead_lettered", ps.attempt, State, "failed")
                   /\ job' = Released(job, "dead_letter")
  <2>1. RowsStep
    BY <1>1, <1>3, FailSteps
  <2> QED
    BY <1>1, <2>1, IdleCall, CallEnds
<1> QED
  BY <1>2, <1>3 DEF Fail

LEMMA CompletionSteps ==
    ASSUME CycleInv, NEW p \in Proc, Complete(p)
    PROVE  CycleInv' /\ RowsStep
<1> DEFINE ps == proc[p]
<1>1. /\ UNCHANGED <<now, lease, late>> /\ RowsInv /\ ps.attempt \in 0..MaxAttempts
      /\ ps \in ProcState /\ ps.pc = "finalizing" /\ Len(ps.outputs) = Stages
  BY DEF Complete, CycleInv, ProcInv, ProcState
<1>2. ASSUME UNCHANGED <<job, run, log>>, NEW error \in {"retryable", "permanent"},
             proc' = [proc EXCEPT ![p] = Failing(ps, error)]
      PROVE  CycleInv' /\ RowsStep
  <2>1. RowsStep
    BY <1>1, <1>2, RowsKept DEF RowsInv, RowsType
  <2>2. Failing(ps, error) \in ProcState /\ Failing(ps, error).pc = "failing"
    BY <1>1, FailingCall
  <2> QED
    BY <1>1, <1>2, <2>1, <2>2, CallEnds
<1>3. CASE UNCHANGED <<job, run, log>> /\ proc' = [proc EXCEPT ![p] = Idle]
  <2>1. RowsStep
    BY <1>1, <1>3, RowsKept DEF RowsInv, RowsType
  <2> QED
    BY <1>1, <1>3, <2>1, IdleCall, CallEnds
<1>4. CASE /\ Active(ps.attempt) /\ Readable /\ State = ps.outputs
           /\ AppendAudit("completed", ps.attempt, ps.outputs, "succeeded")
           /\ job' = Completed(job)
           /\ proc' = [proc EXCEPT ![p] = Idle]
  <2>1. RowsStep
    BY <1>1, <1>4, CompleteSteps
  <2> QED
    BY <1>1, <1>4, <2>1, IdleCall, CallEnds
<1> QED
  BY <1>2, <1>3, <1>4 DEF Complete, CycleInv

-----------------------------------------------------------------------------
(* What the rows, the calls and the saved state keep.                      *)

LEMMA CycleSteps ==
    ASSUME CycleInv, [CycleNext]_cycleVars
    PROVE  CycleInv' /\ RowsStep
<1>0. RowsInv /\ now \in Nat /\ lease \in [Attempt -> Nat]
  BY DEF CycleInv, RowsInv, RowsType
<1>1. CASE UNCHANGED cycleVars
  <2>1. RowsStep
    BY <1>0, <1>1, RowsKept DEF cycleVars
  <2> QED
    BY <1>0, <1>1, <2>1, CallsKept DEF cycleVars
<1>2. CASE CycleTick
  <2>1. RowsStep
    BY <1>0, <1>2, RowsKept DEF CycleTick
  <2> QED
    BY <1>0, <1>2, <2>1, CallsKept DEF CycleTick
<1>3. CASE DeadLetterUnclaimable
  <2>1. RowsStep
    BY <1>0, <1>3, CycleEndSteps
  <2> QED
    BY <1>0, <1>3, <2>1, CallsKept DEF DeadLetterUnclaimable
<1>4. CASE Claim
  <2>1. RowsStep
    BY <1>0, <1>4, CycleClaimSteps
  <2>2. lease' \in [Attempt -> Nat]
    <3>1. lease' = [lease EXCEPT ![job.attempts + 1] = now + LeaseFor] /\ now + LeaseFor \in Nat
      BY <1>0, <1>4 DEF Claim
    <3> QED
      BY <1>0, <3>1
  <2> QED
    BY <1>0, <1>4, <2>1, <2>2, CallsKept DEF Claim
<1>5. ASSUME NEW v \in 1..(Len(log) + 1), Cancel(v) PROVE CycleInv' /\ RowsStep
  <2>1. RowsStep
    BY <1>0, <1>5, CycleEndSteps
  <2> QED
    BY <1>0, <1>5, <2>1, CallsKept DEF Cancel
<1>6. ASSUME NEW p \in Proc, Stop(p) PROVE CycleInv' /\ RowsStep
  <2>1. RowsStep
    BY <1>0, <1>6, RowsKept DEF Stop
  <2> QED
    BY <1>0, <1>6, <2>1, IdleCall, CallEnds DEF Stop
<1> QED
  BY <1>1, <1>2, <1>3, <1>4, <1>5, <1>6, LoadSteps, BeginStageSteps, ProcessSteps,
     CheckpointSteps, FailureSteps, CompletionSteps DEF CycleNext

\* Job and run agree, the log can be read as long as the cycle may go on, and a
\* call holds a prefix of what is saved.
THEOREM CycleInvariant == CycleSpec => []CycleInv
<1>1. CycleInit => CycleInv
  <2> SUFFICES ASSUME CycleInit PROVE CycleInv
    OBVIOUS
  <2>1. RowsType
    BY DEF CycleInit, RowsType, JobRow, RunRow, JobStatus, RunStatus
  <2>2. log = <<>> /\ Checkpoints = {}
    BY DEF CycleInit, Checkpoints
  <2>3. Readable
    BY <2>2 DEF CycleInit, Readable
  <2>4. RowsInv
    BY <2>1, <2>3 DEF CycleInit, RowsInv
  <2>5. proc \in [Proc -> ProcState] /\ late \in [Proc -> Nat] /\ lease \in [Attempt -> Nat]
    BY IdleCall DEF CycleInit
  <2>6. \A p \in Proc : proc[p].pc = "idle" /\ late[p] = 0
    BY IdleCall DEF CycleInit
  <2> QED
    BY <2>4, <2>5, <2>6 DEF CycleInv, ProcInv
<1>2. CycleInv /\ [CycleNext]_cycleVars => CycleInv'
  BY CycleSteps
<1> QED
  BY <1>1, <1>2, PTL DEF CycleSpec

\* The rows that the queue, the calls and an operator write never tell different
\* stories, and no call goes on from progress that is not saved.
THEOREM CycleStaysConsistent == CycleSpec => []CycleIsConsistent
<1>1. CycleInv => CycleIsConsistent
  <2> SUFFICES ASSUME CycleInv PROVE CycleIsConsistent
    OBVIOUS
  <2>1. RowsInv /\ CycleTypeOK
    BY DEF CycleInv, RowsInv, RowsType, CycleTypeOK
  <2>2. ASSUME NEW p \in Proc
        PROVE  /\ proc[p].pc \in {"stage", "processing", "finalizing"}
                    => IsPrefix(proc[p].outputs, State)
               /\ proc[p].pc = "produced" => IsPrefix(Front(proc[p].outputs), State)
               /\ late[p] <= 1
    BY DEF CycleInv, ProcInv
  <2> QED
    BY <2>1, <2>2 DEF CycleIsConsistent, RowsInv
<1> QED
  BY <1>1, CycleInvariant, PTL

\* Saved progress is never lost or rewritten, it grows by one stage under the live
\* lease only, and what was settled stays settled.
THEOREM ProgressIsAlwaysKept == CycleSpec => ProgressIsKept
<1>1. CycleInv /\ [CycleNext]_cycleVars =>
        /\ IsPrefix(State, State') /\ Len(State') <= Len(State) + 1
        /\ State' # State => Last(log').attempt = job.attempts /\ job.leaseUntil > now
        /\ run.status \in Settled => UNCHANGED <<run, job, log>>
  <2> SUFFICES ASSUME CycleInv, [CycleNext]_cycleVars
               PROVE  /\ IsPrefix(State, State') /\ Len(State') <= Len(State) + 1
                      /\ State' # State => Last(log').attempt = job.attempts /\ job.leaseUntil > now
                      /\ run.status \in Settled => UNCHANGED <<run, job, log>>
    OBVIOUS
  <2>1. RowsStep /\ RowsInv
    BY CycleSteps DEF CycleInv
  <2>2. IsPrefix(State, State') /\ Len(State') <= Len(State) + 1
    BY <2>1, StateGrows
  <2> QED
    BY <2>1, <2>2 DEF RowsStep
<1> QED
  BY <1>1, CycleInvariant, PTL DEF CycleSpec, ProgressIsKept
=============================================================================

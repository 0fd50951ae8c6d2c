----------------------------- MODULE OpsProofs -----------------------------
(***************************************************************************)
(* Proofs about the local console and the strategy registry.               *)
(*                                                                         *)
(* The console first: the one run that may be open is where the start gate *)
(* and the requests say it is, what a browser has are the first events of  *)
(* a run's row (ConsoleInv), whoever made a resource knows of it at every  *)
(* stage until a stop of it failed (ServeInv), and what is set changes     *)
(* together with its number (SettingInv).                                  *)
(*                                                                         *)
(* Then the registry, for any strategies, reports, data sets and callers,  *)
(* any verdicts of the evaluations and any validity.  A caller works with  *)
(* a row it read earlier.  The inductive invariant says what such a row    *)
(* still is worth: it is what the event of its version says (SeenInv),     *)
(* events stay, and a promotion's event names a report that had passed and *)
(* was valid when the event was appended (AuditInv).                       *)
(***************************************************************************)
EXTENDS Strategy, MCOps, FiniteSetTheorems, SequenceTheorems, TLAPS

-----------------------------------------------------------------------------
(* Runs of the console.                                                    *)

Final == {"succeeded", "dead_letter"}
JobRecords ==
    [kind : {"snapshot", "research"}, status : {"queued", "leased"} \cup Final, attempts : Nat,
     verdict : Verdicts \cup {None}, known : BOOLEAN, life : Nat]
EventTypes == {"queued", "running", "failed"} \cup Verdicts \cup {None}
Asking == {"snapshot", "wait", "request"}

\* The runs whose start was answered in this life and that are not over.
OpenRuns == {j \in DOMAIN conJobs : conJobs[j].kind = "research" /\ conJobs[j].known
                                    /\ conJobs[j].life = restarts /\ ~Finished(j)}

JobIsSound(entry) == entry.life <= restarts /\ (entry.status # "queued" => entry.attempts > 0)

ConsoleTypes ==
    /\ conJobs \in Seq(JobRecords) /\ restarts \in Nat
    /\ follower \in Seq(Seq(EventTypes)) /\ Len(follower) = Len(conJobs)
    /\ posts = [b \in Tabs |-> posts[b]]
    /\ \A b \in Tabs : posts[b].step \in {"none", "accept"} \cup Asking
    /\ gate = [starting |-> gate.starting, active |-> gate.active, starts |-> gate.starts]
    /\ \A j \in DOMAIN conJobs : JobIsSound(conJobs[j])
    /\ worker # None => worker \in DOMAIN conJobs /\ conJobs[worker].status = "leased"

\* Where the one run is: on its way in a request, in the answer to it, or in
\* the gate.
GateInv ==
    /\ \A b \in Tabs : posts[b].step # "none" => gate.starting = TRUE
    /\ \A b, c \in Tabs : posts[b].step # "none" /\ posts[c].step # "none" => b = c
    /\ \A b \in Tabs : posts[b].step \in Asking => OpenRuns = {}
    /\ \A b \in Tabs : posts[b].step = "accept" => OpenRuns \subseteq {posts[b].run}
    /\ (\A b \in Tabs : posts[b].step = "none") => OpenRuns \subseteq {gate.active}

ConsoleInv == ConsoleTypes /\ GateInv /\ StreamIsTheRun

\* The events of a job's row.
RowStatus(entry) ==
    CASE entry.status = "succeeded" -> entry.verdict
      [] entry.status = "dead_letter" -> "failed"
      [] entry.status = "leased" -> "running"
      [] entry.status = "queued" -> "queued"
EventsOf(entry) ==
    <<"queued">>
      \o (IF entry.attempts > 0 \/ entry.status # "queued" THEN <<"running">> ELSE <<>>)
      \o (IF entry.status \in {"succeeded", "dead_letter"} THEN <<RowStatus(entry)>> ELSE <<>>)
HasRun(entry) == entry.attempts > 0 \/ entry.status # "queued"
EventCount(entry) == IF entry.status \in Final THEN 3 ELSE IF HasRun(entry) THEN 2 ELSE 1
EventAt(entry, k) == IF k = 1 THEN "queued" ELSE IF k = 2 THEN "running" ELSE RowStatus(entry)

LEMMA EventsAre ==
    ASSUME NEW x \in JobRecords
    PROVE  /\ EventsOf(x) \in Seq(EventTypes) /\ Len(EventsOf(x)) = EventCount(x)
           /\ \A k \in 1..EventCount(x) : EventsOf(x)[k] = EventAt(x, k)
<1>1. PICK a : a = <<"queued">>
  OBVIOUS
<1>2. PICK b : b = IF x.attempts > 0 \/ x.status # "queued" THEN <<"running">> ELSE <<>>
  OBVIOUS
<1>3. PICK c : c = IF x.status \in {"succeeded", "dead_letter"} THEN <<RowStatus(x)>> ELSE <<>>
  OBVIOUS
<1>4. RowStatus(x) \in EventTypes
  BY DEF RowStatus, EventTypes, JobRecords, Final
<1>5. a \in Seq(EventTypes) /\ Len(a) = 1 /\ a[1] = "queued"
  BY <1>1 DEF EventTypes
<1>6. /\ b \in Seq(EventTypes) /\ Len(b) = IF HasRun(x) THEN 1 ELSE 0
      /\ HasRun(x) => b[1] = "running"
  <2>1. <<"running">> \in Seq(EventTypes) /\ Len(<<"running">>) = 1 /\ <<"running">>[1] = "running"
    BY DEF EventTypes
  <2> QED
    BY <1>2, <2>1, EmptySeq DEF HasRun
<1>7. /\ c \in Seq(EventTypes) /\ Len(c) = IF x.status \in Final THEN 1 ELSE 0
      /\ x.status \in Final => c[1] = RowStatus(x)
  BY <1>3, <1>4 DEF Final
<1>8. PICK d : d = a \o b
  OBVIOUS
<1>9. /\ d \in Seq(EventTypes) /\ Len(d) = Len(a) + Len(b)
      /\ \A i \in 1..Len(a) + Len(b) : d[i] = IF i <= Len(a) THEN a[i] ELSE b[i - Len(a)]
  BY <1>5, <1>6, <1>8, ConcatProperties
<1>10. PICK e : e = d \o c
  OBVIOUS
<1>11. /\ e \in Seq(EventTypes) /\ Len(e) = Len(d) + Len(c)
       /\ \A i \in 1..Len(d) + Len(c) : e[i] = IF i <= Len(d) THEN d[i] ELSE c[i - Len(d)]
  BY <1>7, <1>9, <1>10, ConcatProperties, SMTT(30)
<1>12. e = EventsOf(x)
  BY <1>1, <1>2, <1>3, <1>8, <1>10 DEF EventsOf
<1>13. x.status \in Final => HasRun(x)
  BY DEF Final, HasRun
<1>14. Len(e) = EventCount(x)
  BY <1>5, <1>6, <1>7, <1>9, <1>11, <1>13 DEF EventCount
<1>15. d[1] = "queued" /\ (HasRun(x) => Len(d) = 2 /\ d[2] = "running") /\ (~HasRun(x) => Len(d) = 1)
  BY <1>5, <1>6, <1>9
<1>16. ASSUME NEW k \in 1..EventCount(x) PROVE e[k] = EventAt(x, k)
  <2>1. CASE x.status \in Final
    BY <1>7, <1>11, <1>13, <1>15, <2>1 DEF EventCount, EventAt
  <2>2. CASE x.status \notin Final
    BY <1>7, <1>11, <1>15, <2>2 DEF EventCount, EventAt
  <2> QED
    BY <2>1, <2>2
<1> QED
  BY <1>11, <1>12, <1>14, <1>16

\* What may become of a job's row.
Onward(old, new) ==
    /\ new.kind = old.kind /\ new.known = old.known /\ new.life = old.life
    /\ old.status \in Final => new = old
    /\ HasRun(old) => HasRun(new)

LEMMA EventsStay ==
    ASSUME NEW x \in JobRecords, NEW y \in JobRecords, Onward(x, y)
    PROVE  /\ EventCount(x) <= EventCount(y)
           /\ \A k \in 1..EventCount(x) : EventAt(y, k) = EventAt(x, k)
<1>1. CASE x.status \in Final
  BY <1>1 DEF Onward, EventCount
<1>2. CASE x.status \notin Final
  BY <1>2 DEF Onward, EventCount, EventAt, HasRun, Final
<1> QED
  BY <1>1, <1>2

\* The stream, in terms of the rows.
StreamOf(jobs, pages) ==
    \A j \in DOMAIN jobs :
        /\ Len(pages[j]) <= Len(EventsOf(jobs[j]))
        /\ \A k \in 1..Len(pages[j]) : pages[j][k] = EventsOf(jobs[j])[k]
Told(entry, page) ==
    /\ Len(page) <= EventCount(entry)
    /\ \A k \in 1..Len(page) : page[k] = EventAt(entry, k)

LEMMA StreamIs ==
    ASSUME NEW jobs \in Seq(JobRecords), NEW pages \in Seq(Seq(EventTypes)), Len(pages) = Len(jobs)
    PROVE  StreamOf(jobs, pages) <=> \A j \in DOMAIN jobs : Told(jobs[j], pages[j])
<1>1. ASSUME NEW j \in DOMAIN jobs
      PROVE  Told(jobs[j], pages[j]) <=>
               /\ Len(pages[j]) <= Len(EventsOf(jobs[j]))
               /\ \A k \in 1..Len(pages[j]) : pages[j][k] = EventsOf(jobs[j])[k]
  <2>1. PICK x \in JobRecords : x = jobs[j]
    OBVIOUS
  <2>2. PICK p \in Seq(EventTypes) : p = pages[j]
    OBVIOUS
  <2>3. /\ Len(EventsOf(x)) = EventCount(x)
        /\ \A k \in 1..EventCount(x) : EventsOf(x)[k] = EventAt(x, k)
    BY EventsAre
  <2>4. Len(p) \in Nat /\ EventCount(x) \in Nat
    BY DEF EventCount
  <2>5. Len(p) <= EventCount(x) => \A k \in 1..Len(p) : EventsOf(x)[k] = EventAt(x, k)
    BY <2>3, <2>4
  <2> QED
    BY <2>1, <2>2, <2>3, <2>5 DEF Told
<1> QED
  BY <1>1 DEF StreamOf

LEMMA StreamBefore == StreamIsTheRun <=> StreamOf(conJobs, follower)
BY DEF StreamIsTheRun, StreamOf, ProjectEvents, EventsOf, GuiStatus, RowStatus, Finished

LEMMA StreamAfter == StreamIsTheRun' <=> StreamOf(conJobs', follower')
BY DEF StreamIsTheRun, StreamOf, ProjectEvents, EventsOf, GuiStatus, RowStatus, Finished

\* What browsers have stays the beginning of what they are to get.
LEMMA StreamKeeps ==
    ASSUME ConsoleInv, conJobs' \in Seq(JobRecords), Len(conJobs') = Len(conJobs), follower' = follower,
           \A j \in DOMAIN conJobs : Onward(conJobs[j], conJobs'[j])
    PROVE  StreamIsTheRun'
<1>1. conJobs \in Seq(JobRecords) /\ follower \in Seq(Seq(EventTypes)) /\ Len(follower) = Len(conJobs)
  BY DEF ConsoleInv, ConsoleTypes
<1>2. PICK old \in Seq(JobRecords) : old = conJobs
  BY <1>1
<1>3. PICK new \in Seq(JobRecords) : new = conJobs'
  OBVIOUS
<1>4. PICK pages \in Seq(Seq(EventTypes)) : pages = follower
  BY <1>1
<1>5. \A j \in DOMAIN old : Told(old[j], pages[j])
  <2>1. StreamOf(old, pages)
    BY <1>2, <1>4, StreamBefore DEF ConsoleInv
  <2> QED
    BY <1>1, <1>2, <1>4, <2>1, StreamIs
<1>6. ASSUME NEW j \in DOMAIN new PROVE Told(new[j], pages[j])
  <2>1. j \in DOMAIN old
    BY <1>2, <1>3, LenProperties
  <2>2. PICK x \in JobRecords : x = old[j]
    BY <2>1
  <2>3. PICK y \in JobRecords : y = new[j]
    OBVIOUS
  <2>4. Onward(x, y)
    BY <1>2, <1>3, <2>1, <2>2, <2>3
  <2>5. EventCount(x) <= EventCount(y) /\ \A k \in 1..EventCount(x) : EventAt(y, k) = EventAt(x, k)
    BY <2>4, EventsStay
  <2>6. Told(x, pages[j])
    BY <1>5, <2>1, <2>2
  <2>7. EventCount(x) \in Nat /\ EventCount(y) \in Nat /\ Len(pages[j]) \in Nat
    <3>1. pages[j] \in Seq(EventTypes)
      BY <1>1, <1>2, <1>4, <2>1, LenProperties
    <3> QED
      BY <3>1 DEF EventCount
  <2> QED
    BY <2>3, <2>5, <2>6, <2>7 DEF Told
<1>7. StreamOf(new, pages)
  BY <1>1, <1>3, <1>4, <1>6, StreamIs
<1> QED
  BY <1>3, <1>4, <1>7, StreamAfter

\* A row is changed: who is on the way stays the same, and no run gets open.
LEMMA RowsMove ==
    ASSUME ConsoleInv, conJobs' \in Seq(JobRecords), Len(conJobs') = Len(conJobs),
           \A j \in DOMAIN conJobs : Onward(conJobs[j], conJobs'[j]),
           \A j \in DOMAIN conJobs : JobIsSound(conJobs[j])',
           worker' # None => worker' \in DOMAIN conJobs /\ conJobs'[worker'].status = "leased",
           UNCHANGED <<gate, posts, follower, restarts>>
    PROVE  ConsoleInv'
<1>1. DOMAIN conJobs' = DOMAIN conJobs
  BY LenProperties DEF ConsoleInv, ConsoleTypes
<1>2. StreamIsTheRun'
  BY StreamKeeps
<1>3. ConsoleTypes'
  BY <1>1 DEF ConsoleInv, ConsoleTypes
<1>4. OpenRuns' \subseteq OpenRuns
  BY <1>1 DEF OpenRuns, Finished, Onward, Final
<1>5. GateInv'
  BY <1>4 DEF ConsoleInv, GateInv
<1> QED
  BY <1>2, <1>3, <1>5 DEF ConsoleInv

LEMMA ClaimKeeps ==
    ASSUME ConsoleInv, NEW j \in DOMAIN conJobs, Claim(j)
    PROVE  ConsoleInv'
<1>1. conJobs \in Seq(JobRecords) /\ conJobs[j] \in JobRecords /\ JobIsSound(conJobs[j]) /\ j \in 1..Len(conJobs)
  BY LenProperties DEF ConsoleInv, ConsoleTypes
<1>2. PICK next : next = [conJobs[j] EXCEPT !.status = "leased", !.attempts = @ + 1]
  OBVIOUS
<1>3. PICK r \in JobRecords : r = conJobs[j]
  BY <1>1
<1>4. /\ next \in JobRecords
      /\ next.status = "leased" /\ next.attempts = conJobs[j].attempts + 1 /\ next.life = conJobs[j].life
      /\ next.kind = conJobs[j].kind /\ next.known = conJobs[j].known
  <2>1. r.attempts \in Nat /\ r.attempts + 1 \in Nat
    BY DEF JobRecords
  <2>2. r = [kind |-> r.kind, status |-> r.status, attempts |-> r.attempts, verdict |-> r.verdict,
             known |-> r.known, life |-> r.life]
    BY DEF JobRecords
  <2>3. next = [r EXCEPT !.status = "leased", !.attempts = r.attempts + 1]
    BY <1>2, <1>3
  <2>4. next = [kind |-> r.kind, status |-> "leased", attempts |-> r.attempts + 1, verdict |-> r.verdict,
                known |-> r.known, life |-> r.life]
    BY <2>2, <2>3
  <2>5. next \in JobRecords
    BY <2>1, <2>4 DEF JobRecords
  <2> QED
    BY <1>3, <2>4, <2>5
<1>5. conJobs' = [conJobs EXCEPT ![j] = next]
  BY <1>2 DEF Claim
<1>6. /\ conJobs' \in Seq(JobRecords) /\ Len(conJobs') = Len(conJobs)
      /\ \A i \in DOMAIN conJobs : conJobs'[i] = IF i = j THEN next ELSE conJobs[i]
  BY <1>1, <1>4, <1>5, ExceptSeq, LenProperties
<1>7. conJobs[j].attempts \in Nat /\ conJobs[j].status = "queued"
  BY <1>1 DEF JobRecords, Claim
<1>8. \A i \in DOMAIN conJobs : Onward(conJobs[i], conJobs'[i])
  BY <1>4, <1>6, <1>7 DEF Onward, Final, HasRun
<1>9. \A i \in DOMAIN conJobs : JobIsSound(conJobs[i])'
  <2>1. JobIsSound(conJobs[j])'
    <3>1. next.attempts > 0
      BY <1>4, <1>7
    <3>2. conJobs'[j] = next /\ restarts' = restarts
      BY <1>6 DEF Claim
    <3> QED
      BY <1>1, <1>4, <3>1, <3>2 DEF JobIsSound
  <2>2. ASSUME NEW i \in DOMAIN conJobs, i # j PROVE JobIsSound(conJobs[i])'
    BY <1>6, <2>2 DEF ConsoleInv, ConsoleTypes, JobIsSound, Claim
  <2> QED
    BY <2>1, <2>2
<1> QED
  BY <1>4, <1>6, <1>8, <1>9, RowsMove DEF Claim

LEMMA HandleKeeps ==
    ASSUME ConsoleInv, NEW verdict \in {None} \cup Verdicts, Handle(verdict)
    PROVE  ConsoleInv'
<1>1. worker \in DOMAIN conJobs /\ conJobs[worker].status = "leased"
  BY DEF ConsoleInv, ConsoleTypes, Handle
<1>2. PICK j \in DOMAIN conJobs : j = worker
  BY <1>1
<1>3. conJobs \in Seq(JobRecords) /\ conJobs[j] \in JobRecords /\ JobIsSound(conJobs[j]) /\ j \in 1..Len(conJobs)
  BY LenProperties DEF ConsoleInv, ConsoleTypes
<1>4. PICK next : next = IF verdict # None THEN [conJobs[j] EXCEPT !.status = "succeeded", !.verdict = verdict]
                         ELSE IF conJobs[j].attempts >= JobAttempts THEN [conJobs[j] EXCEPT !.status = "dead_letter"]
                         ELSE [conJobs[j] EXCEPT !.status = "queued"]
  OBVIOUS
<1>5. next \in JobRecords
  BY <1>3, <1>4 DEF JobRecords, Final
<1>6. next.attempts = conJobs[j].attempts /\ next.life = conJobs[j].life
      /\ next.kind = conJobs[j].kind /\ next.known = conJobs[j].known
  BY <1>3, <1>4 DEF JobRecords
<1>7. conJobs' = [conJobs EXCEPT ![j] = next]
  BY <1>2, <1>4 DEF Handle
<1>8. /\ conJobs' \in Seq(JobRecords) /\ Len(conJobs') = Len(conJobs)
      /\ \A i \in DOMAIN conJobs : conJobs'[i] = IF i = j THEN next ELSE conJobs[i]
  BY <1>3, <1>5, <1>7, ExceptSeq, LenProperties
<1>9. conJobs[j].attempts > 0
  BY <1>1, <1>2, <1>3 DEF JobIsSound
<1>10. \A i \in DOMAIN conJobs : Onward(conJobs[i], conJobs'[i])
  BY <1>1, <1>2, <1>6, <1>8, <1>9 DEF Onward, Final, HasRun
<1>11. \A i \in DOMAIN conJobs : JobIsSound(conJobs[i])'
  <2>1. JobIsSound(conJobs[j])'
    BY <1>3, <1>6, <1>8, <1>9 DEF JobIsSound, Handle
  <2>2. ASSUME NEW i \in DOMAIN conJobs, i # j PROVE JobIsSound(conJobs[i])'
    BY <1>8, <2>2 DEF ConsoleInv, ConsoleTypes, JobIsSound, Handle
  <2> QED
    BY <2>1, <2>2
<1> QED
  BY <1>8, <1>10, <1>11, RowsMove DEF Handle

\* The process ends: what it had leased is queued again or given up, and no run
\* of its life counts for the next one.
LEMMA RestartConsoleKeeps ==
    ASSUME ConsoleInv, RestartConsole
    PROVE  ConsoleInv'
<1>1. conJobs \in Seq(JobRecords) /\ restarts \in Nat
  BY DEF ConsoleInv, ConsoleTypes
<1> DEFINE Next2(r) == IF r.status # "leased" THEN r
                       ELSE IF r.attempts >= JobAttempts THEN [r EXCEPT !.status = "dead_letter"]
                       ELSE [r EXCEPT !.status = "queued"]
<1>2. conJobs' = [j \in DOMAIN conJobs |-> Next2(conJobs[j])]
  BY DEF RestartConsole
<1>3. \A r \in JobRecords : /\ Next2(r) \in JobRecords /\ Next2(r).life = r.life /\ Next2(r).attempts = r.attempts
                            /\ Next2(r).kind = r.kind /\ Next2(r).known = r.known
                            /\ (r.status \in Final => Next2(r) = r)
                            /\ (r.status # "leased" => Next2(r) = r)
  BY DEF JobRecords, Final
<1> HIDE DEF Next2
<1>4. \A j \in DOMAIN conJobs : conJobs[j] \in JobRecords /\ conJobs'[j] = Next2(conJobs[j])
  BY <1>1, <1>2
<1>5. conJobs' \in Seq(JobRecords) /\ Len(conJobs') = Len(conJobs)
  BY <1>1, <1>2, <1>3
<1>6. DOMAIN conJobs' = DOMAIN conJobs
  BY <1>2
<1>7. \A j \in DOMAIN conJobs : JobIsSound(conJobs[j])
  BY DEF ConsoleInv, ConsoleTypes
<1>8. \A j \in DOMAIN conJobs : Onward(conJobs[j], conJobs'[j])
  BY <1>3, <1>4, <1>7 DEF Onward, HasRun, JobIsSound
<1>9. StreamIsTheRun'
  BY <1>5, <1>8, StreamKeeps DEF RestartConsole
<1>10. restarts' = restarts + 1 /\ restarts' \in Nat
  BY <1>1 DEF RestartConsole
<1>11. \A j \in DOMAIN conJobs : conJobs'[j].life = conJobs[j].life /\ conJobs[j].life \in Nat
                                 /\ conJobs[j].life <= restarts
  BY <1>3, <1>4, <1>7 DEF JobIsSound, JobRecords
<1>12. OpenRuns' = {}
  BY <1>1, <1>6, <1>10, <1>11 DEF OpenRuns
<1>13. \A j \in DOMAIN conJobs' : JobIsSound(conJobs[j])'
  <2>1. SUFFICES ASSUME NEW j \in DOMAIN conJobs PROVE JobIsSound(conJobs[j])'
    BY <1>6
  <2>2. conJobs'[j].life <= restarts'
    BY <1>1, <1>10, <1>11
  <2>3. conJobs'[j].status # "queued" => conJobs'[j].attempts > 0
    <3>1. Next2(conJobs[j]).status # "queued" => conJobs[j].status # "queued"
      BY <1>3, <1>4
    <3> QED
      BY <1>3, <1>4, <1>7, <3>1 DEF JobIsSound
  <2> QED
    BY <2>2, <2>3 DEF JobIsSound
<1>14. /\ posts' = [b \in Tabs |-> posts'[b]] /\ \A b \in Tabs : posts'[b].step = "none"
       /\ gate' = [starting |-> gate'.starting, active |-> gate'.active, starts |-> gate'.starts]
  BY DEF RestartConsole, Waiting, OpenGate
<1>15. ConsoleTypes'
  BY <1>5, <1>10, <1>13, <1>14 DEF ConsoleTypes, RestartConsole, ConsoleInv
<1>16. GateInv'
  BY <1>12, <1>14 DEF GateInv, Asking
<1> QED
  BY <1>9, <1>15, <1>16 DEF ConsoleInv

Shapes ==
    /\ posts = [b \in Tabs |-> posts[b]]
    /\ \A b \in Tabs : posts[b].step \in {"none", "accept"} \cup Asking
    /\ gate = [starting |-> gate.starting, active |-> gate.active, starts |-> gate.starts]

\* A request or the gate goes on, and no row changes.
LEMMA PostsMove ==
    ASSUME ConsoleInv, UNCHANGED <<conJobs, follower, worker, restarts>>, Shapes', GateInv'
    PROVE  ConsoleInv'
<1>1. StreamIsTheRun'
  BY StreamBefore, StreamAfter DEF ConsoleInv
<1>2. ConsoleTypes'
  BY DEF ConsoleInv, ConsoleTypes, Shapes, JobIsSound
<1> QED
  BY <1>1, <1>2 DEF ConsoleInv

LEMMA OpenRunsStay ==
    ASSUME UNCHANGED <<conJobs, restarts>>
    PROVE  OpenRuns' = OpenRuns
BY DEF OpenRuns, Finished

\* begin lets a request in when no other is on the way and no run is open.
LEMMA BeginStartKeeps ==
    ASSUME ConsoleInv, NEW b \in Tabs, NEW unreadable \in BOOLEAN, BeginStart(b, unreadable)
    PROVE  ConsoleInv'
<1>1. UNCHANGED <<conJobs, follower, worker, restarts>> /\ OpenRuns' = OpenRuns
  BY OpenRunsStay DEF BeginStart
<1>2. ~gate.starting /\ (gate.active # None => ~ActiveRun(gate.active, unreadable))
  BY DEF BeginStart, Blocked
<1>3. \A c \in Tabs : posts[c].step = "none"
  BY <1>2 DEF ConsoleInv, GateInv
<1>4. OpenRuns \subseteq {gate.active}
  BY <1>3 DEF ConsoleInv, GateInv
<1>5. OpenRuns = {}
  <2>1. SUFFICES ASSUME NEW j \in OpenRuns PROVE FALSE
    OBVIOUS
  <2>2. j \in DOMAIN conJobs /\ ~Finished(j) /\ j = gate.active
    BY <1>4, <2>1 DEF OpenRuns
  <2>3. conJobs[j] \in JobRecords /\ j \in Nat
    BY <2>2, LenProperties DEF ConsoleInv, ConsoleTypes
  <2>4. j # None
    BY <2>3, StartAssumption
  <2>5. GuiStatus(j) \notin {"queued", "running"}
    BY <1>2, <2>2, <2>4 DEF ActiveRun
  <2>6. conJobs[j].status \in {"succeeded", "dead_letter"}
    BY <2>3, <2>5 DEF GuiStatus, JobRecords, Final
  <2> QED
    BY <2>2, <2>6 DEF Finished
<1>6. CASE Len(Recent(conTime)) >= StartLimit
  <2>1. gate' = [gate EXCEPT !.starts = Recent(conTime), !.active = None] /\ posts' = posts
    BY <1>6 DEF BeginStart
  <2>2. gate = [starting |-> gate.starting, active |-> gate.active, starts |-> gate.starts]
    BY DEF ConsoleInv, ConsoleTypes
  <2>3. gate' = [starting |-> gate.starting, active |-> None, starts |-> Recent(conTime)]
    BY <2>1, <2>2
  <2>4. Shapes'
    BY <2>1, <2>3 DEF ConsoleInv, ConsoleTypes, Shapes
  <2>5. GateInv'
    BY <1>1, <1>3, <1>5, <2>1 DEF GateInv, Asking
  <2> QED
    BY <1>1, <2>4, <2>5, PostsMove
<1>7. CASE ~(Len(Recent(conTime)) >= StartLimit)
  <2>1. /\ gate' = [starting |-> TRUE, active |-> None, starts |-> Append(Recent(conTime), conTime)]
        /\ posts' = [posts EXCEPT ![b] = [step |-> "snapshot"]]
    BY <1>7 DEF BeginStart
  <2>2. \A c \in Tabs : posts'[c] = IF c = b THEN [step |-> "snapshot"] ELSE posts[c]
    BY <2>1 DEF ConsoleInv, ConsoleTypes
  <2>3. posts' = [c \in Tabs |-> posts'[c]]
    BY <2>1 DEF ConsoleInv, ConsoleTypes
  <2>4. Shapes'
    BY <1>3, <2>1, <2>2, <2>3 DEF Shapes, Asking
  <2>5. posts'[b].step = "snapshot" /\ gate'.starting = TRUE /\ \A c \in Tabs : c # b => posts'[c].step = "none"
    BY <1>3, <2>1, <2>2
  <2>6. GateInv'
    BY <1>1, <1>5, <2>5 DEF GateInv, Asking
  <2> QED
    BY <1>1, <2>4, <2>6, PostsMove
<1> QED
  BY <1>6, <1>7

\* The request that is on the way goes, and has left no open run behind.
LEMMA CancelLeaves ==
    ASSUME ConsoleInv, NEW b \in Tabs, posts[b].step \in Asking, CancelStart(b), OpenRuns' = {}
    PROVE  Shapes' /\ GateInv'
<1>1. /\ posts = [c \in Tabs |-> posts[c]]
      /\ gate = [starting |-> gate.starting, active |-> gate.active, starts |-> gate.starts]
  BY DEF ConsoleInv, ConsoleTypes
<1>2. posts' = [posts EXCEPT ![b] = Waiting] /\ gate' = [gate EXCEPT !.starting = FALSE]
  BY DEF CancelStart
<1>3. \A c \in Tabs : posts'[c] = IF c = b THEN Waiting ELSE posts[c]
  BY <1>1, <1>2
<1>4. \A c \in Tabs : c # b => posts[c].step = "none"
  BY DEF ConsoleInv, GateInv, Asking
<1>5. \A c \in Tabs : posts'[c].step = "none"
  BY <1>3, <1>4 DEF Waiting
<1>6. posts' = [c \in Tabs |-> posts'[c]]
  BY <1>1, <1>2
<1>7. gate' = [starting |-> FALSE, active |-> gate.active, starts |-> gate.starts]
  BY <1>1, <1>2
<1>8. Shapes'
  BY <1>5, <1>6, <1>7 DEF Shapes
<1>9. GateInv'
  BY <1>5 DEF GateInv, Asking
<1> QED
  BY <1>8, <1>9

LEMMA RefusedKeeps ==
    ASSUME ConsoleInv, NEW b \in Tabs, SnapshotRefused(b) \/ SubmitFails(b)
    PROVE  ConsoleInv'
<1>1. UNCHANGED <<conJobs, follower, worker, restarts>> /\ OpenRuns' = OpenRuns
  BY OpenRunsStay DEF SnapshotRefused, SubmitFails
<1>2. posts[b].step \in Asking /\ CancelStart(b)
  BY DEF SnapshotRefused, SubmitFails, Asking
<1>3. OpenRuns = {}
  BY <1>2 DEF ConsoleInv, GateInv
<1> QED
  BY <1>1, <1>2, <1>3, CancelLeaves, PostsMove

LEMMA SnapshotReadyKeeps ==
    ASSUME ConsoleInv, NEW b \in Tabs, SnapshotReady(b)
    PROVE  ConsoleInv'
<1>1. UNCHANGED <<conJobs, follower, worker, restarts, gate>> /\ OpenRuns' = OpenRuns
  BY OpenRunsStay DEF SnapshotReady
<1>2. \A c \in Tabs : posts'[c] = IF c = b THEN [step |-> "request"] ELSE posts[c]
  BY DEF SnapshotReady, ConsoleInv, ConsoleTypes
<1>3. posts' = [c \in Tabs |-> posts'[c]]
  BY DEF SnapshotReady, ConsoleInv, ConsoleTypes
<1>4. posts[b].step = "wait" /\ posts'[b].step = "request" /\ \A c \in Tabs : c # b => posts'[c].step = posts[c].step
  BY <1>2 DEF SnapshotReady
<1>5. \A c \in Tabs : c # b => posts[c].step = "none"
  BY <1>4 DEF ConsoleInv, GateInv
<1>6. Shapes'
  BY <1>1, <1>3, <1>4, <1>5 DEF Shapes, ConsoleInv, ConsoleTypes, Asking
<1>7. OpenRuns = {} /\ gate.starting = TRUE
  BY <1>4 DEF ConsoleInv, GateInv, Asking
<1>8. GateInv'
  BY <1>1, <1>4, <1>5, <1>7 DEF GateInv, Asking
<1> QED
  BY <1>1, <1>6, <1>8, PostsMove

LEMMA AcceptStartKeeps ==
    ASSUME ConsoleInv, NEW b \in Tabs, AcceptStart(b)
    PROVE  ConsoleInv'
<1>1. UNCHANGED <<conJobs, follower, worker, restarts>> /\ OpenRuns' = OpenRuns
  BY OpenRunsStay DEF AcceptStart
<1>2. /\ posts = [c \in Tabs |-> posts[c]]
      /\ gate = [starting |-> gate.starting, active |-> gate.active, starts |-> gate.starts]
  BY DEF ConsoleInv, ConsoleTypes
<1>3. /\ posts[b].step = "accept" /\ posts' = [posts EXCEPT ![b] = Waiting]
      /\ gate' = [gate EXCEPT !.active = posts[b].run, !.starting = FALSE]
  BY DEF AcceptStart
<1>4. \A c \in Tabs : posts'[c] = IF c = b THEN Waiting ELSE posts[c]
  BY <1>2, <1>3
<1>5. \A c \in Tabs : c # b => posts[c].step = "none"
  BY <1>3 DEF ConsoleInv, GateInv
<1>6. \A c \in Tabs : posts'[c].step = "none"
  BY <1>4, <1>5 DEF Waiting
<1>7. posts' = [c \in Tabs |-> posts'[c]]
  BY <1>2, <1>3
<1>8. gate' = [starting |-> FALSE, active |-> posts[b].run, starts |-> gate.starts]
  BY <1>2, <1>3
<1>9. Shapes'
  BY <1>6, <1>7, <1>8 DEF Shapes
<1>10. OpenRuns \subseteq {posts[b].run}
  BY <1>3 DEF ConsoleInv, GateInv
<1>11. GateInv'
  BY <1>1, <1>6, <1>8, <1>10 DEF GateInv, Asking
<1> QED
  BY <1>1, <1>9, <1>11, PostsMove

\* A row is queued, and nobody has an event of it.
LEMMA QueueMoves ==
    ASSUME ConsoleInv, NEW kind \in {"snapshot", "research"}, NEW known \in BOOLEAN,
           conJobs' = Append(conJobs, NewJob(kind, known)), follower' = Append(follower, <<>>),
           UNCHANGED <<worker, restarts>>, Shapes', GateInv'
    PROVE  ConsoleInv'
<1>1. /\ conJobs \in Seq(JobRecords) /\ follower \in Seq(Seq(EventTypes)) /\ Len(follower) = Len(conJobs)
      /\ restarts \in Nat /\ restarts' = restarts
  BY DEF ConsoleInv, ConsoleTypes
<1>2. PICK new : new = NewJob(kind, known)
  OBVIOUS
<1>3. /\ new \in JobRecords /\ new.status = "queued" /\ new.attempts = 0 /\ new.life = restarts
  BY <1>1, <1>2 DEF NewJob, JobRecords
<1>4. /\ conJobs' \in Seq(JobRecords) /\ Len(conJobs') = Len(conJobs) + 1
      /\ (\A j \in 1..Len(conJobs) : conJobs'[j] = conJobs[j]) /\ conJobs'[Len(conJobs) + 1] = new
  BY <1>1, <1>2, <1>3, AppendProperties
<1>5. <<>> \in Seq(EventTypes) /\ Len(<<>>) = 0
  BY EmptySeq
<1>6. /\ follower' \in Seq(Seq(EventTypes)) /\ Len(follower') = Len(follower) + 1
      /\ (\A j \in 1..Len(follower) : follower'[j] = follower[j]) /\ follower'[Len(follower) + 1] = <<>>
  BY <1>1, <1>5, AppendProperties
<1>7. DOMAIN conJobs = 1..Len(conJobs) /\ DOMAIN conJobs' = 1..Len(conJobs)+1 /\ Len(conJobs) \in Nat
  BY <1>1, <1>4, LenProperties
<1>8. \A j \in DOMAIN conJobs' : j \in DOMAIN conJobs \/ j = Len(conJobs) + 1
  BY <1>7
<1>9. \A j \in DOMAIN conJobs' : JobIsSound(conJobs[j])'
  <2>1. SUFFICES ASSUME NEW j \in DOMAIN conJobs' PROVE JobIsSound(conJobs[j])'
    OBVIOUS
  <2>2. CASE j \in DOMAIN conJobs
    BY <1>1, <1>4, <1>7, <2>2 DEF ConsoleInv, ConsoleTypes, JobIsSound
  <2>3. CASE j = Len(conJobs) + 1
    BY <1>1, <1>3, <1>4, <2>3 DEF JobIsSound
  <2> QED
    BY <1>8, <2>1, <2>2, <2>3
<1>10. worker' # None => worker' \in DOMAIN conJobs' /\ conJobs'[worker'].status = "leased"
  BY <1>4, <1>7 DEF ConsoleInv, ConsoleTypes
<1>11. ConsoleTypes'
  BY <1>1, <1>4, <1>6, <1>9, <1>10 DEF ConsoleTypes, Shapes
<1>12. StreamIsTheRun'
  <2>1. PICK old \in Seq(JobRecords) : old = conJobs
    BY <1>1
  <2>2. PICK jobs \in Seq(JobRecords) : jobs = conJobs'
    BY <1>4
  <2>3. PICK before \in Seq(Seq(EventTypes)) : before = follower
    BY <1>1
  <2>4. PICK pages \in Seq(Seq(EventTypes)) : pages = follower'
    BY <1>6
  <2>5. Len(before) = Len(old) /\ Len(pages) = Len(jobs)
    BY <1>1, <1>4, <1>6, <2>1, <2>2, <2>3, <2>4
  <2>6. \A j \in DOMAIN old : Told(old[j], before[j])
    <3>1. StreamOf(old, before)
      BY <2>1, <2>3, StreamBefore DEF ConsoleInv
    <3> QED
      BY <2>5, <3>1, StreamIs
  <2>7. Told(new, <<>>)
    BY <1>3, <1>5 DEF Told, EventCount, Final
  <2>8. ASSUME NEW j \in DOMAIN jobs PROVE Told(jobs[j], pages[j])
    <3>1. CASE j \in DOMAIN old
      <4>1. jobs[j] = old[j] /\ pages[j] = before[j]
        BY <1>1, <1>4, <1>6, <1>7, <2>1, <2>2, <2>3, <2>4, <3>1
      <4> QED
        BY <2>6, <3>1, <4>1
    <3>2. CASE j = Len(conJobs) + 1
      <4>1. jobs[j] = new /\ pages[j] = <<>>
        BY <1>1, <1>4, <1>6, <2>2, <2>4, <3>2
      <4> QED
        BY <2>7, <4>1
    <3> QED
      BY <1>8, <2>1, <2>2, <2>8, <3>1, <3>2
  <2>9. StreamOf(jobs, pages)
    BY <2>5, <2>8, StreamIs
  <2> QED
    BY <2>2, <2>4, <2>9, StreamAfter
<1> QED
  BY <1>11, <1>12 DEF ConsoleInv

\* What is open after a row is queued: at most its own run, when its request is
\* answered, and else what was open.
LEMMA QueuedRuns ==
    ASSUME ConsoleInv, NEW kind \in {"snapshot", "research"}, NEW known \in BOOLEAN,
           conJobs' = Append(conJobs, NewJob(kind, known)), restarts' = restarts
    PROVE  /\ OpenRuns' \subseteq OpenRuns \cup {Len(conJobs) + 1}
           /\ kind = "snapshot" \/ ~known => OpenRuns' \subseteq OpenRuns
<1>1. conJobs \in Seq(JobRecords) /\ restarts \in Nat
  BY DEF ConsoleInv, ConsoleTypes
<1>2. PICK new : new = NewJob(kind, known)
  OBVIOUS
<1>3. new \in JobRecords /\ new.kind = kind /\ new.known = known
  BY <1>1, <1>2 DEF NewJob, JobRecords
<1>4. /\ conJobs' \in Seq(JobRecords) /\ Len(conJobs') = Len(conJobs) + 1
      /\ (\A j \in 1..Len(conJobs) : conJobs'[j] = conJobs[j]) /\ conJobs'[Len(conJobs) + 1] = new
  BY <1>1, <1>2, <1>3, AppendProperties
<1>5. DOMAIN conJobs = 1..Len(conJobs) /\ DOMAIN conJobs' = 1..Len(conJobs)+1 /\ Len(conJobs) \in Nat
  BY <1>1, <1>4, LenProperties
<1>6. ASSUME NEW j \in OpenRuns', j # Len(conJobs) + 1 PROVE j \in OpenRuns
  <2>1. j \in DOMAIN conJobs'
    BY <1>6 DEF OpenRuns
  <2>2. j \in 1..Len(conJobs)
    BY <1>5, <1>6, <2>1
  <2> QED
    BY <1>4, <1>5, <1>6, <2>2 DEF OpenRuns, Finished
<1>7. Len(conJobs) + 1 \in OpenRuns' => kind = "research" /\ known
  BY <1>3, <1>4 DEF OpenRuns
<1> QED
  BY <1>6, <1>7

LEMMA SubmitSnapshotKeeps ==
    ASSUME ConsoleInv, NEW b \in Tabs, SubmitSnapshot(b)
    PROVE  ConsoleInv'
<1>1. /\ conJobs' = Append(conJobs, NewJob("snapshot", TRUE)) /\ follower' = Append(follower, <<>>)
      /\ UNCHANGED <<worker, restarts, gate>> /\ posts[b].step = "snapshot"
  BY DEF SubmitSnapshot
<1>2. OpenRuns' \subseteq OpenRuns
  BY <1>1, QueuedRuns
<1>3. PICK told : told = [step |-> "wait", job |-> Len(conJobs) + 1, until |-> conTime + SnapshotWait]
  OBVIOUS
<1>4. posts' = [posts EXCEPT ![b] = told] /\ told.step = "wait"
  BY <1>3 DEF SubmitSnapshot
<1>5. \A c \in Tabs : posts'[c] = IF c = b THEN told ELSE posts[c]
  BY <1>4 DEF ConsoleInv, ConsoleTypes
<1>6. posts' = [c \in Tabs |-> posts'[c]]
  BY <1>4 DEF ConsoleInv, ConsoleTypes
<1>7. posts'[b].step = "wait" /\ \A c \in Tabs : c # b => posts'[c].step = posts[c].step
  BY <1>4, <1>5
<1>8. \A c \in Tabs : c # b => posts[c].step = "none"
  BY <1>1 DEF ConsoleInv, GateInv
<1>9. Shapes'
  BY <1>1, <1>6, <1>7, <1>8 DEF Shapes, ConsoleInv, ConsoleTypes, Asking
<1>10. OpenRuns = {} /\ gate.starting = TRUE
  BY <1>1 DEF ConsoleInv, GateInv, Asking
<1>11. GateInv'
  BY <1>1, <1>2, <1>7, <1>8, <1>10 DEF GateInv, Asking
<1> QED
  BY <1>1, <1>9, <1>11, QueueMoves

LEMMA RequestRunKeeps ==
    ASSUME ConsoleInv, NEW b \in Tabs, NEW known \in BOOLEAN, RequestRun(b, known)
    PROVE  ConsoleInv'
<1>1. /\ conJobs' = Append(conJobs, NewJob("research", known)) /\ follower' = Append(follower, <<>>)
      /\ UNCHANGED <<worker, restarts>> /\ posts[b].step = "request"
  BY DEF RequestRun
<1>2. OpenRuns = {} /\ gate.starting = TRUE
  BY <1>1 DEF ConsoleInv, GateInv, Asking
<1>3. OpenRuns' \subseteq {Len(conJobs) + 1} /\ (~known => OpenRuns' = {})
  BY <1>1, <1>2, QueuedRuns
<1>4. CASE known
  <2>1. PICK told : told = [step |-> "accept", run |-> Len(conJobs) + 1]
    OBVIOUS
  <2>2. posts' = [posts EXCEPT ![b] = told] /\ told.step = "accept" /\ told.run = Len(conJobs) + 1 /\ gate' = gate
    BY <1>4, <2>1 DEF RequestRun
  <2>3. \A c \in Tabs : posts'[c] = IF c = b THEN told ELSE posts[c]
    BY <2>2 DEF ConsoleInv, ConsoleTypes
  <2>4. posts' = [c \in Tabs |-> posts'[c]]
    BY <2>2 DEF ConsoleInv, ConsoleTypes
  <2>5. \A c \in Tabs : c # b => posts[c].step = "none"
    BY <1>1 DEF ConsoleInv, GateInv
  <2>6. /\ posts'[b].step = "accept" /\ posts'[b].run = Len(conJobs) + 1
        /\ \A c \in Tabs : c # b => posts'[c].step = "none"
    BY <2>2, <2>3, <2>5
  <2>7. Shapes'
    BY <2>2, <2>4, <2>6 DEF Shapes, ConsoleInv, ConsoleTypes, Asking
  <2>8. GateInv'
    BY <1>2, <1>3, <2>2, <2>6 DEF GateInv, Asking
  <2> QED
    BY <1>1, <2>7, <2>8, QueueMoves
<1>5. CASE ~known
  <2>1. posts[b].step \in Asking /\ CancelStart(b)
    BY <1>1, <1>5 DEF RequestRun, Asking
  <2>2. Shapes' /\ GateInv'
    BY <1>3, <1>5, <2>1, CancelLeaves
  <2> QED
    BY <1>1, <2>2, QueueMoves
<1> QED
  BY <1>4, <1>5

\* A browser gets the next events of a run, in their order.
LEMMA FollowKeeps ==
    ASSUME ConsoleInv, NEW j \in DOMAIN conJobs, NEW limit \in {1, 3}, Follow(j, limit)
    PROVE  ConsoleInv'
<1>1. /\ conJobs \in Seq(JobRecords) /\ follower \in Seq(Seq(EventTypes)) /\ Len(follower) = Len(conJobs)
      /\ UNCHANGED <<conJobs, gate, posts, worker, restarts>>
  BY DEF ConsoleInv, ConsoleTypes, Follow
<1>2. j \in 1..Len(follower) /\ conJobs[j] \in JobRecords /\ follower[j] \in Seq(EventTypes)
  BY <1>1, LenProperties
<1>3. PICK x \in JobRecords : x = conJobs[j]
  BY <1>2
<1>4. PICK page \in Seq(EventTypes) : page = follower[j]
  BY <1>2
<1>5. PICK list : list = EventsOf(x)
  OBVIOUS
<1>6. list \in Seq(EventTypes) /\ Len(list) = EventCount(x) /\ \A k \in 1..EventCount(x) : list[k] = EventAt(x, k)
  BY <1>5, EventsAre
<1>7. PICK from : from = Len(page)
  OBVIOUS
<1>8. PICK upto : upto = IF from + limit < Len(list) THEN from + limit ELSE Len(list)
  OBVIOUS
<1>9. list = ProjectEvents(j)
  BY <1>3, <1>5 DEF ProjectEvents, EventsOf, GuiStatus, RowStatus, Finished
<1>10. PICK more : more = SubSeq(list, from + 1, upto)
  OBVIOUS
<1>11. from < upto /\ follower' = [follower EXCEPT ![j] = page \o more]
  BY <1>4, <1>7, <1>8, <1>9, <1>10 DEF Follow
<1>12. from \in Nat /\ Len(list) \in Nat /\ upto \in Int /\ upto <= Len(list) /\ limit \in Nat
  BY <1>6, <1>7, <1>8, LenProperties
<1>13. /\ more \in Seq(EventTypes) /\ Len(more) = upto - from
       /\ \A i \in 1..upto - from : more[i] = list[from + i]
  <2>1. \A i \in from + 1 .. upto : list[i] \in EventTypes
    BY <1>6, <1>12, ElementOfSeq
  <2>2. PICK m \in Int : m = from + 1
    BY <1>12
  <2>3. /\ more \in Seq(EventTypes) /\ Len(more) = IF m <= upto THEN upto - m + 1 ELSE 0
        /\ \A i \in 1 .. upto - m + 1 : more[i] = list[m + i - 1]
    BY <1>10, <1>12, <2>1, <2>2, SubSeqProperties
  <2> QED
    BY <1>11, <1>12, <2>2, <2>3
<1>14. PICK longer : longer = page \o more
  OBVIOUS
<1>15. /\ longer \in Seq(EventTypes) /\ Len(longer) = from + (upto - from)
       /\ \A i \in 1..from + (upto - from) : longer[i] = IF i <= from THEN page[i] ELSE more[i - from]
  <2>1. /\ longer \in Seq(EventTypes) /\ Len(longer) = Len(page) + Len(more)
        /\ \A i \in 1..Len(page) + Len(more) : longer[i] = IF i <= Len(page) THEN page[i] ELSE more[i - Len(page)]
    BY <1>13, <1>14, ConcatProperties
  <2> QED
    BY <1>7, <1>13, <2>1
<1>16. Len(longer) = upto
  BY <1>12, <1>15
<1>17. /\ follower' \in Seq(Seq(EventTypes)) /\ Len(follower') = Len(follower)
       /\ \A i \in 1..Len(follower) : follower'[i] = IF i = j THEN longer ELSE follower[i]
  BY <1>1, <1>2, <1>11, <1>14, <1>15, ExceptSeq
<1>18. \A i \in DOMAIN conJobs : Told(conJobs[i], follower[i])
  <2>1. PICK old \in Seq(JobRecords) : old = conJobs
    BY <1>1
  <2>2. PICK before \in Seq(Seq(EventTypes)) : before = follower
    BY <1>1
  <2>3. StreamOf(old, before)
    BY <2>1, <2>2, StreamBefore DEF ConsoleInv
  <2> QED
    BY <1>1, <2>1, <2>2, <2>3, StreamIs
<1>19. Told(x, page)
  BY <1>3, <1>4, <1>18
<1>20. Told(x, longer)
  <2>1. ASSUME NEW i \in 1..Len(longer) PROVE longer[i] = EventAt(x, i)
    <3>1. CASE i <= from
      <4>1. i \in 1..Len(page)
        BY <1>7, <1>12, <1>16, <3>1
      <4>2. longer[i] = page[i]
        BY <1>12, <1>15, <1>16, <3>1
      <4> QED
        BY <1>19, <4>1, <4>2 DEF Told
    <3>2. CASE ~(i <= from)
      <4>1. i - from \in 1..upto - from /\ from + (i - from) = i /\ i \in 1..EventCount(x)
        BY <1>6, <1>12, <1>16, <3>2
      <4>2. longer[i] = more[i - from]
        BY <1>12, <1>15, <1>16, <3>2
      <4>3. more[i - from] = list[i]
        BY <1>13, <4>1
      <4> QED
        BY <1>6, <4>1, <4>2, <4>3
    <3> QED
      BY <3>1, <3>2
  <2> QED
    BY <1>6, <1>12, <1>16, <2>1 DEF Told
<1>21. StreamIsTheRun'
  <2>1. PICK jobs \in Seq(JobRecords) : jobs = conJobs'
    BY <1>1
  <2>2. PICK pages \in Seq(Seq(EventTypes)) : pages = follower'
    BY <1>17
  <2>3. DOMAIN jobs = 1..Len(follower)
    BY <1>1, <2>1, LenProperties
  <2>4. \A i \in DOMAIN jobs : Told(jobs[i], pages[i])
    BY <1>1, <1>3, <1>17, <1>18, <1>20, <2>1, <2>2, <2>3
  <2>5. StreamOf(jobs, pages)
    BY <1>1, <1>17, <2>1, <2>2, <2>4, StreamIs
  <2> QED
    BY <2>1, <2>2, <2>5, StreamAfter
<1>22. ConsoleTypes'
  BY <1>1, <1>17 DEF ConsoleInv, ConsoleTypes, JobIsSound
<1>23. GateInv'
  <2>1. OpenRuns' = OpenRuns
    BY <1>1, OpenRunsStay
  <2> QED
    BY <1>1, <2>1 DEF ConsoleInv, GateInv
<1> QED
  BY <1>21, <1>22, <1>23 DEF ConsoleInv

\* The inductive invariant: the one open run is where the gate and the requests
\* say, and what browsers have are the first events of the rows.
THEOREM ConsoleInvariant == ConsoleSpec => []ConsoleInv
<1>1. ConsoleInit => ConsoleInv
  <2>1. SUFFICES ASSUME ConsoleInit PROVE ConsoleInv
    OBVIOUS
  <2>2. /\ conJobs = <<>> /\ follower = <<>> /\ worker = None /\ restarts = 0 /\ gate = OpenGate
        /\ posts = [b \in Tabs |-> Waiting]
    BY <2>1 DEF ConsoleInit
  <2>3. conJobs \in Seq(JobRecords) /\ follower \in Seq(Seq(EventTypes)) /\ Len(follower) = Len(conJobs)
    BY <2>2
  <2>4. DOMAIN conJobs = {}
    BY <2>2
  <2>5. OpenRuns = {} /\ StreamIsTheRun
    BY <2>4 DEF OpenRuns, StreamIsTheRun
  <2>6. \A b \in Tabs : posts[b].step = "none"
    BY <2>2 DEF Waiting
  <2>7. ConsoleTypes
    BY <2>2, <2>3, <2>4, <2>6 DEF ConsoleTypes, OpenGate
  <2>8. GateInv
    BY <2>5, <2>6 DEF GateInv, Asking
  <2> QED
    BY <2>5, <2>7, <2>8 DEF ConsoleInv
<1>2. ConsoleInv /\ [ConsoleNext]_consoleVars => ConsoleInv'
  <2>1. SUFFICES ASSUME ConsoleInv, [ConsoleNext]_consoleVars PROVE ConsoleInv'
    OBVIOUS
  <2>2. CASE ConsoleTick \/ UNCHANGED consoleVars
    <3>1. UNCHANGED <<conJobs, follower, worker, restarts, gate, posts>> /\ OpenRuns' = OpenRuns
      BY <2>2, OpenRunsStay DEF ConsoleTick, consoleVars
    <3>2. Shapes' /\ GateInv'
      BY <2>1, <3>1 DEF ConsoleInv, ConsoleTypes, GateInv, Shapes
    <3> QED
      BY <2>1, <3>1, <3>2, PostsMove
  <2> QED
    BY <2>1, <2>2, RestartConsoleKeeps, HandleKeeps, FollowKeeps, ClaimKeeps, BeginStartKeeps, SubmitSnapshotKeeps,
       SnapshotReadyKeeps, RefusedKeeps, RequestRunKeeps, AcceptStartKeeps DEF ConsoleNext
<1> QED
  BY <1>1, <1>2, PTL DEF ConsoleSpec

\* For any number of tabs, any limits and any number of restarts: one run at a
\* time is started, and a browser has the beginning of its events
\* (_ResearchStartGate of gui_research.py, events and _project_events).
THEOREM ConsoleRunsStayTold == ConsoleSpec => [](OneRunAtATime /\ StreamIsTheRun)
<1>1. ConsoleInv => OneRunAtATime
  <2>1. SUFFICES ASSUME ConsoleInv PROVE OneRunAtATime
    OBVIOUS
  <2> DEFINE askers == {b \in Tabs : posts[b].step \in {"snapshot", "wait", "request"}}
  <2>2. \A b, c \in askers : b = c
    BY <2>1 DEF ConsoleInv, GateInv
  <2>3. askers # {} => OpenRuns = {}
    BY <2>1 DEF ConsoleInv, GateInv, Asking
  <2>4. \A i, j \in OpenRuns : i = j
    <3>1. CASE \E b \in Tabs : posts[b].step = "accept"
      BY <2>1, <3>1 DEF ConsoleInv, GateInv
    <3>2. CASE \A b \in Tabs : posts[b].step = "none"
      BY <2>1, <3>2 DEF ConsoleInv, GateInv
    <3>3. CASE \E b \in Tabs : posts[b].step \in Asking
      BY <2>1, <3>3 DEF ConsoleInv, GateInv
    <3> QED
      BY <2>1, <3>1, <3>2, <3>3 DEF ConsoleInv, ConsoleTypes
  <2>5. Cardinality(askers) \in {0, 1} /\ (askers = {} => Cardinality(askers) = 0)
    <3>1. CASE askers = {}
      BY <3>1, FS_EmptySet
    <3>2. ASSUME NEW b \in askers PROVE Cardinality(askers) = 1
      <4>1. askers = {b}
        BY <2>2, <3>2
      <4> QED
        BY <4>1, FS_Singleton
    <3> QED
      BY <3>1, <3>2
  <2>6. Cardinality(OpenRuns) \in {0, 1} /\ (OpenRuns = {} => Cardinality(OpenRuns) = 0)
    <3>1. CASE OpenRuns = {}
      BY <3>1, FS_EmptySet
    <3>2. ASSUME NEW j \in OpenRuns PROVE Cardinality(OpenRuns) = 1
      <4>1. OpenRuns = {j}
        BY <2>4, <3>2
      <4> QED
        BY <4>1, FS_Singleton
    <3> QED
      BY <3>1, <3>2
  <2>7. Cardinality(OpenRuns) + Cardinality(askers) <= 1
    BY <2>3, <2>5, <2>6
  <2> QED
    BY <2>7 DEF OneRunAtATime, OpenRuns
<1> QED
  BY <1>1, ConsoleInvariant, PTL DEF ConsoleInv

-----------------------------------------------------------------------------
(* The life of the console.                                                *)

Cleaning == {"close_research", "close_paper", "close_kronos", "close_openbb"}
Closing == Cleaning \cup {"ended"}
Composing == {"postgres", "migrate", "research", "serve"}
Stages == {"openbb", "kronos"} \cup Composing \cup Closing

Came(stages) == interrupted \cap stages # {}

\* What exists is known to its owner, until a stop of it failed or an interrupt came.
OpenBBInv ==
    /\ stage = "openbb" => "openbb" \notin up /\ "manager" \notin owned
    /\ stage \in {"kronos"} \cup Composing => "openbb" \in up /\ "manager" \in owned
    /\ "openbb" \in up => "manager" \in owned \cup faults \/ "openbb" \in interrupted
    /\ stage = "ended" /\ "openbb" \in up =>
         "manager" \in faults \/ "openbb" \in interrupted \/ Came(Cleaning)

KronosInv ==
    /\ stage \in {"openbb", "kronos"} => "kronos" \notin owned
    /\ {"kronos", "bridge"} \cap up # {} => "kronos" \in owned
    /\ stage \in Composing /\ "kronos" \in owned => "kronos" \in up
    /\ stage \in {"close_openbb", "ended"} /\ {"kronos", "bridge"} \cap up # {} =>
         "kronos" \in faults \/ Came({"close_research", "close_paper", "close_kronos"})

PaperInv ==
    /\ stage \in {"openbb", "kronos", "postgres"} => {"postgres", "engine"} \cap up = {}
    /\ stage \in {"openbb", "kronos", "postgres", "migrate"} => "paper" \notin owned
    /\ stage = "migrate" => "postgres" \in up /\ "engine" \notin up
    /\ stage = "research" => "paper" \in owned
    /\ "engine" \in up => "paper" \in owned \/ "migrate" \in interrupted
    /\ stage \in {"research", "serve", "close_research", "close_paper"} /\ "paper" \in owned =>
         {"postgres", "engine"} \subseteq up
    /\ stage \in {"research", "serve"} \cup Closing /\ "postgres" \in up /\ "paper" \notin owned =>
         {"database", "database_start"} \cap faults # {} \/ Came({"postgres", "migrate"})
    /\ stage \in {"close_kronos", "close_openbb", "ended"} =>
         /\ "engine" \in up => Came({"migrate", "close_research", "close_paper"})
         /\ "postgres" \in up =>
              \/ {"database", "paper", "database_start"} \cap faults # {}
              \/ Came({"postgres", "migrate", "close_research", "close_paper"})

ResearchPartInv ==
    /\ stage \in {"openbb", "kronos", "postgres", "migrate", "research"} =>
         "research" \notin owned /\ {"thread", "runtime"} \cap up = {}
    /\ {"thread", "runtime"} \cap up # {} => "research" \in owned \/ "research" \in interrupted
    /\ "research" \in owned => "paper" \in owned
    /\ stage \in {"serve", "close_research"} /\ "research" \in owned => {"thread", "runtime"} \subseteq up
    /\ {"thread", "runtime"} \cap up # {} /\ stage \in {"close_paper", "close_kronos", "close_openbb", "ended"} =>
         "join" \in faults \/ Came({"research", "close_research"})
    /\ "close_research" \in interrupted =>
         /\ stage = "ended"
         /\ "thread" \in up /\ "research" \notin interrupted => {"postgres", "engine", "runtime"} \subseteq up

\* An answer that still waits for its probes and the state of the paper account.
AwaitsPaper(r) ==
    /\ r = [request |-> r.request, status |-> 0, services |-> r.services, paper |-> None,
            research |-> r.research, fallen |-> r.fallen]
    /\ r.services = [x \in DOMAIN ComposedBy |-> r.services[x]]
    /\ r.request.path = "capabilities" /\ ~Denied(r.request)
    /\ r.research = "ready" => "research" \in owned
    /\ r.fallen \subseteq fell

ReplyInv ==
    reply # None =>
        /\ stage = "serve" /\ ConsoleTellsTheTruth
        /\ reply.status = 0 => AwaitsPaper(reply)

ServeInv == stage \in Stages /\ OpenBBInv /\ KronosInv /\ PaperInv /\ ResearchPartInv /\ ReplyInv

LEMMA StartOpenBBKeeps ==
    ASSUME ServeInv, StartOpenBB
    PROVE  ServeInv'
<1> USE DEF ServeInv, Stages, Closing, Cleaning, Composing, Came
<1>1. stage' \in Stages
  BY DEF StartOpenBB
<1>2. OpenBBInv'
  BY DEF StartOpenBB, OpenBBInv
<1>3. KronosInv'
  BY DEF StartOpenBB, KronosInv
<1>4. PaperInv'
  BY DEF StartOpenBB, PaperInv
<1>5. ResearchPartInv'
  BY DEF StartOpenBB, ResearchPartInv, PaperInv
<1>6. ReplyInv'
  BY DEF StartOpenBB, ReplyInv
<1> QED
  BY <1>1, <1>2, <1>3, <1>4, <1>5, <1>6

LEMMA StartKronosKeeps ==
    ASSUME ServeInv, StartKronos
    PROVE  ServeInv'
<1> USE DEF ServeInv, Stages, Closing, Cleaning, Composing, Came
<1>1. stage' \in Stages
  BY DEF StartKronos
<1>2. OpenBBInv'
  BY DEF StartKronos, OpenBBInv
<1>3. KronosInv'
  BY DEF StartKronos, KronosInv
<1>4. PaperInv'
  BY DEF StartKronos, PaperInv
<1>5. ResearchPartInv'
  BY DEF StartKronos, ResearchPartInv, PaperInv
<1>6. ReplyInv'
  BY DEF StartKronos, ReplyInv
<1> QED
  BY <1>1, <1>2, <1>3, <1>4, <1>5, <1>6

LEMMA StartPostgresKeeps ==
    ASSUME ServeInv, StartPostgres
    PROVE  ServeInv'
<1> USE DEF ServeInv, Stages, Closing, Cleaning, Composing, Came
<1>1. stage' \in Stages
  BY DEF StartPostgres
<1>2. OpenBBInv'
  BY DEF StartPostgres, OpenBBInv
<1>3. KronosInv'
  BY DEF StartPostgres, KronosInv
<1>4. PaperInv'
  BY DEF StartPostgres, PaperInv
<1>5. ResearchPartInv'
  BY DEF StartPostgres, ResearchPartInv, PaperInv
<1>6. ReplyInv'
  BY DEF StartPostgres, ReplyInv
<1> QED
  BY <1>1, <1>2, <1>3, <1>4, <1>5, <1>6

LEMMA ComposePaperKeeps ==
    ASSUME ServeInv, ComposePaper
    PROVE  ServeInv'
<1> USE DEF ServeInv, Stages, Closing, Cleaning, Composing, Came
<1>1. stage' \in Stages
  BY DEF ComposePaper, DropDatabase, Removed
<1>2. OpenBBInv'
  BY DEF ComposePaper, DropDatabase, Removed, OpenBBInv
<1>3. KronosInv'
  BY DEF ComposePaper, DropDatabase, Removed, KronosInv
<1>4. PaperInv'
  BY DEF ComposePaper, DropDatabase, Removed, PaperInv
<1>5. ResearchPartInv'
  BY DEF ComposePaper, DropDatabase, Removed, ResearchPartInv, PaperInv
<1>6. ReplyInv'
  BY DEF ComposePaper, DropDatabase, Removed, ReplyInv
<1> QED
  BY <1>1, <1>2, <1>3, <1>4, <1>5, <1>6

LEMMA ComposeResearchKeeps ==
    ASSUME ServeInv, ComposeResearch
    PROVE  ServeInv'
<1> USE DEF ServeInv, Stages, Closing, Cleaning, Composing, Came
<1>1. stage' \in Stages
  BY DEF ComposeResearch
<1>2. OpenBBInv'
  BY DEF ComposeResearch, OpenBBInv
<1>3. KronosInv'
  BY DEF ComposeResearch, KronosInv
<1>4. PaperInv'
  BY DEF ComposeResearch, PaperInv
<1>5. ResearchPartInv'
  BY DEF ComposeResearch, ResearchPartInv, PaperInv
<1>6. ReplyInv'
  BY DEF ComposeResearch, ReplyInv
<1> QED
  BY <1>1, <1>2, <1>3, <1>4, <1>5, <1>6

LEMMA ServeEndsKeeps ==
    ASSUME ServeInv, ServeEnds
    PROVE  ServeInv'
<1> USE DEF ServeInv, Stages, Closing, Cleaning, Composing, Came
<1>1. stage' \in Stages
  BY DEF ServeEnds
<1>2. OpenBBInv'
  BY DEF ServeEnds, OpenBBInv
<1>3. KronosInv'
  BY DEF ServeEnds, KronosInv
<1>4. PaperInv'
  BY DEF ServeEnds, PaperInv
<1>5. ResearchPartInv'
  BY DEF ServeEnds, ResearchPartInv, PaperInv
<1>6. ReplyInv'
  BY DEF ServeEnds, ReplyInv
<1> QED
  BY <1>1, <1>2, <1>3, <1>4, <1>5, <1>6

LEMMA CloseResearchKeeps ==
    ASSUME ServeInv, CloseResearch
    PROVE  ServeInv'
<1> USE DEF ServeInv, Stages, Closing, Cleaning, Composing, Came
<1>1. stage' \in Stages
  BY DEF CloseResearch, Proceed
<1>2. OpenBBInv'
  BY DEF CloseResearch, Proceed, OpenBBInv
<1>3. KronosInv'
  BY DEF CloseResearch, Proceed, KronosInv
<1>4. PaperInv'
  BY DEF CloseResearch, Proceed, PaperInv
<1>5. ResearchPartInv'
  BY DEF CloseResearch, Proceed, ResearchPartInv, PaperInv
<1>6. ReplyInv'
  BY DEF CloseResearch, Proceed, ReplyInv
<1> QED
  BY <1>1, <1>2, <1>3, <1>4, <1>5, <1>6

LEMMA ClosePaperKeeps ==
    ASSUME ServeInv, ClosePaper
    PROVE  ServeInv'
<1> USE DEF ServeInv, Stages, Closing, Cleaning, Composing, Came
<1>1. stage' \in Stages
  BY DEF ClosePaper, Proceed
<1>2. OpenBBInv'
  BY DEF ClosePaper, Proceed, OpenBBInv
<1>3. KronosInv'
  BY DEF ClosePaper, Proceed, KronosInv
<1>4. PaperInv'
  BY DEF ClosePaper, Proceed, PaperInv
<1>5. ResearchPartInv'
  BY DEF ClosePaper, Proceed, ResearchPartInv, PaperInv
<1>6. ReplyInv'
  BY DEF ClosePaper, Proceed, ReplyInv
<1> QED
  BY <1>1, <1>2, <1>3, <1>4, <1>5, <1>6

LEMMA CloseKronosKeeps ==
    ASSUME ServeInv, CloseKronos
    PROVE  ServeInv'
<1> USE DEF ServeInv, Stages, Closing, Cleaning, Composing, Came
<1>1. stage' \in Stages
  BY DEF CloseKronos, Proceed
<1>2. OpenBBInv'
  BY DEF CloseKronos, Proceed, OpenBBInv
<1>3. KronosInv'
  BY DEF CloseKronos, Proceed, KronosInv
<1>4. PaperInv'
  BY DEF CloseKronos, Proceed, PaperInv
<1>5. ResearchPartInv'
  BY DEF CloseKronos, Proceed, ResearchPartInv, PaperInv
<1>6. ReplyInv'
  BY DEF CloseKronos, Proceed, ReplyInv
<1> QED
  BY <1>1, <1>2, <1>3, <1>4, <1>5, <1>6

LEMMA CloseOpenBBKeeps ==
    ASSUME ServeInv, CloseOpenBB
    PROVE  ServeInv'
<1> USE DEF ServeInv, Stages, Closing, Cleaning, Composing, Came
<1>1. stage' \in Stages
  BY DEF CloseOpenBB, Proceed, Removed
<1>2. OpenBBInv'
  BY DEF CloseOpenBB, Proceed, Removed, OpenBBInv
<1>3. KronosInv'
  BY DEF CloseOpenBB, Proceed, Removed, KronosInv
<1>4. PaperInv'
  BY DEF CloseOpenBB, Proceed, Removed, PaperInv
<1>5. ResearchPartInv'
  BY DEF CloseOpenBB, Proceed, Removed, ResearchPartInv, PaperInv
<1>6. ReplyInv'
  BY DEF CloseOpenBB, Proceed, Removed, ReplyInv
<1> QED
  BY <1>1, <1>2, <1>3, <1>4, <1>5, <1>6

\* An interrupt of the start leaves what its step made; one of the cleanup ends it.
LEMMA InterruptStartKeeps ==
    ASSUME ServeInv, InterruptStart
    PROVE  ServeInv'
<1> USE DEF ServeInv, Stages, Closing, Cleaning, Composing, Came
<1>1. stage' \in Stages
  BY DEF InterruptStart
<1>2. OpenBBInv'
  <2>1. CASE stage = "openbb"
    BY <2>1 DEF InterruptStart, Made, OpenBBInv
  <2>2. CASE stage = "kronos"
    BY <2>2 DEF InterruptStart, Made, OpenBBInv
  <2>3. CASE stage = "postgres"
    BY <2>3 DEF InterruptStart, Made, OpenBBInv
  <2>4. CASE stage = "migrate"
    BY <2>4 DEF InterruptStart, Made, OpenBBInv
  <2>5. CASE stage = "research"
    BY <2>5 DEF InterruptStart, Made, OpenBBInv
  <2> QED
    BY <2>1, <2>2, <2>3, <2>4, <2>5 DEF InterruptStart, Made
<1>3. KronosInv'
  <2>1. CASE stage = "openbb"
    BY <2>1 DEF InterruptStart, Made, KronosInv
  <2>2. CASE stage = "kronos"
    BY <2>2 DEF InterruptStart, Made, KronosInv
  <2>3. CASE stage = "postgres"
    BY <2>3 DEF InterruptStart, Made, KronosInv
  <2>4. CASE stage = "migrate"
    BY <2>4 DEF InterruptStart, Made, KronosInv
  <2>5. CASE stage = "research"
    BY <2>5 DEF InterruptStart, Made, KronosInv
  <2> QED
    BY <2>1, <2>2, <2>3, <2>4, <2>5 DEF InterruptStart, Made
<1>4. PaperInv'
  <2>1. CASE stage = "openbb"
    BY <2>1 DEF InterruptStart, Made, PaperInv
  <2>2. CASE stage = "kronos"
    BY <2>2 DEF InterruptStart, Made, PaperInv
  <2>3. CASE stage = "postgres"
    BY <2>3 DEF InterruptStart, Made, PaperInv
  <2>4. CASE stage = "migrate"
    BY <2>4 DEF InterruptStart, Made, PaperInv
  <2>5. CASE stage = "research"
    BY <2>5 DEF InterruptStart, Made, PaperInv
  <2> QED
    BY <2>1, <2>2, <2>3, <2>4, <2>5 DEF InterruptStart, Made
<1>5. ResearchPartInv'
  <2>1. CASE stage = "openbb"
    BY <2>1 DEF InterruptStart, Made, ResearchPartInv, PaperInv
  <2>2. CASE stage = "kronos"
    BY <2>2 DEF InterruptStart, Made, ResearchPartInv, PaperInv
  <2>3. CASE stage = "postgres"
    BY <2>3 DEF InterruptStart, Made, ResearchPartInv, PaperInv
  <2>4. CASE stage = "migrate"
    BY <2>4 DEF InterruptStart, Made, ResearchPartInv, PaperInv
  <2>5. CASE stage = "research"
    BY <2>5 DEF InterruptStart, Made, ResearchPartInv, PaperInv
  <2> QED
    BY <2>1, <2>2, <2>3, <2>4, <2>5 DEF InterruptStart, Made
<1>6. ReplyInv'
  BY DEF InterruptStart, Made, ReplyInv
<1> QED
  BY <1>1, <1>2, <1>3, <1>4, <1>5, <1>6

LEMMA InterruptCleanupKeeps ==
    ASSUME ServeInv, InterruptCleanup
    PROVE  ServeInv'
<1> USE DEF ServeInv, Stages, Closing, Cleaning, Composing, Came
<1>1. stage' \in Stages
  BY DEF InterruptCleanup
<1>2. OpenBBInv'
  <2>1. CASE stage = "close_research"
    BY <2>1 DEF InterruptCleanup, Stopped, OpenBBInv
  <2>2. CASE stage = "close_paper"
    BY <2>2 DEF InterruptCleanup, Stopped, OpenBBInv
  <2>3. CASE stage = "close_kronos"
    BY <2>3 DEF InterruptCleanup, Stopped, OpenBBInv
  <2>4. CASE stage = "close_openbb"
    BY <2>4 DEF InterruptCleanup, Stopped, OpenBBInv
  <2> QED
    BY <2>1, <2>2, <2>3, <2>4 DEF InterruptCleanup, Stopped
<1>3. KronosInv'
  <2>1. CASE stage = "close_research"
    BY <2>1 DEF InterruptCleanup, Stopped, KronosInv
  <2>2. CASE stage = "close_paper"
    BY <2>2 DEF InterruptCleanup, Stopped, KronosInv
  <2>3. CASE stage = "close_kronos"
    BY <2>3 DEF InterruptCleanup, Stopped, KronosInv
  <2>4. CASE stage = "close_openbb"
    BY <2>4 DEF InterruptCleanup, Stopped, KronosInv
  <2> QED
    BY <2>1, <2>2, <2>3, <2>4 DEF InterruptCleanup, Stopped
<1>4. PaperInv'
  <2>1. CASE stage = "close_research"
    BY <2>1 DEF InterruptCleanup, Stopped, PaperInv
  <2>2. CASE stage = "close_paper"
    BY <2>2 DEF InterruptCleanup, Stopped, PaperInv
  <2>3. CASE stage = "close_kronos"
    BY <2>3 DEF InterruptCleanup, Stopped, PaperInv
  <2>4. CASE stage = "close_openbb"
    BY <2>4 DEF InterruptCleanup, Stopped, PaperInv
  <2> QED
    BY <2>1, <2>2, <2>3, <2>4 DEF InterruptCleanup, Stopped
<1>5. ResearchPartInv'
  <2>1. CASE stage = "close_research"
    BY <2>1 DEF InterruptCleanup, Stopped, ResearchPartInv, PaperInv
  <2>2. CASE stage = "close_paper"
    BY <2>2 DEF InterruptCleanup, Stopped, ResearchPartInv, PaperInv
  <2>3. CASE stage = "close_kronos"
    BY <2>3 DEF InterruptCleanup, Stopped, ResearchPartInv, PaperInv
  <2>4. CASE stage = "close_openbb"
    BY <2>4 DEF InterruptCleanup, Stopped, ResearchPartInv, PaperInv
  <2> QED
    BY <2>1, <2>2, <2>3, <2>4 DEF InterruptCleanup, Stopped
<1>6. ReplyInv'
  BY DEF InterruptCleanup, Stopped, ReplyInv
<1> QED
  BY <1>1, <1>2, <1>3, <1>4, <1>5, <1>6

\* While the console serves, only its answers and what falls change.
LEMMA ServingKeeps ==
    ASSUME ServeInv, UNCHANGED <<stage, up, owned, faults, interrupted>>, ReplyInv'
    PROVE  ServeInv'
BY DEF ServeInv, OpenBBInv, KronosInv, PaperInv, ResearchPartInv, Came

LEMMA AskConsoleKeeps ==
    ASSUME ServeInv, AskConsole
    PROVE  ServeInv'
<1>1. PICK q \in ConsoleRequest : Answers(q)
  BY DEF AskConsole
<1>2. stage = "serve" /\ UNCHANGED <<stage, up, owned, withResearch, withPaper, faults, interrupted, fell>>
  BY DEF AskConsole
<1>3. stage' = "serve"
  BY <1>2
<1>4. CASE Denied(q)
  <2>1. reply' = [request |-> q, status |-> 403]
    BY <1>1, <1>4 DEF Answers
  <2>2. reply'.request = q /\ reply'.status = 403
    BY <2>1
  <2> QED
    BY <1>2, <1>3, <2>2, ServingKeeps DEF ReplyInv, ConsoleTellsTheTruth
<1>5. CASE ~Denied(q) /\ q.query \notin QueriesOf[q.path]
  <2>1. reply' = [request |-> q, status |-> 400]
    BY <1>1, <1>5 DEF Answers
  <2>2. reply'.request = q /\ reply'.status = 400
    BY <2>1
  <2> QED
    BY <1>2, <1>3, <1>5, <2>2, ServingKeeps DEF ReplyInv, ConsoleTellsTheTruth
<1>6. CASE ~Denied(q) /\ q.query \in QueriesOf[q.path] /\ q.path \in RunPath
  <2>1. AnswerRun(q) /\ q.path # "capabilities"
    BY <1>1, <1>6 DEF Answers, RunPath
  <2>2. reply'.request = q /\ reply'.status # 0 /\ (reply'.status = 200 => "research" \in owned)
    BY <2>1 DEF AnswerRun, FacadeStatus
  <2> QED
    BY <1>2, <1>3, <1>6, <2>1, <2>2, ServingKeeps DEF ReplyInv, ConsoleTellsTheTruth
<1>7. CASE ~Denied(q) /\ q.query \in QueriesOf[q.path] /\ q.path \notin RunPath /\ q.path # "capabilities"
  <2>1. AnswerMarket(q)
    BY <1>1, <1>7 DEF Answers
  <2>2. reply'.request = q /\ reply'.status # 0
    BY <2>1 DEF AnswerMarket
  <2> QED
    BY <1>2, <1>3, <1>7, <2>2, ServingKeeps DEF ReplyInv, ConsoleTellsTheTruth
<1>8. CASE ~Denied(q) /\ q.query \in QueriesOf[q.path] /\ q.path = "capabilities"
  <2>1. AnswerCapabilities(q) /\ q.path \notin RunPath
    BY <1>1, <1>8 DEF Answers, RunPath
  <2>2. /\ reply'.request = q /\ reply'.status = 0 /\ reply'.paper = None /\ reply'.fallen = fell
        /\ reply'.services = [x \in DOMAIN ComposedBy |-> None]
        /\ reply'.research = IF "research" \in owned THEN "ready" ELSE "unavailable"
    BY <2>1 DEF AnswerCapabilities
  <2>3. \A x \in DOMAIN ComposedBy : reply'.services[x] \notin {"ready", "absent", "failed"}
    BY <2>2, PaperStateAssumption
  <2>4. AwaitsPaper(reply)'
    <3>1. reply' = [request |-> reply'.request, status |-> 0, services |-> reply'.services, paper |-> None,
                    research |-> reply'.research, fallen |-> reply'.fallen]
      BY <2>1 DEF AnswerCapabilities
    <3>2. reply'.services = [x \in DOMAIN ComposedBy |-> reply'.services[x]]
      BY <2>2
    <3> QED
      BY <1>2, <1>8, <2>2, <3>1, <3>2 DEF AwaitsPaper
  <2>5. ConsoleTellsTheTruth'
    BY <1>8, <2>1, <2>2, <2>3, PaperStateAssumption DEF ConsoleTellsTheTruth
  <2> QED
    BY <1>2, <1>3, <2>4, <2>5, ServingKeeps DEF ReplyInv
<1> QED
  BY <1>4, <1>5, <1>6, <1>7, <1>8

LEMMA ProbeServiceKeeps ==
    ASSUME ServeInv, NEW i \in 1..4, ProbeService(i)
    PROVE  ServeInv'
<1> DEFINE y == ProbeOrder[i]
<1>1. AwaitsPaper(reply) /\ ConsoleTellsTheTruth /\ stage = "serve" /\ reply # None
  BY DEF ProbeService, ServeInv, ReplyInv
<1>2. UNCHANGED <<stage, up, owned, faults, interrupted, fell>>
  BY DEF ProbeService
<1>3. PICK answer \in ProbeAnswers(y) : reply' = [reply EXCEPT !.services = [@ EXCEPT ![y] = answer]]
  BY DEF ProbeService
<1>4. y \in DOMAIN ComposedBy
  BY DEF ProbeOrder, ComposedBy
<1>5. reply = [request |-> reply.request, status |-> 0, services |-> reply.services, paper |-> None,
               research |-> reply.research, fallen |-> reply.fallen]
      /\ reply.services = [x \in DOMAIN ComposedBy |-> reply.services[x]]
  BY <1>1 DEF AwaitsPaper
<1>6. /\ reply' = [request |-> reply.request, status |-> 0, services |-> reply'.services, paper |-> None,
                   research |-> reply.research, fallen |-> reply.fallen]
      /\ reply'.services = [reply.services EXCEPT ![y] = answer]
  BY <1>3, <1>5
<1>7. /\ reply'.request = reply.request /\ reply'.status = 0 /\ reply'.paper = None
      /\ reply'.research = reply.research /\ reply'.fallen = reply.fallen
  BY <1>6
<1>8. reply'.services = [x \in DOMAIN ComposedBy |-> reply'.services[x]]
      /\ reply'.services[y] = answer
      /\ \A x \in DOMAIN ComposedBy : x # y => reply'.services[x] = reply.services[x]
  BY <1>4, <1>5, <1>6
<1>9. /\ answer = "ready" => y \in up \ reply.fallen
      /\ answer = "absent" => ComposedBy[y] \notin owned
      /\ answer = "failed" /\ y = "thread" => y \in fell
  <2>1. "openbb" \in up /\ ("paper" \in owned => "postgres" \in up)
        /\ ("kronos" \in owned => "kronos" \in up) /\ ("research" \in owned => "thread" \in up)
    BY <1>1 DEF ServeInv, OpenBBInv, KronosInv, PaperInv, ResearchPartInv, Composing
  <2>2. reply.fallen \subseteq fell
    BY <1>1 DEF AwaitsPaper
  <2> QED
    BY <1>3, <2>1, <2>2 DEF ProbeAnswers, Works, ComposedBy
<1>10. /\ reply.request.path = "capabilities" /\ ~Denied(reply.request) /\ reply.status = 0
  BY <1>1, <1>5 DEF AwaitsPaper
<1>11. \A x \in DOMAIN ComposedBy :
         /\ reply'.services[x] = "ready" => x \in up' \ reply'.fallen
         /\ reply'.services[x] = "absent" => ComposedBy[x] \notin owned'
         /\ reply'.services[x] = "failed" /\ x = "thread" => x \in fell'
  BY <1>1, <1>2, <1>7, <1>8, <1>9, <1>10 DEF ConsoleTellsTheTruth
<1>12. ConsoleTellsTheTruth'
  BY <1>2, <1>7, <1>10, <1>11, PaperStateAssumption DEF ConsoleTellsTheTruth, RunPath
<1>13. AwaitsPaper(reply)'
  BY <1>1, <1>2, <1>6, <1>7, <1>8, <1>10 DEF AwaitsPaper
<1> QED
  BY <1>1, <1>2, <1>7, <1>12, <1>13, ServingKeeps DEF ReplyInv

LEMMA ReadPaperKeeps ==
    ASSUME ServeInv, ReadPaper
    PROVE  ServeInv'
<1>1. AwaitsPaper(reply) /\ ConsoleTellsTheTruth /\ stage = "serve" /\ reply # None
  BY DEF ReadPaper, ServeInv, ReplyInv
<1>2. UNCHANGED <<stage, up, owned, faults, interrupted, fell>>
  BY DEF ReadPaper
<1>3. PICK state \in {"ready", "unavailable"} :
          /\ state = "ready" => "paper" \in owned /\ Works("postgres")
          /\ reply' = [reply EXCEPT !.status = 200, !.paper = state]
  BY DEF ReadPaper
<1>4. reply = [request |-> reply.request, status |-> 0, services |-> reply.services, paper |-> None,
               research |-> reply.research, fallen |-> reply.fallen]
  BY <1>1 DEF AwaitsPaper
<1>5. /\ reply'.request = reply.request /\ reply'.status = 200 /\ reply'.services = reply.services
      /\ reply'.paper = state /\ reply'.research = reply.research /\ reply'.fallen = reply.fallen
  BY <1>3, <1>4
<1>6. reply.request.path = "capabilities" /\ ~Denied(reply.request) /\ reply.status = 0
  BY <1>1, <1>4 DEF AwaitsPaper
<1>7. \A x \in DOMAIN ComposedBy :
         /\ reply'.services[x] = "ready" => x \in up' \ reply'.fallen
         /\ reply'.services[x] = "absent" => ComposedBy[x] \notin owned'
         /\ reply'.services[x] = "failed" /\ x = "thread" => x \in fell'
  BY <1>1, <1>2, <1>5, <1>6 DEF ConsoleTellsTheTruth
<1>8. /\ reply'.research = "ready" => reply'.services.thread # "absent"
      /\ reply'.paper = "ready" => reply'.services.postgres # "absent" /\ "postgres" \notin reply'.fallen
  BY <1>1, <1>2, <1>3, <1>5, <1>7 DEF AwaitsPaper, ComposedBy, Works
<1>9. ConsoleTellsTheTruth'
  BY <1>5, <1>6, <1>7, <1>8 DEF ConsoleTellsTheTruth, RunPath
<1> QED
  BY <1>1, <1>2, <1>5, <1>9, ServingKeeps DEF ReplyInv

LEMMA ReplySentKeeps ==
    ASSUME ServeInv, ReplySent
    PROVE  ServeInv'
BY ServingKeeps DEF ReplySent, ReplyInv

LEMMA FallsKeeps ==
    ASSUME ServeInv, NEW x \in {"openbb", "kronos", "postgres", "thread"}, Falls(x)
    PROVE  ServeInv'
<1>1. UNCHANGED <<stage, up, owned, faults, interrupted, reply>> /\ fell \subseteq fell'
  BY DEF Falls
<1>2. ConsoleTellsTheTruth => ConsoleTellsTheTruth'
  BY <1>1 DEF ConsoleTellsTheTruth
<1>3. ReplyInv'
  BY <1>1, <1>2 DEF ServeInv, ReplyInv, AwaitsPaper
<1> QED
  BY <1>1, <1>3, ServingKeeps

\* The inductive invariant: at every stage, who knows of what exists.
THEOREM ServeInvariant == ServeSpec => []ServeInv
<1>1. ServeInit => ServeInv
  BY DEF ServeInit, ServeInv, Stages, OpenBBInv, KronosInv, PaperInv, ResearchPartInv, ReplyInv,
         Composing, Closing, Cleaning, Came
<1>2. ServeInv /\ [ServeNext]_serveVars => ServeInv'
  <2>1. SUFFICES ASSUME ServeInv, [ServeNext]_serveVars PROVE ServeInv'
    OBVIOUS
  <2>2. CASE UNCHANGED serveVars
    BY <2>1, <2>2 DEF serveVars, ServeInv, OpenBBInv, KronosInv, PaperInv, ResearchPartInv, ReplyInv,
         AwaitsPaper, ConsoleTellsTheTruth, Came
  <2> QED
    BY <2>1, <2>2, InterruptStartKeeps, InterruptCleanupKeeps, ProbeServiceKeeps, StartOpenBBKeeps, StartKronosKeeps, StartPostgresKeeps, ComposePaperKeeps,
       ComposeResearchKeeps, AskConsoleKeeps, ReadPaperKeeps, ReplySentKeeps, FallsKeeps, ServeEndsKeeps,
       CloseResearchKeeps, ClosePaperKeeps, CloseKronosKeeps, CloseOpenBBKeeps DEF ServeNext
<1> QED
  BY <1>1, <1>2, PTL DEF ServeSpec

\* Whatever fails or is interrupted while the console starts, serves and stops:
\* what is left is what could not be stopped or what the interrupted step made, and
\* no service is called ready that had fallen before it was asked about (serve of
\* entrypoints/gui.py, _service_reader and the endpoints of api/gui.py).
THEOREM ConsoleEndsClean == ServeSpec => [](NothingIsLeft /\ ConsoleTellsTheTruth)
<1>1. ServeInv => NothingIsLeft
  BY DEF ServeInv, OpenBBInv, KronosInv, PaperInv, ResearchPartInv, NothingIsLeft,
         Stages, Composing, Closing, Cleaning, Came, Stopped
<1>2. ServeInv => ConsoleTellsTheTruth
  BY DEF ServeInv, ReplyInv, ConsoleTellsTheTruth
<1> QED
  BY <1>1, <1>2, ServeInvariant, PTL

-----------------------------------------------------------------------------
(* The model settings of the console.                                      *)

ChangeSteps == {AtRest} \cup [op : {"test"}, route : Routes] \cup [op : {"finish", "verify"}]

\* Whoever holds the gate, from its test to its end.
UnderTest == {t \in SettingThreads : changing[t].op \in {"test", "finish"}}

\* What an answer showed bears the number of that moment, and what bears the
\* number of now shows what is set now.
ViewsAreNumbered ==
    \A v \in views : v.gen \in Nat /\ v.gen <= generation
                     /\ (v.gen = generation => v = View(session, baseline, generation))

SettingInv ==
    /\ generation \in Nat
    /\ changing \in [SettingThreads -> ChangeSteps]
    /\ updates = [active |-> updates.active, starts |-> updates.starts]
    /\ \A t \in UnderTest : updates.active = TRUE
    /\ \A t, u \in UnderTest : t = u
    /\ ViewsAreNumbered
    /\ \A v, w \in views : v.gen = w.gen => v = w

\* A change of what is set takes a new number.
LEMMA ShowKeeps ==
    ASSUME SettingInv, generation' \in {generation, generation + 1},
           \/ views' = views \/ views' = views \cup {View(session', baseline', generation')},
           generation' = generation => session' = session /\ baseline' = baseline
    PROVE  /\ generation' \in Nat /\ ViewsAreNumbered'
           /\ \A v, w \in views' : v.gen = w.gen => v = w
<1> DEFINE shown == View(session', baseline', generation')
<1>1. shown.gen = generation'
  BY DEF View
<1>2. generation \in Nat /\ generation' \in Nat /\ generation <= generation'
  BY DEF SettingInv
<1>3. \A v \in views : v.gen \in Nat /\ v.gen <= generation
  BY DEF SettingInv, ViewsAreNumbered
<1>4. \A v \in views : v.gen = generation' => v = shown
  <2>1. CASE generation' = generation
    BY <2>1 DEF SettingInv, ViewsAreNumbered
  <2>2. CASE generation' = generation + 1
    BY <1>2, <1>3, <2>2
  <2> QED
    BY <2>1, <2>2
<1> HIDE DEF shown
<1>5. \A v \in views' : v \in views \/ v = shown
  BY DEF shown
<1>6. ViewsAreNumbered'
  <2>1. \A v \in views' : v.gen \in Nat /\ v.gen <= generation' /\ (v.gen = generation' => v = shown)
    BY <1>1, <1>2, <1>3, <1>4, <1>5
  <2> QED
    BY <2>1 DEF ViewsAreNumbered, shown
<1>7. \A v, w \in views' : v.gen = w.gen => v = w
  BY <1>1, <1>4, <1>5 DEF SettingInv
<1> QED
  BY <1>2, <1>6, <1>7

LEMMA StartConfigureKeeps ==
    ASSUME SettingInv, NEW t \in SettingThreads, NEW route \in Routes, StartConfigure(t, route)
    PROVE  SettingInv'
<1>1. updates.active = FALSE \/ UnderTest = {}
  BY DEF StartConfigure, Admitted, SettingInv
<1>2. UnderTest = {}
  BY <1>1 DEF StartConfigure, Admitted, SettingInv
<1>3. changing' = [changing EXCEPT ![t] = [op |-> "test", route |-> route]]
  BY DEF StartConfigure
<1>4. changing' \in [SettingThreads -> ChangeSteps]
  BY <1>3 DEF SettingInv, ChangeSteps
<1>5. UnderTest' \subseteq {t}
  BY <1>2, <1>3 DEF UnderTest, SettingInv
<1>6. updates'.active = TRUE /\ updates' = [active |-> updates'.active, starts |-> updates'.starts]
  BY DEF StartConfigure
<1>7. generation' = generation /\ session' = session /\ baseline' = baseline /\ views' = views
  BY DEF StartConfigure
<1>8. generation' \in Nat /\ ViewsAreNumbered' /\ (\A v, w \in views' : v.gen = w.gen => v = w)
  BY <1>7, ShowKeeps
<1> QED
  BY <1>4, <1>5, <1>6, <1>8 DEF SettingInv

\* A thread that keeps the gate, or goes.
LEMMA StepKeepsGate ==
    ASSUME SettingInv, NEW t \in SettingThreads, NEW step \in ChangeSteps,
           changing' = [changing EXCEPT ![t] = step], updates' = updates,
           step.op \in {"test", "finish"} => changing[t].op \in {"test", "finish"}
    PROVE  /\ changing' \in [SettingThreads -> ChangeSteps]
           /\ UnderTest' \subseteq UnderTest
<1>1. changing' \in [SettingThreads -> ChangeSteps]
  BY DEF SettingInv
<1>2. \A u \in SettingThreads : changing'[u].op \in {"test", "finish"} => changing[u].op \in {"test", "finish"}
  BY DEF SettingInv
<1> QED
  BY <1>1, <1>2 DEF UnderTest

LEMMA ActivateKeeps ==
    ASSUME SettingInv, NEW t \in SettingThreads, Activate(t)
    PROVE  SettingInv'
<1>1. [op |-> "finish"] \in ChangeSteps
  BY DEF ChangeSteps
<1>2. changing' \in [SettingThreads -> ChangeSteps] /\ UnderTest' \subseteq UnderTest
  BY <1>1, StepKeepsGate DEF Activate
<1>3. generation \in Nat
  BY DEF SettingInv
<1>4. generation' = generation + 1 /\ views' = views \cup {View(session', baseline', generation')}
  BY DEF Activate, Show
<1>5. generation' \in Nat /\ ViewsAreNumbered' /\ (\A v, w \in views' : v.gen = w.gen => v = w)
  BY <1>3, <1>4, ShowKeeps
<1> QED
  BY <1>2, <1>5 DEF SettingInv, Activate

LEMMA TestFailsKeeps ==
    ASSUME SettingInv, NEW t \in SettingThreads, TestFails(t)
    PROVE  SettingInv'
<1>1. [op |-> "finish"] \in ChangeSteps
  BY DEF ChangeSteps
<1>2. changing' \in [SettingThreads -> ChangeSteps] /\ UnderTest' \subseteq UnderTest
  BY <1>1, StepKeepsGate DEF TestFails
<1>3. generation' = generation /\ session' = session /\ baseline' = baseline /\ views' = views
  BY DEF TestFails
<1>4. generation' \in Nat /\ ViewsAreNumbered' /\ (\A v, w \in views' : v.gen = w.gen => v = w)
  BY <1>3, ShowKeeps
<1> QED
  BY <1>2, <1>4 DEF SettingInv, TestFails

LEMMA FinishConfigureKeeps ==
    ASSUME SettingInv, NEW t \in SettingThreads, FinishConfigure(t)
    PROVE  SettingInv'
<1>1. changing' \in [SettingThreads -> ChangeSteps]
  BY DEF FinishConfigure, SettingInv, ChangeSteps
<1>2. t \in UnderTest
  BY DEF FinishConfigure, UnderTest
<1>3. UnderTest' = {}
  <2>1. \A u \in SettingThreads : u # t => changing'[u].op \notin {"test", "finish"}
    BY <1>2 DEF FinishConfigure, SettingInv, UnderTest
  <2>2. changing'[t].op \notin {"test", "finish"}
    BY DEF FinishConfigure, SettingInv, AtRest
  <2> QED
    BY <2>1, <2>2 DEF UnderTest
<1>4. updates' = [active |-> updates'.active, starts |-> updates'.starts]
  <2>1. updates = [active |-> updates.active, starts |-> updates.starts]
    BY DEF SettingInv
  <2>2. updates' = [updates EXCEPT !.active = FALSE]
    BY DEF FinishConfigure
  <2> QED
    BY <2>1, <2>2
<1>5. generation' = generation /\ session' = session /\ baseline' = baseline /\ views' = views
  BY DEF FinishConfigure
<1>6. generation' \in Nat /\ ViewsAreNumbered' /\ (\A v, w \in views' : v.gen = w.gen => v = w)
  BY <1>5, ShowKeeps
<1> QED
  BY <1>1, <1>3, <1>4, <1>6 DEF SettingInv

LEMMA ClearSettingsKeeps ==
    ASSUME SettingInv, ClearSettings
    PROVE  SettingInv'
<1>1. generation' = generation + 1 /\ views' = views \cup {View(session', baseline', generation')}
  BY DEF ClearSettings, ClearedGeneration, Show
<1>2. generation \in Nat
  BY DEF SettingInv
<1>3. generation' \in Nat /\ ViewsAreNumbered' /\ (\A v, w \in views' : v.gen = w.gen => v = w)
  BY <1>1, <1>2, ShowKeeps
<1>4. UnderTest' = UnderTest
  BY DEF ClearSettings, UnderTest
<1> QED
  BY <1>3, <1>4 DEF SettingInv, ClearSettings

LEMMA StartVerifyKeeps ==
    ASSUME SettingInv, NEW t \in SettingThreads, StartVerify(t)
    PROVE  SettingInv'
<1>1. [op |-> "verify"] \in ChangeSteps
  BY DEF ChangeSteps
<1>2. changing' \in [SettingThreads -> ChangeSteps] /\ UnderTest' \subseteq UnderTest
  BY <1>1, StepKeepsGate DEF StartVerify
<1>3. generation' = generation /\ session' = session /\ baseline' = baseline /\ views' = views
  BY DEF StartVerify
<1>4. generation' \in Nat /\ ViewsAreNumbered' /\ (\A v, w \in views' : v.gen = w.gen => v = w)
  BY <1>3, ShowKeeps
<1> QED
  BY <1>2, <1>4 DEF SettingInv, StartVerify

LEMMA VerifiedKeeps ==
    ASSUME SettingInv, NEW t \in SettingThreads, NEW passes \in BOOLEAN, Verified(t, passes)
    PROVE  SettingInv'
<1>1. AtRest \in ChangeSteps /\ AtRest.op \notin {"test", "finish"}
  BY DEF ChangeSteps, AtRest
<1>2. changing' \in [SettingThreads -> ChangeSteps] /\ UnderTest' \subseteq UnderTest
  BY <1>1, StepKeepsGate DEF Verified
<1>3. generation \in Nat
  BY DEF SettingInv
<1>4. generation' \in Nat /\ ViewsAreNumbered' /\ (\A v, w \in views' : v.gen = w.gen => v = w)
  <2>1. CASE passes
    <3>1. generation' = generation + 1 /\ views' = views \cup {View(session', baseline', generation')}
      BY <2>1 DEF Verified, Show
    <3> QED
      BY <1>3, <3>1, ShowKeeps
  <2>2. CASE ~passes
    <3>1. generation' = generation /\ session' = session /\ baseline' = baseline /\ views' = views
      BY <2>2 DEF Verified
    <3> QED
      BY <3>1, ShowKeeps
  <2> QED
    BY <2>1, <2>2
<1> QED
  BY <1>2, <1>4 DEF SettingInv, Verified

\* The inductive invariant: what is set and its number change together.
THEOREM SettingInvariant == SettingSpec => []SettingInv
<1>1. SettingInit => SettingInv
  BY DEF SettingInit, SettingInv, ViewsAreNumbered, UnderTest, ChangeSteps, AtRest
<1>2. SettingInv /\ [SettingNext]_settingVars => SettingInv'
  <2>1. SUFFICES ASSUME SettingInv, [SettingNext]_settingVars PROVE SettingInv'
    OBVIOUS
  <2>2. ASSUME SettingTick \/ ReadView \/ UNCHANGED settingVars PROVE SettingInv'
    <3>1. generation' = generation /\ session' = session /\ baseline' = baseline
          /\ changing' = changing /\ updates' = updates
      BY <2>2 DEF SettingTick, ReadView, settingVars
    <3>2. views' = views \/ views' = views \cup {View(session', baseline', generation')}
      BY <2>2 DEF SettingTick, ReadView, settingVars, Show
    <3>3. generation' \in Nat /\ ViewsAreNumbered' /\ (\A v, w \in views' : v.gen = w.gen => v = w)
      BY <2>1, <3>1, <3>2, ShowKeeps
    <3>4. UnderTest' = UnderTest
      BY <3>1 DEF UnderTest
    <3> QED
      BY <2>1, <3>1, <3>3, <3>4 DEF SettingInv
  <2> QED
    BY <2>1, <2>2, ClearSettingsKeeps, StartConfigureKeeps, ActivateKeeps, TestFailsKeeps,
       FinishConfigureKeeps, StartVerifyKeeps, VerifiedKeeps DEF SettingNext
<1> QED
  BY <1>1, <1>2, PTL DEF SettingSpec

\* For any number of threads that change, test and clear settings: a number
\* names one setting, and one connection test runs at a time
\* (composition/model_settings.py, _SettingsUpdateGate).
THEOREM GenerationsNameViews == SettingSpec => []GenerationNamesTheView
<1>1. SettingInv => GenerationNamesTheView
  <2>1. SUFFICES ASSUME SettingInv PROVE GenerationNamesTheView
    OBVIOUS
  <2>2. PICK t : UnderTest = {} \/ UnderTest = {t}
    <3>1. ASSUME NEW t \in UnderTest PROVE UnderTest = {t}
      BY <2>1, <3>1 DEF SettingInv
    <3> QED
      BY <3>1
  <2>3. Cardinality(UnderTest) <= 1
    BY <2>2, FS_EmptySet, FS_Singleton
  <2> QED
    BY <2>1, <2>3 DEF GenerationNamesTheView, SettingInv, UnderTest
<1> QED
  BY <1>1, SettingInvariant, PTL

-----------------------------------------------------------------------------
(* The console in the composition.                                         *)

\* A part that is not the run's part stands still.
LEMMA ConsoleParts ==
    Spec => ConsoleSpec /\ ServeSpec /\ SettingSpec
<1>1. Init => ConsoleInit /\ ServeInit /\ SettingInit
  BY DEF Init
<1>2. [Next]_vars => [ConsoleNext]_consoleVars /\ [ServeNext]_serveVars /\ [SettingNext]_settingVars
  BY DEF Next, vars
<1> QED
  BY <1>1, <1>2, PTL DEF Spec, ConsoleSpec, ServeSpec, SettingSpec

\* The local console starts one run at a time and tells its browsers one story of
\* it, says of its services what is so, leaves nothing behind when it stops, and
\* numbers its model settings so that a number names one of them (entrypoints/gui.py,
\* api/gui_research.py, api/gui.py and composition/model_settings.py).
THEOREM ConsoleAlwaysHolds == Spec => []ConsoleHolds
<1>1. (OneRunAtATime /\ StreamIsTheRun) /\ (NothingIsLeft /\ ConsoleTellsTheTruth) /\ GenerationNamesTheView
        => ConsoleHolds
  BY DEF ConsoleHolds
<1> QED
  BY <1>1, ConsoleParts, ConsoleRunsStayTold, ConsoleEndsClean, GenerationsNameViews, PTL

-----------------------------------------------------------------------------
(* The strategy registry.                                                  *)

USE StrategyAssumption

Shape ==
    /\ dbNow \in 0..MaxDbNow
    /\ row \in [Strategies -> RegistryRow]
    /\ events \in [Strategies -> Seq(AuditEvent)]
    /\ report \in [Report -> ReportRow \cup {None}]
    /\ loaded \in [Caller -> Seen \cup {None}]
    /\ signal \in [Caller -> Signal \cup {None}]
    /\ used \in Use \cup {None}

\* The report r is in the table, and it is one of strategy s.
Filed(r, s) == r \in Report /\ report[r] # None /\ report[r].strategy = s

\* Event e of strategy s is backed by what it names.
Backed(s, e) ==
    /\ e.at <= dbNow
    /\ e.report # None => Filed(e.report, s)
    /\ e.to \in {"shadow", "paper_eligible"} =>
         /\ e.report # None
         /\ report[e.report].passed
         /\ e.at < report[e.report].validUntil

\* The entry that was read is what the event of its version says.
SaidBy(log, entry) ==
    /\ entry.version \in 1..Len(log)
    /\ log[entry.version].to = entry.state
    /\ log[entry.version].report = entry.report
    /\ log[entry.version].at = entry.updatedAt

AuditInv(s) ==
    /\ Len(events[s]) = row[s].version
    /\ Registered(s) => SaidBy(events[s], row[s])
    /\ \A i \in 1..Len(events[s]) :
         /\ Backed(s, events[s][i])
         /\ events[s][i].from = IF i = 1 THEN "none" ELSE events[s][i - 1].to

ReportInv(r) ==
    report[r] # None =>
        /\ Registered(report[r].strategy)
        /\ \A q \in Report : report[q] # None /\ HashOf(report[q]) = HashOf(report[r]) => q = r

SeenInv(c) ==
    /\ loaded[c] # None => SaidBy(events[loaded[c].strategy], loaded[c].row)
    /\ signal[c] # None => signal[c].generatedAt <= dbNow

UseInv ==
    used # None =>
        /\ Filed(used.report, used.strategy) /\ report[used.report].passed
        /\ used.asOf < report[used.report].validUntil
        /\ used.generatedAt <= used.asOf /\ used.asOf < used.generatedAt + StaleAfter
        /\ \E i \in 1..Len(events[used.strategy]) :
             /\ events[used.strategy][i].to = "paper_eligible"
             /\ events[used.strategy][i].report = used.report
             /\ events[used.strategy][i].at <= used.asOf

RegistryInv ==
    /\ Shape
    /\ \A s \in Strategies : AuditInv(s)
    /\ \A r \in Report : ReportInv(r)
    /\ \A c \in Caller : SeenInv(c)
    /\ UseInv

-----------------------------------------------------------------------------
(* What a step may do: reports and events stay, the clock does not run     *)
(* back, and a row moves with its event.                                   *)

LogKept(s) == row'[s] = row[s] /\ events'[s] = events[s]

LogMoved(s) ==
    \E e \in AuditEvent, new \in RegistryRow :
        /\ row'[s] = new /\ events'[s] = Append(events[s], e)
        /\ new.version = row[s].version + 1
        /\ e.to = new.state /\ e.report = new.report /\ e.at = new.updatedAt
        /\ e.at = dbNow
        /\ e.from = IF row[s].version = 0 THEN "none" ELSE row[s].state
        /\ e.report # None => Filed(e.report, s)
        /\ e.to \in {"shadow", "paper_eligible"} =>
             e.report # None /\ report[e.report].passed /\ report[e.report].validUntil > dbNow

ReportsStay == \A r \in Report : report[r] # None => report'[r] = report[r]

Moves ==
    /\ Shape'
    /\ dbNow <= dbNow'
    /\ ReportsStay
    /\ \A s \in Strategies : LogKept(s) \/ LogMoved(s)

LEMMA FiledStays ==
    ASSUME ReportsStay, NEW r, NEW s, Filed(r, s)
    PROVE  Filed(r, s)' /\ report'[r] = report[r]
  BY DEF Filed, ReportsStay

LEMMA AuditKept ==
    ASSUME RegistryInv, Moves, NEW s \in Strategies
    PROVE  /\ AuditInv(s)'
           /\ row'[s].version >= row[s].version
           /\ Len(events'[s]) >= Len(events[s])
           /\ \A i \in 1..Len(events[s]) : events'[s][i] = events[s][i]
<1>0. /\ AuditInv(s) /\ events[s] \in Seq(AuditEvent) /\ row[s] \in RegistryRow
      /\ dbNow \in Nat /\ dbNow' \in Nat /\ dbNow <= dbNow' /\ ReportsStay
      /\ row[s].version \in Nat /\ Len(events[s]) \in Nat
  BY DEF RegistryInv, Shape, Moves, RegistryRow
<1>1. ASSUME NEW e \in AuditEvent, Backed(s, e) PROVE Backed(s, e)'
  <2>1. e.at \in Nat
    BY DEF AuditEvent
  <2>2. CASE e.report = None
    BY <1>0, <1>1, <2>1, <2>2 DEF Backed
  <2>3. CASE e.report # None
    <3>1. Filed(e.report, s)' /\ report'[e.report] = report[e.report]
      BY <1>0, <1>1, <2>3, FiledStays DEF Backed
    <3> QED
      BY <1>0, <1>1, <2>1, <3>1 DEF Backed
  <2> QED
    BY <2>2, <2>3
<1>2. CASE LogKept(s)
  <2>1. ASSUME NEW i \in 1..Len(events'[s])
        PROVE  /\ Backed(s, events[s][i])'
               /\ events'[s][i].from = IF i = 1 THEN "none" ELSE events'[s][i - 1].to
    <3>1. PICK e \in AuditEvent : e = events[s][i] /\ e = events'[s][i]
      BY <1>0, <1>2, <2>1 DEF LogKept
    <3>2. Backed(s, e)'
      BY <1>0, <1>1, <1>2, <2>1, <3>1 DEF AuditInv, LogKept
    <3> QED
      BY <1>0, <1>2, <2>1, <3>1, <3>2 DEF AuditInv, LogKept
  <2> QED
    BY <1>0, <1>2, <2>1 DEF LogKept, AuditInv, Registered, SaidBy
<1>3. CASE LogMoved(s)
  <2>1. PICK e \in AuditEvent, new \in RegistryRow :
          /\ row'[s] = new /\ events'[s] = Append(events[s], e)
          /\ new.version = row[s].version + 1
          /\ e.to = new.state /\ e.report = new.report /\ e.at = new.updatedAt
          /\ e.at = dbNow
          /\ e.from = IF row[s].version = 0 THEN "none" ELSE row[s].state
          /\ e.report # None => Filed(e.report, s)
          /\ e.to \in {"shadow", "paper_eligible"} =>
               e.report # None /\ report[e.report].passed /\ report[e.report].validUntil > dbNow
    BY <1>3 DEF LogMoved
  <2>2. PICK n \in Nat : n = Len(events[s])
    BY <1>0
  <2>3. /\ events'[s] \in Seq(AuditEvent) /\ Len(events'[s]) = n + 1
        /\ events'[s][n + 1] = e
        /\ \A i \in 1..n : events'[s][i] = events[s][i]
    BY <1>0, <2>1, <2>2
  <2>4. Backed(s, e)
    <3>1. e.report # None => report[e.report] \in ReportRow
      BY <2>1 DEF RegistryInv, Shape, Filed
    <3>2. e.report # None => report[e.report].validUntil \in Nat
      BY <3>1 DEF ReportRow
    <3> QED
      BY <1>0, <2>1, <3>2 DEF Backed
  <2>5. Backed(s, e)'
    BY <1>1, <2>4
  <2>6. row[s].version = n
    BY <1>0, <2>2 DEF AuditInv
  <2>7. ASSUME NEW i \in 1..Len(events'[s])
        PROVE  /\ Backed(s, events[s][i])'
               /\ events'[s][i].from = IF i = 1 THEN "none" ELSE events'[s][i - 1].to
    <3>1. CASE i = n + 1
      <4>1. e.from = IF n = 0 THEN "none" ELSE events[s][n].to
        BY <1>0, <2>1, <2>2, <2>6 DEF AuditInv, Registered, SaidBy
      <4>2. e.from = IF i = 1 THEN "none" ELSE events'[s][i - 1].to
        <5>1. CASE n = 0
          BY <3>1, <4>1, <5>1
        <5>2. CASE n # 0
          <6>1. n \in 1..n /\ i # 1 /\ i - 1 = n
            BY <2>2, <3>1, <5>2
          <6> QED
            BY <2>3, <4>1, <5>2, <6>1
        <5> QED
          BY <5>1, <5>2
      <4> QED
        BY <2>3, <2>5, <3>1, <4>2
    <3>2. CASE i # n + 1
      <4>1. i \in 1..n
        BY <2>3, <2>7, <3>2
      <4>2. PICK f \in AuditEvent : f = events[s][i] /\ f = events'[s][i]
        BY <1>0, <2>2, <2>3, <4>1
      <4>3. Backed(s, f)'
        BY <1>0, <1>1, <2>2, <4>1, <4>2 DEF AuditInv
      <4>4. i # 1 => i - 1 \in 1..n
        BY <2>2, <4>1
      <4> QED
        BY <1>0, <2>2, <2>3, <4>1, <4>2, <4>3, <4>4 DEF AuditInv
    <3> QED
      BY <3>1, <3>2
  <2>8. SaidBy(events[s], row[s])' /\ row'[s].version = n + 1
    BY <2>1, <2>2, <2>3, <2>6 DEF SaidBy
  <2> QED
    BY <1>0, <2>2, <2>3, <2>6, <2>7, <2>8 DEF AuditInv
<1> QED
  BY <1>2, <1>3 DEF Moves

\* What was read stays what its event says: events are only appended.
LEMMA SaidStays ==
    ASSUME RegistryInv, Moves, NEW s \in Strategies, NEW entry \in RegistryRow,
           SaidBy(events[s], entry)
    PROVE  SaidBy(events'[s], entry)
<1>1. /\ events[s] \in Seq(AuditEvent) /\ Len(events'[s]) \in Nat
      /\ Len(events'[s]) >= Len(events[s])
      /\ \A i \in 1..Len(events[s]) : events'[s][i] = events[s][i]
  BY AuditKept DEF RegistryInv, Shape, Moves
<1> QED
  BY <1>1 DEF SaidBy, RegistryRow

\* The inductive step, from what each action says of reports, callers and uses.
LEMMA StepKeepsRegistry ==
    ASSUME RegistryInv, Moves,
           \A r \in Report : ReportInv(r)',
           \A c \in Caller : \/ loaded'[c] = loaded[c]
                             \/ loaded'[c] # None =>
                                  SaidBy(events'[loaded'[c].strategy], loaded'[c].row),
           \A c \in Caller : \/ signal'[c] = signal[c]
                             \/ signal'[c] # None => signal'[c].generatedAt <= dbNow,
           used' = used \/ UseInv'
    PROVE  RegistryInv'
<1>1. \A s \in Strategies : AuditInv(s)'
  BY AuditKept
<1>2. ASSUME NEW c \in Caller PROVE SeenInv(c)'
  <2>1. loaded'[c] # None => SaidBy(events'[loaded'[c].strategy], loaded'[c].row)
    <3>1. CASE loaded'[c] = loaded[c] /\ loaded[c] # None
      <4>1. PICK seen \in Seen : seen = loaded[c] /\ seen = loaded'[c]
        BY <3>1 DEF RegistryInv, Shape
      <4>2. seen.strategy \in Strategies /\ seen.row \in RegistryRow
        BY DEF Seen
      <4>3. SaidBy(events[seen.strategy], seen.row)
        BY <3>1, <4>1 DEF RegistryInv, SeenInv
      <4> QED
        BY <4>1, <4>2, <4>3, SaidStays
    <3> QED
      BY <3>1
  <2>2. signal'[c] # None => signal'[c].generatedAt <= dbNow'
    <3>1. /\ dbNow \in Nat /\ dbNow' \in Nat /\ dbNow <= dbNow'
          /\ signal'[c] # None => signal'[c].generatedAt \in Nat
          /\ signal[c] # None => signal[c].generatedAt <= dbNow
      BY DEF RegistryInv, Moves, Shape, SeenInv, Signal
    <3> QED
      BY <3>1
  <2> QED
    BY <2>1, <2>2 DEF SeenInv
<1>3. UseInv'
  <2>1. CASE used' = used /\ used # None
    <3>1. PICK u \in Use : u = used /\ u = used'
      BY <2>1 DEF RegistryInv, Shape
    <3>2. u.strategy \in Strategies /\ Filed(u.report, u.strategy)
      BY <2>1, <3>1 DEF Use, RegistryInv, UseInv
    <3>3. Filed(u.report, u.strategy)' /\ report'[u.report] = report[u.report]
      BY <3>2, FiledStays DEF Moves
    <3>4. /\ Len(events[u.strategy]) \in Nat /\ Len(events'[u.strategy]) \in Nat
          /\ Len(events'[u.strategy]) >= Len(events[u.strategy])
          /\ \A i \in 1..Len(events[u.strategy]) : events'[u.strategy][i] = events[u.strategy][i]
      BY <3>2, AuditKept DEF RegistryInv, Shape, Moves
    <3>5. PICK i \in 1..Len(events[u.strategy]) :
             /\ events[u.strategy][i].to = "paper_eligible"
             /\ events[u.strategy][i].report = u.report
             /\ events[u.strategy][i].at <= u.asOf
      BY <2>1, <3>1 DEF RegistryInv, UseInv
    <3>6. i \in 1..Len(events'[u.strategy]) /\ events'[u.strategy][i] = events[u.strategy][i]
      BY <3>4, <3>5
    <3>7. /\ report[u.report].passed /\ u.asOf < report[u.report].validUntil
          /\ u.generatedAt <= u.asOf /\ u.asOf < u.generatedAt + StaleAfter
      BY <2>1, <3>1 DEF RegistryInv, UseInv
    <3> QED
      BY <3>1, <3>3, <3>5, <3>6, <3>7 DEF UseInv
  <2> QED
    BY <2>1 DEF UseInv
<1> QED
  BY <1>1, <1>2, <1>3 DEF RegistryInv, Moves

-----------------------------------------------------------------------------
(* The actions.                                                            *)

\* A step that leaves the registry's tables alone moves neither reports nor logs.
LEMMA TablesKept ==
    ASSUME RegistryInv, row' = row, events' = events, report' = report, dbNow' = dbNow,
           loaded' \in [Caller -> Seen \cup {None}],
           signal' \in [Caller -> Signal \cup {None}], used' \in Use \cup {None}
    PROVE  Moves /\ \A r \in Report : ReportInv(r)'
  BY DEF RegistryInv, Moves, Shape, ReportsStay, LogKept, ReportInv, Registered

LEMMA TickKeeps ==
    ASSUME RegistryInv, DbTick PROVE RegistryInv'
<1>1. Moves
  BY DEF RegistryInv, Moves, Shape, ReportsStay, LogKept, DbTick
<1>2. \A r \in Report : ReportInv(r)'
  BY DEF RegistryInv, ReportInv, Registered, DbTick
<1> QED
  BY <1>1, <1>2, StepKeepsRegistry DEF DbTick

LEMMA RegisterKeeps ==
    ASSUME RegistryInv, NEW s \in Strategies, NEW kind \in StrategyKind, Register(s, kind)
    PROVE  RegistryInv'
<1> DEFINE new == [Unregistered EXCEPT !.kind = kind, !.version = 1, !.updatedAt = dbNow]
           e == EventOf("none", new)
<1>0. /\ row \in [Strategies -> RegistryRow] /\ events \in [Strategies -> Seq(AuditEvent)]
      /\ dbNow \in Nat /\ AuditInv(s) /\ row[s].version = 0
  BY DEF RegistryInv, Shape, Register, Registered, RegistryRow
<1>1. new = [kind |-> kind, state |-> "draft", report |-> None, version |-> 1, updatedAt |-> dbNow]
  <2> DEFINE r1 == [Unregistered EXCEPT !.kind = kind]
             r2 == [r1 EXCEPT !.version = 1]
  <2>1. r1 = [kind |-> kind, state |-> "draft", report |-> None, version |-> 0, updatedAt |-> 0]
    BY DEF Unregistered
  <2>2. new = [r2 EXCEPT !.updatedAt = dbNow]
    OBVIOUS
  <2> HIDE DEF r1, new
  <2>3. r2 = [kind |-> kind, state |-> "draft", report |-> None, version |-> 1, updatedAt |-> 0]
    BY <2>1
  <2> HIDE DEF r2
  <2> QED
    BY <2>2, <2>3
<1>2. /\ new \in RegistryRow /\ new.version = 1 /\ new.state = "draft" /\ new.report = None
      /\ new.updatedAt = dbNow
  BY <1>0, <1>1 DEF RegistryRow, PromotionState, ReportId
<1>3. /\ e \in AuditEvent /\ e.to = "draft" /\ e.report = None /\ e.at = dbNow /\ e.from = "none"
  BY <1>0, <1>2 DEF EventOf, AuditEvent, PromotionState, ReportId
<1>4. /\ row' = [row EXCEPT ![s] = new] /\ events' = [events EXCEPT ![s] = <<e>>]
  BY DEF Register
<1> HIDE DEF new, e
<1>5. events[s] = <<>> /\ <<e>> = Append(events[s], e)
  BY <1>0, <1>3 DEF AuditInv
<1>6. LogMoved(s)
  BY <1>0, <1>2, <1>3, <1>4, <1>5 DEF LogMoved
<1>7. Moves
  BY <1>0, <1>2, <1>3, <1>4, <1>6 DEF RegistryInv, Moves, Shape, ReportsStay, LogKept, Register
<1>8. \A r \in Report : ReportInv(r)'
  BY <1>0, <1>2, <1>4 DEF RegistryInv, ReportInv, Registered, Register, Shape, ReportRow
<1> QED
  BY <1>7, <1>8, StepKeepsRegistry DEF Register

LEMMA EvaluationKeeps ==
    ASSUME RegistryInv, NEW r \in Report, NEW s \in Strategies, NEW d \in Data,
           NEW created \in 0..dbNow, RegisterEvaluation(r, s, d, created)
    PROVE  RegistryInv'
<1> DEFINE rep == ReportOn(s, d, created)
<1>0. report \in [Report -> ReportRow \cup {None}] /\ dbNow \in Nat
  BY DEF RegistryInv, Shape
<1>1. rep \in ReportRow /\ rep.strategy = s /\ HashOf(rep) = <<s, d>>
  <2>1. created + ValidFor \in Nat /\ created \in Nat
    BY <1>0
  <2> QED
    BY <2>1 DEF ReportOn, ReportRow, HashOf
<1>2. /\ report' = [report EXCEPT ![r] = rep] /\ report[r] = None /\ Registered(s)
      /\ \A o \in Report : report[o] # None => HashOf(report[o]) # HashOf(rep)
  BY DEF RegisterEvaluation
<1> HIDE DEF rep
<1>3. Moves
  BY <1>0, <1>1, <1>2 DEF RegistryInv, Moves, Shape, ReportsStay, LogKept, RegisterEvaluation
<1>4. ASSUME NEW q \in Report PROVE ReportInv(q)'
  <2>1. CASE q = r
    BY <1>0, <1>1, <1>2, <2>1 DEF RegistryInv, ReportInv, Registered, HashOf, RegisterEvaluation
  <2>2. CASE q # r
    BY <1>0, <1>1, <1>2, <2>2 DEF RegistryInv, ReportInv, Registered, HashOf, RegisterEvaluation
  <2> QED
    BY <2>1, <2>2
<1> QED
  BY <1>3, <1>4, StepKeepsRegistry DEF RegisterEvaluation

LEMMA GetKeeps ==
    ASSUME RegistryInv, NEW c \in Caller, NEW s \in Strategies, Get(c, s)
    PROVE  RegistryInv'
<1>1. [strategy |-> s, row |-> row[s], request |-> None] \in Seen
  BY DEF RegistryInv, Shape, Seen
<1>2. loaded' \in [Caller -> Seen \cup {None}]
  BY <1>1 DEF RegistryInv, Shape, Get
<1>3. Moves /\ \A r \in Report : ReportInv(r)'
  BY <1>2, TablesKept DEF RegistryInv, Shape, Get
<1>4. SaidBy(events'[s], row[s])
  BY DEF RegistryInv, AuditInv, Get
<1>5. \A b \in Caller : \/ loaded'[b] = loaded[b]
                        \/ loaded'[b].strategy = s /\ loaded'[b].row = row[s]
  BY DEF Get, RegistryInv, Shape
<1> QED
  BY <1>3, <1>4, <1>5, StepKeepsRegistry DEF Get

LEMMA ValidateKeeps ==
    ASSUME RegistryInv, NEW c \in Caller, NEW to \in PromotionState, NEW r \in ReportId,
           ValidateTransition(c, to, r)
    PROVE  RegistryInv'
<1>0. loaded \in [Caller -> Seen \cup {None}] /\ loaded[c] # None /\ loaded[c] \in Seen
  BY DEF RegistryInv, Shape, ValidateTransition
<1>1. PICK seen \in Seen : seen = loaded[c]
  BY <1>0
<1> DEFINE new == [seen EXCEPT !.request = [to |-> to, report |-> r]]
<1>2. new \in Seen /\ new.strategy = seen.strategy /\ new.row = seen.row
  BY DEF Seen, Request
<1>3. loaded' = [loaded EXCEPT ![c] = new]
  BY <1>1 DEF ValidateTransition
<1> HIDE DEF new
<1>4. loaded' \in [Caller -> Seen \cup {None}]
  BY <1>0, <1>2, <1>3
<1>5. Moves /\ \A q \in Report : ReportInv(q)'
  BY <1>4, TablesKept DEF RegistryInv, Shape, ValidateTransition
<1>6. SaidBy(events'[new.strategy], new.row)
  BY <1>0, <1>1, <1>2 DEF RegistryInv, SeenInv, ValidateTransition
<1>7. \A b \in Caller : loaded'[b] = loaded[b] \/ loaded'[b] = new
  BY <1>0, <1>3
<1> QED
  BY <1>5, <1>6, <1>7, StepKeepsRegistry DEF ValidateTransition

LEMMA ApplyKeeps ==
    ASSUME RegistryInv, NEW c \in Caller, ApplyTransition(c)
    PROVE  RegistryInv'
<1>0. /\ loaded \in [Caller -> Seen \cup {None}] /\ loaded[c] # None /\ loaded[c] \in Seen
      /\ loaded[c].request # None /\ row \in [Strategies -> RegistryRow] /\ dbNow \in Nat
      /\ events \in [Strategies -> Seq(AuditEvent)]
  BY DEF RegistryInv, Shape, ApplyTransition
<1>1. PICK seen \in Seen : seen = loaded[c]
  BY <1>0
<1>2. PICK s \in Strategies, entry \in RegistryRow, req \in Request :
        s = seen.strategy /\ entry = seen.row /\ req = seen.request
  BY <1>0, <1>1 DEF Seen
<1> DEFINE new == Swapped(s, entry, req.to, req.report)
           e == EventOf(entry.state, new)
           allowed == /\ Precondition(s, entry) /\ TriggerAccepts(s, new)
                       /\ EventMatches(s, e, new)
<1>3. /\ new \in RegistryRow /\ new.version = entry.version + 1 /\ new.updatedAt = dbNow
  BY <1>0 DEF Swapped, RegistryRow, Request
<1>4. e \in AuditEvent /\ e.from = entry.state /\ e.to = new.state /\ e.report = new.report
      /\ e.at = dbNow
  BY <1>0, <1>3 DEF EventOf, AuditEvent, RegistryRow
<1>5. IF allowed
      THEN /\ row' = [row EXCEPT ![s] = new]
           /\ events' = [events EXCEPT ![s] = Append(@, e)]
           /\ loaded' = [loaded EXCEPT ![c] = [strategy |-> s, row |-> new, request |-> None]]
      ELSE /\ loaded' = [loaded EXCEPT ![c] = None]
           /\ UNCHANGED <<row, events>>
  BY <1>1, <1>2 DEF ApplyTransition
<1>6. SaidBy(events[s], entry)
  BY <1>0, <1>1, <1>2 DEF RegistryInv, SeenInv
<1>7. dbNow' = dbNow /\ report' = report /\ signal' = signal /\ used' = used
  BY DEF ApplyTransition
<1> HIDE DEF new, e
<1>8. CASE ~allowed
  <2>1. loaded' \in [Caller -> Seen \cup {None}]
    BY <1>0, <1>5, <1>8
  <2>2. Moves /\ \A q \in Report : ReportInv(q)'
    BY <1>5, <1>7, <1>8, <2>1, TablesKept DEF RegistryInv, Shape
  <2>3. \A b \in Caller : loaded'[b] = loaded[b] \/ loaded'[b] = None
    BY <1>0, <1>5, <1>8
  <2> QED
    BY <1>7, <2>2, <2>3, StepKeepsRegistry
<1>9. CASE allowed
  <2>1. /\ row' = [row EXCEPT ![s] = new]
        /\ events' = [events EXCEPT ![s] = Append(events[s], e)]
        /\ loaded' = [loaded EXCEPT ![c] = [strategy |-> s, row |-> new, request |-> None]]
    BY <1>5, <1>9
  <2>2. /\ row[s].version = entry.version /\ row[s].state = entry.state
        /\ entry.version \in Nat \ {0}
        /\ new.state \in PromotionState \ {"draft", "evaluating"} => new.report # None
        /\ new.report # None =>
             /\ report[new.report] # None /\ report[new.report].strategy = s
             /\ new.state \in {"shadow", "paper_eligible"} =>
                  report[new.report].passed /\ report[new.report].validUntil > dbNow
    BY <1>0, <1>6, <1>9 DEF Precondition, TriggerAccepts, SaidBy, RegistryRow
  <2>3. LogMoved(s)
    <3>1. e.report # None => Filed(e.report, s)
      BY <1>3, <1>4, <2>2 DEF Filed, RegistryRow, ReportId
    <3>2. e.to \in {"shadow", "paper_eligible"} =>
               e.report # None /\ report[e.report].passed /\ report[e.report].validUntil > dbNow
      BY <1>4, <2>2 DEF PromotionState
    <3>3. row'[s] = new /\ events'[s] = Append(events[s], e)
      BY <1>0, <2>1
    <3>4. e.from = IF row[s].version = 0 THEN "none" ELSE row[s].state
      BY <1>4, <2>2
    <3> QED
      BY <1>3, <1>4, <2>2, <3>1, <3>2, <3>3, <3>4 DEF LogMoved
  <2>4. [strategy |-> s, row |-> new, request |-> None] \in Seen
    BY <1>3 DEF Seen
  <2>5. Shape'
    <3>1. Append(events[s], e) \in Seq(AuditEvent)
      BY <1>0, <1>4
    <3> QED
      BY <1>0, <1>3, <1>7, <2>1, <2>4, <3>1 DEF RegistryInv, Shape
  <2>6. \A t \in Strategies : t # s => LogKept(t)
    BY <1>0, <2>1 DEF LogKept
  <2>7. Moves
    BY <1>0, <1>7, <2>3, <2>5, <2>6 DEF Moves, ReportsStay
  <2>8. \A q \in Report : ReportInv(q)'
    BY <1>0, <1>3, <1>7, <2>1, <2>2, SMTT(30) DEF RegistryInv, ReportInv, Registered, Shape, ReportRow
  <2>9. SaidBy(events'[s], new)
    <3>1. AuditInv(s) /\ Len(events[s]) = entry.version
      BY <2>2 DEF RegistryInv, AuditInv
    <3>2. /\ Len(events'[s]) = entry.version + 1 /\ events'[s][entry.version + 1] = e
      BY <1>0, <1>4, <2>1, <3>1
    <3> QED
      BY <1>3, <1>4, <2>2, <3>2 DEF SaidBy
  <2>10. \A b \in Caller : \/ loaded'[b] = loaded[b]
                           \/ loaded'[b].strategy = s /\ loaded'[b].row = new
    BY <1>0, <2>1
  <2> QED
    BY <1>7, <2>7, <2>8, <2>9, <2>10, StepKeepsRegistry
<1> QED
  BY <1>8, <1>9

\* Both mappers bind the signal to the report of the entry, at this moment.
LEMMA MapKeeps ==
    ASSUME RegistryInv, NEW c \in Caller, MapOpinion(c) \/ MapKronosForecast(c)
    PROVE  RegistryInv'
<1>0. /\ loaded[c] \in Seen /\ loaded[c].row.report # None /\ dbNow \in Nat
      /\ signal \in [Caller -> Signal \cup {None}]
      /\ signal' = [signal EXCEPT ![c] = SignalOf(loaded[c].strategy, loaded[c].row)]
      /\ UNCHANGED <<dbNow, row, events, report, loaded, used>>
  BY DEF RegistryInv, Shape, MapOpinion, MapKronosForecast, Bound
<1>1. PICK sig : sig = SignalOf(loaded[c].strategy, loaded[c].row)
  OBVIOUS
<1>2. sig \in Signal /\ sig.generatedAt = dbNow
  BY <1>0, <1>1 DEF SignalOf, Signal, Seen, RegistryRow, ReportId
<1>3. signal' = [signal EXCEPT ![c] = sig]
  BY <1>0, <1>1
<1>4. signal' \in [Caller -> Signal \cup {None}]
  BY <1>0, <1>2, <1>3
<1>5. Moves /\ \A q \in Report : ReportInv(q)'
  BY <1>0, <1>4, TablesKept DEF RegistryInv, Shape
<1>6. \A b \in Caller : signal'[b] = signal[b] \/ signal'[b].generatedAt <= dbNow
  BY <1>0, <1>2, <1>3
<1> QED
  BY <1>0, <1>5, <1>6, StepKeepsRegistry

\* A use at an instant no later than now, on an entry no later than it.
LEMMA UseKeeps ==
    ASSUME RegistryInv, NEW c \in Caller, NEW at \in 0..dbNow, NEW by \in {"decision", "target"},
           loaded[c] # None, signal[c] # None, loaded[c].strategy = signal[c].strategy,
           signal[c].generatedAt <= at, loaded[c].row.updatedAt <= at,
           Eligible(signal[c], loaded[c].row, at),
           used' = UseOf(by, signal[c], at),
           UNCHANGED <<dbNow, row, events, report, loaded, signal>>
    PROVE  RegistryInv'
<1>0. loaded[c] \in Seen /\ signal[c] \in Signal /\ dbNow \in Nat /\ at \in Nat
  BY DEF RegistryInv, Shape
<1>1. PICK sig \in Signal, entry \in RegistryRow, s \in Strategies :
        sig = signal[c] /\ entry = loaded[c].row /\ s = loaded[c].strategy /\ s = sig.strategy
  BY <1>0 DEF Seen
<1>2. PICK u : u = UseOf(by, sig, at)
  OBVIOUS
<1>3. /\ u \in Use /\ u.strategy = s /\ u.report = sig.report
      /\ u.generatedAt = sig.generatedAt /\ u.asOf = at
  BY <1>0, <1>1, <1>2 DEF UseOf, Use, Signal
<1>4. used' = u
  BY <1>1, <1>2
<1>5. /\ at < sig.generatedAt + StaleAfter /\ entry.state = "paper_eligible"
      /\ entry.report # None /\ sig.report = entry.report /\ sig.report \in Report
      /\ report[sig.report].strategy = s /\ report[sig.report].passed
      /\ report[sig.report].validUntil > at
  BY <1>1 DEF Eligible, Bound, Signal
<1>6. SaidBy(events[s], entry) /\ AuditInv(s) /\ Len(events[s]) \in Nat
  BY <1>0, <1>1 DEF RegistryInv, SeenInv, Shape
<1>7. PICK i \in 1..Len(events[s]) :
        /\ events[s][i].to = "paper_eligible" /\ events[s][i].report = sig.report
        /\ events[s][i].at = entry.updatedAt
  BY <1>5, <1>6 DEF SaidBy
<1>8. Filed(sig.report, s)
  BY <1>5, <1>6, <1>7 DEF AuditInv, Backed
<1>9. report[sig.report].validUntil \in Nat
  BY <1>5, <1>8 DEF RegistryInv, Shape, ReportRow, Filed
<1>10. Filed(u.report, u.strategy)' /\ report'[u.report].passed
  BY <1>3, <1>5, <1>8 DEF Filed
<1>11. UseInv'
  <2>1. events'[s] = events[s] /\ report' = report
    OBVIOUS
  <2>2. events'[s][i].at <= at
    BY <1>1, <1>7, <2>1
  <2>3. at < report'[sig.report].validUntil
    BY <1>0, <1>5, <1>9, <2>1
  <2> QED
    BY <1>1, <1>3, <1>4, <1>5, <1>7, <1>10, <2>1, <2>2, <2>3, ZenonT(30) DEF UseInv
<1>12. Moves /\ \A q \in Report : ReportInv(q)'
  BY <1>3, <1>4, TablesKept DEF RegistryInv, Shape
<1> QED
  BY <1>11, <1>12, StepKeepsRegistry

LEMMA DecisionKeeps ==
    ASSUME RegistryInv, NEW c \in Caller, CheckSignalEligibility(c)
    PROVE  RegistryInv'
<1>1. dbNow \in Nat /\ dbNow \in 0..dbNow /\ loaded[c] # None /\ signal[c] # None
  BY DEF RegistryInv, Shape, CheckSignalEligibility, DecidesEligible
<1>2. signal[c].generatedAt <= dbNow
  BY <1>1 DEF RegistryInv, SeenInv
<1>3. PICK s \in Strategies : s = loaded[c].strategy
  BY <1>1 DEF RegistryInv, Shape, Seen
<1>4. loaded[c].row.updatedAt <= dbNow
  <2>1. SaidBy(events[s], loaded[c].row) /\ AuditInv(s)
    BY <1>1, <1>3 DEF RegistryInv, SeenInv
  <2>2. PICK i \in 1..Len(events[s]) : events[s][i].at = loaded[c].row.updatedAt
    BY <2>1 DEF SaidBy
  <2> QED
    BY <2>1, <2>2 DEF AuditInv, Backed
<1> QED
  BY <1>1, <1>2, <1>4, UseKeeps DEF CheckSignalEligibility, DecidesEligible

LEMMA TargetKeeps ==
    ASSUME RegistryInv, NEW c \in Caller, NEW at \in 0..dbNow, SelectSignals(c, at)
    PROVE  RegistryInv'
  BY UseKeeps DEF SelectSignals, KnownAt

LEMMA RegistryStep == RegistryInv /\ [RegistryNext]_registryVars => RegistryInv'
<1> SUFFICES ASSUME RegistryInv, [RegistryNext]_registryVars PROVE RegistryInv'
  OBVIOUS
<1>1. CASE UNCHANGED registryVars
  <2>1. Moves /\ \A r \in Report : ReportInv(r)'
    BY <1>1, TablesKept DEF registryVars, RegistryInv, Shape
  <2> QED
    BY <1>1, <2>1, StepKeepsRegistry DEF registryVars
<1>2. CASE DbTick
  BY <1>2, TickKeeps
<1>3. ASSUME NEW s \in Strategies, NEW kind \in StrategyKind, Register(s, kind)
      PROVE  RegistryInv'
  BY <1>3, RegisterKeeps
<1>4. ASSUME NEW r \in Report, NEW s \in Strategies, NEW d \in Data, NEW created \in 0..dbNow,
             RegisterEvaluation(r, s, d, created)
      PROVE  RegistryInv'
  BY <1>4, EvaluationKeeps
<1>5. ASSUME NEW c \in Caller, NEW s \in Strategies, Get(c, s) PROVE RegistryInv'
  BY <1>5, GetKeeps
<1>6. ASSUME NEW c \in Caller, NEW to \in PromotionState, NEW r \in ReportId,
             ValidateTransition(c, to, r)
      PROVE  RegistryInv'
  BY <1>6, ValidateKeeps
<1>7. ASSUME NEW c \in Caller, ApplyTransition(c) PROVE RegistryInv'
  BY <1>7, ApplyKeeps
<1>8. ASSUME NEW c \in Caller, MapOpinion(c) \/ MapKronosForecast(c) PROVE RegistryInv'
  BY <1>8, MapKeeps
<1>9. ASSUME NEW c \in Caller, CheckSignalEligibility(c) PROVE RegistryInv'
  BY <1>9, DecisionKeeps
<1>10. ASSUME NEW c \in Caller, NEW at \in 0..dbNow, SelectSignals(c, at) PROVE RegistryInv'
  BY <1>10, TargetKeeps
<1> QED
  BY <1>1, <1>2, <1>3, <1>4, <1>5, <1>6, <1>7, <1>8, <1>9, <1>10 DEF RegistryNext

LEMMA RegistryStart == RegistryInit => RegistryInv
<1> SUFFICES ASSUME RegistryInit PROVE RegistryInv
  OBVIOUS
<1>1. Unregistered \in RegistryRow /\ Unregistered.version = 0
  BY DEF Unregistered, RegistryRow, StrategyKind, PromotionState, ReportId
<1>2. Shape
  BY <1>1 DEF RegistryInit, Shape
<1>3. \A s \in Strategies : AuditInv(s)
  BY <1>1 DEF RegistryInit, AuditInv, Registered
<1> QED
  BY <1>2, <1>3 DEF RegistryInit, RegistryInv, ReportInv, SeenInv, UseInv

-----------------------------------------------------------------------------

\* RegistryInvariant: what a caller read is at every moment what the event of
\* its version says, events are appended and linked, and a promotion names a
\* report that had passed and was valid when the event was appended
\* (strategy_repository.py, its triggers).
THEOREM RegistryInvariant == RegistrySpec => []RegistryInv
  BY RegistryStart, RegistryStep, PTL DEF RegistrySpec

LEMMA AuditedFollows == RegistryInv => RegistryAudited
<1> SUFFICES ASSUME RegistryInv PROVE RegistryAudited
  OBVIOUS
<1>1. RegistryTypeOK
  BY DEF RegistryInv, Shape, RegistryTypeOK
<1>2. EvaluationTable
  BY DEF RegistryInv, ReportInv, EvaluationTable
<1>3. ASSUME NEW s \in Strategies
      PROVE  /\ AuditTable(s)
             /\ Registered(s) => CurrentAudit(s, row[s]) /\ row[s].updatedAt = Last(events[s]).at
             /\ \A i \in DOMAIN events[s] :
                  LET e == events[s][i]
                  IN  e.to \in {"shadow", "paper_eligible"} =>
                        /\ report[e.report].strategy = s /\ report[e.report].passed
                        /\ e.at < report[e.report].validUntil
  <2>0. /\ events[s] \in Seq(AuditEvent) /\ row[s] \in RegistryRow /\ AuditInv(s)
        /\ row[s].version \in Nat /\ Len(events[s]) \in Nat /\ DOMAIN events[s] = 1..Len(events[s])
    BY DEF RegistryInv, Shape, RegistryRow
  <2>1. AuditTable(s)
    <3>1. ~Registered(s) => events[s] = <<>>
      BY <2>0 DEF AuditInv, Registered
    <3>2. ASSUME NEW i \in DOMAIN events[s]
          PROVE  (i = 1) = (events[s][i].from = "none")
      <4>1. CASE i = 1
        BY <2>0, <3>2, <4>1 DEF AuditInv
      <4>2. CASE i # 1
        <5>1. i \in 1..Len(events[s]) /\ i - 1 \in 1..Len(events[s])
          BY <2>0, <3>2, <4>2
        <5>2. events[s][i - 1] \in AuditEvent /\ events[s][i].from = events[s][i - 1].to
          BY <2>0, <4>2, <5>1 DEF AuditInv
        <5> QED
          BY <4>2, <5>2 DEF AuditEvent, PromotionState
      <4> QED
        BY <4>1, <4>2
    <3> QED
      BY <3>1, <3>2 DEF AuditTable
  <2>2. EventsAreLinked(events[s])
    BY <2>0 DEF AuditInv, EventsAreLinked
  <2>3. Registered(s) => CurrentAudit(s, row[s]) /\ row[s].updatedAt = Last(events[s]).at
    BY <2>0, <2>2 DEF AuditInv, CurrentAudit, Registered, SaidBy, Last
  <2>4. \A i \in DOMAIN events[s] : Backed(s, events[s][i])
    BY <2>0 DEF AuditInv
  <2> QED
    BY <2>1, <2>3, <2>4 DEF Backed, Filed
<1> QED
  BY <1>1, <1>2, <1>3 DEF RegistryAudited

\* RegistryStaysAudited: RegistryAudited holds in every state: a registry row is
\* what its linked audit events say, and every promotion rests on a report of
\* this strategy that had passed and was valid at the update, whatever happened
\* between validation and update (transition, _apply_transition_update).
THEOREM RegistryStaysAudited == RegistrySpec => []RegistryAudited
  BY RegistryInvariant, AuditedFollows, PTL

LEMMA UseFollows == RegistryInv => UseIsBacked
<1> SUFFICES ASSUME RegistryInv PROVE UseIsBacked
  OBVIOUS
<1>1. ASSUME used # None
      PROVE  /\ \E i \in DOMAIN events[used.strategy] :
                  LET e == events[used.strategy][i]
                  IN  /\ e.to = "paper_eligible" /\ e.report = used.report
                      /\ e.at <= used.asOf /\ e.at < report[used.report].validUntil
             /\ report[used.report].passed /\ report[used.report].strategy = used.strategy
             /\ used.asOf < report[used.report].validUntil
             /\ used.generatedAt <= used.asOf /\ used.asOf < used.generatedAt + StaleAfter
  <2>1. /\ used \in Use /\ used.strategy \in Strategies
        /\ events[used.strategy] \in Seq(AuditEvent) /\ AuditInv(used.strategy)
    BY <1>1 DEF RegistryInv, Shape, Use
  <2>2. PICK i \in 1..Len(events[used.strategy]) :
             /\ events[used.strategy][i].to = "paper_eligible"
             /\ events[used.strategy][i].report = used.report
             /\ events[used.strategy][i].at <= used.asOf
    BY <1>1 DEF RegistryInv, UseInv
  <2>3. events[used.strategy][i].at < report[used.report].validUntil
    BY <2>1, <2>2 DEF AuditInv, Backed
  <2>4. i \in DOMAIN events[used.strategy]
    BY <2>1, <2>2
  <2> QED
    BY <1>1, <2>2, <2>3, <2>4 DEF RegistryInv, UseInv, Filed
<1>2. ASSUME NEW c \in Caller, DecidesEligible(c)
      PROVE  /\ row[signal[c].strategy].state = "paper_eligible"
             /\ row[signal[c].strategy].report = signal[c].report
  <2>1. PICK s \in Strategies : s = loaded[c].strategy /\ s = signal[c].strategy
    BY <1>2 DEF DecidesEligible, RegistryInv, Shape, Seen
  <2>2. /\ loaded[c].row.state = "paper_eligible" /\ signal[c].report = loaded[c].row.report
        /\ CurrentAudit(s, loaded[c].row)
    BY <1>2, <2>1 DEF DecidesEligible, Eligible
  <2>3. AuditInv(s) /\ events[s] # <<>> /\ events[s] \in Seq(AuditEvent)
        /\ row[s].version \in Nat
    BY <2>2 DEF CurrentAudit, RegistryInv, Shape, RegistryRow
  <2>4. Registered(s) /\ row[s].version = Len(events[s])
    BY <2>3 DEF AuditInv, Registered
  <2>5. /\ Last(events[s]).to = row[s].state /\ Last(events[s]).report = row[s].report
    BY <2>3, <2>4 DEF AuditInv, SaidBy, Last
  <2> QED
    BY <2>1, <2>2, <2>5 DEF CurrentAudit
<1> QED
  BY <1>1, <1>2 DEF UseIsBacked

\* UsesAreBacked: UseIsBacked holds in every state: behind every decision and
\* every target there is a promotion on the report the signal carries, and an
\* eligibility decision on a row read earlier agrees with the row of this moment
\* (check_signal_eligibility, build_target).
THEOREM UsesAreBacked == RegistrySpec => []UseIsBacked
  BY RegistryInvariant, UseFollows, PTL
=============================================================================

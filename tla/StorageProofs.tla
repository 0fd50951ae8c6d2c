-------------------------- MODULE StorageProofs -----------------------------
(***************************************************************************)
(* Proofs about what is stored: the artifact store (Artifacts) first, then *)
(* the job that archives a data snapshot in it (Snapshot).                 *)
(***************************************************************************)
EXTENDS Artifacts, Snapshot, SequenceTheorems, WellFoundedInduction, TLAPS

-----------------------------------------------------------------------------
(***************************************************************************)
(* Proofs about the artifact store: for any calls, metadata, commands,     *)
(* retention and clock.                                                    *)
(*                                                                         *)
(* A maintenance command finds its versions in one call and changes them   *)
(* in later ones.  The inductive invariant carries what it found over the  *)
(* steps of everyone else: version ids are used once, so what it aims at   *)
(* is still that version or gone (Aimed), and no other command is under    *)
(* way (CommandInv).                                                       *)
(***************************************************************************)

USE ArtifactAssumption

StoredVersion ==
    [id : Nat, marker : BOOLEAN, at : Nat, until : Nat, hold : BOOLEAN,
     body : ArtifactManifest \cup {None}]

Target == Nat \cup {None} \cup (Nat \X Nat)
CommandPc ==
    {"start", "object", "list", "manifest", "verify", "delete", "done", "failed"}

MaintenanceCommand ==
    [op : Ops, action : ArtifactMaintenanceAction, goal : Nat,
     pc : CommandPc,
     target : Target]

Shape ==
    /\ obj \in Seq(StoredVersion) /\ man \in Seq(StoredVersion)
    /\ clk \in Nat /\ clk <= MaxTime
    /\ wr \in [Calls -> WriterState]
    /\ op \subseteq MaintenanceCommand
    /\ events \in Seq(ArtifactMaintenanceAuditEvent)
    /\ returned \subseteq ArtifactManifest \cup {None}
    /\ markers \in Nat /\ serial \in Nat

\* A version id is given out once.
IdsInv ==
    /\ \A v \in Range(obj) \cup Range(man) : v.id <= serial
    /\ \A u, v \in Range(obj) : u.id = v.id => u = v
    /\ \A u, v \in Range(man) : u.id = v.id => u = v
    /\ \A u \in Range(obj), v \in Range(man) : u.id # v.id

\* What the command found is what it still aims at.
Aimed(c) ==
    /\ c.action \in {"extend", "hold"} /\ c.pc \in {"object", "manifest"} =>
         /\ c.target \in Nat \X Nat
         /\ c.target[1] <= serial /\ c.target[2] <= serial
         /\ c.action = "extend" =>
              /\ \A v \in Range(obj) : v.id = c.target[1] => v.until <= c.goal
              /\ \A v \in Range(man) : v.id = c.target[2] => v.until <= c.goal
    /\ c.action = "restore" /\ c.pc = "object" =>
         c.target \in Nat /\ c.target <= serial /\ \A v \in Range(obj) : v.id = c.target => v.marker
    /\ c.action = "restore" /\ c.pc = "manifest" =>
         c.target \in Nat /\ c.target <= serial /\ \A v \in Range(man) : v.id = c.target => v.marker

\* A command under way is the open end of the audit chain, and alone.
CommandInv(c) ==
    /\ Announced /\ c.op = Last(events).op
    /\ \A d \in op : d = c
    /\ Aimed(c)

WriterInv(w) == wr[w].pc \notin {"idle", "over"} => wr[w].want \in ArtifactManifest

\* Nobody deleted anything: there is one manifest, and it is what was returned.
StoryInv ==
    markers = 0 =>
        /\ \A v \in Range(man) : ~v.marker
        /\ Len(man) <= 1
        /\ \A m \in returned : man # <<>> /\ m = man[1].body

StoreInv ==
    /\ Shape
    /\ IdsInv
    /\ \A c \in op : CommandInv(c)
    /\ \A w \in Calls : WriterInv(w)
    /\ StoryInv

-----------------------------------------------------------------------------
(* What a step does to the versions.                                       *)

Held == Range(obj) \cup Range(man)

Untouched == \A v \in Held : v \in Held' /\ \A u \in Held' : u.id = v.id => u = v

Tightens ==
    \A v \in Held :
        /\ \A u \in Held' : u.id = v.id => u.until >= v.until /\ (v.hold => u.hold)
        /\ (\E u \in Held' : u.id = v.id) \/ v.marker \/ ~Locked(v)

Accountable == Announced /\ \E c \in op : c.op = Last(events).op /\ c \notin op'

Accounted ==
    /\ \A v \in Range(obj) \cup Range(man) :
         IF Gone(v) THEN v.marker \/ ~Locked(v)
         ELSE Kept(v).until >= v.until /\ (v.hold => Kept(v).hold)
    /\ (\E v \in Range(obj) \cup Range(man) : Gone(v) \/ Kept(v) # v)
         => Announced /\ \E c \in op : c.op = Last(events).op /\ c \notin op'

LEMMA KeptHasItsId ==
    ASSUME NEW v, ~Gone(v)
    PROVE  Kept(v) \in Held' /\ Kept(v).id = v.id
  BY DEF Gone, Kept, Held

LEMMA StepIsAccounted ==
    ASSUME Tightens, Untouched \/ Accountable
    PROVE  Accounted
<1>1. ASSUME NEW v \in Held
      PROVE  IF Gone(v) THEN v.marker \/ ~Locked(v)
             ELSE Kept(v).until >= v.until /\ (v.hold => Kept(v).hold)
  <2>1. CASE Gone(v)
    BY <2>1 DEF Tightens, Gone, Held
  <2>2. CASE ~Gone(v)
    <3>1. PICK u : u = Kept(v)
      OBVIOUS
    <3>2. u \in Held' /\ u.id = v.id
      BY <2>2, <3>1, KeptHasItsId
    <3> QED
      BY <2>2, <3>1, <3>2 DEF Tightens
  <2> QED
    BY <2>1, <2>2
<1>2. ASSUME NEW v \in Held, Gone(v) \/ Kept(v) # v PROVE ~Untouched
  <2>1. CASE Gone(v)
    BY <2>1 DEF Untouched, Gone, Held
  <2>2. CASE ~Gone(v)
    <3>1. PICK u : u = Kept(v)
      OBVIOUS
    <3>2. u \in Held' /\ u.id = v.id
      BY <2>2, <3>1, KeptHasItsId
    <3> QED
      BY <1>2, <2>2, <3>1, <3>2 DEF Untouched
  <2> QED
    BY <2>1, <2>2
<1> QED
  BY <1>1, <1>2 DEF Accounted, Accountable, Held

LEMMA UntouchedTightens ==
    ASSUME StoreInv, Untouched PROVE Tightens
<1>1. ASSUME NEW v \in Held PROVE v.until \in Nat
  <2>1. ASSUME NEW vs \in Seq(StoredVersion), v \in Range(vs) PROVE v \in StoredVersion
    BY <2>1 DEF Range
  <2>2. v \in StoredVersion
    BY <1>1, <2>1 DEF Held, StoreInv, Shape
  <2> QED
    BY <2>2 DEF StoredVersion
<1> QED
  BY <1>1 DEF Untouched, Tightens

-----------------------------------------------------------------------------
(* Sequences of versions.                                                  *)

LEMMA RangeOfAppend ==
    ASSUME NEW vs \in Seq(StoredVersion), NEW v \in StoredVersion
    PROVE  /\ Append(vs, v) \in Seq(StoredVersion)
           /\ Range(Append(vs, v)) = Range(vs) \cup {v}
           /\ Range(vs) \subseteq StoredVersion
<1>1. Append(vs, v) \in Seq(StoredVersion) /\ Len(Append(vs, v)) = Len(vs) + 1
      /\ DOMAIN vs = 1..Len(vs) /\ DOMAIN Append(vs, v) = 1..(Len(vs) + 1) /\ Len(vs) \in Nat
  OBVIOUS
<1>2. /\ \A i \in 1..Len(vs) : Append(vs, v)[i] = vs[i]
      /\ Append(vs, v)[Len(vs) + 1] = v
  BY <1>1
<1>3. Range(Append(vs, v)) \subseteq Range(vs) \cup {v}
  BY <1>1, <1>2 DEF Range
<1>4. ASSUME NEW u \in Range(vs) PROVE u \in Range(Append(vs, v))
  <2>1. PICK i \in 1..Len(vs) : u = vs[i]
    BY <1>1 DEF Range
  <2> QED
    BY <1>1, <1>2, <2>1 DEF Range
<1>5. v \in Range(Append(vs, v))
  BY <1>1, <1>2 DEF Range
<1> QED
  BY <1>1, <1>3, <1>4, <1>5 DEF Range

\* A cut of a sequence.
LEMMA CutIs ==
    ASSUME NEW vs \in Seq(StoredVersion), NEW from \in 1..(Len(vs) + 1), NEW to \in 0..Len(vs),
           from <= to + 1
    PROVE  /\ SubSeq(vs, from, to) \in Seq(StoredVersion)
           /\ Len(SubSeq(vs, from, to)) = to - from + 1
           /\ \A i \in 1..(to - from + 1) : SubSeq(vs, from, to)[i] = vs[from + i - 1]
<1>1. \A i \in from..to : vs[i] \in StoredVersion
  OBVIOUS
<1>2. from \in Int /\ to \in Int
  OBVIOUS
<1>3. /\ SubSeq(vs, from, to) \in Seq(StoredVersion)
      /\ Len(SubSeq(vs, from, to)) = IF from <= to THEN to - from + 1 ELSE 0
      /\ \A i \in 1..(to - from + 1) : SubSeq(vs, from, to)[i] = vs[from + i - 1]
  BY <1>1, <1>2, SubSeqProperties
<1>4. from <= to \/ to - from + 1 = 0
  BY <1>2
<1> QED
  BY <1>2, <1>3, <1>4

LEMMA RemoveAtIs ==
    ASSUME NEW vs \in Seq(StoredVersion), NEW n \in 1..Len(vs)
    PROVE  /\ RemoveAt(vs, n) \in Seq(StoredVersion)
           /\ Len(RemoveAt(vs, n)) = Len(vs) - 1
           /\ DOMAIN RemoveAt(vs, n) = 1..(Len(vs) - 1)
           /\ \A i \in 1..(Len(vs) - 1) :
                RemoveAt(vs, n)[i] = IF i < n THEN vs[i] ELSE vs[i + 1]
<1>1. PICK len \in Nat : len = Len(vs)
  OBVIOUS
<1>2. PICK before \in 0..len, after \in 1..(len + 1) : before = n - 1 /\ after = n + 1
  BY <1>1
<1>3. PICK a \in Seq(StoredVersion) :
        /\ a = SubSeq(vs, 1, before) /\ Len(a) = before
        /\ \A i \in 1..before : a[i] = vs[i]
  <2>1. 1 \in 1..(Len(vs) + 1) /\ before \in 0..Len(vs) /\ 1 <= before + 1
    BY <1>1, <1>2
  <2>2. /\ SubSeq(vs, 1, before) \in Seq(StoredVersion)
        /\ Len(SubSeq(vs, 1, before)) = before - 1 + 1
        /\ \A i \in 1..(before - 1 + 1) : SubSeq(vs, 1, before)[i] = vs[1 + i - 1]
    BY <2>1, CutIs
  <2>3. before - 1 + 1 = before /\ \A i \in 1..before : 1 + i - 1 = i
    BY <1>2
  <2> QED
    BY <2>2, <2>3
<1>4. PICK b \in Seq(StoredVersion) :
        /\ b = SubSeq(vs, after, len) /\ Len(b) = len - n
        /\ \A i \in 1..(len - n) : b[i] = vs[n + i]
  <2>1. after \in 1..(Len(vs) + 1) /\ len \in 0..Len(vs) /\ after <= len + 1
    BY <1>1, <1>2
  <2>2. /\ SubSeq(vs, after, len) \in Seq(StoredVersion)
        /\ Len(SubSeq(vs, after, len)) = len - after + 1
        /\ \A i \in 1..(len - after + 1) : SubSeq(vs, after, len)[i] = vs[after + i - 1]
    BY <2>1, CutIs
  <2>3. len - after + 1 = len - n
    BY <1>1, <1>2
  <2>4. ASSUME NEW i \in 1..(len - n) PROVE SubSeq(vs, after, len)[i] = vs[n + i]
    <3>1. after + i - 1 = n + i
      BY <1>1, <1>2
    <3> QED
      BY <2>2, <2>3, <3>1
  <2> QED
    BY <2>2, <2>3, <2>4
<1>5. PICK ws \in Seq(StoredVersion) : ws = RemoveAt(vs, n) /\ ws = a \o b
  BY <1>1, <1>2, <1>3, <1>4, ConcatProperties DEF RemoveAt
<1>6. /\ Len(ws) = len - 1 /\ DOMAIN ws = 1..(len - 1)
      /\ \A i \in 1..(len - 1) : ws[i] = IF i <= before THEN a[i] ELSE b[i - before]
  <2>1. /\ Len(ws) = Len(a) + Len(b)
        /\ \A i \in 1..(Len(a) + Len(b)) : ws[i] = IF i <= Len(a) THEN a[i] ELSE b[i - Len(a)]
    <3>1. /\ Len(a \o b) = Len(a) + Len(b)
          /\ \A i \in 1..(Len(a) + Len(b)) :
               (a \o b)[i] = IF i <= Len(a) THEN a[i] ELSE b[i - Len(a)]
      BY ConcatProperties
    <3>2. ws = a \o b
      BY <1>5
    <3> QED
      BY <3>1, <3>2
  <2>2. Len(a) + Len(b) = len - 1
    <3>1. Len(a) = before /\ Len(b) = len - n
      BY <1>3, <1>4
    <3>2. before + (len - n) = len - 1
      <4>1. n \in Int /\ len \in Int /\ before = n - 1
        BY <1>1, <1>2
      <4> QED
        BY <4>1
    <3> QED
      BY <3>1, <3>2
  <2> QED
    BY <1>3, <1>5, <2>1, <2>2
<1>7. ASSUME NEW i \in 1..(len - 1) PROVE ws[i] = IF i < n THEN vs[i] ELSE vs[i + 1]
  <2>1. CASE i < n
    <3>1. i <= before /\ i \in 1..before
      BY <1>1, <1>2, <2>1
    <3> QED
      BY <1>3, <1>6, <2>1, <3>1
  <2>2. CASE ~(i < n)
    <3>1. ~(i <= before) /\ i - before \in 1..(len - n) /\ n + (i - before) = i + 1
      BY <1>1, <1>2, <2>2
    <3> QED
      BY <1>4, <1>6, <2>2, <3>1
  <2> QED
    BY <2>1, <2>2
<1> QED
  BY <1>1, <1>5, <1>6, <1>7

LEMMA RangeIsStored ==
    ASSUME NEW vs \in Seq(StoredVersion)
    PROVE  /\ Range(vs) \subseteq StoredVersion
           /\ \A v \in Range(vs) : v.id \in Nat /\ v.until \in Nat
<1>1. ASSUME NEW v \in Range(vs) PROVE v \in StoredVersion
  BY <1>1 DEF Range
<1> QED
  BY <1>1 DEF StoredVersion

LEMMA RangeOfWithout ==
    ASSUME NEW vs \in Seq(StoredVersion), NEW id
    PROVE  /\ Without(vs, id) \in Seq(StoredVersion)
           /\ Range(Without(vs, id)) \subseteq Range(vs)
           /\ \A v \in Range(vs) : v.id # id => v \in Range(Without(vs, id))
           /\ (\A v \in Range(vs) : v.id # id) => Without(vs, id) = vs
<1>1. CASE \A v \in Range(vs) : v.id # id
  BY <1>1 DEF Without, Range
<1>2. CASE \E i \in DOMAIN vs : vs[i].id = id
  <2>1. PICK n \in DOMAIN vs : vs[n].id = id /\ n = CHOOSE i \in DOMAIN vs : vs[i].id = id
    BY <1>2
  <2> DEFINE ws == RemoveAt(vs, n)
             len == Len(vs)
  <2>2. Without(vs, id) = ws
    BY <1>2, <2>1 DEF Without
  <2>3. len \in Nat /\ DOMAIN vs = 1..len /\ n \in 1..len
    BY <2>1
  <2>4. /\ ws \in Seq(StoredVersion) /\ Len(ws) = len - 1 /\ DOMAIN ws = 1..(len - 1)
        /\ \A i \in 1..(len - 1) : ws[i] = IF i < n THEN vs[i] ELSE vs[i + 1]
    BY <2>3, RemoveAtIs
  <2> HIDE DEF ws
  <2>6. ASSUME NEW v \in Range(ws) PROVE v \in Range(vs)
    <3>1. PICK i \in 1..(len - 1) : v = ws[i]
      BY <2>4 DEF Range
    <3>2. PICK j \in 1..len : v = vs[j]
      BY <2>3, <2>4, <3>1
    <3> QED
      BY <2>3, <3>2 DEF Range
  <2>7. ASSUME NEW v \in Range(vs), v.id # id PROVE v \in Range(ws)
    <3>1. PICK j \in 1..len : v = vs[j]
      BY <2>3 DEF Range
    <3>2. j # n
      BY <2>1, <2>7, <3>1
    <3>3. CASE j < n
      <4>1. j \in 1..(len - 1) /\ ws[j] = v
        BY <2>3, <2>4, <3>1, <3>3
      <4> QED
        BY <2>4, <4>1 DEF Range
    <3>4. CASE j > n
      <4>1. j - 1 \in 1..(len - 1) /\ ws[j - 1] = v
        BY <2>3, <2>4, <3>1, <3>4
      <4> QED
        BY <2>4, <4>1 DEF Range
    <3> QED
      BY <2>3, <3>2, <3>3, <3>4
  <2> QED
    BY <1>2, <2>2, <2>4, <2>6, <2>7 DEF Range
<1> QED
  BY <1>1, <1>2 DEF Range

LEMMA RangeOfChange ==
    ASSUME NEW vs \in Seq(StoredVersion), NEW id, NEW ws,
           \/ \E goal \in Nat : ws = Change(vs, id, "until", goal)
           \/ ws = Change(vs, id, "hold", TRUE)
    PROVE  /\ ws \in Seq(StoredVersion) /\ Len(ws) = Len(vs)
           /\ \A i \in 1..Len(vs) :
                /\ ws[i].id = vs[i].id /\ ws[i].marker = vs[i].marker /\ ws[i].body = vs[i].body
                /\ vs[i].id # id => ws[i] = vs[i]
                /\ vs[i].hold => ws[i].hold
<1>1. /\ Len(vs) \in Nat /\ DOMAIN vs = 1..Len(vs)
      /\ \A i \in 1..Len(vs) : vs[i] \in StoredVersion
  OBVIOUS
<1>2. DOMAIN ws = 1..Len(vs)
  BY <1>1 DEF Change
<1>3. ASSUME NEW i \in 1..Len(vs)
      PROVE  /\ ws[i] \in StoredVersion
             /\ ws[i].id = vs[i].id /\ ws[i].marker = vs[i].marker /\ ws[i].body = vs[i].body
             /\ vs[i].id # id => ws[i] = vs[i]
             /\ vs[i].hold => ws[i].hold
  <2>1. PICK v \in StoredVersion : v = vs[i]
    BY <1>1
  <2>2. ASSUME NEW goal \in Nat
        PROVE  /\ [v EXCEPT !["until"] = goal] \in StoredVersion
               /\ [v EXCEPT !["until"] = goal].id = v.id
               /\ [v EXCEPT !["until"] = goal].marker = v.marker
               /\ [v EXCEPT !["until"] = goal].body = v.body
               /\ [v EXCEPT !["until"] = goal].hold = v.hold
    BY <2>2 DEF StoredVersion
  <2>3. /\ [v EXCEPT !["hold"] = TRUE] \in StoredVersion
        /\ [v EXCEPT !["hold"] = TRUE].id = v.id
        /\ [v EXCEPT !["hold"] = TRUE].marker = v.marker
        /\ [v EXCEPT !["hold"] = TRUE].body = v.body
        /\ [v EXCEPT !["hold"] = TRUE].hold
    BY DEF StoredVersion
  <2>4. \/ ws[i] = v
        \/ v.id = id /\ \E goal \in Nat : ws[i] = [v EXCEPT !["until"] = goal]
        \/ v.id = id /\ ws[i] = [v EXCEPT !["hold"] = TRUE]
    BY <1>1, <2>1 DEF Change
  <2> QED
    BY <2>1, <2>2, <2>3, <2>4
<1>4. ws \in Seq(StoredVersion) /\ Len(ws) = Len(vs)
  <2>1. ws = [i \in 1..Len(vs) |-> ws[i]]
    BY <1>1 DEF Change
  <2> QED
    BY <1>1, <1>3, <2>1
<1> QED
  BY <1>3, <1>4

\* An extension reaches its goal and leaves the rest.
LEMMA RangeOfExtension ==
    ASSUME NEW vs \in Seq(StoredVersion), NEW id, NEW goal \in Nat, NEW i \in 1..Len(vs)
    PROVE  Change(vs, id, "until", goal)[i].until = IF vs[i].id = id THEN goal ELSE vs[i].until
<1>1. PICK v \in StoredVersion : v = vs[i]
  OBVIOUS
<1>2. [v EXCEPT !["until"] = goal].until = goal
  BY DEF StoredVersion
<1> QED
  BY <1>1, <1>2 DEF Change

LEMMA RangeOfHold ==
    ASSUME NEW vs \in Seq(StoredVersion), NEW id, NEW i \in 1..Len(vs)
    PROVE  Change(vs, id, "hold", TRUE)[i].until = vs[i].until
<1>1. PICK v \in StoredVersion : v = vs[i]
  OBVIOUS
<1>2. [v EXCEPT !["hold"] = TRUE].until = v.until
  BY DEF StoredVersion
<1> QED
  BY <1>1, <1>2 DEF Change

-----------------------------------------------------------------------------
(* Keys: a version is added with the next id, or the keys stay.            *)

Added(vs, ws) ==
    \/ ws = vs
    \/ \E v \in StoredVersion : ws = Append(vs, v) /\ v.id = serial + 1 /\ serial' = serial + 1

KeysGrow ==
    /\ serial' \in {serial, serial + 1}
    /\ Added(obj, obj') /\ Added(man, man')
    /\ obj' = obj \/ man' = man

\* IdsInv, of two sets of versions and the ids given out.
DistinctIds(A, B, n) ==
    /\ \A v \in A \cup B : v.id <= n /\ v.id \in Nat
    /\ \A u, v \in A : u.id = v.id => u = v
    /\ \A u, v \in B : u.id = v.id => u = v
    /\ \A u \in A, v \in B : u.id # v.id

LEMMA OneMore ==
    ASSUME NEW A, NEW B, NEW n \in Nat, NEW v, v.id = n + 1, DistinctIds(A, B, n)
    PROVE  DistinctIds(A \cup {v}, B, n + 1)
<1>1. \A u \in A \cup B : u.id <= n /\ u.id \in Nat /\ u.id # n + 1 /\ u.id <= n + 1
  BY DEF DistinctIds
<1> QED
  BY <1>1 DEF DistinctIds

LEMMA GrowthTouchesNothing ==
    ASSUME StoreInv, KeysGrow
    PROVE  /\ obj' \in Seq(StoredVersion) /\ man' \in Seq(StoredVersion) /\ serial' \in Nat
           /\ IdsInv' /\ Untouched
           /\ \A v \in Held' : v \in Held \/ v.id > serial
           /\ Range(obj) \subseteq Range(obj') /\ Range(man) \subseteq Range(man')
           /\ \A v \in Range(obj') : v \in Range(obj) \/ v.id > serial
           /\ \A v \in Range(man') : v \in Range(man) \/ v.id > serial
<1>0. /\ obj \in Seq(StoredVersion) /\ man \in Seq(StoredVersion) /\ serial \in Nat /\ IdsInv
      /\ serial' \in Nat /\ serial' >= serial
  BY DEF StoreInv, Shape, KeysGrow
<1>1. ASSUME NEW vs \in Seq(StoredVersion), NEW ws, Added(vs, ws)
      PROVE  /\ ws \in Seq(StoredVersion) /\ Range(vs) \subseteq StoredVersion
             /\ \/ Range(ws) = Range(vs)
                \/ \E v \in StoredVersion : /\ Range(ws) = Range(vs) \cup {v}
                                            /\ v.id = serial + 1 /\ serial' = serial + 1
  <2>1. CASE ws = vs
    BY <1>1, <2>1, RangeIsStored
  <2>2. ASSUME NEW v \in StoredVersion, ws = Append(vs, v), v.id = serial + 1,
               serial' = serial + 1
        PROVE  /\ ws \in Seq(StoredVersion) /\ Range(vs) \subseteq StoredVersion
               /\ Range(ws) = Range(vs) \cup {v}
    BY <2>2, RangeOfAppend
  <2> QED
    BY <1>1, <2>1, <2>2 DEF Added
<1>2. PICK A, B, A1, B1 : A = Range(obj) /\ B = Range(man) /\ A1 = Range(obj') /\ B1 = Range(man')
  OBVIOUS
<1>3. /\ obj' \in Seq(StoredVersion) /\ man' \in Seq(StoredVersion)
      /\ A \subseteq StoredVersion /\ B \subseteq StoredVersion
      /\ \/ A1 = A /\ B1 = B
         \/ A1 = A /\ \E v \in StoredVersion : B1 = B \cup {v} /\ v.id = serial + 1 /\ serial' = serial + 1
         \/ B1 = B /\ \E v \in StoredVersion : A1 = A \cup {v} /\ v.id = serial + 1 /\ serial' = serial + 1
  <2>1. Added(obj, obj') /\ Added(man, man') /\ (obj' = obj \/ man' = man)
    BY DEF KeysGrow
  <2>2. CASE obj' = obj
    BY <1>0, <1>1, <1>2, <2>1, <2>2
  <2>3. CASE man' = man
    BY <1>0, <1>1, <1>2, <2>1, <2>3
  <2> QED
    BY <2>1, <2>2, <2>3
<1>4. DistinctIds(A, B, serial)
  BY <1>0, <1>2, <1>3 DEF IdsInv, StoredVersion, DistinctIds
<1>5. /\ DistinctIds(A1, B1, serial') /\ A \subseteq A1 /\ B \subseteq B1
      /\ \A v \in A1 \ A : v.id > serial
      /\ \A v \in B1 \ B : v.id > serial
  <2>1. CASE A1 = A /\ B1 = B
    BY <1>0, <1>4, <2>1 DEF DistinctIds
  <2>2. CASE A1 = A /\ \E v : B1 = B \cup {v} /\ v.id = serial + 1 /\ serial' = serial + 1
    <3>1. PICK v : B1 = B \cup {v} /\ v.id = serial + 1 /\ serial' = serial + 1
      BY <2>2
    <3>2. DistinctIds(B1, A1, serial')
      <4>1. DistinctIds(B, A, serial)
        BY <1>4 DEF DistinctIds
      <4>2. DistinctIds(B \cup {v}, A, serial + 1)
        BY <1>0, <3>1, <4>1, OneMore
      <4> QED
        BY <2>2, <3>1, <4>2
    <3> QED
      BY <1>0, <2>2, <3>1, <3>2 DEF DistinctIds
  <2>3. CASE B1 = B /\ \E v : A1 = A \cup {v} /\ v.id = serial + 1 /\ serial' = serial + 1
    <3>1. PICK v : A1 = A \cup {v} /\ v.id = serial + 1 /\ serial' = serial + 1
      BY <2>3
    <3>2. DistinctIds(A1, B1, serial')
      BY <1>0, <1>4, <2>3, <3>1, OneMore
    <3> QED
      BY <1>0, <2>3, <3>1, <3>2
  <2> QED
    BY <1>3, <2>1, <2>2, <2>3
<1>6. IdsInv'
  BY <1>2, <1>5 DEF IdsInv, DistinctIds
<1>7. Untouched
  BY <1>2, <1>4, <1>5 DEF Untouched, Held, DistinctIds
<1> QED
  BY <1>0, <1>2, <1>3, <1>5, <1>6, <1>7 DEF Held

\* What others add is not what a command aims at.
LEMMA AimStaysOnGrowth ==
    ASSUME StoreInv, KeysGrow, NEW c \in MaintenanceCommand, Aimed(c)
    PROVE  Aimed(c)'
<1>1. /\ serial \in Nat /\ serial' \in Nat /\ serial <= serial'
      /\ \A v \in Range(obj') : v \in Range(obj) \/ v.id > serial
      /\ \A v \in Range(man') : v \in Range(man) \/ v.id > serial
      /\ obj' \in Seq(StoredVersion) /\ man' \in Seq(StoredVersion)
  BY GrowthTouchesNothing, SMTT(30) DEF StoreInv, Shape, KeysGrow
<1>2. \A v \in Range(obj') \cup Range(man') : v.id \in Nat
  BY <1>1, RangeIsStored
<1>3. PICK t : t = c.target
  OBVIOUS
<1>4. t \in Nat \X Nat => t[1] \in Nat /\ t[2] \in Nat
  OBVIOUS
<1> QED
  BY <1>1, <1>2, <1>3, <1>4, SMTT(30) DEF Aimed

-----------------------------------------------------------------------------
(* The calls of finalize.                                                  *)

Goal == StoreInv' /\ Tightens /\ (Untouched \/ Accountable)

\* A step of anyone but a command: keys grow, the command under way stays.
LEMMA StepOfOthers ==
    ASSUME StoreInv, KeysGrow, op' = op, events' = events,
           clk' \in Nat, clk' <= MaxTime, wr' \in [Calls -> WriterState],
           returned' \subseteq ArtifactManifest \cup {None}, markers' \in Nat,
           \A w \in Calls : WriterInv(w)', StoryInv'
    PROVE  Goal
<1>1. /\ obj' \in Seq(StoredVersion) /\ man' \in Seq(StoredVersion) /\ serial' \in Nat
      /\ IdsInv' /\ Untouched
  BY GrowthTouchesNothing
<1>2. Shape'
  BY <1>1 DEF StoreInv, Shape
<1>3. ASSUME NEW c \in op' PROVE CommandInv(c)'
  <2>1. c \in MaintenanceCommand /\ CommandInv(c)
    BY <1>3 DEF StoreInv, Shape
  <2>2. Aimed(c)'
    BY <2>1, AimStaysOnGrowth DEF CommandInv
  <2> QED
    BY <2>1, <2>2 DEF CommandInv, Announced
<1>4. StoreInv'
  BY <1>1, <1>2, <1>3 DEF StoreInv
<1> QED
  BY <1>1, <1>4, UntouchedTightens DEF Goal

LEMMA WriterMoves ==
    ASSUME StoreInv, NEW w \in Calls, NEW x \in WriterState,
           x.pc \notin {"idle", "over"} => x.want \in ArtifactManifest,
           wr' = [wr EXCEPT ![w] = x]
    PROVE  wr' \in [Calls -> WriterState] /\ \A u \in Calls : WriterInv(u)'
  BY DEF StoreInv, Shape, WriterInv

LEMMA GotoMoves ==
    ASSUME StoreInv, NEW w \in Calls, NEW pc \in {"put", "verify", "publish", "confirm"},
           wr[w].pc \notin {"idle", "over"}, Goto(w, pc)
    PROVE  wr' \in [Calls -> WriterState] /\ \A u \in Calls : WriterInv(u)'
<1>1. wr \in [Calls -> WriterState] /\ wr[w].want \in ArtifactManifest
  BY DEF StoreInv, Shape, WriterInv
<1>2. PICK x : x = [wr[w] EXCEPT !.pc = pc]
  OBVIOUS
<1>3. PICK y \in WriterState : y = wr[w]
  BY <1>1
<1>4. x \in WriterState /\ x.want = y.want
  BY <1>2, <1>3 DEF WriterState
<1>5. wr' = [wr EXCEPT ![w] = x]
  BY <1>1, <1>2 DEF Goto
<1> QED
  BY <1>1, <1>3, <1>4, <1>5, WriterMoves

LEMMA EndsMoves ==
    ASSUME StoreInv, NEW w \in Calls, Ends(w)
    PROVE  wr' \in [Calls -> WriterState] /\ \A u \in Calls : WriterInv(u)'
<1>1. PICK x : x = [Idle EXCEPT !.pc = "over"]
  OBVIOUS
<1>2. x \in WriterState /\ x.pc = "over"
  BY <1>1 DEF Idle, WriterState
<1>3. wr' = [wr EXCEPT ![w] = x]
  BY <1>1 DEF Ends
<1> QED
  BY <1>2, <1>3, WriterMoves

LEMMA KeysStay ==
    ASSUME obj' = obj, man' = man, serial' = serial PROVE KeysGrow
  BY DEF KeysGrow, Added

LEMMA StoryStays ==
    ASSUME StoreInv, man' = man, returned' = returned, markers' = markers PROVE StoryInv'
  BY DEF StoreInv, StoryInv

\* A conditional PUT adds a version of the next id, or nothing.
LEMMA PutAdds ==
    ASSUME StoreInv, NEW vs \in Seq(StoredVersion), NEW m \in ArtifactManifest,
           serial' = serial + (Len(Put(vs, m)) - Len(vs))
    PROVE  /\ Stored(m) \in StoredVersion
           /\ Added(vs, Put(vs, m)) /\ serial' \in {serial, serial + 1}
<1>0. clk \in Nat /\ serial \in Nat /\ Len(vs) \in Nat
  BY DEF StoreInv, Shape
<1>1. m.at \in Nat
  BY DEF ArtifactManifest, Time
<1>2. RetainUntil(m) \in Nat
  BY <1>1 DEF RetainUntil
<1>3. Stored(m) \in StoredVersion /\ Stored(m).id = serial + 1
  BY <1>0, <1>2 DEF Stored, StoredVersion
<1>4. CASE HasCurrent(vs)
  <2>1. Put(vs, m) = vs
    BY <1>4 DEF Put
  <2> QED
    BY <1>0, <1>3, <2>1 DEF Added
<1>5. CASE ~HasCurrent(vs)
  <2>1. Put(vs, m) = Append(vs, Stored(m))
    BY <1>5 DEF Put
  <2>2. Len(Append(vs, Stored(m))) = Len(vs) + 1
    BY <1>3
  <2>3. serial' = serial + 1
    BY <1>0, <2>1, <2>2
  <2> QED
    BY <1>3, <2>1, <2>3 DEF Added
<1> QED
  BY <1>4, <1>5

\* The manifest that a call returns is the one that is stored.
LEMMA ReconcileKeeps ==
    ASSUME StoreInv, NEW w \in Calls, Reconcile(w), man' = man, markers' = markers
    PROVE  /\ wr' \in [Calls -> WriterState] /\ \A u \in Calls : WriterInv(u)'
           /\ returned' \subseteq ArtifactManifest \cup {None}
           /\ StoryInv'
<1>1. wr' \in [Calls -> WriterState] /\ \A u \in Calls : WriterInv(u)'
  BY EndsMoves DEF Reconcile
<1>2. CASE returned' = returned
  BY <1>1, <1>2, StoryStays DEF StoreInv, Shape
<1>3. CASE returned' # returned
  <2>1. returned' = returned \cup {Last(man).body} /\ man # <<>>
    BY <1>3 DEF Reconcile, Reconciles, EnvelopeReads, HasCurrent
  <2>2. man \in Seq(StoredVersion) /\ Len(man) \in Nat /\ Len(man) # 0
    BY <2>1 DEF StoreInv, Shape
  <2>3. Last(man) \in StoredVersion
    BY <2>2 DEF Last
  <2>4. Last(man).body \in ArtifactManifest \cup {None}
    BY <2>3 DEF StoredVersion
  <2>5. Len(man) <= 1 => Last(man) = man[1]
    BY <2>2 DEF Last
  <2> QED
    BY <1>1, <2>1, <2>4, <2>5 DEF StoreInv, Shape, StoryInv
<1> QED
  BY <1>2, <1>3

LEMMA FinalizeKeeps ==
    ASSUME StoreInv, NEW w \in Calls, NEW m \in Metas, Finalize(w, m) PROVE Goal
<1>1. PICK x : x = [pc |-> "lookup", want |-> [meta |-> m, at |-> clk]]
  OBVIOUS
<1>2. [meta |-> m, at |-> clk] \in ArtifactManifest
  BY DEF StoreInv, Shape, ArtifactManifest, Time
<1>3. x \in WriterState /\ x.want \in ArtifactManifest
  BY <1>1, <1>2 DEF WriterState
<1>4. wr' \in [Calls -> WriterState] /\ \A u \in Calls : WriterInv(u)'
  BY <1>1, <1>3, WriterMoves DEF Finalize
<1>5. KeysGrow /\ StoryInv'
  BY KeysStay, StoryStays DEF Finalize
<1> QED
  BY <1>4, <1>5, StepOfOthers DEF Finalize, StoreInv, Shape

LEMMA ReadsKeep ==
    ASSUME StoreInv, NEW w \in Calls,
           Lookup(w) \/ VerifyObject(w) \/ Confirm(w) \/ Abandon(w)
    PROVE  Goal
<1>1. /\ obj' = obj /\ man' = man /\ clk' = clk /\ op' = op /\ events' = events
      /\ markers' = markers /\ serial' = serial
  BY DEF Lookup, VerifyObject, Confirm, Abandon
<1>2. /\ wr' \in [Calls -> WriterState] /\ \A u \in Calls : WriterInv(u)'
      /\ returned' \subseteq ArtifactManifest \cup {None} /\ StoryInv'
  <2>1. CASE Reconcile(w)
    BY <1>1, <2>1, ReconcileKeeps
  <2>2. CASE returned' = returned /\ Ends(w)
    BY <1>1, <2>2, EndsMoves, StoryStays DEF StoreInv, Shape
  <2>3. ASSUME returned' = returned, wr[w].pc \notin {"idle", "over"},
               Goto(w, "put") \/ Goto(w, "publish")
        PROVE  /\ wr' \in [Calls -> WriterState] /\ \A u \in Calls : WriterInv(u)'
               /\ returned' \subseteq ArtifactManifest \cup {None} /\ StoryInv'
    <3>1. wr' \in [Calls -> WriterState] /\ \A u \in Calls : WriterInv(u)'
      BY <2>3, GotoMoves
    <3> QED
      BY <1>1, <2>3, <3>1, StoryStays DEF StoreInv, Shape
  <2> QED
    BY <2>1, <2>2, <2>3 DEF Lookup, VerifyObject, Confirm, Abandon
<1>3. KeysGrow
  BY <1>1, KeysStay
<1> QED
  BY <1>1, <1>2, <1>3, StepOfOthers DEF StoreInv, Shape

LEMMA EnsureKeeps ==
    ASSUME StoreInv, NEW w \in Calls, EnsureObject(w) PROVE Goal
<1>0. wr[w].want \in ArtifactManifest /\ wr[w].pc \notin {"idle", "over"} /\ obj \in Seq(StoredVersion)
  BY DEF StoreInv, Shape, WriterInv, EnsureObject
<1>1. PICK m \in ArtifactManifest : m = wr[w].want
  BY <1>0
<1>2. obj' = Put(obj, m) /\ serial' = serial + (Len(Put(obj, m)) - Len(obj)) /\ man' = man
  BY <1>1 DEF EnsureObject
<1>3. KeysGrow
  <2>1. Added(obj, Put(obj, m)) /\ serial' \in {serial, serial + 1}
    BY <1>0, <1>2, PutAdds
  <2> QED
    BY <1>2, <2>1 DEF KeysGrow, Added
<1>4. wr' \in [Calls -> WriterState] /\ \A u \in Calls : WriterInv(u)'
  BY <1>0, GotoMoves DEF EnsureObject
<1>5. StoryInv'
  BY StoryStays DEF EnsureObject
<1> QED
  BY <1>3, <1>4, <1>5, StepOfOthers DEF EnsureObject, StoreInv, Shape

LEMMA PublishKeeps ==
    ASSUME StoreInv, NEW w \in Calls, PublishManifest(w) PROVE Goal
<1>0. wr[w].want \in ArtifactManifest /\ wr[w].pc \notin {"idle", "over"} /\ man \in Seq(StoredVersion)
  BY DEF StoreInv, Shape, WriterInv, PublishManifest
<1>1. PICK m \in ArtifactManifest : m = wr[w].want
  BY <1>0
<1>2. man' = Put(man, m) /\ serial' = serial + (Len(Put(man, m)) - Len(man)) /\ obj' = obj
  BY <1>1 DEF PublishManifest
<1>3. Stored(m) \in StoredVersion /\ Added(man, Put(man, m)) /\ serial' \in {serial, serial + 1}
  BY <1>0, <1>2, PutAdds
<1>4. KeysGrow
  BY <1>2, <1>3 DEF KeysGrow, Added
<1>5. wr' \in [Calls -> WriterState] /\ \A u \in Calls : WriterInv(u)'
  BY <1>0, GotoMoves DEF PublishManifest
<1>6. StoryInv'
  <2>1. CASE man' = man
    BY <2>1, StoryStays DEF PublishManifest
  <2>2. CASE man' # man /\ markers = 0
    <3>1. ~HasCurrent(man) /\ man' = Append(man, Stored(m))
      BY <1>2, <2>2 DEF Put
    <3>2. man = <<>>
      <4>1. man # <<>> => Last(man) \in Range(man)
        BY <1>0 DEF Last, Range
      <4> QED
        BY <2>2, <3>1, <4>1 DEF StoreInv, StoryInv, HasCurrent
    <3>3. man' = <<Stored(m)>> /\ Len(man') = 1 /\ Range(man') = {Stored(m)}
      BY <1>3, <3>1, <3>2 DEF Range
    <3>4. ~Stored(m).marker
      BY DEF Stored
    <3>5. returned = {}
      BY <2>2, <3>2 DEF StoreInv, StoryInv
    <3> QED
      BY <3>3, <3>4, <3>5 DEF StoryInv, PublishManifest
  <2> QED
    BY <2>1, <2>2 DEF StoryInv, PublishManifest
<1> QED
  BY <1>4, <1>5, <1>6, StepOfOthers DEF PublishManifest, StoreInv, Shape

LEMMA MarkerKeeps ==
    ASSUME StoreInv, PlaceMarker PROVE Goal
<1> DEFINE marker == [id |-> serial + 1, marker |-> TRUE, at |-> clk, until |-> 0,
                      hold |-> FALSE, body |-> None]
<1>1. marker \in StoredVersion /\ marker.id = serial + 1
  BY DEF StoreInv, Shape, StoredVersion
<1>2. /\ serial' = serial + 1 /\ markers' = markers + 1
      /\ \/ obj' = Append(obj, marker) /\ man' = man
         \/ man' = Append(man, marker) /\ obj' = obj
  BY DEF PlaceMarker
<1> HIDE DEF marker
<1>3. KeysGrow
  BY <1>1, <1>2 DEF KeysGrow, Added
<1>4. markers' \in Nat /\ StoryInv'
  BY <1>2 DEF StoreInv, Shape, StoryInv
<1>5. \A w \in Calls : WriterInv(w)'
  BY DEF StoreInv, WriterInv, PlaceMarker
<1> QED
  BY <1>3, <1>4, <1>5, StepOfOthers DEF PlaceMarker, StoreInv, Shape

LEMMA TickKeeps ==
    ASSUME StoreInv, Tick PROVE Goal
<1>1. KeysGrow /\ StoryInv' /\ clk' \in Nat /\ clk' <= MaxTime
  BY KeysStay, StoryStays DEF Tick, StoreInv, Shape
<1>2. \A w \in Calls : WriterInv(w)'
  BY DEF StoreInv, WriterInv, Tick
<1> QED
  BY <1>1, <1>2, StepOfOthers DEF Tick, StoreInv, Shape

-----------------------------------------------------------------------------
(* The maintenance commands.                                               *)

Others == <<clk, wr, events, returned, markers, serial>>

LEMMA RequestKeeps ==
    ASSUME StoreInv, NEW o \in Ops, NEW action \in ArtifactMaintenanceAction, Request(o, action)
    PROVE  Goal
<1>0. /\ clk \in Nat /\ events \in Seq(ArtifactMaintenanceAuditEvent) /\ op = {}
  BY DEF StoreInv, Shape, CommandInv, Request, MayRequest
<1>1. PICK goal \in Goals(action) : op' = op \cup {Command(o, action, goal)}
  BY DEF Request
<1>2. goal \in Nat
  <2>1. CASE action = "extend"
    BY <1>0, <1>1, <2>1 DEF Goals
  <2>2. CASE action = "gc"
    BY <1>0, <1>1, <2>2 DEF Goals
  <2>3. CASE action \in {"hold", "restore"}
    BY <1>0, <1>1, <2>3 DEF Goals
  <2> QED
    BY <2>1, <2>2, <2>3 DEF ArtifactMaintenanceAction
<1>3. PICK d \in MaintenanceCommand : d = Command(o, action, goal) /\ d.op = o /\ d.pc = "start"
  <2>1. None \in Target
    BY DEF Target
  <2>2. Command(o, action, goal) \in MaintenanceCommand
    BY <1>2, <2>1 DEF Command, MaintenanceCommand, CommandPc
  <2>3. Command(o, action, goal).op = o /\ Command(o, action, goal).pc = "start"
    BY DEF Command
  <2> QED
    BY <2>2, <2>3
<1>4. op' = {d}
  BY <1>0, <1>1, <1>3
<1>5. PICK e \in ArtifactMaintenanceAuditEvent :
        e.op = o /\ e.phase = "requested" /\ events' = Append(events, e)
  BY DEF Request, Recorded, ArtifactMaintenanceAuditEvent, ArtifactMaintenancePhase
<1>6. /\ events' \in Seq(ArtifactMaintenanceAuditEvent) /\ events' # <<>>
      /\ Last(events') = e
  BY <1>0, <1>5 DEF Last
<1>7. Aimed(d)'
  BY <1>3 DEF Aimed
<1>8. /\ obj' = obj /\ man' = man /\ serial' = serial /\ wr' = wr /\ clk' = clk
      /\ returned' = returned /\ markers' = markers
  BY DEF Request
<1>9. \A c \in op' : CommandInv(c)'
  BY <1>3, <1>4, <1>5, <1>6, <1>7 DEF CommandInv, Announced
<1>10. IdsInv' /\ Untouched
  BY <1>8, KeysStay, GrowthTouchesNothing
<1>11. StoreInv'
  BY <1>3, <1>4, <1>6, <1>8, <1>9, <1>10, StoryStays DEF StoreInv, Shape, WriterInv
<1> QED
  BY <1>10, <1>11, UntouchedTightens DEF Goal

\* The command is over: closed in the chain, or its process is dead.
LEMMA EndKeeps ==
    ASSUME StoreInv, NEW c \in op, CloseCommand(c) \/ CommandDies(c)
    PROVE  Goal
<1>1. op' = {}
  BY DEF StoreInv, CommandInv, CloseCommand, CommandDies
<1>2. c \in MaintenanceCommand
  BY DEF StoreInv, Shape
<1>3. events' \in Seq(ArtifactMaintenanceAuditEvent)
  <2>1. CASE CommandDies(c)
    BY <2>1 DEF CommandDies, StoreInv, Shape
  <2>2. CASE CloseCommand(c)
    <3>1. PICK e \in ArtifactMaintenanceAuditEvent : events' = Append(events, e)
      BY <1>2, <2>2 DEF CloseCommand, Recorded, MaintenanceCommand,
            ArtifactMaintenanceAuditEvent, ArtifactMaintenancePhase
    <3> QED
      BY <3>1 DEF StoreInv, Shape
  <2> QED
    BY <2>1, <2>2
<1>4. /\ obj' = obj /\ man' = man /\ serial' = serial /\ wr' = wr /\ clk' = clk
      /\ returned' = returned /\ markers' = markers
  BY DEF CloseCommand, CommandDies
<1>5. IdsInv' /\ Untouched
  BY <1>4, KeysStay, GrowthTouchesNothing
<1>6. StoreInv'
  BY <1>1, <1>3, <1>4, <1>5, StoryStays DEF StoreInv, Shape, WriterInv
<1> QED
  BY <1>5, <1>6, UntouchedTightens DEF Goal

\* A step of the command under way.
LEMMA CommandMoves ==
    ASSUME StoreInv, NEW c \in op, NEW d \in MaintenanceCommand,
           op' = (op \ {c}) \cup {d}, d.op = c.op, d.pc # c.pc, UNCHANGED Others,
           obj' \in Seq(StoredVersion), man' \in Seq(StoredVersion),
           IdsInv', Aimed(d)', Tightens, StoryInv'
    PROVE  Goal
<1>1. op' = {d} /\ Announced /\ c.op = Last(events).op
  BY DEF StoreInv, CommandInv
<1>2. Accountable
  BY <1>1 DEF Accountable
<1>3. CommandInv(d)'
  BY <1>1 DEF CommandInv, Announced, Others
<1>4. StoreInv'
  BY <1>1, <1>3 DEF StoreInv, Shape, WriterInv, Others
<1> QED
  BY <1>2, <1>4 DEF Goal

LEMMA CommandReads ==
    ASSUME StoreInv, NEW c \in op, NEW d \in MaintenanceCommand,
           op' = (op \ {c}) \cup {d}, d.op = c.op, d.pc # c.pc, UNCHANGED Others,
           obj' = obj, man' = man, Aimed(d)
    PROVE  Goal
<1>1. IdsInv' /\ Untouched
  BY KeysStay, GrowthTouchesNothing DEF Others
<1>2. Aimed(d)' /\ StoryInv' /\ Tightens
  BY <1>1, StoryStays, UntouchedTightens DEF Aimed, Others
<1> QED
  BY <1>1, <1>2, CommandMoves DEF StoreInv, Shape

LEMMA CommandWith ==
    ASSUME NEW c \in MaintenanceCommand,
           NEW pc \in CommandPc
    PROVE  /\ [c EXCEPT !.pc = pc] \in MaintenanceCommand
           /\ [c EXCEPT !.pc = pc].op = c.op /\ [c EXCEPT !.pc = pc].action = c.action
           /\ [c EXCEPT !.pc = pc].goal = c.goal /\ [c EXCEPT !.pc = pc].target = c.target
           /\ [c EXCEPT !.pc = pc].pc = pc
  BY DEF MaintenanceCommand

With(c, pc, t) == [c EXCEPT !.pc = pc, !.target = t]

LEMMA CommandAimedAt ==
    ASSUME NEW c \in MaintenanceCommand, NEW t \in Target,
           NEW pc \in CommandPc,
           NEW d, d = With(c, pc, t)
    PROVE  /\ d \in MaintenanceCommand /\ d.op = c.op /\ d.action = c.action
           /\ d.goal = c.goal /\ d.target = t /\ d.pc = pc
<1>1. PICK e \in MaintenanceCommand : e = [c EXCEPT !.pc = pc]
  BY CommandWith
<1>2. d = [e EXCEPT !.target = t]
  BY <1>1 DEF With
<1>3. e.op = c.op /\ e.action = c.action /\ e.goal = c.goal /\ e.pc = pc
  BY <1>1, CommandWith
<1>4. /\ [e EXCEPT !.target = t] \in MaintenanceCommand
      /\ [e EXCEPT !.target = t].op = e.op /\ [e EXCEPT !.target = t].action = e.action
      /\ [e EXCEPT !.target = t].goal = e.goal /\ [e EXCEPT !.target = t].target = t
      /\ [e EXCEPT !.target = t].pc = e.pc
  BY DEF MaintenanceCommand
<1> QED
  BY <1>2, <1>3, <1>4

\* A step that only moves the command, and aims at nothing.
LEMMA StepKeeps ==
    ASSUME StoreInv, NEW c \in op, NEW pc \in {"list", "verify", "delete", "done", "failed"},
           Step(c, pc), c.pc # pc, obj' = obj, man' = man, UNCHANGED Others
    PROVE  Goal
<1>1. PICK d : d = [c EXCEPT !.pc = pc]
  OBVIOUS
<1>2. d \in MaintenanceCommand /\ d.op = c.op /\ d.pc = pc
  <2>1. c \in MaintenanceCommand
    BY DEF StoreInv, Shape
  <2> QED
    <3>1. pc \in CommandPc
      BY DEF CommandPc
    <3> QED
      BY <1>1, <2>1, <3>1, CommandWith
<1>3. Aimed(d) /\ op' = (op \ {c}) \cup {d}
  BY <1>1, <1>2 DEF Aimed, Step
<1> QED
  BY <1>2, <1>3, CommandReads

-----------------------------------------------------------------------------
(* What commands do to one key, the other left alone.                      *)

\* A key's versions after a change: the same ids, locks not loosened.
Tightened(A, A1) ==
    /\ \A u \in A1 : u.id \in Nat /\ \E v \in A :
         u.id = v.id /\ u.until >= v.until /\ (v.hold => u.hold)
    /\ \A v \in A : \E u \in A1 : u.id = v.id
    /\ \A u, v \in A1 : u.id = v.id => u = v

\* A key's versions after a delete: no lock is lost.
Dropped(A, A1) == A1 \subseteq A /\ \A v \in A : v \in A1 \/ v.marker \/ ~Locked(v)

LEMMA KeyKeeps ==
    ASSUME StoreInv, serial' = serial,
           NEW A, NEW B, NEW A1, A \cup B = Held, A1 \cup B = Held',
           DistinctIds(A, B, serial), Tightened(A, A1) \/ Dropped(A, A1)
    PROVE  DistinctIds(A1, B, serial') /\ Tightens
<1>0. /\ \A v \in A \cup B : v.until \in Nat
      /\ \A v \in A \cup B : v.id <= serial /\ v.id \in Nat
      /\ \A u, v \in A : u.id = v.id => u = v
      /\ \A u, v \in B : u.id = v.id => u = v
      /\ \A u \in A, v \in B : u.id # v.id
  BY RangeIsStored DEF Held, StoreInv, Shape, DistinctIds
<1>1. CASE Dropped(A, A1)
  <2>1. \A u, v \in A \cup B : u.id = v.id => u = v
    BY <1>0
  <2> QED
    BY <1>0, <1>1, <2>1 DEF Dropped, DistinctIds, Tightens
<1>2. CASE Tightened(A, A1)
  <2>1. \A u \in A1 : u.id \in Nat /\ u.id <= serial /\ \E v \in A : u.id = v.id
    BY <1>0, <1>2 DEF Tightened
  <2>2. DistinctIds(A1, B, serial')
    BY <1>0, <1>2, <2>1 DEF Tightened, DistinctIds
  <2>3. ASSUME NEW v \in A
        PROVE  /\ \A u \in A1 \cup B : u.id = v.id => u.until >= v.until /\ (v.hold => u.hold)
               /\ \E u \in A1 \cup B : u.id = v.id
    BY <1>0, <1>2, <2>3 DEF Tightened
  <2>4. ASSUME NEW v \in B
        PROVE  /\ \A u \in A1 \cup B : u.id = v.id => u.until >= v.until /\ (v.hold => u.hold)
               /\ \E u \in A1 \cup B : u.id = v.id
    <3>1. \A u \in A1 : u.id # v.id
      BY <1>0, <2>1, <2>4
    <3>2. \A u \in A1 \cup B : u.id = v.id => u = v
      BY <1>0, <2>4, <3>1
    <3> QED
      BY <1>0, <2>4, <3>2
  <2> QED
    BY <2>2, <2>3, <2>4 DEF Tightens
<1> QED
  BY <1>1, <1>2

LEMMA ObjectKeeps ==
    ASSUME StoreInv, serial' = serial, man' = man,
           Tightened(Range(obj), Range(obj')) \/ Dropped(Range(obj), Range(obj'))
    PROVE  IdsInv' /\ Tightens
<1>1. PICK A, B, A1 : A = Range(obj) /\ B = Range(man) /\ A1 = Range(obj')
  OBVIOUS
<1>2. DistinctIds(A, B, serial)
  BY <1>1, RangeIsStored DEF StoreInv, Shape, IdsInv, DistinctIds
<1>3. A \cup B = Held /\ A1 \cup B = Held' /\ (Tightened(A, A1) \/ Dropped(A, A1))
  BY <1>1 DEF Held
<1>4. DistinctIds(A1, B, serial') /\ Tightens
  BY <1>2, <1>3, KeyKeeps
<1> QED
  BY <1>1, <1>4 DEF IdsInv, DistinctIds

LEMMA ManifestKeeps ==
    ASSUME StoreInv, serial' = serial, obj' = obj,
           Tightened(Range(man), Range(man')) \/ Dropped(Range(man), Range(man'))
    PROVE  IdsInv' /\ Tightens
<1>1. PICK A, B, A1 : A = Range(man) /\ B = Range(obj) /\ A1 = Range(man')
  OBVIOUS
<1>2. DistinctIds(A, B, serial)
  BY <1>1, RangeIsStored DEF StoreInv, Shape, IdsInv, DistinctIds
<1>3. A \cup B = Held /\ A1 \cup B = Held' /\ (Tightened(A, A1) \/ Dropped(A, A1))
  BY <1>1 DEF Held
<1>4. DistinctIds(A1, B, serial') /\ Tightens
  BY <1>2, <1>3, KeyKeeps
<1> QED
  BY <1>1, <1>4 DEF IdsInv, DistinctIds

LEMMA ChangeTightens ==
    ASSUME NEW vs \in Seq(StoredVersion), NEW id, NEW ws,
           \A u, v \in Range(vs) : u.id = v.id => u = v,
           \/ \E goal \in Nat : /\ ws = Change(vs, id, "until", goal)
                                /\ \A v \in Range(vs) : v.id = id => v.until <= goal
           \/ ws = Change(vs, id, "hold", TRUE)
    PROVE  Tightened(Range(vs), Range(ws))
<1>1. /\ ws \in Seq(StoredVersion) /\ Len(ws) = Len(vs) /\ Len(vs) \in Nat
      /\ DOMAIN vs = 1..Len(vs) /\ DOMAIN ws = 1..Len(vs)
      /\ \A i \in 1..Len(vs) : ws[i].id = vs[i].id /\ (vs[i].hold => ws[i].hold)
  <2>1. \/ \E goal \in Nat : ws = Change(vs, id, "until", goal)
        \/ ws = Change(vs, id, "hold", TRUE)
    OBVIOUS
  <2>2. /\ ws \in Seq(StoredVersion) /\ Len(ws) = Len(vs)
        /\ \A i \in 1..Len(vs) :
                /\ ws[i].id = vs[i].id /\ ws[i].marker = vs[i].marker /\ ws[i].body = vs[i].body
                /\ vs[i].id # id => ws[i] = vs[i]
                /\ vs[i].hold => ws[i].hold
    BY <2>1, RangeOfChange
  <2> QED
    BY <2>2
<1>2. /\ Range(vs) = {vs[i] : i \in 1..Len(vs)} /\ Range(ws) = {ws[i] : i \in 1..Len(vs)}
      /\ \A v \in Range(ws) : v.id \in Nat
  BY <1>1, RangeIsStored DEF Range
<1>3. ASSUME NEW i \in 1..Len(vs) PROVE ws[i].until >= vs[i].until
  <2>1. vs[i].until \in Nat /\ vs[i] \in Range(vs)
    BY <1>2, RangeIsStored
  <2>2. CASE ws = Change(vs, id, "hold", TRUE)
    <3>1. Change(vs, id, "hold", TRUE)[i].until = vs[i].until
      BY RangeOfHold
    <3>2. ws[i].until = vs[i].until
      BY <2>2, <3>1
    <3> QED
      BY <2>1, <3>2
  <2>3. ASSUME NEW goal \in Nat, ws = Change(vs, id, "until", goal),
               \A v \in Range(vs) : v.id = id => v.until <= goal
        PROVE  ws[i].until >= vs[i].until
    BY <2>1, <2>3, RangeOfExtension
  <2> QED
    BY <2>2, <2>3
<1>4. ASSUME NEW i \in 1..Len(vs), NEW j \in 1..Len(vs), ws[i].id = ws[j].id
      PROVE  ws[i] = ws[j]
  <2>1. vs[i] = vs[j]
    BY <1>1, <1>2, <1>4
  <2>2. CASE ws = Change(vs, id, "hold", TRUE)
    BY <1>1, <2>1, <2>2 DEF Change
  <2>3. ASSUME NEW goal \in Nat, ws = Change(vs, id, "until", goal) PROVE ws[i] = ws[j]
    BY <1>1, <2>1, <2>3 DEF Change
  <2> QED
    BY <2>2, <2>3
<1>5. ASSUME NEW u \in Range(ws)
      PROVE  u.id \in Nat /\ \E v \in Range(vs) :
               u.id = v.id /\ u.until >= v.until /\ (v.hold => u.hold)
  <2>1. PICK i \in 1..Len(vs) : u = ws[i]
    BY <1>2
  <2>2. vs[i] \in Range(vs)
    BY <1>2
  <2> QED
    BY <1>1, <1>2, <1>3, <2>1, <2>2
<1>6. \A v \in Range(vs) : \E u \in Range(ws) : u.id = v.id
  BY <1>1, <1>2
<1>7. \A u, v \in Range(ws) : u.id = v.id => u = v
  BY <1>2, <1>4
<1> QED
  BY <1>5, <1>6, <1>7 DEF Tightened

\* The current version is the only one of its id.
LEMMA CurrentIsOne ==
    ASSUME StoreInv, NEW vs \in {obj, man}, vs # <<>>
    PROVE  /\ Last(vs) \in Range(vs) /\ Last(vs) \in StoredVersion
           /\ Last(vs).id \in Nat /\ Last(vs).id <= serial
           /\ \A v \in Range(vs) : v.id = Last(vs).id => v = Last(vs)
<1>1. vs \in Seq(StoredVersion) /\ Len(vs) \in Nat /\ Len(vs) # 0 /\ DOMAIN vs = 1..Len(vs)
  BY DEF StoreInv, Shape
<1>2. Last(vs) \in Range(vs)
  BY <1>1 DEF Last, Range
<1> QED
  BY <1>1, <1>2, RangeIsStored DEF StoreInv, IdsInv

-----------------------------------------------------------------------------
(* The commands, one by one.                                               *)

LEMMA AimKeeps ==
    ASSUME StoreInv, NEW c \in op, c.action \in {"extend", "hold"}, c.pc = "start", Readable,
           c.action = "extend" => Extends(c.goal), Aim(c), obj' = obj, man' = man, UNCHANGED Others
    PROVE  Goal
<1>0. c \in MaintenanceCommand /\ c.goal \in Nat
  BY DEF StoreInv, Shape, MaintenanceCommand
<1>1. obj # <<>> /\ man # <<>>
  BY DEF Readable, EnvelopeReads, ObjectReads, HasCurrent
<1>2. /\ Last(obj).id \in Nat /\ Last(obj).id <= serial
      /\ \A v \in Range(obj) : v.id = Last(obj).id => v = Last(obj)
  BY <1>1, CurrentIsOne
<1>3. /\ Last(man).id \in Nat /\ Last(man).id <= serial
      /\ \A v \in Range(man) : v.id = Last(man).id => v = Last(man)
  BY <1>1, CurrentIsOne
<1>4. PICK a \in Nat, b \in Nat : a = Last(obj).id /\ b = Last(man).id
  BY <1>2, <1>3
<1>5. PICK t : t = <<a, b>> /\ t \in Nat \X Nat /\ t \in Target
  <2>1. <<a, b>> \in Nat \X Nat
    OBVIOUS
  <2> QED
    BY <2>1 DEF Target
<1>6. PICK d, pc : d = With(c, pc, t) /\ pc = "object"
  OBVIOUS
<1>7. /\ d \in MaintenanceCommand /\ d.op = c.op /\ d.action = c.action /\ d.goal = c.goal
      /\ d.target = t /\ d.pc = "object"
  <2>1. pc \in CommandPc
    BY <1>6 DEF CommandPc
  <2> QED
    BY <1>0, <1>5, <1>6, <2>1, CommandAimedAt
<1>8. op' = (op \ {c}) \cup {d}
  BY <1>4, <1>5, <1>6 DEF Aim, With
<1>9. t[1] = a /\ t[2] = b
  BY <1>5
<1>10. d.action = "extend" => Last(obj).until <= d.goal /\ Last(man).until <= d.goal
  <2>1. Last(obj).until \in Nat
    BY <1>1, CurrentIsOne DEF StoredVersion
  <2> QED
    BY <1>0, <1>7, <2>1 DEF Extends
<1>11. Aimed(d)
  BY <1>2, <1>3, <1>4, <1>5, <1>7, <1>9, <1>10 DEF Aimed
<1> QED
  BY <1>7, <1>8, <1>11, CommandReads

\* The object's version is changed, and then the manifest's.
LEMMA ObjectChangeKeeps ==
    ASSUME StoreInv, NEW c \in op, c.action \in {"extend", "hold"}, c.pc = "object",
           \/ c.action = "extend" /\ obj' = Change(obj, c.target[1], "until", c.goal)
           \/ c.action = "hold" /\ obj' = Change(obj, c.target[1], "hold", TRUE),
           Step(c, "manifest"), man' = man, UNCHANGED Others
    PROVE  Goal
<1>0. /\ c \in MaintenanceCommand /\ c.goal \in Nat /\ Aimed(c) /\ obj \in Seq(StoredVersion)
      /\ \A u, v \in Range(obj) : u.id = v.id => u = v
  BY DEF StoreInv, Shape, MaintenanceCommand, CommandInv, IdsInv
<1>1. PICK id, ws : id = c.target[1] /\ ws = obj' /\ \E g \in Nat : g = c.goal
  BY <1>0
<1> DEFINE goal == c.goal
<1>2. c.action = "extend" => \A v \in Range(obj) : v.id = id => v.until <= goal
  BY <1>0, <1>1 DEF Aimed
<1>3. \/ ws = Change(obj, id, "until", goal) /\ \A v \in Range(obj) : v.id = id => v.until <= goal
      \/ ws = Change(obj, id, "hold", TRUE)
  BY <1>1, <1>2
<1>4. /\ ws \in Seq(StoredVersion) /\ Len(ws) = Len(obj)
      /\ \A i \in 1..Len(obj) : ws[i].id = obj[i].id
  <2>1. \/ \E g \in Nat : ws = Change(obj, id, "until", g)
        \/ ws = Change(obj, id, "hold", TRUE)
    BY <1>0, <1>3
  <2>2. /\ ws \in Seq(StoredVersion) /\ Len(ws) = Len(obj)
        /\ \A i \in 1..Len(obj) :
                /\ ws[i].id = obj[i].id /\ ws[i].marker = obj[i].marker /\ ws[i].body = obj[i].body
                /\ obj[i].id # id => ws[i] = obj[i]
                /\ obj[i].hold => ws[i].hold
    BY <1>0, <2>1, RangeOfChange
  <2> QED
    BY <2>2
<1>5. Tightened(Range(obj), Range(ws))
  <2>1. \/ \E g \in Nat : /\ ws = Change(obj, id, "until", g)
                          /\ \A v \in Range(obj) : v.id = id => v.until <= g
        \/ ws = Change(obj, id, "hold", TRUE)
    BY <1>0, <1>3
  <2> QED
    BY <1>0, <2>1, ChangeTightens
<1>6. IdsInv' /\ Tightens
  BY <1>1, <1>5, ObjectKeeps DEF Others
<1>7. PICK d, pc : d = [c EXCEPT !.pc = pc] /\ pc \in CommandPc /\ pc = "manifest"
  BY DEF CommandPc
<1>8. /\ d \in MaintenanceCommand /\ d.op = c.op /\ d.action = c.action /\ d.goal = c.goal
      /\ d.target = c.target /\ d.pc = "manifest"
  BY <1>0, <1>7, CommandWith
<1>9. ASSUME c.action = "extend", NEW v \in Range(ws), v.id = id PROVE v.until <= goal
  <2>1. PICK i \in 1..Len(obj) : v = ws[i]
    BY <1>4, <1>9 DEF Range
  <2>2. ws = Change(obj, id, "until", goal)
    BY <1>1, <1>9
  <2>3. ws[i].until = IF obj[i].id = id THEN goal ELSE obj[i].until
    BY <1>0, <2>2, RangeOfExtension
  <2> QED
    BY <1>0, <1>4, <1>9, <2>1, <2>3
<1>10. Aimed(d)'
  BY <1>0, <1>1, <1>8, <1>9 DEF Aimed, Others
<1>11. StoryInv' /\ op' = (op \ {c}) \cup {d}
  BY <1>7, StoryStays DEF Others, Step
<1> QED
  BY <1>0, <1>1, <1>4, <1>6, <1>8, <1>10, <1>11, CommandMoves DEF StoreInv, Shape

LEMMA ManifestChangeKeeps ==
    ASSUME StoreInv, NEW c \in op, c.action \in {"extend", "hold"}, c.pc = "manifest",
           \/ c.action = "extend" /\ man' = Change(man, c.target[2], "until", c.goal)
           \/ c.action = "hold" /\ man' = Change(man, c.target[2], "hold", TRUE),
           Step(c, "done"), obj' = obj, UNCHANGED Others
    PROVE  Goal
<1>0. /\ c \in MaintenanceCommand /\ c.goal \in Nat /\ Aimed(c) /\ man \in Seq(StoredVersion)
      /\ \A u, v \in Range(man) : u.id = v.id => u = v
  BY DEF StoreInv, Shape, MaintenanceCommand, CommandInv, IdsInv
<1>1. PICK id, ws : id = c.target[2] /\ ws = man' /\ \E g \in Nat : g = c.goal
  BY <1>0
<1> DEFINE goal == c.goal
<1>2. c.action = "extend" => \A v \in Range(man) : v.id = id => v.until <= goal
  BY <1>0, <1>1 DEF Aimed
<1>3. \/ ws = Change(man, id, "until", goal) /\ \A v \in Range(man) : v.id = id => v.until <= goal
      \/ ws = Change(man, id, "hold", TRUE)
  BY <1>1, <1>2
<1>4. /\ ws \in Seq(StoredVersion) /\ Len(ws) = Len(man)
      /\ \A i \in 1..Len(man) : ws[i].marker = man[i].marker /\ ws[i].body = man[i].body
  <2>1. \/ \E g \in Nat : ws = Change(man, id, "until", g)
        \/ ws = Change(man, id, "hold", TRUE)
    BY <1>0, <1>3
  <2>2. /\ ws \in Seq(StoredVersion) /\ Len(ws) = Len(man)
        /\ \A i \in 1..Len(man) :
                /\ ws[i].id = man[i].id /\ ws[i].marker = man[i].marker /\ ws[i].body = man[i].body
                /\ man[i].id # id => ws[i] = man[i]
                /\ man[i].hold => ws[i].hold
    BY <1>0, <2>1, RangeOfChange
  <2> QED
    BY <2>2
<1>5. Tightened(Range(man), Range(ws))
  <2>1. \/ \E g \in Nat : /\ ws = Change(man, id, "until", g)
                          /\ \A v \in Range(man) : v.id = id => v.until <= g
        \/ ws = Change(man, id, "hold", TRUE)
    BY <1>0, <1>3
  <2> QED
    BY <1>0, <2>1, ChangeTightens
<1>6. IdsInv' /\ Tightens
  BY <1>1, <1>5, ManifestKeeps DEF Others
<1>7. PICK d, pc : d = [c EXCEPT !.pc = pc] /\ pc \in CommandPc /\ pc = "done"
  BY DEF CommandPc
<1>8. /\ d \in MaintenanceCommand /\ d.op = c.op /\ d.pc = "done"
  BY <1>0, <1>7, CommandWith
<1>9. Aimed(d)' /\ op' = (op \ {c}) \cup {d}
  BY <1>7, <1>8 DEF Aimed, Step
<1>10. StoryInv'
  <2>1. SUFFICES ASSUME markers = 0
        PROVE  /\ \A v \in Range(ws) : ~v.marker
               /\ Len(ws) <= 1
               /\ \A m \in returned : ws # <<>> /\ m = ws[1].body
    BY <1>1 DEF StoryInv, Others
  <2>2. /\ \A v \in Range(man) : ~v.marker
        /\ Len(man) <= 1
        /\ \A m \in returned : man # <<>> /\ m = man[1].body
    BY <2>1 DEF StoreInv, StoryInv
  <2>3. \A v \in Range(ws) : ~v.marker
    BY <1>0, <1>4, <2>2 DEF Range
  <2>4. man # <<>> => ws # <<>> /\ ws[1].body = man[1].body
    BY <1>0, <1>4
  <2> QED
    BY <1>4, <2>2, <2>3, <2>4
<1> QED
  BY <1>0, <1>1, <1>4, <1>6, <1>8, <1>9, <1>10, CommandMoves DEF StoreInv, Shape

LEMMA RetentionKeeps ==
    ASSUME StoreInv, NEW c \in op, ExtendRetention(c) \/ EnableLegalHold(c) PROVE Goal
<1>0. UNCHANGED Others
  BY DEF ExtendRetention, EnableLegalHold, Others
<1>1. CASE ExtendRetention(c)
  <2>1. CASE c.pc = "start" /\ Extends(c.goal) /\ Aim(c) /\ UNCHANGED <<obj, man>>
    BY <1>0, <1>1, <2>1, AimKeeps DEF ExtendRetention, Extends
  <2>2. CASE c.pc # "failed" /\ Step(c, "failed") /\ UNCHANGED <<obj, man>>
    BY <1>0, <2>2, StepKeeps
  <2>3. CASE /\ c.pc = "object"
             /\ obj' = Change(obj, c.target[1], "until", c.goal)
             /\ Step(c, "manifest") /\ UNCHANGED man
    BY <1>0, <1>1, <2>3, ObjectChangeKeeps DEF ExtendRetention
  <2>4. CASE /\ c.pc = "manifest"
             /\ man' = Change(man, c.target[2], "until", c.goal)
             /\ Step(c, "done") /\ UNCHANGED obj
    BY <1>0, <1>1, <2>4, ManifestChangeKeeps DEF ExtendRetention
  <2> QED
    BY <1>1, <2>1, <2>2, <2>3, <2>4 DEF ExtendRetention
<1>2. CASE EnableLegalHold(c)
  <2>1. CASE c.pc = "start" /\ Readable /\ Aim(c) /\ UNCHANGED <<obj, man>>
    BY <1>0, <1>2, <2>1, AimKeeps DEF EnableLegalHold
  <2>2. CASE c.pc # "failed" /\ Step(c, "failed") /\ UNCHANGED <<obj, man>>
    BY <1>0, <2>2, StepKeeps
  <2>3. CASE /\ c.pc = "object"
             /\ obj' = Change(obj, c.target[1], "hold", TRUE)
             /\ Step(c, "manifest") /\ UNCHANGED man
    BY <1>0, <1>2, <2>3, ObjectChangeKeeps DEF EnableLegalHold
  <2>4. CASE /\ c.pc = "manifest"
             /\ man' = Change(man, c.target[2], "hold", TRUE)
             /\ Step(c, "done") /\ UNCHANGED obj
    BY <1>0, <1>2, <2>4, ManifestChangeKeeps DEF EnableLegalHold
  <2> QED
    BY <1>2, <2>1, <2>2, <2>3, <2>4 DEF EnableLegalHold
<1> QED
  BY <1>1, <1>2

LEMMA CollectKeeps ==
    ASSUME StoreInv, NEW c \in op, CollectOrphans(c) PROVE Goal
<1>0. /\ UNCHANGED Others /\ c.action = "gc" /\ man' = man /\ c \in MaintenanceCommand
      /\ obj \in Seq(StoredVersion) /\ man \in Seq(StoredVersion)
  BY DEF CollectOrphans, Others, StoreInv, Shape
<1>1. ASSUME NEW v \in Listed(obj), c.pc = "start", obj' = obj,
             op' = (op \ {c}) \cup {[c EXCEPT !.pc = "delete", !.target = v.id]}
      PROVE  Goal
  <2>1. v.id \in Target
    BY <1>0, RangeIsStored DEF Listed, Target
  <2>2. PICK d, t, pc : d = With(c, pc, t) /\ t = v.id /\ pc = "delete"
    OBVIOUS
  <2>3. d \in MaintenanceCommand /\ d.op = c.op /\ d.action = c.action /\ d.pc = "delete"
    <3>1. pc \in CommandPc
      BY <2>2 DEF CommandPc
    <3> QED
      BY <1>0, <2>1, <2>2, <3>1, CommandAimedAt
  <2>4. Aimed(d) /\ op' = (op \ {c}) \cup {d}
    BY <1>0, <1>1, <2>2, <2>3 DEF Aimed, With
  <2> QED
    BY <1>0, <1>1, <2>3, <2>4, CommandReads
<1>2. CASE c.pc = "start" /\ Step(c, "done") /\ obj' = obj
  BY <1>0, <1>2, StepKeeps
<1>3. CASE /\ c.pc = "delete"
           /\ obj' = IF \E v \in Range(obj) : v.id = c.target /\ Locked(v) THEN obj
                     ELSE Without(obj, c.target)
           /\ op' = (op \ {c}) \cup {[c EXCEPT !.pc = "start", !.target = None]}
  <2>1. None \in Target
    BY DEF Target
  <2>2. PICK d, t, pc : d = With(c, pc, t) /\ t = None /\ pc = "start"
    OBVIOUS
  <2>3. d \in MaintenanceCommand /\ d.op = c.op /\ d.action = c.action /\ d.pc = "start"
    <3>1. pc \in CommandPc
      BY <2>2 DEF CommandPc
    <3> QED
      BY <1>0, <2>1, <2>2, <3>1, CommandAimedAt
  <2>4. Aimed(d)' /\ op' = (op \ {c}) \cup {d}
    BY <1>0, <1>3, <2>2, <2>3 DEF Aimed, With
  <2>5. obj' \in Seq(StoredVersion) /\ Dropped(Range(obj), Range(obj'))
    <3>1. CASE \E v \in Range(obj) : v.id = c.target /\ Locked(v)
      BY <1>0, <1>3, <3>1 DEF Dropped
    <3>2. CASE ~\E v \in Range(obj) : v.id = c.target /\ Locked(v)
      <4>1. PICK ws : ws = obj' /\ ws = Without(obj, c.target)
        BY <1>3, <3>2
      <4>2. /\ ws \in Seq(StoredVersion) /\ Range(ws) \subseteq Range(obj)
            /\ \A v \in Range(obj) : v.id # c.target => v \in Range(ws)
        BY <1>0, <4>1, RangeOfWithout
      <4> QED
        BY <3>2, <4>1, <4>2 DEF Dropped
    <3> QED
      BY <3>1, <3>2
  <2>6. IdsInv' /\ Tightens
    BY <1>0, <2>5, ObjectKeeps DEF Others
  <2>7. StoryInv'
    BY <1>0, StoryStays DEF Others
  <2> QED
    BY <1>0, <1>3, <2>3, <2>4, <2>5, <2>6, <2>7, CommandMoves
<1> QED
  BY <1>1, <1>2, <1>3 DEF CollectOrphans

LEMMA FindKeeps ==
    ASSUME StoreInv, NEW c \in op, c.action = "restore", obj' = obj, man' = man, UNCHANGED Others,
           \/ c.pc = "start" /\ Find(c, obj, "object", "list")
           \/ c.pc = "list" /\ Find(c, man, "manifest", "verify")
    PROVE  Goal
<1>0. c \in MaintenanceCommand
  BY DEF StoreInv, Shape
<1>1. ASSUME NEW vs \in {obj, man}, NEW none \in {"list", "verify"},
             NEW found \in {"object", "manifest"}, c.pc \notin {none, found},
             found = "object" => vs = obj, found = "manifest" => vs = man,
             Find(c, vs, found, none)
      PROVE  Goal
  <2>1. PICK t : t = LatestMarker(vs)
    OBVIOUS
  <2>2. PICK pc : pc = IF t = None THEN none ELSE found
    OBVIOUS
  <2>3. pc \in CommandPc
    BY <2>2 DEF CommandPc
  <2>4. t # None => /\ t \in Nat /\ t <= serial
                    /\ \A v \in Range(vs) : v.id = t => v.marker
    BY <2>1, CurrentIsOne DEF LatestMarker
  <2>5. t \in Target
    BY <2>4 DEF Target
  <2>6. PICK d : d = With(c, pc, t)
    OBVIOUS
  <2>7. /\ d \in MaintenanceCommand /\ d.op = c.op /\ d.action = c.action
        /\ d.target = t /\ d.pc = pc
    BY <1>0, <2>3, <2>5, <2>6, CommandAimedAt
  <2>8. op' = (op \ {c}) \cup {d}
    BY <1>1, <2>1, <2>2, <2>6 DEF Find, With
  <2>9. Aimed(d)
    BY <1>1, <2>2, <2>4, <2>7 DEF Aimed
  <2> QED
    BY <1>1, <2>2, <2>7, <2>8, <2>9, CommandReads
<1>2. CASE c.pc = "start" /\ Find(c, obj, "object", "list")
  BY <1>1, <1>2
<1>3. CASE c.pc = "list" /\ Find(c, man, "manifest", "verify")
  BY <1>1, <1>3
<1> QED
  BY <1>2, <1>3

LEMMA RestoreKeeps ==
    ASSUME StoreInv, NEW c \in op, Restore(c) PROVE Goal
<1>0. /\ UNCHANGED Others /\ c.action = "restore" /\ c \in MaintenanceCommand /\ Aimed(c)
      /\ obj \in Seq(StoredVersion) /\ man \in Seq(StoredVersion)
  BY DEF Restore, Others, StoreInv, Shape, CommandInv
<1>1. CASE /\ obj' = obj /\ man' = man
           /\ \/ c.pc = "start" /\ Find(c, obj, "object", "list")
              \/ c.pc = "list" /\ Find(c, man, "manifest", "verify")
  BY <1>0, <1>1, FindKeeps
<1>2. CASE obj' = obj /\ man' = man /\ c.pc \in {"start", "object", "list", "manifest", "verify"}
           /\ (Step(c, "failed") \/ Step(c, "done"))
  BY <1>0, <1>2, StepKeeps
<1>3. CASE c.pc = "object" /\ obj' = Without(obj, c.target) /\ Step(c, "list") /\ UNCHANGED man
  <2>1. PICK d, pc : d = [c EXCEPT !.pc = pc] /\ pc = "list"
    OBVIOUS
  <2>2. d \in MaintenanceCommand /\ d.op = c.op /\ d.action = c.action /\ d.pc = "list"
    <3>1. pc \in CommandPc
      BY <2>1 DEF CommandPc
    <3> QED
      BY <1>0, <2>1, <3>1, CommandWith
  <2>3. Aimed(d)' /\ op' = (op \ {c}) \cup {d}
    BY <1>0, <1>3, <2>1, <2>2 DEF Aimed, Step
  <2>4. obj' \in Seq(StoredVersion) /\ Dropped(Range(obj), Range(obj'))
    <3>1. PICK ws : ws = obj' /\ ws = Without(obj, c.target)
      BY <1>3
    <3>2. /\ ws \in Seq(StoredVersion) /\ Range(ws) \subseteq Range(obj)
          /\ \A v \in Range(obj) : v.id # c.target => v \in Range(ws)
      BY <1>0, <3>1, RangeOfWithout
    <3>3. \A v \in Range(obj) : v.id = c.target => v.marker
      BY <1>0, <1>3 DEF Aimed
    <3> QED
      BY <3>1, <3>2, <3>3 DEF Dropped
  <2>5. IdsInv' /\ Tightens
    BY <1>0, <1>3, <2>4, ObjectKeeps DEF Others
  <2>6. StoryInv'
    BY <1>0, <1>3, StoryStays DEF Others
  <2> QED
    BY <1>0, <1>3, <2>2, <2>3, <2>4, <2>5, <2>6, CommandMoves
<1>4. CASE c.pc = "manifest" /\ man' = Without(man, c.target) /\ Step(c, "verify") /\ UNCHANGED obj
  <2>1. PICK d, pc : d = [c EXCEPT !.pc = pc] /\ pc = "verify"
    OBVIOUS
  <2>2. d \in MaintenanceCommand /\ d.op = c.op /\ d.action = c.action /\ d.pc = "verify"
    <3>1. pc \in CommandPc
      BY <2>1 DEF CommandPc
    <3> QED
      BY <1>0, <2>1, <3>1, CommandWith
  <2>3. Aimed(d)' /\ op' = (op \ {c}) \cup {d}
    BY <1>0, <1>4, <2>1, <2>2 DEF Aimed, Step
  <2>4. PICK ws : ws = man' /\ ws = Without(man, c.target)
    BY <1>4
  <2>5. /\ ws \in Seq(StoredVersion) /\ Range(ws) \subseteq Range(man)
        /\ \A v \in Range(man) : v.id # c.target => v \in Range(ws)
        /\ (\A v \in Range(man) : v.id # c.target) => ws = man
    BY <1>0, <2>4, RangeOfWithout
  <2>6. \A v \in Range(man) : v.id = c.target => v.marker
    BY <1>0, <1>4 DEF Aimed
  <2>7. man' \in Seq(StoredVersion) /\ Dropped(Range(man), Range(man'))
    BY <2>4, <2>5, <2>6 DEF Dropped
  <2>8. IdsInv' /\ Tightens
    BY <1>0, <1>4, <2>7, ManifestKeeps DEF Others
  <2>9. StoryInv'
    <3>1. CASE markers = 0
      <4>1. man' = man
        BY <2>4, <2>5, <2>6, <3>1 DEF StoreInv, StoryInv
      <4> QED
        BY <1>0, <4>1, StoryStays DEF Others
    <3>2. CASE markers # 0
      BY <1>0, <3>2 DEF StoryInv, Others
    <3> QED
      BY <3>1, <3>2
  <2> QED
    BY <1>0, <1>4, <2>2, <2>3, <2>7, <2>8, <2>9, CommandMoves
<1> QED
  BY <1>1, <1>2, <1>3, <1>4 DEF Restore

-----------------------------------------------------------------------------

LEMMA StoreStart == ArtifactInit => StoreInv
<1> SUFFICES ASSUME ArtifactInit PROVE StoreInv
  OBVIOUS
<1>1. Idle \in WriterState /\ Idle.pc = "idle"
  BY DEF Idle, WriterState
<1>2. Shape
  BY <1>1 DEF ArtifactInit, Shape
<1>3. Range(obj) = {} /\ Range(man) = {}
  BY DEF ArtifactInit, Range
<1> QED
  BY <1>1, <1>2, <1>3 DEF ArtifactInit, StoreInv, IdsInv, WriterInv, StoryInv

LEMMA StoreStep == StoreInv /\ [ArtifactNext]_artifactVars => StoreInv' /\ [Accounted]_<<obj, man>>
<1> SUFFICES ASSUME StoreInv, [ArtifactNext]_artifactVars
             PROVE  StoreInv' /\ [Accounted]_<<obj, man>>
  OBVIOUS
<1>1. CASE UNCHANGED artifactVars
  <2>1. KeysGrow /\ StoryInv' /\ (\A w \in Calls : WriterInv(w)')
    BY <1>1, KeysStay, StoryStays DEF artifactVars, StoreInv, WriterInv
  <2>2. Goal
    BY <1>1, <2>1, StepOfOthers DEF artifactVars, StoreInv, Shape
  <2> QED
    BY <1>1, <2>2 DEF Goal, artifactVars
<1>2. CASE ArtifactNext
  <2>1. ASSUME NEW w \in Calls, \/ \E m \in Metas : Finalize(w, m)
                                \/ Lookup(w) \/ EnsureObject(w) \/ VerifyObject(w)
                                \/ PublishManifest(w) \/ Confirm(w) \/ Abandon(w)
        PROVE  Goal
    BY <2>1, FinalizeKeeps, ReadsKeep, EnsureKeeps, PublishKeeps
  <2>2. ASSUME NEW o \in Ops, NEW a \in ArtifactMaintenanceAction, Request(o, a) PROVE Goal
    BY <2>2, RequestKeeps
  <2>3. ASSUME NEW c \in op, \/ ExtendRetention(c) \/ EnableLegalHold(c) \/ CollectOrphans(c)
                             \/ Restore(c) \/ CommandDies(c) \/ CloseCommand(c)
        PROVE  Goal
    BY <2>3, RetentionKeeps, CollectKeeps, RestoreKeeps, EndKeeps
  <2>4. Goal
    BY <1>2, <2>1, <2>2, <2>3, MarkerKeeps, TickKeeps DEF ArtifactNext
  <2> QED
    BY <2>4, StepIsAccounted DEF Goal
<1> QED
  BY <1>1, <1>2

\* StoreInvariant: a version id is used once, a command under way is the open
\* end of the audit chain and alone, what it found in its first call is what it
\* changes in its later ones, and without deletes there is one manifest
\* (s3_maintenance.py, artifact_maintenance.py).
THEOREM StoreInvariant == ArtifactSpec => []StoreInv
  BY StoreStart, StoreStep, PTL DEF ArtifactSpec

\* EveryCallTellsOneStory: while nobody has deleted anything, every finalize
\* that succeeds returns the same manifest, for any number of calls, commands,
\* lost answers and crashes (s3.py, _reconcile).
THEOREM EveryCallTellsOneStory == ArtifactSpec => []OneStory
<1>1. StoreInv => OneStory
  BY DEF StoreInv, StoryInv, OneStory
<1> QED
  BY <1>1, StoreInvariant, PTL

\* MutationsAreAlwaysAccountable: no step loosens a lock or deletes a locked
\* version, and a version is only changed or deleted by the command whose
\* request is the open end of the audit chain (s3_maintenance.py,
\* artifact_maintenance.py).
THEOREM MutationsAreAlwaysAccountable == ArtifactSpec => MutationsAreAccountable
<1>1. StoreInv /\ [ArtifactNext]_artifactVars => [Accounted]_<<obj, man>>
  BY StoreStep
<1>2. ArtifactSpec => [][Accounted]_<<obj, man>>
  BY <1>1, StoreInvariant, PTL DEF ArtifactSpec
<1> QED
  BY <1>2 DEF Accounted, MutationsAreAccountable

HIDE ArtifactAssumption

-----------------------------------------------------------------------------
(***************************************************************************)
(* The snapshot job, for any workers, routes, answers, health of the       *)
(* providers, policies and limits.                                         *)
(*                                                                         *)
(* SnapshotIsSound speaks of the linked snapshot and of recorded failures; *)
(* what they are made of was decided earlier, by a fetch, and travelled in *)
(* a worker's memory while leases ran out and other workers stored their   *)
(* own answers.  The inductive invariant therefore follows the selected    *)
(* answer from the fetch (SelectionInv) through the stages (HolderInv) to  *)
(* the link (LinkInv), keeps content and its time together in the store    *)
(* (ContentInv), and makes job, run, link and receipts one completion      *)
(* that no failed attempt can follow (AttemptInv, CompletionInv).          *)
(***************************************************************************)

\* What fetching guarantees of what it selects.
SelectionInv(m) ==
    /\ AllowStale \/ (m.support = 2) = (m.trace # None)
    /\ m.trace # None =>
         /\ m.trace.decision # "threshold_exceeded"
         /\ (m.trace.decision = "both_empty") = (m.state = "legitimate_empty")

\* The record of a failure shows a disagreement or nothing.
TraceInv(f) == f.trace # None => f.trace.decision = "threshold_exceeded"

\* What a worker holds of a lease, whether the lease is still its own or not.
HolderInv(r, attempts) ==
    /\ r.gen <= attempts
    /\ r.pc \in {"refence", "raw", "manifest", "complete"} => r.mat # None /\ SelectionInv(r.mat)
    /\ r.pc \in {"manifest", "complete"} => EvidencePit(r.mat)
    /\ r.pc = "fail" => r.fail # None /\ TraceInv(r.fail)

\* Content is stored once, with the time it was first given.
ContentInv == \A s1, s2 \in store : s1.content = s2.content => s1 = s2

\* The failures recorded are those of earlier attempts, and each let the job live.
AttemptInv ==
    /\ sjob.status = "absent" => failures = <<>>
    /\ \A i \in DOMAIN failures :
         /\ TraceInv(failures[i])
         /\ failures[i].gen <= sjob.attempts
         /\ sjob.status \in {"leased", "succeeded"} => failures[i].gen < sjob.attempts
         /\ sjob.status \in {"queued", "leased", "succeeded"} => failures[i].retry

\* The job, the run, its link and the receipts tell one completion.
CompletionInv ==
    /\ (sjob.status = "succeeded") = (link # None)
    /\ (srun.status = "succeeded") = (link # None)
    /\ link = None => receipts = {}
    /\ \A r \in receipts :
         r = [manifest |-> link.manifest, gen |-> link.gen, seq |-> srun.version]

\* A linked snapshot was selected, authorized and archived under its own date.
LinkInv ==
    link # None =>
        /\ link.gen = sjob.attempts
        /\ SelectionInv(link.manifest)
        /\ link.manifest.authorized
        /\ EvidencePit(link.manifest)
        /\ link.manifest.trace # None => link.manifest.trace.primary = link.manifest.provider
        /\ Holds(RawContent(link.manifest)) /\ Holds(ManifestContent(link.manifest))
        /\ FinalizedAt(RawContent(link.manifest)) = link.manifest.observed

SnapshotInv ==
    /\ SnapshotTypeOK
    /\ \A w \in Workers : HolderInv(swk[w], sjob.attempts)
    /\ ContentInv /\ AttemptInv /\ CompletionInv /\ LinkInv

USE RouteAssumption, ValueAssumption, LimitAssumption, RecordAssumption

-----------------------------------------------------------------------------
(* Routes.                                                                 *)

LEMMA FirstRoute ==
    ASSUME NEW S \in SUBSET DOMAIN Routes, S # {}
    PROVE  FirstOf(S) \in S /\ \A j \in S : FirstOf(S) <= j
<1> DEFINE R == OpToRel(<, Nat)
<1>0. S \subseteq Nat
  OBVIOUS
<1>1. PICK i \in S : \A j \in S : ~(<<j, i>> \in R)
  <2> HIDE DEF R
  <2>1. IsWellFoundedOn(R, Nat)
    BY NatLessThanWellFounded DEF R
  <2> QED
    BY <1>0, <2>1, WFMin
<1>2. \A j \in S : ~(j < i)
  BY <1>0, <1>1 DEF OpToRel
<1>3. \A j \in S : i <= j
  BY <1>0, <1>2
<1> QED
  BY <1>3 DEF FirstOf

\* The first two of a set of routes are its smallest members.
LEMMA FirstTwoAre ==
    ASSUME NEW S \in SUBSET DOMAIN Routes
    PROVE  \/ S = {} /\ FirstTwo(S) = <<>>
           \/ \E i \in S : S = {i} /\ FirstTwo(S) = <<Routes[i]>>
           \/ \E i, j \in S : /\ i < j /\ \A k \in S : k = i \/ j <= k
                             /\ FirstTwo(S) = <<Routes[i], Routes[j]>>
<1>1. CASE S = {}
  BY <1>1 DEF FirstTwo
<1>2. CASE S # {}
  <2>1. PICK i \in S : i = FirstOf(S) /\ \A j \in S : i <= j
    BY <1>2, FirstRoute
  <2>2. CASE S = {i}
    BY <2>1, <2>2 DEF FirstTwo
  <2>3. CASE S # {i}
    <3>1. S \ {i} # {} /\ S \ {i} \in SUBSET DOMAIN Routes
      BY <2>3
    <3>2. PICK j \in S \ {i} : j = FirstOf(S \ {i}) /\ \A k \in S \ {i} : j <= k
      BY <3>1, FirstRoute
    <3>3. FirstTwo(S) = <<Routes[i], Routes[j]>>
      BY <1>2, <2>1, <2>3, <3>2 DEF FirstTwo
    <3>4. i < j
      BY <2>1, <3>2
    <3> QED
      BY <3>2, <3>3, <3>4
  <2> QED
    BY <2>2, <2>3
<1> QED
  BY <1>1, <1>2

LEMMA RoutesAreProviders ==
    ASSUME NEW i \in DOMAIN Routes
    PROVE  Routes[i] \in Providers /\ Routes[i] # None
BY DEF Providers, Range

LEMMA AnswerTypes ==
    ASSUME NEW a \in Answer
    PROVE  /\ a.kind \in {"failure", "foreign", "answer"} /\ a.state \in ProviderDataState
           /\ a.value \in Values \cup {None} /\ a.pit \in BOOLEAN
           /\ a = [kind |-> a.kind, state |-> a.state, value |-> a.value, pit |-> a.pit]
           /\ a.state # "stale" /\ (a.state = "legitimate_empty" => a.kind = "answer")
<1>1. First \in Values
  BY DEF First
<1>2. CASE a \in {[kind |-> "failure", state |-> "failed", value |-> None, pit |-> TRUE],
                  [kind |-> "foreign", state |-> "available", value |-> None, pit |-> TRUE],
                  [kind |-> "answer", state |-> "legitimate_empty", value |-> None, pit |-> TRUE]}
  <2>1. CASE a = [kind |-> "failure", state |-> "failed", value |-> None, pit |-> TRUE]
    BY <2>1 DEF ProviderDataState
  <2>2. CASE a = [kind |-> "foreign", state |-> "available", value |-> None, pit |-> TRUE]
    BY <2>2 DEF ProviderDataState
  <2>3. CASE a = [kind |-> "answer", state |-> "legitimate_empty", value |-> None, pit |-> TRUE]
    BY <2>3 DEF ProviderDataState
  <2> QED
    BY <1>2, <2>1, <2>2, <2>3
<1>3. CASE a \in [kind : {"answer"}, state : {"available"}, value : Values \cup {None}, pit : {TRUE}]
  BY <1>3 DEF ProviderDataState
<1>4. CASE a \in [kind : {"answer"}, state : {"partial"}, value : {First}, pit : BOOLEAN]
  BY <1>1, <1>4 DEF ProviderDataState
<1> QED
  BY <1>2, <1>3, <1>4 DEF Answer

\* An accepted answer is the provider's own, but for the mark of staleness.
LEMMA AcceptedAnswer ==
    ASSUME NEW answers \in [Providers -> Answer], NEW gates \in [Providers -> Gates],
           NEW i \in AcceptedRoutes(Seen(answers, gates))
    PROVE  LET s == Seen(answers, gates)[Routes[i]]
               a == answers[Routes[i]]
           IN  /\ AskedWhen(gates[Routes[i]])
               /\ a \in Answer /\ a.kind = "answer" /\ s.kind = "answer"
               /\ s.value = a.value /\ s.pit = a.pit
               /\ s.state \in ProviderDataState
               /\ IsEmpty(s) = IsEmpty(a)
<1> DEFINE p == Routes[i]
           a == answers[p]
           s == Seen(answers, gates)[p]
<1>1. i \in DOMAIN Routes /\ Accepted(s)
  BY DEF AcceptedRoutes
<1>2. p \in Providers
  BY <1>1, RoutesAreProviders
<1>3. a \in Answer
  BY <1>2
<1>4. s = IF AskedWhen(gates[p]) THEN Marked(a, gates[p]) ELSE [a EXCEPT !.state = "failed"]
  BY <1>2 DEF Seen
<1>5. /\ a.state \in ProviderDataState
      /\ a = [kind |-> a.kind, state |-> a.state, value |-> a.value, pit |-> a.pit]
  BY <1>3, AnswerTypes
<1>6. AskedWhen(gates[p])
  <2>1. [a EXCEPT !.state = "failed"].state = "failed"
    BY <1>5
  <2> QED
    BY <1>1, <1>4, <2>1 DEF Accepted
<1>7. s = Marked(a, gates[p]) /\ s.state # "failed" /\ s.kind = "answer"
  BY <1>1, <1>4, <1>6 DEF Accepted
<1>8. \/ s = a
      \/ a.state = "available" /\ s = [a EXCEPT !.state = "stale"]
  <2>1. [a EXCEPT !.state = "failed"].state = "failed"
    BY <1>5
  <2> QED
    BY <1>7, <2>1 DEF Marked
<1>9. s.value = a.value /\ s.pit = a.pit /\ a.kind = "answer"
  BY <1>5, <1>7, <1>8
<1>10. s.state \in ProviderDataState /\ IsEmpty(s) = IsEmpty(a)
  BY <1>5, <1>8 DEF IsEmpty, ProviderDataState
<1> QED
  BY <1>3, <1>6, <1>7, <1>9, <1>10

\* The trace of two providers that both answered empty, or whose values were read.
LEMMA TraceOfTwo ==
    ASSUME NEW answers \in [Providers -> Answer], NEW p \in Providers, NEW q \in Providers,
           \/ IsEmpty(answers[p]) /\ IsEmpty(answers[q])
           \/ answers[p].value # None /\ answers[q].value # None
    PROVE  LET t == TraceOf(<<p, q>>, answers)
           IN  /\ t \in ReconciliationTrace /\ t # None
               /\ t.primary = p /\ t.secondary = q
               /\ (t.decision = "both_empty") = (IsEmpty(answers[p]) /\ IsEmpty(answers[q]))
<1> DEFINE empty == IsEmpty(answers[p]) /\ IsEmpty(answers[q])
           vs == IF empty THEN <<0, 0>> ELSE <<answers[p].value, answers[q].value>>
           d == IF empty THEN "both_empty"
                ELSE IF Differ(vs[1], vs[2]) THEN "threshold_exceeded" ELSE "within_threshold"
           t == TraceOf(<<p, q>>, answers)
<1>1. t = [primary |-> p, secondary |-> q, values |-> vs, decision |-> d]
  BY DEF TraceOf
<1>2. vs \in Seq(Values \cup {0})
  <2>1. answers[p].value \in Values \cup {None} /\ answers[q].value \in Values \cup {None}
    BY AnswerTypes
  <2>2. CASE empty
    BY <2>2
  <2>3. CASE ~empty
    <3>1. answers[p].value \in Values /\ answers[q].value \in Values
      BY <2>1, <2>3
    <3>2. \A x, y \in Values \cup {0} : <<x, y>> \in Seq(Values \cup {0})
      OBVIOUS
    <3>3. vs = <<answers[p].value, answers[q].value>>
      BY <2>3
    <3> QED
      BY <3>1, <3>2, <3>3
  <2> QED
    BY <2>2, <2>3
<1>3. /\ d \in {"within_threshold", "both_empty", "threshold_exceeded"}
      /\ (d = "both_empty") = empty
  OBVIOUS
<1> HIDE DEF empty, vs, d
<1>4. t \in ReconciliationTrace
  BY <1>1, <1>2, <1>3 DEF ReconciliationTrace
<1>5. t.primary = p /\ t.secondary = q /\ t.decision = d
  BY <1>1
<1> QED
  BY <1>3, <1>4, <1>5 DEF empty

\* A trace is made of both candidates, or of two providers that answered empty.
LEMMA TracedPair ==
    ASSUME NEW answers \in [Providers -> Answer], NEW gates \in [Providers -> Gates],
           NEW asked \in SUBSET DOMAIN Routes
    PROVE  LET seen == Seen(answers, gates)
               pair == DualTrace(Candidates(seen), seen, answers, asked)
           IN  \/ pair = <<>>
               \/ \E i, j \in DOMAIN Routes :
                    /\ pair = <<Routes[i], Routes[j]>>
                    /\ IsEmpty(answers[Routes[i]]) /\ IsEmpty(answers[Routes[j]])
               \/ \E i, j \in AcceptedRoutes(seen) :
                    /\ pair = <<Routes[i], Routes[j]>> /\ pair = Candidates(seen)
                    /\ ~IsEmpty(seen[Routes[i]]) /\ ~IsEmpty(seen[Routes[j]])
                    /\ seen[Routes[i]].value # None /\ seen[Routes[j]].value # None
<1> DEFINE seen == Seen(answers, gates)
           cands == Candidates(seen)
           pair == DualTrace(cands, seen, answers, asked)
           empties == {i \in asked : IsEmpty(answers[Routes[i]])}
           valued == \A i \in DOMAIN cands : ~IsEmpty(seen[cands[i]]) /\ seen[cands[i]].value # None
<1>1. pair = IF Len(cands) = 2 /\ valued THEN cands
             ELSE IF \E i, j \in empties : i # j /\ empties = {i, j} THEN FirstTwo(empties)
             ELSE <<>>
  BY DEF DualTrace
<1>2. AcceptedRoutes(seen) \in SUBSET DOMAIN Routes /\ cands = FirstTwo(AcceptedRoutes(seen))
  BY DEF AcceptedRoutes, Candidates
<1>3. CASE Len(cands) = 2 /\ valued
  <2>1. PICK i \in AcceptedRoutes(seen), j \in AcceptedRoutes(seen) :
               cands = <<Routes[i], Routes[j]>>
    BY <1>2, <1>3, FirstTwoAre
  <2>2. cands[1] = Routes[i] /\ cands[2] = Routes[j] /\ 1 \in DOMAIN cands /\ 2 \in DOMAIN cands
    BY <2>1
  <2>3. /\ ~IsEmpty(seen[Routes[i]]) /\ ~IsEmpty(seen[Routes[j]])
        /\ seen[Routes[i]].value # None /\ seen[Routes[j]].value # None
    BY <1>3, <2>2
  <2>4. pair = cands
    BY <1>1, <1>3
  <2> QED
    BY <2>1, <2>3, <2>4
<1>4. CASE ~(Len(cands) = 2 /\ valued) /\ \E i, j \in empties : i # j /\ empties = {i, j}
  <2>1. pair = FirstTwo(empties) /\ empties \in SUBSET DOMAIN Routes
    BY <1>1, <1>4
  <2>2. PICK i \in empties, j \in empties : pair = <<Routes[i], Routes[j]>>
    <3>1. empties # {} /\ ~\E i \in empties : empties = {i}
      BY <1>4
    <3> HIDE DEF empties, pair
    <3> QED
      BY <2>1, <3>1, FirstTwoAre
  <2> QED
    BY <2>2
<1>5. CASE ~(Len(cands) = 2 /\ valued) /\ ~\E i, j \in empties : i # j /\ empties = {i, j}
  BY <1>1, <1>5
<1> QED
  BY <1>3, <1>4, <1>5

\* Under a policy that refuses stale data, every empty answer that counts is accepted.
LEMMA SupportIsTraced ==
    ASSUME NEW answers \in [Providers -> Answer], NEW gates \in [Providers -> Gates], ~AllowStale,
           NEW seen, seen = Seen(answers, gates),
           Candidates(seen) # <<>>,
           Len(Candidates(seen)) = 2 =>
              Refusal(seen[Candidates(seen)[1]], seen[Candidates(seen)[2]]) = None
    PROVE  LET asked == {i \in AskedUpTo(seen) : AskedWhen(gates[Routes[i]])}
           IN  (Len(Candidates(seen)) = 2) = (DualTrace(Candidates(seen), seen, answers, asked) # <<>>)
<1> DEFINE asked == {i \in AskedUpTo(seen) : AskedWhen(gates[Routes[i]])}
           cands == Candidates(seen)
           pair == DualTrace(cands, seen, answers, asked)
           empties == {i \in asked : IsEmpty(answers[Routes[i]])}
           valued == \A i \in DOMAIN cands : ~IsEmpty(seen[cands[i]]) /\ seen[cands[i]].value # None
           good == AcceptedRoutes(seen)
<1>1. pair = IF Len(cands) = 2 /\ valued THEN cands
             ELSE IF \E i, j \in empties : i # j /\ empties = {i, j} THEN FirstTwo(empties)
             ELSE <<>>
  BY DEF DualTrace
<1>2. good \in SUBSET DOMAIN Routes /\ cands = FirstTwo(good)
  BY DEF AcceptedRoutes, Candidates
<1>3. empties \subseteq good
  <2> SUFFICES ASSUME NEW k \in asked, IsEmpty(answers[Routes[k]]) PROVE k \in good
    OBVIOUS
  <2>1. k \in DOMAIN Routes /\ AskedWhen(gates[Routes[k]]) /\ Routes[k] \in Providers
    BY RoutesAreProviders DEF AskedUpTo
  <2>2. gates[Routes[k]] = "open"
    BY <2>1 DEF AskedWhen
  <2>3. seen[Routes[k]] = answers[Routes[k]]
    BY <2>1, <2>2 DEF Seen, Marked
  <2>4. answers[Routes[k]].state = "legitimate_empty" /\ answers[Routes[k]] \in Answer
    BY <2>1 DEF IsEmpty
  <2>5. answers[Routes[k]].kind = "answer"
    BY <2>4, AnswerTypes
  <2> QED
    BY <2>1, <2>3, <2>4, <2>5 DEF AcceptedRoutes, Accepted
<1>4. CASE \E i \in good : good = {i} /\ cands = <<Routes[i]>>
  <2>1. Len(cands) # 2
    BY <1>4
  <2>2. ~\E i, j \in empties : i # j /\ empties = {i, j}
    <3> HIDE DEF empties, good
    <3> QED
      BY <1>3, <1>4
  <2> QED
    BY <1>1, <2>1, <2>2
<1>5. CASE \E i, j \in good : /\ i < j /\ \A k \in good : k = i \/ j <= k
                            /\ cands = <<Routes[i], Routes[j]>>
  <2>1. PICK i \in good, j \in good : /\ i < j /\ \A k \in good : k = i \/ j <= k
                                    /\ cands = <<Routes[i], Routes[j]>>
    BY <1>5
  <2>2. Len(cands) = 2 /\ cands[1] = Routes[i] /\ cands[2] = Routes[j]
    BY <2>1
  <2>3. Refusal(seen[Routes[i]], seen[Routes[j]]) = None
    BY <2>2
  <2>4. CASE valued
    <3>1. pair = cands /\ cands # <<>>
      BY <1>1, <2>1, <2>2, <2>4
    <3> QED
      BY <2>2, <3>1
  <2>5. CASE ~valued
    <3>1. DOMAIN cands = {1, 2}
      BY <2>1
    <3>2. IsEmpty(seen[Routes[i]]) /\ IsEmpty(seen[Routes[j]])
      BY <2>2, <2>3, <2>5, <3>1 DEF Refusal, RefusalReason
    <3>3. IsEmpty(answers[Routes[i]]) /\ IsEmpty(answers[Routes[j]])
      BY <3>2, AcceptedAnswer
    <3>4. i \in asked /\ j \in asked
      <4>1. AskedWhen(gates[Routes[i]]) /\ AskedWhen(gates[Routes[j]])
        BY AcceptedAnswer
      <4>2. i \in Nat /\ j \in Nat /\ good \subseteq Nat
        BY <1>2
      <4>3. ~\E k, l \in good : k < l /\ l < i
        BY <2>1, <4>2
      <4>4. ~\E k, l \in good : k < l /\ l < j
        BY <2>1, <4>2
      <4> QED
        BY <1>2, <4>1, <4>3, <4>4 DEF AskedUpTo
    <3>5. empties = {i, j}
      <4>1. ASSUME NEW k \in empties PROVE k \in {i, j}
        <5>1. k \in good /\ k \in AskedUpTo(seen)
          BY <1>3
        <5>2. ~(j < k)
          BY <2>1, <5>1 DEF AskedUpTo
        <5>3. k \in Nat /\ j \in Nat
          BY <1>2, <5>1
        <5> QED
          BY <2>1, <5>1, <5>2, <5>3
      <4>2. i \in empties /\ j \in empties
        BY <3>3, <3>4
      <4> HIDE DEF empties
      <4> QED
        BY <4>1, <4>2
    <3>6. i # j
      BY <1>2, <2>1
    <3>7. pair = FirstTwo(empties)
      <4> HIDE DEF empties, valued, pair, cands
      <4> QED
        BY <1>1, <2>5, <3>5, <3>6
    <3>8. FirstTwo(empties) # <<>>
      <4>1. empties \in SUBSET DOMAIN Routes /\ empties # {}
        BY <1>2, <3>5
      <4>2. \A i1, j1 : <<Routes[i1]>> # <<>> /\ <<Routes[i1], Routes[j1]>> # <<>>
        OBVIOUS
      <4> HIDE DEF empties
      <4> QED
        BY <4>1, <4>2, FirstTwoAre, ZenonT(30)
    <3> QED
      BY <2>2, <3>7, <3>8
  <2> QED
    BY <2>4, <2>5
<1>6. good # {}
  BY <1>2, FirstTwoAre DEF FirstTwo
<1> QED
  BY <1>2, <1>4, <1>5, <1>6, FirstTwoAre

-----------------------------------------------------------------------------
(* Steps.                                                                  *)

\* A worker's row after it was given a new one.
LEMMA HolderMoves ==
    ASSUME SnapshotInv, NEW w \in Workers, NEW r \in SnapshotWorker,
           swk' = [swk EXCEPT ![w] = r], sjob' \in JobRow, sjob.attempts <= sjob'.attempts,
           HolderInv(r, sjob'.attempts)
    PROVE  swk' \in [Workers -> SnapshotWorker] /\ \A v \in Workers : HolderInv(swk[v], sjob.attempts)'
<1>1. swk \in [Workers -> SnapshotWorker] /\ sjob \in JobRow
  BY DEF SnapshotInv, SnapshotTypeOK
<1>2. swk' \in [Workers -> SnapshotWorker]
  BY <1>1
<1>3. ASSUME NEW v \in Workers PROVE HolderInv(swk'[v], sjob'.attempts)
  <2>1. CASE v = w
    BY <1>1, <2>1
  <2>2. CASE v # w
    <3>1. swk'[v] = swk[v] /\ HolderInv(swk[v], sjob.attempts) /\ swk[v] \in SnapshotWorker
      BY <1>1, <2>2 DEF SnapshotInv
    <3>2. swk[v].gen \in Nat /\ sjob.attempts \in Nat /\ sjob'.attempts \in Nat
      BY <1>1, <3>1 DEF SnapshotWorker, JobRow
    <3> QED
      BY <3>1, <3>2 DEF HolderInv
  <2> QED
    BY <2>1, <2>2
<1> QED
  BY <1>2, <1>3

\* A step of a worker that touches nothing else.
LEMMA OnlyHolders ==
    ASSUME SnapshotInv, swk' \in [Workers -> SnapshotWorker],
           \A v \in Workers : HolderInv(swk[v], sjob.attempts)',
           UNCHANGED <<sjob, srun, store, link, failures, receipts, now>>
    PROVE  SnapshotInv'
<1>1. SnapshotTypeOK'
  BY DEF SnapshotInv, SnapshotTypeOK
<1>2. ContentInv' /\ AttemptInv'
  BY DEF SnapshotInv, ContentInv, AttemptInv, TraceInv
<1>3. CompletionInv'
  BY DEF SnapshotInv, CompletionInv
<1>4. LinkInv'
  BY DEF SnapshotInv, LinkInv, Holds, FinalizedAt
<1> QED
  BY <1>1, <1>2, <1>3, <1>4 DEF SnapshotInv

LEMMA RestingHolds ==
    /\ Resting \in SnapshotWorker
    /\ \A n \in Nat : HolderInv(Resting, n)
<1>1. Resting \in SnapshotWorker
  BY DEF Resting, SnapshotWorker
<1>2. Resting.gen = 0 /\ Resting.pc = "idle"
  BY DEF Resting
<1> QED
  BY <1>1, <1>2 DEF HolderInv

LEMMA StopsKeeps ==
    ASSUME SnapshotInv, NEW w \in Workers, Stops(w), sjob' \in JobRow,
           sjob.attempts <= sjob'.attempts
    PROVE  swk' \in [Workers -> SnapshotWorker] /\ \A v \in Workers : HolderInv(swk[v], sjob.attempts)'
<1>1. sjob'.attempts \in Nat
  BY DEF JobRow
<1> QED
  BY <1>1, RestingHolds, HolderMoves DEF Stops

\* Going on keeps what is held, if the next point asks for no more.
LEMMA ProceedsKeeps ==
    ASSUME SnapshotInv, NEW w \in Workers, NEW pc, Proceeds(w, pc), sjob' = sjob,
           \/ pc = "fetch"
           \/ pc = "raw" /\ swk[w].pc = "refence"
           \/ pc = "manifest" /\ swk[w].pc = "raw" /\ EvidencePit(swk[w].mat)
           \/ pc = "complete" /\ swk[w].pc = "manifest"
    PROVE  swk' \in [Workers -> SnapshotWorker] /\ \A v \in Workers : HolderInv(swk[v], sjob.attempts)'
<1> DEFINE r == [swk[w] EXCEPT !.pc = pc]
<1>1. swk \in [Workers -> SnapshotWorker] /\ sjob \in JobRow /\ HolderInv(swk[w], sjob.attempts)
  BY DEF SnapshotInv, SnapshotTypeOK
<1>2. r \in SnapshotWorker
  BY <1>1 DEF SnapshotWorker
<1>3. swk' = [swk EXCEPT ![w] = r]
  BY DEF Proceeds
<1>4. r.pc = pc /\ r.gen = swk[w].gen /\ r.mat = swk[w].mat /\ r.fail = swk[w].fail
  BY <1>1 DEF SnapshotWorker
<1>5. HolderInv(r, sjob.attempts)
  BY <1>1, <1>4 DEF HolderInv
<1>6. sjob.attempts \in Nat
  BY <1>1 DEF JobRow
<1>7. PICK x \in SnapshotWorker : x = r
  BY <1>2
<1> HIDE DEF r
<1>8. /\ sjob' \in JobRow /\ sjob.attempts <= sjob'.attempts /\ HolderInv(x, sjob'.attempts)
      /\ swk' = [swk EXCEPT ![w] = x]
  <2>1. sjob' \in JobRow /\ sjob.attempts <= sjob'.attempts
    BY <1>1, <1>6
  <2>2. HolderInv(x, sjob'.attempts)
    BY <1>5, <1>7
  <2>3. swk' = [swk EXCEPT ![w] = x]
    BY <1>3, <1>7
  <2> QED
    BY <2>1, <2>2, <2>3
<1> QED
  BY <1>8, HolderMoves

LEMMA SelectsKeeps ==
    ASSUME SnapshotInv, NEW w \in Workers, NEW m \in MaterializedSnapshot, SelectionInv(m),
           swk' = [swk EXCEPT ![w].pc = "refence", ![w].mat = m], sjob' = sjob
    PROVE  swk' \in [Workers -> SnapshotWorker] /\ \A v \in Workers : HolderInv(swk[v], sjob.attempts)'
<1> DEFINE r == [swk[w] EXCEPT !.pc = "refence", !.mat = m]
<1>1. swk \in [Workers -> SnapshotWorker] /\ sjob \in JobRow /\ HolderInv(swk[w], sjob.attempts)
  BY DEF SnapshotInv, SnapshotTypeOK
<1>2. r \in SnapshotWorker
  BY <1>1 DEF SnapshotWorker
<1>3. swk' = [swk EXCEPT ![w] = r]
  BY <1>1
<1>4. r.pc = "refence" /\ r.gen = swk[w].gen /\ r.mat = m
  BY <1>1 DEF SnapshotWorker
<1>5. HolderInv(r, sjob.attempts)
  BY <1>1, <1>4 DEF HolderInv
<1>6. sjob.attempts \in Nat
  BY <1>1 DEF JobRow
<1>7. PICK x \in SnapshotWorker : x = r
  BY <1>2
<1> HIDE DEF r
<1>8. /\ sjob' \in JobRow /\ sjob.attempts <= sjob'.attempts /\ HolderInv(x, sjob'.attempts)
      /\ swk' = [swk EXCEPT ![w] = x]
  <2>1. sjob' \in JobRow /\ sjob.attempts <= sjob'.attempts
    BY <1>1, <1>6
  <2>2. HolderInv(x, sjob'.attempts)
    BY <1>5, <1>7
  <2>3. swk' = [swk EXCEPT ![w] = x]
    BY <1>3, <1>7
  <2> QED
    BY <2>1, <2>2, <2>3
<1> QED
  BY <1>8, HolderMoves

LEMMA FailsKeeps ==
    ASSUME SnapshotInv, NEW w \in Workers, NEW stage \in {"provider", "materialization"},
           NEW t \in ReconciliationTrace \cup {None}, Fails(w, stage, t),
           t # None => t.decision = "threshold_exceeded", sjob' = sjob
    PROVE  swk' \in [Workers -> SnapshotWorker] /\ \A v \in Workers : HolderInv(swk[v], sjob.attempts)'
<1> DEFINE f == [stage |-> stage, trace |-> t]
           r == [swk[w] EXCEPT !.pc = "fail", !.mat = None, !.fail = f]
<1>1. swk \in [Workers -> SnapshotWorker] /\ sjob \in JobRow /\ HolderInv(swk[w], sjob.attempts)
  BY DEF SnapshotInv, SnapshotTypeOK
<1>2. f \in Failure /\ f.trace = t
  BY DEF Failure
<1>3. swk' = [swk EXCEPT ![w] = r]
  BY <1>1 DEF Fails
<1>4. r.pc = "fail" /\ r.gen = swk[w].gen /\ r.fail = f
  BY <1>1 DEF SnapshotWorker
<1> HIDE DEF f
<1>5. r \in SnapshotWorker
  BY <1>1, <1>2, ZenonT(30) DEF SnapshotWorker
<1>6. HolderInv(r, sjob.attempts)
  BY <1>1, <1>2, <1>4 DEF HolderInv, TraceInv
<1>7. sjob.attempts \in Nat
  BY <1>1 DEF JobRow
<1>8. PICK x \in SnapshotWorker : x = r
  BY <1>5
<1> HIDE DEF r
<1>9. /\ sjob' \in JobRow /\ sjob.attempts <= sjob'.attempts /\ HolderInv(x, sjob'.attempts)
      /\ swk' = [swk EXCEPT ![w] = x]
  <2>1. sjob' \in JobRow /\ sjob.attempts <= sjob'.attempts
    BY <1>1, <1>7
  <2>2. HolderInv(x, sjob'.attempts)
    BY <1>6, <1>8
  <2>3. swk' = [swk EXCEPT ![w] = x]
    BY <1>3, <1>8
  <2> QED
    BY <2>1, <2>2, <2>3
<1> QED
  BY <1>9, HolderMoves

-----------------------------------------------------------------------------
(* Fetching.                                                               *)

LEMMA FetchKeeps ==
    ASSUME SnapshotInv, NEW w \in Workers, NEW answers \in [Providers -> Answer],
           NEW gates \in [Providers -> Gates], Fetch(w, answers, gates)
    PROVE  SnapshotInv'
<1> DEFINE seen == Seen(answers, gates)
           cands == Candidates(seen)
           asked == {i \in AskedUpTo(seen) : AskedWhen(gates[Routes[i]])}
           violated == \E i \in asked : answers[Routes[i]].kind = "foreign"
           refused == \/ cands = <<>>
                      \/ Len(cands) = 2 /\ Refusal(seen[cands[1]], seen[cands[2]]) # None
           selected == IF refused THEN None ELSE cands[1]
           pair == DualTrace(cands, seen, answers, asked)
           trace == IF pair = <<>> THEN None ELSE TraceOf(pair, answers)
           invalid == violated \/ (trace # None /\ ~TraceIsValid(trace, selected))
<1>0. /\ UNCHANGED <<sjob, srun, store, link, failures, receipts, now>>
      /\ IF invalid THEN Fails(w, "provider", None)
         ELSE IF refused THEN Fails(w, "provider", trace)
         ELSE Selects(w, cands[1], seen[cands[1]], trace, Len(cands))
  BY DEF Fetch
<1>1. asked \in SUBSET DOMAIN Routes /\ AcceptedRoutes(seen) \in SUBSET DOMAIN Routes
  BY DEF AskedUpTo, AcceptedRoutes
<1>2. \/ pair = <<>> /\ trace = None
      \/ \E i, j \in DOMAIN Routes :
           /\ pair = <<Routes[i], Routes[j]>>
           /\ trace \in ReconciliationTrace /\ trace # None
           /\ trace.primary = Routes[i] /\ trace.secondary = Routes[j]
           /\ \/ /\ trace.decision = "both_empty"
                 /\ IsEmpty(answers[Routes[i]]) /\ IsEmpty(answers[Routes[j]])
              \/ /\ trace.decision # "both_empty" /\ pair = cands
                 /\ ~IsEmpty(seen[Routes[i]]) /\ ~IsEmpty(seen[Routes[j]])
  <2>1. CASE pair = <<>>
    BY <2>1
  <2>2. CASE \E i, j \in DOMAIN Routes :
                /\ pair = <<Routes[i], Routes[j]>>
                /\ IsEmpty(answers[Routes[i]]) /\ IsEmpty(answers[Routes[j]])
    <3>1. PICK i \in DOMAIN Routes, j \in DOMAIN Routes :
                /\ pair = <<Routes[i], Routes[j]>>
                /\ IsEmpty(answers[Routes[i]]) /\ IsEmpty(answers[Routes[j]])
      BY <2>2
    <3>2. Routes[i] \in Providers /\ Routes[j] \in Providers /\ pair # <<>>
      <4>1. <<Routes[i], Routes[j]>> # <<>>
        OBVIOUS
      <4> HIDE DEF pair
      <4> QED
        BY <3>1, <4>1, RoutesAreProviders
    <3>3. trace = TraceOf(<<Routes[i], Routes[j]>>, answers)
      BY <3>1, <3>2
    <3> HIDE DEF trace, pair, cands
    <3> QED
      BY <3>1, <3>2, <3>3, TraceOfTwo
  <2>3. CASE \E i, j \in AcceptedRoutes(seen) :
                /\ pair = <<Routes[i], Routes[j]>> /\ pair = cands
                /\ ~IsEmpty(seen[Routes[i]]) /\ ~IsEmpty(seen[Routes[j]])
                /\ seen[Routes[i]].value # None /\ seen[Routes[j]].value # None
    <3>1. PICK i \in AcceptedRoutes(seen), j \in AcceptedRoutes(seen) :
                /\ pair = <<Routes[i], Routes[j]>> /\ pair = cands
                /\ ~IsEmpty(seen[Routes[i]]) /\ ~IsEmpty(seen[Routes[j]])
                /\ seen[Routes[i]].value # None /\ seen[Routes[j]].value # None
      BY <2>3
    <3>2. /\ i \in DOMAIN Routes /\ j \in DOMAIN Routes
          /\ Routes[i] \in Providers /\ Routes[j] \in Providers /\ pair # <<>>
      <4>1. <<Routes[i], Routes[j]>> # <<>>
        OBVIOUS
      <4> HIDE DEF pair
      <4> QED
        BY <1>1, <3>1, <4>1, RoutesAreProviders
    <3>3. trace = TraceOf(<<Routes[i], Routes[j]>>, answers)
      BY <3>1, <3>2
    <3>4. /\ answers[Routes[i]].value # None /\ answers[Routes[j]].value # None
          /\ ~IsEmpty(answers[Routes[i]]) /\ ~IsEmpty(answers[Routes[j]])
      BY <3>1, AcceptedAnswer
    <3> HIDE DEF trace, pair, cands
    <3> QED
      BY <3>1, <3>2, <3>3, <3>4, TraceOfTwo
  <2> QED
    BY <1>1, <2>1, <2>2, <2>3, TracedPair
<1>3. CASE invalid
  <2>1. Fails(w, "provider", None)
    BY <1>0, <1>3
  <2> QED
    BY <1>0, <2>1, FailsKeeps, OnlyHolders
<1>4. CASE ~invalid /\ refused
  <2>1. Fails(w, "provider", trace)
    BY <1>0, <1>4
  <2>2. trace \in ReconciliationTrace \cup {None}
    BY <1>2
  <2>3. trace # None => trace.decision = "threshold_exceeded"
    <3>1. selected = None
      BY <1>4
    <3>2. ASSUME trace # None PROVE trace.primary # None /\ trace.secondary # None
      <4> HIDE DEF trace, pair, cands, seen
      <4> QED
        BY <1>2, <3>2, RoutesAreProviders
    <3> HIDE DEF trace, pair, cands, seen
    <3> QED
      BY <1>4, <3>1, <3>2 DEF TraceIsValid
  <2>4. PICK t \in ReconciliationTrace \cup {None} : t = trace
    BY <2>2
  <2> HIDE DEF trace
  <2> QED
    BY <1>0, <2>1, <2>3, <2>4, FailsKeeps, OnlyHolders
<1>5. CASE ~invalid /\ ~refused
  <2> DEFINE p == cands[1]
             m == Materialization(p, seen[p], trace, Len(cands))
  <2>1. \E i \in AcceptedRoutes(seen) : p = Routes[i] /\ Len(cands) \in {1, 2}
    <3>1. cands = FirstTwo(AcceptedRoutes(seen)) /\ cands # <<>>
      BY <1>5 DEF Candidates
    <3>2. \A x, y : /\ <<x>>[1] = x /\ Len(<<x>>) = 1
                    /\ <<x, y>>[1] = x /\ Len(<<x, y>>) = 2
      OBVIOUS
    <3> HIDE DEF cands
    <3> QED
      BY <1>1, <3>1, <3>2, FirstTwoAre
  <2>2. PICK i \in AcceptedRoutes(seen) : p = Routes[i]
    BY <2>1
  <2>3. /\ p \in Providers /\ answers[p] \in Answer /\ answers[p].kind = "answer"
        /\ seen[p].kind = "answer" /\ seen[p].state \in ProviderDataState
        /\ seen[p].value = answers[p].value /\ seen[p].pit = answers[p].pit
        /\ IsEmpty(seen[p]) = IsEmpty(answers[p])
    <3> HIDE DEF p, seen
    <3> QED
      BY <1>1, <2>2, AcceptedAnswer, RoutesAreProviders DEF seen
  <2>4. /\ answers[p].value \in Values \cup {None} /\ answers[p].pit \in BOOLEAN
    BY <2>3, AnswerTypes
  <2>5. trace \in ReconciliationTrace \cup {None} /\ now \in Clock
    BY <1>2 DEF SnapshotInv, SnapshotTypeOK
  <2>6. m = [provider |-> p, authorized |-> seen[p].kind # "foreign", state |-> seen[p].state,
             value |-> seen[p].value, pit |-> seen[p].pit, observed |-> now, trace |-> trace,
             support |-> Len(cands)]
    BY DEF Materialization
  <2>7. m \in MaterializedSnapshot
    <3> HIDE DEF m, p, trace, seen, cands
    <3> QED
      BY <2>1, <2>3, <2>4, <2>5, <2>6 DEF MaterializedSnapshot
  <2>8. AllowStale \/ (Len(cands) = 2) = (trace # None)
    <3> SUFFICES ASSUME ~AllowStale PROVE (Len(cands) = 2) = (trace # None)
      OBVIOUS
    <3>1. (Len(cands) = 2) = (pair # <<>>)
      BY <1>5, SupportIsTraced
    <3>2. \A x, y : <<x, y>> # <<>>
      OBVIOUS
    <3>3. (trace # None) = (pair # <<>>)
      <4> HIDE DEF trace, pair, cands, seen
      <4> QED
        BY <1>2, <3>2
    <3> QED
      BY <3>1, <3>3
  <2>9. trace # None => /\ trace.decision # "threshold_exceeded"
                        /\ (trace.decision = "both_empty") = IsEmpty(seen[p])
    <3> SUFFICES ASSUME trace # None
                 PROVE  /\ trace.decision # "threshold_exceeded"
                        /\ (trace.decision = "both_empty") = IsEmpty(seen[p])
      OBVIOUS
    <3>1. selected = p /\ p # None
      <4>1. p # None
        <5> HIDE DEF p
        <5> QED
          BY <2>3 DEF Providers
      <4> HIDE DEF refused
      <4> QED
        BY <1>5, <4>1
    <3>2. trace.decision # "threshold_exceeded" /\ p \in {trace.primary, trace.secondary}
      <4> HIDE DEF trace, p
      <4> QED
        BY <1>5, <3>1 DEF TraceIsValid
    <3>3. PICK i1 \in DOMAIN Routes, j1 \in DOMAIN Routes :
           /\ pair = <<Routes[i1], Routes[j1]>>
           /\ trace.primary = Routes[i1] /\ trace.secondary = Routes[j1]
           /\ \/ /\ trace.decision = "both_empty"
                 /\ IsEmpty(answers[Routes[i1]]) /\ IsEmpty(answers[Routes[j1]])
              \/ /\ trace.decision # "both_empty" /\ pair = cands
                 /\ ~IsEmpty(seen[Routes[i1]]) /\ ~IsEmpty(seen[Routes[j1]])
      <4> HIDE DEF trace, pair, p, seen, cands
      <4> QED
        BY <1>2
    <3>4. p = Routes[i1] \/ p = Routes[j1]
      <4> HIDE DEF trace, pair, p, seen, cands
      <4> QED
        BY <3>2, <3>3
    <3> HIDE DEF trace, pair, p, seen, cands
    <3>5. (trace.decision = "both_empty") => IsEmpty(seen[p])
      BY <2>3, <3>3, <3>4
    <3>6. (trace.decision # "both_empty") => ~IsEmpty(seen[p])
      BY <3>3, <3>4
    <3>7. IsEmpty(seen[p]) \in BOOLEAN
      BY DEF IsEmpty
    <3> QED
      BY <3>2, <3>5, <3>6, <3>7
  <2>10. SelectionInv(m)
    <3>1. m.support = Len(cands) /\ m.trace = trace /\ m.state = seen[p].state
      BY DEF Materialization
    <3> HIDE DEF m, p, trace, seen, cands
    <3> QED
      BY <2>8, <2>9, <3>1 DEF SelectionInv, IsEmpty
  <2>11. PICK x \in MaterializedSnapshot : x = m
    BY <2>7
  <2>12. swk' = [swk EXCEPT ![w].pc = "refence", ![w].mat = x]
    BY <1>0, <1>5, <2>11 DEF Selects
  <2>13. SelectionInv(x)
    BY <2>10, <2>11
  <2> QED
    BY <1>0, <2>12, <2>13, SelectsKeeps, OnlyHolders
<1> QED
  BY <1>3, <1>4, <1>5

-----------------------------------------------------------------------------
(* The other steps of the worker, the queue and the clock.                 *)

LEMMA FetchDirectKeeps ==
    ASSUME SnapshotInv, NEW w \in Workers, NEW p \in Providers, NEW a \in Answer, FetchDirect(w, p, a)
    PROVE  SnapshotInv'
<1>1. UNCHANGED <<sjob, srun, store, link, failures, receipts, now>>
  BY DEF FetchDirect
<1>2. CASE a.kind = "failure"
  BY <1>1, <1>2, FailsKeeps, OnlyHolders DEF FetchDirect
<1>3. CASE a.kind # "failure"
  <2> DEFINE m == Materialization(p, a, None, 1)
  <2>1. m = [provider |-> p, authorized |-> a.kind # "foreign", state |-> a.state,
             value |-> a.value, pit |-> a.pit, observed |-> now, trace |-> None, support |-> 1]
    BY DEF Materialization
  <2>2. now \in Clock
    BY DEF SnapshotInv, SnapshotTypeOK
  <2>3. m \in MaterializedSnapshot
    <3> HIDE DEF m
    <3> QED
      BY <2>1, <2>2, AnswerTypes DEF MaterializedSnapshot
  <2>4. m.trace = None /\ m.support = 1
    BY DEF Materialization
  <2>5. PICK x \in MaterializedSnapshot : x = m
    BY <2>3
  <2>6. SelectionInv(x)
    <3> HIDE DEF m
    <3> QED
      BY <2>4, <2>5 DEF SelectionInv
  <2>7. swk' = [swk EXCEPT ![w].pc = "refence", ![w].mat = x]
    BY <1>3, <2>5 DEF FetchDirect, Selects
  <2> QED
    BY <1>1, <2>6, <2>7, SelectsKeeps, OnlyHolders
<1> QED
  BY <1>2, <1>3

LEMMA RowsOfJob ==
    ASSUME SnapshotInv
    PROVE  /\ sjob \in JobRow /\ sjob.attempts \in Nat
           /\ \A w \in Workers : swk[w] \in SnapshotWorker /\ HolderInv(swk[w], sjob.attempts)
BY DEF SnapshotInv, SnapshotTypeOK, JobRow

LEMMA RecordedFailures ==
    ASSUME SnapshotInv
    PROVE  \A i \in DOMAIN failures : failures[i] \in FailureRecord /\ failures[i].gen \in Nat
<1>1. failures \in Seq(FailureRecord)
  BY DEF SnapshotInv, SnapshotTypeOK
<1>2. \A i \in DOMAIN failures : failures[i] \in FailureRecord
  BY <1>1
<1>3. \A f \in FailureRecord : f.gen \in Nat
  BY DEF FailureRecord
<1> QED
  BY <1>2, <1>3

LEMMA WaitingKeeps ==
    ASSUME SnapshotInv, NEW w \in Workers, Preflight(w) \/ Refence(w) \/ Crash(w)
    PROVE  SnapshotInv'
<1>1. UNCHANGED <<sjob, srun, store, link, failures, receipts, now>>
  BY DEF Preflight, Refence, Crash
<1>2. sjob' \in JobRow /\ sjob.attempts <= sjob'.attempts
  BY <1>1, RowsOfJob
<1>3. CASE Stops(w)
  BY <1>1, <1>2, <1>3, StopsKeeps, OnlyHolders
<1>4. CASE Proceeds(w, "fetch")
  BY <1>1, <1>4, ProceedsKeeps, OnlyHolders
<1>5. CASE swk[w].pc = "refence" /\ Proceeds(w, "raw")
  BY <1>1, <1>5, ProceedsKeeps, OnlyHolders
<1>6. CASE Fails(w, "provider", None)
  BY <1>1, <1>6, FailsKeeps, OnlyHolders
<1> QED
  BY <1>3, <1>4, <1>5, <1>6 DEF Preflight, Refence, Crash

LEMMA SubmitKeeps ==
    ASSUME SnapshotInv, Submit PROVE SnapshotInv'
<1>1. sjob \in JobRow /\ sjob.status = "absent" /\ sjob' = [sjob EXCEPT !.status = "queued"]
  BY RowsOfJob DEF Submit
<1>2. sjob' \in JobRow /\ sjob'.status = "queued" /\ sjob'.attempts = sjob.attempts
  BY <1>1 DEF JobRow
<1>3. link = None /\ receipts = {} /\ failures = <<>>
  BY <1>1 DEF SnapshotInv, CompletionInv, AttemptInv
<1>4. /\ srun'.status = "pending"
      /\ srun' \in [status : {"absent", "pending", "running", "succeeded", "failed"}, version : Nat]
  BY DEF Submit
<1>5. SnapshotTypeOK'
  BY <1>2, <1>4 DEF SnapshotInv, SnapshotTypeOK, Submit
<1>6. \A w \in Workers : HolderInv(swk[w], sjob.attempts)'
  BY <1>2 DEF SnapshotInv, Submit
<1>7. ContentInv' /\ AttemptInv' /\ CompletionInv' /\ LinkInv'
  BY <1>2, <1>3, <1>4 DEF SnapshotInv, Submit, ContentInv, AttemptInv, CompletionInv, LinkInv
<1> QED
  BY <1>5, <1>6, <1>7 DEF SnapshotInv

LEMMA ClaimKeeps ==
    ASSUME SnapshotInv, NEW w \in Workers, Claim(w) PROVE SnapshotInv'
<1> DEFINE r == [Resting EXCEPT !.pc = "claimed", !.gen = sjob.attempts + 1]
<1>1. /\ sjob \in JobRow /\ sjob.attempts \in Nat /\ sjob.attempts < MaxAttempts
      /\ sjob.status \in {"queued", "leased"}
      /\ sjob' = [status |-> "leased", attempts |-> sjob.attempts + 1, owner |-> w, live |-> TRUE]
  BY RowsOfJob DEF Claim
<1>2. sjob' \in JobRow /\ sjob'.status = "leased" /\ sjob'.attempts = sjob.attempts + 1
  BY <1>1 DEF JobRow
<1>3. link = None /\ receipts = {} /\ srun.status # "succeeded"
  BY <1>1 DEF SnapshotInv, CompletionInv
<1>4. Resting \in SnapshotWorker /\ sjob.attempts + 1 \in 0..MaxAttempts
  BY <1>1, RestingHolds
<1>5. r \in SnapshotWorker /\ r.pc = "claimed" /\ r.gen = sjob'.attempts
  BY <1>1, <1>2, <1>4 DEF SnapshotWorker
<1>6. swk' \in [Workers -> SnapshotWorker] /\ \A v \in Workers : HolderInv(swk[v], sjob.attempts)'
  <2>1. PICK x \in SnapshotWorker : x = r
    BY <1>5
  <2>2. HolderInv(x, sjob'.attempts) /\ sjob.attempts <= sjob'.attempts
    <3> HIDE DEF r
    <3> QED
      BY <1>1, <1>2, <1>5, <2>1 DEF HolderInv
  <2>3. swk' = [swk EXCEPT ![w] = x]
    BY <2>1 DEF Claim
  <2> HIDE DEF r
  <2> QED
    BY <1>2, <2>2, <2>3, HolderMoves
<1>7. SnapshotTypeOK'
  BY <1>2, <1>6 DEF SnapshotInv, SnapshotTypeOK, Claim
<1>8. AttemptInv'
  <2>1. ASSUME NEW i \in DOMAIN failures
        PROVE  /\ TraceInv(failures[i]) /\ failures[i].retry
               /\ failures[i].gen < sjob.attempts + 1
    <3>1. /\ TraceInv(failures[i]) /\ failures[i].gen <= sjob.attempts /\ failures[i].retry
      BY <1>1 DEF SnapshotInv, AttemptInv
    <3>2. failures[i].gen \in Nat
      BY RecordedFailures
    <3> QED
      BY <1>1, <3>1, <3>2
  <2>2. ASSUME NEW i \in DOMAIN failures PROVE failures[i].gen \in Nat
    BY RecordedFailures
  <2> QED
    BY <1>1, <1>2, <2>1, <2>2 DEF AttemptInv, TraceInv, Claim
<1>9. ContentInv' /\ CompletionInv' /\ LinkInv'
  BY <1>2, <1>3 DEF SnapshotInv, Claim, ContentInv, CompletionInv, LinkInv
<1> QED
  BY <1>6, <1>7, <1>8, <1>9 DEF SnapshotInv

\* The queue takes a lease back.
LEMMA LeaseEndsKeeps ==
    ASSUME SnapshotInv, ExpireLease \/ DeadLetter PROVE SnapshotInv'
<1>1. sjob \in JobRow /\ sjob.attempts \in Nat /\ sjob.status = "leased"
  BY RowsOfJob DEF ExpireLease, DeadLetter
<1>2. link = None /\ receipts = {} /\ srun.status # "succeeded"
  BY <1>1 DEF SnapshotInv, CompletionInv
<1>3. sjob' \in JobRow /\ sjob'.attempts = sjob.attempts /\ sjob'.status \in {"leased", "dead_letter"}
  BY <1>1 DEF ExpireLease, DeadLetter, JobRow
<1>4. /\ srun' \in [status : {"absent", "pending", "running", "succeeded", "failed"}, version : Nat]
      /\ srun'.status # "succeeded"
  <2>1. srun \in [status : {"absent", "pending", "running", "succeeded", "failed"}, version : Nat]
    BY DEF SnapshotInv, SnapshotTypeOK
  <2> QED
    BY <1>2, <2>1 DEF ExpireLease, DeadLetter
<1>5. UNCHANGED <<swk, store, link, failures, receipts, now>>
  BY DEF ExpireLease, DeadLetter
<1>6. SnapshotTypeOK'
  BY <1>3, <1>4, <1>5 DEF SnapshotInv, SnapshotTypeOK
<1>7. \A w \in Workers : HolderInv(swk[w], sjob.attempts)'
  BY <1>3, <1>5 DEF SnapshotInv
<1>8. AttemptInv'
  BY <1>1, <1>3, <1>5 DEF SnapshotInv, AttemptInv, TraceInv
<1>9. ContentInv' /\ CompletionInv' /\ LinkInv'
  BY <1>2, <1>3, <1>4, <1>5 DEF SnapshotInv, ContentInv, CompletionInv, LinkInv
<1> QED
  BY <1>6, <1>7, <1>8, <1>9 DEF SnapshotInv

LEMMA PassesKeeps ==
    ASSUME SnapshotInv, Passes PROVE SnapshotInv'
<1>1. now' \in Clock
  BY DEF SnapshotInv, SnapshotTypeOK, Passes, Clock
<1>2. UNCHANGED <<sjob, srun, swk, store, link, failures, receipts>>
  BY DEF Passes
<1>3. SnapshotTypeOK'
  BY <1>1, <1>2 DEF SnapshotInv, SnapshotTypeOK
<1>4. (\A w \in Workers : HolderInv(swk[w], sjob.attempts)') /\ ContentInv' /\ AttemptInv'
  BY <1>2 DEF SnapshotInv, ContentInv, AttemptInv, TraceInv
<1>5. CompletionInv' /\ LinkInv'
  BY <1>2 DEF SnapshotInv, CompletionInv, LinkInv, Holds, FinalizedAt
<1> QED
  BY <1>3, <1>4, <1>5 DEF SnapshotInv

-----------------------------------------------------------------------------
(* Archiving, completion and failure.                                      *)

\* What was stored before keeps its content and its time.
LEMMA FinalizedKeeps ==
    ASSUME SnapshotInv, NEW content, NEW at, store' = Finalized(content, at)
    PROVE  /\ ContentInv'
           /\ \A c : Holds(c) => Holds(c)' /\ FinalizedAt(c)' = FinalizedAt(c)
<1> DEFINE s == [content |-> content, at |-> at]
<1>1. s.content = content
  OBVIOUS
<1>2. PICK x : x = s
  OBVIOUS
<1>3. x.content = content
  BY <1>1, <1>2
<1>4. store' = store \/ (~Holds(content) /\ store' = store \cup {x})
  BY <1>2 DEF Finalized
<1>5. ContentInv
  BY DEF SnapshotInv
<1> HIDE DEF s
<1>6. ContentInv'
  BY <1>3, <1>4, <1>5 DEF ContentInv, Holds
<1>7. ASSUME NEW c, Holds(c) PROVE Holds(c)' /\ FinalizedAt(c)' = FinalizedAt(c)
  <2>1. PICK y \in store : y.content = c
    BY <1>7 DEF Holds
  <2>2. y \in store' /\ Holds(c)'
    BY <1>4, <2>1 DEF Holds
  <2>3. \A z \in store : z.content = c => z = y
    BY <1>5, <2>1 DEF ContentInv
  <2>4. \A z \in store' : z.content = c => z = y
    BY <1>6, <2>1, <2>2 DEF ContentInv
  <2>5. (CHOOSE z \in store : z.content = c) = y
    BY <2>1, <2>3
  <2>6. (CHOOSE z \in store' : z.content = c) = y
    BY <2>1, <2>2, <2>4
  <2> QED
    BY <2>2, <2>5, <2>6 DEF FinalizedAt
<1> QED
  BY <1>6, <1>7

\* A step of a worker that stores something.
LEMMA OnlyStores ==
    ASSUME SnapshotInv, swk' \in [Workers -> SnapshotWorker],
           \A v \in Workers : HolderInv(swk[v], sjob.attempts)',
           NEW content, NEW at, store' = Finalized(content, at),
           UNCHANGED <<sjob, srun, link, failures, receipts, now>>
    PROVE  SnapshotInv'
<1>1. SnapshotTypeOK'
  BY DEF SnapshotInv, SnapshotTypeOK
<1>2. AttemptInv' /\ CompletionInv'
  BY DEF SnapshotInv, AttemptInv, TraceInv, CompletionInv
<1>3. ContentInv'
  BY FinalizedKeeps
<1>4. LinkInv'
  <2> SUFFICES ASSUME link # None
               PROVE  LinkInv'
    BY DEF LinkInv
  <2> DEFINE m == link.manifest
  <2>1. Holds(RawContent(m)) /\ Holds(ManifestContent(m))
    BY DEF SnapshotInv, LinkInv
  <2>2. PICK c, d : c = RawContent(m) /\ d = ManifestContent(m)
    OBVIOUS
  <2>3. Holds(c)' /\ FinalizedAt(c)' = FinalizedAt(c) /\ Holds(d)'
    BY <2>1, <2>2, FinalizedKeeps
  <2>4. /\ c = RawContent(m)' /\ d = ManifestContent(m)'
        /\ FinalizedAt(c) = m.observed
    <3>1. RawContent(m)' = RawContent(m) /\ ManifestContent(m)' = ManifestContent(m)
      BY DEF RawContent, ManifestContent
    <3>2. FinalizedAt(RawContent(m)) = m.observed
      BY DEF SnapshotInv, LinkInv
    <3> QED
      BY <2>2, <3>1, <3>2
  <2>5. Holds(RawContent(m))' /\ Holds(ManifestContent(m))' /\ FinalizedAt(RawContent(m))' = m.observed
    <3>1. Holds(RawContent(m))' = Holds(c)' /\ Holds(ManifestContent(m))' = Holds(d)'
      BY <2>4 DEF Holds
    <3>2. FinalizedAt(RawContent(m))' = FinalizedAt(c)'
      BY <2>4 DEF FinalizedAt
    <3> QED
      BY <2>3, <2>4, <3>1, <3>2
  <2>6. /\ link.gen = sjob.attempts /\ SelectionInv(m) /\ m.authorized /\ EvidencePit(m)
        /\ m.trace # None => m.trace.primary = m.provider
    BY DEF SnapshotInv, LinkInv
  <2> HIDE DEF m
  <2>7. link' = link /\ sjob' = sjob
    OBVIOUS
  <2> QED
    BY <2>5, <2>6, <2>7 DEF LinkInv, m
<1> QED
  BY <1>1, <1>2, <1>3, <1>4 DEF SnapshotInv

LEMMA ArchiveKeeps ==
    ASSUME SnapshotInv, NEW w \in Workers, ArchiveRaw(w) \/ ArchiveManifest(w)
    PROVE  SnapshotInv'
<1>1. UNCHANGED <<sjob, srun, link, failures, receipts, now>>
  BY DEF ArchiveRaw, ArchiveManifest
<1>2. CASE Fails(w, "materialization", None) /\ UNCHANGED store
  BY <1>1, <1>2, FailsKeeps, OnlyHolders
<1>3. CASE /\ swk[w].pc = "raw" /\ Materializes(swk[w].mat) /\ Proceeds(w, "manifest")
           /\ store' = Finalized(RawContent(swk[w].mat), swk[w].mat.observed)
  <2>1. EvidencePit(swk[w].mat)
    BY <1>3 DEF Materializes, EvidencePit
  <2>2. /\ swk' \in [Workers -> SnapshotWorker]
        /\ \A v \in Workers : HolderInv(swk[v], sjob.attempts)'
    BY <1>1, <1>3, <2>1, ProceedsKeeps
  <2>3. PICK c, d : c = RawContent(swk[w].mat) /\ d = swk[w].mat.observed
    OBVIOUS
  <2> QED
    BY <1>1, <1>3, <2>2, <2>3, OnlyStores
<1>4. CASE /\ swk[w].pc = "manifest" /\ Proceeds(w, "complete")
           /\ store' = Finalized(ManifestContent(swk[w].mat), swk[w].mat.observed)
  <2>1. /\ swk' \in [Workers -> SnapshotWorker]
        /\ \A v \in Workers : HolderInv(swk[v], sjob.attempts)'
    BY <1>1, <1>4, ProceedsKeeps
  <2>2. PICK c, d : c = ManifestContent(swk[w].mat) /\ d = swk[w].mat.observed
    OBVIOUS
  <2> QED
    BY <1>1, <1>4, <2>1, <2>2, OnlyStores
<1> QED
  BY <1>2, <1>3, <1>4 DEF ArchiveRaw, ArchiveManifest

\* A completed row, and a worker that stops or stays with it.
LEMMA StopsOrStays ==
    ASSUME SnapshotInv, NEW w \in Workers, Stops(w) \/ UNCHANGED swk, sjob' \in JobRow,
           sjob'.attempts = sjob.attempts
    PROVE  swk' \in [Workers -> SnapshotWorker] /\ \A v \in Workers : HolderInv(swk[v], sjob.attempts)'
<1>1. sjob.attempts <= sjob'.attempts
  BY RowsOfJob
<1>2. CASE Stops(w)
  BY <1>1, <1>2, StopsKeeps
<1>3. CASE UNCHANGED swk
  BY <1>3 DEF SnapshotInv, SnapshotTypeOK
<1> QED
  BY <1>2, <1>3

\* A repeat of a completion returns the receipt of the first.
LEMMA RepeatKeeps ==
    ASSUME SnapshotInv, NEW w \in Workers, Repeat(w, swk[w].mat),
           Stops(w) \/ UNCHANGED swk, UNCHANGED <<store, failures, now>>
    PROVE  SnapshotInv'
<1>1. UNCHANGED <<sjob, srun, store, link, failures, now>>
  BY DEF Repeat
<1>2. sjob' \in JobRow /\ sjob'.attempts = sjob.attempts
  BY <1>1, RowsOfJob
<1>3. swk' \in [Workers -> SnapshotWorker] /\ \A v \in Workers : HolderInv(swk[v], sjob.attempts)'
  BY <1>2, StopsOrStays
<1>4. SnapshotTypeOK'
  BY <1>1, <1>3 DEF SnapshotInv, SnapshotTypeOK
<1>5. ContentInv' /\ AttemptInv'
  BY <1>1 DEF SnapshotInv, ContentInv, AttemptInv, TraceInv
<1>6. LinkInv'
  BY <1>1 DEF SnapshotInv, LinkInv, Holds, FinalizedAt
<1>7. CompletionInv'
  <2>1. link # None /\ srun.status = "succeeded"
    BY DEF Repeat, SnapshotInv, CompletionInv
  <2>2. link \in SnapshotLink
    BY <2>1 DEF SnapshotInv, SnapshotTypeOK
  <2> DEFINE x == [manifest |-> link.manifest, gen |-> swk[w].gen, seq |-> srun.version]
             y == [manifest |-> link.manifest, gen |-> link.gen, seq |-> srun.version]
  <2>3. \A r \in receipts : r = y
    BY DEF SnapshotInv, CompletionInv
  <2>4. RepeatsCompletion(w, swk[w].mat) => x = y
    BY <2>1 DEF SnapshotInv, LinkInv, RepeatsCompletion
  <2>5. receipts' = receipts \/ (RepeatsCompletion(w, swk[w].mat) /\ receipts' = receipts \cup {x})
    BY DEF Repeat
  <2>6. \A r \in receipts' : r = y
    <3> HIDE DEF x, y
    <3> QED
      BY <2>3, <2>4, <2>5
  <2>7. y = [manifest |-> link'.manifest, gen |-> link'.gen, seq |-> srun'.version]
    BY <1>1
  <2>8. \A r \in receipts' : r = [manifest |-> link'.manifest, gen |-> link'.gen, seq |-> srun'.version]
    <3> HIDE DEF y
    <3> QED
      BY <2>6, <2>7
  <2> QED
    BY <1>1, <2>1, <2>8 DEF SnapshotInv, CompletionInv
<1> QED
  BY <1>3, <1>4, <1>5, <1>6, <1>7 DEF SnapshotInv

\* The one completion: the fence is live, so every recorded failure is older.
LEMMA FinishKeeps ==
    ASSUME SnapshotInv, NEW w \in Workers, swk[w].pc = "complete",
           ArtifactsVerify(swk[w].mat), Fenced(w), CompletionContext(swk[w].mat),
           LinkRun(w, swk[w].mat), FinishJob(w, swk[w].mat),
           Stops(w) \/ UNCHANGED swk, UNCHANGED <<store, failures, now>>
    PROVE  SnapshotInv'
<1>1. /\ sjob \in JobRow /\ sjob.attempts \in Nat /\ swk[w] \in SnapshotWorker
      /\ HolderInv(swk[w], sjob.attempts)
  BY RowsOfJob
<1>2. sjob.status = "leased" /\ sjob.attempts = swk[w].gen
  BY DEF Fenced
<1>3. link = None /\ receipts = {}
  BY <1>2 DEF SnapshotInv, CompletionInv
<1>4. swk[w].mat # None /\ SelectionInv(swk[w].mat) /\ EvidencePit(swk[w].mat)
  BY <1>1 DEF HolderInv
<1>5. PICK m \in MaterializedSnapshot : m = swk[w].mat
  BY <1>1, <1>4 DEF SnapshotWorker
<1>6. PICK n \in 0..MaxAttempts : n = swk[w].gen
  BY <1>1 DEF SnapshotWorker
<1>7. link' = [manifest |-> m, gen |-> n] /\ link' \in SnapshotLink /\ link' # None
  <2>1. [manifest |-> m, gen |-> n] \in SnapshotLink
    BY DEF SnapshotLink
  <2>2. link' = [manifest |-> m, gen |-> n]
    BY <1>5, <1>6 DEF LinkRun
  <2> QED
    BY <2>1, <2>2
<1>8. link'.manifest = m /\ link'.gen = n
  BY <1>7
<1>9. sjob' \in JobRow /\ sjob'.attempts = sjob.attempts /\ sjob'.status = "succeeded"
  BY <1>1 DEF FinishJob, JobRow
<1>10. /\ srun' \in [status : {"absent", "pending", "running", "succeeded", "failed"}, version : Nat]
       /\ srun'.status = "succeeded" /\ srun'.version = srun.version + 1
  BY DEF FinishJob, SnapshotInv, SnapshotTypeOK
<1>11. swk' \in [Workers -> SnapshotWorker] /\ \A v \in Workers : HolderInv(swk[v], sjob.attempts)'
  BY <1>9, StopsOrStays
<1>12. SnapshotTypeOK'
  BY <1>7, <1>9, <1>10, <1>11 DEF SnapshotInv, SnapshotTypeOK
<1>13. ContentInv'
  BY DEF SnapshotInv, ContentInv
<1>14. AttemptInv'
  BY <1>2, <1>9 DEF SnapshotInv, AttemptInv, TraceInv
<1>15. CompletionInv'
  <2>1. receipts' = {[manifest |-> m, gen |-> n, seq |-> srun.version + 1]}
    BY <1>3, <1>5, <1>6 DEF FinishJob
  <2> QED
    BY <1>7, <1>8, <1>9, <1>10, <2>1 DEF CompletionInv
<1>16. LinkInv'
  <2>1. /\ Holds(RawContent(m)) /\ Holds(ManifestContent(m)) /\ m.authorized
        /\ m.trace # None => m.trace.primary = m.provider
        /\ FinalizedAt(RawContent(m)) = m.observed
    BY <1>5 DEF ArtifactsVerify, CompletionContext, ArtifactContextIsValid
  <2>2. Holds(RawContent(m))' /\ Holds(ManifestContent(m))' /\ FinalizedAt(RawContent(m))' = m.observed
    BY <2>1 DEF Holds, FinalizedAt
  <2>3. PICK c, d : c = RawContent(m) /\ d = ManifestContent(m)
    OBVIOUS
  <2>4. Holds(RawContent(link.manifest))' /\ Holds(ManifestContent(link.manifest))'
        /\ FinalizedAt(RawContent(link.manifest))' = m.observed
    <3>1. RawContent(link.manifest)' = c /\ ManifestContent(link.manifest)' = d
      BY <1>8, <2>3 DEF RawContent, ManifestContent
    <3> QED
      BY <2>2, <2>3, <3>1 DEF Holds, FinalizedAt
  <2>5. SelectionInv(m) /\ EvidencePit(m)
    BY <1>4, <1>5
  <2> QED
    BY <1>2, <1>6, <1>8, <1>9, <2>1, <2>4, <2>5 DEF LinkInv
<1> QED
  BY <1>11, <1>12, <1>13, <1>14, <1>15, <1>16 DEF SnapshotInv

LEMMA CompleteKeeps ==
    ASSUME SnapshotInv, NEW w \in Workers, Complete(w) PROVE SnapshotInv'
<1>1. CASE Repeat(w, swk[w].mat) /\ (Stops(w) \/ UNCHANGED swk)
  BY <1>1, RepeatKeeps DEF Complete
<1>2. CASE /\ ArtifactsVerify(swk[w].mat) /\ Fenced(w) /\ CompletionContext(swk[w].mat)
           /\ LinkRun(w, swk[w].mat) /\ FinishJob(w, swk[w].mat) /\ (Stops(w) \/ UNCHANGED swk)
  BY <1>2, FinishKeeps DEF Complete
<1>3. CASE Stops(w) /\ UNCHANGED <<sjob, srun, link, receipts>>
  <2>1. UNCHANGED <<sjob, srun, store, link, failures, receipts, now>>
    BY <1>3 DEF Complete
  <2>2. sjob' \in JobRow /\ sjob.attempts <= sjob'.attempts
    BY <2>1, RowsOfJob
  <2> QED
    BY <1>3, <2>1, <2>2, StopsKeeps, OnlyHolders
<1> QED
  BY <1>1, <1>2, <1>3 DEF Complete

\* A failure is recorded by the attempt whose lease is live.
LEMMA RecordFailureKeeps ==
    ASSUME SnapshotInv, NEW w \in Workers, RecordFailure(w) PROVE SnapshotInv'
<1>1. CASE UNCHANGED <<failures, sjob, srun>>
  <2>1. UNCHANGED <<sjob, srun, store, link, failures, receipts, now>> /\ Stops(w)
    BY <1>1 DEF RecordFailure
  <2>2. sjob' \in JobRow /\ sjob.attempts <= sjob'.attempts
    BY <2>1, RowsOfJob
  <2> QED
    BY <2>1, <2>2, StopsKeeps, OnlyHolders
<1>2. CASE Fenced(w) /\ ActiveRun /\ AppendFailure(w)
  <2> DEFINE retry == sjob.attempts < MaxAttempts
             f == [gen |-> swk[w].gen, stage |-> swk[w].fail.stage,
                   trace |-> swk[w].fail.trace, retry |-> retry]
  <2>1. /\ sjob \in JobRow /\ sjob.attempts \in Nat /\ swk[w] \in SnapshotWorker
        /\ HolderInv(swk[w], sjob.attempts) /\ swk[w].pc = "fail"
    BY RowsOfJob DEF RecordFailure
  <2>2. sjob.status = "leased" /\ sjob.attempts = swk[w].gen
    BY <1>2 DEF Fenced
  <2>3. link = None /\ receipts = {} /\ srun.status # "succeeded"
    BY <2>2 DEF SnapshotInv, CompletionInv
  <2>4. PICK y \in Failure : y = swk[w].fail /\ TraceInv(y)
    BY <2>1 DEF HolderInv, SnapshotWorker
  <2>5. f = [gen |-> swk[w].gen, stage |-> y.stage, trace |-> y.trace, retry |-> retry]
    BY <2>4
  <2>6. f \in FailureRecord /\ f.trace = y.trace /\ f.gen = sjob.attempts /\ f.retry = retry
    <3>1. swk[w].gen \in 0..MaxAttempts /\ retry \in BOOLEAN
      BY <2>1 DEF SnapshotWorker
    <3>2. y.stage \in {"provider", "materialization"} /\ y.trace \in ReconciliationTrace \cup {None}
      BY <2>4 DEF Failure
    <3> HIDE DEF f, retry
    <3> QED
      BY <2>2, <2>5, <3>1, <3>2 DEF FailureRecord
  <2>7. failures' = Append(failures, f)
    BY <1>2 DEF AppendFailure
  <2>8. PICK g \in FailureRecord : g = f
    BY <2>6
  <2>9. sjob' = [sjob EXCEPT !.status = IF retry THEN "queued" ELSE "dead_letter",
                             !.owner = None, !.live = FALSE]
    BY <1>2 DEF AppendFailure
  <2>10. /\ sjob' \in JobRow /\ sjob'.attempts = sjob.attempts
         /\ sjob'.status = IF retry THEN "queued" ELSE "dead_letter"
    BY <2>1, <2>9 DEF JobRow
  <2>11. /\ srun' \in [status : {"absent", "pending", "running", "succeeded", "failed"}, version : Nat]
         /\ srun'.status # "succeeded"
    <3>1. srun' = [status |-> IF retry THEN "running" ELSE "failed", version |-> srun.version + 1]
      BY <1>2 DEF AppendFailure
    <3>2. srun.version \in Nat
      BY DEF SnapshotInv, SnapshotTypeOK
    <3> QED
      BY <3>1, <3>2
  <2>12. Stops(w) /\ UNCHANGED <<store, link, receipts, now>>
    BY DEF RecordFailure
  <2>13. swk' \in [Workers -> SnapshotWorker] /\ \A v \in Workers : HolderInv(swk[v], sjob.attempts)'
    <3>1. sjob.attempts <= sjob'.attempts
      BY <2>1, <2>10
    <3> QED
      BY <2>10, <2>12, <3>1, StopsKeeps
  <2>14. failures \in Seq(FailureRecord)
    BY DEF SnapshotInv, SnapshotTypeOK
  <2> HIDE DEF f
  <2>15. /\ failures' \in Seq(FailureRecord) /\ Len(failures') = Len(failures) + 1
         /\ \A i \in DOMAIN failures' : (i \in DOMAIN failures /\ failures'[i] = failures[i]) \/ failures'[i] = g
    <3>1. failures' = Append(failures, g)
      BY <2>7, <2>8
    <3> QED
      BY <2>14, <3>1
  <2>16. SnapshotTypeOK'
    BY <2>10, <2>11, <2>12, <2>13, <2>15 DEF SnapshotInv, SnapshotTypeOK
  <2>17. AttemptInv'
    <3>1. ASSUME NEW i \in DOMAIN failures'
          PROVE  /\ TraceInv(failures'[i]) /\ failures'[i].gen <= sjob.attempts
                 /\ retry => failures'[i].retry
      <4>1. CASE i \in DOMAIN failures /\ failures'[i] = failures[i]
        <5>1. TraceInv(failures[i]) /\ failures[i].gen <= sjob.attempts /\ failures[i].retry
          BY <2>2, <4>1 DEF SnapshotInv, AttemptInv
        <5> QED
          BY <4>1, <5>1
      <4>2. CASE failures'[i] = g
        <5>1. TraceInv(g) /\ g.gen = sjob.attempts /\ g.retry = retry
          BY <2>4, <2>6, <2>8 DEF TraceInv
        <5> HIDE DEF retry
        <5> QED
          BY <2>1, <4>2, <5>1
      <4> QED
        BY <2>15, <4>1, <4>2
    <3> HIDE DEF retry
    <3>2. sjob'.status \in {"queued", "dead_letter"} /\ (sjob'.status = "queued" => retry)
      BY <2>10
    <3> QED
      BY <2>10, <3>1, <3>2 DEF AttemptInv, TraceInv
  <2>18. ContentInv' /\ CompletionInv' /\ LinkInv'
    <3>1. sjob'.status # "succeeded"
      BY <2>10
    <3> QED
      BY <2>3, <2>11, <2>12, <3>1 DEF SnapshotInv, ContentInv, CompletionInv, LinkInv
  <2> QED
    BY <2>13, <2>16, <2>17, <2>18 DEF SnapshotInv
<1> QED
  BY <1>1, <1>2 DEF RecordFailure

-----------------------------------------------------------------------------
(* Theorems.                                                               *)

LEMMA SnapshotStarts == SnapshotInit => SnapshotInv
<1> SUFFICES ASSUME SnapshotInit PROVE SnapshotInv
  OBVIOUS
<1>1. sjob \in JobRow /\ sjob.attempts = 0 /\ sjob.status = "absent"
  BY DEF SnapshotInit, JobRow
<1>2. \A w \in Workers : swk[w] = Resting
  BY DEF SnapshotInit
<1>3. swk \in [Workers -> SnapshotWorker]
  BY RestingHolds DEF SnapshotInit
<1>4. SnapshotTypeOK
  <2>1. srun \in [status : {"absent", "pending", "running", "succeeded", "failed"}, version : Nat]
    BY DEF SnapshotInit
  <2>2. link \in SnapshotLink \cup {None} /\ failures \in Seq(FailureRecord) /\ now \in Clock
    BY DEF SnapshotInit, Clock
  <2> QED
    BY <1>1, <1>3, <2>1, <2>2 DEF SnapshotTypeOK
<1>5. \A w \in Workers : HolderInv(swk[w], sjob.attempts)
  BY <1>1, <1>2, RestingHolds
<1>6. ContentInv /\ AttemptInv /\ CompletionInv /\ LinkInv
  BY <1>1 DEF SnapshotInit, ContentInv, AttemptInv, CompletionInv, LinkInv
<1> QED
  BY <1>4, <1>5, <1>6 DEF SnapshotInv

LEMMA SnapshotStutters ==
    ASSUME SnapshotInv, UNCHANGED snapshotVars PROVE SnapshotInv'
<1>1. UNCHANGED <<sjob, srun, swk, store, link, failures, receipts, now>>
  BY DEF snapshotVars
<1>2. /\ swk' \in [Workers -> SnapshotWorker]
      /\ \A v \in Workers : HolderInv(swk[v], sjob.attempts)'
  BY <1>1 DEF SnapshotInv, SnapshotTypeOK
<1> QED
  BY <1>1, <1>2, OnlyHolders

\* The inductive invariant of the snapshot job: what a worker holds, what is
\* stored, which attempts failed and which one completed (application/data and
\* adapters/postgres/snapshot_*.py).
THEOREM SnapshotInvariant == SnapshotSpec => []SnapshotInv
<1>1. SnapshotInit => SnapshotInv
  BY SnapshotStarts
<1>2. SnapshotInv /\ [SnapshotNext]_snapshotVars => SnapshotInv'
  <2> SUFFICES ASSUME SnapshotInv, [SnapshotNext]_snapshotVars PROVE SnapshotInv'
    OBVIOUS
  <2>1. CASE Submit
    BY <2>1, SubmitKeeps
  <2>2. CASE \E w \in Workers : Claim(w)
    BY <2>2, ClaimKeeps
  <2>3. CASE ExpireLease \/ DeadLetter
    BY <2>3, LeaseEndsKeeps
  <2>4. CASE \E w \in Workers : Preflight(w) \/ Refence(w) \/ Crash(w)
    BY <2>4, WaitingKeeps
  <2>5. CASE \E w \in Workers, answers \in [Providers -> Answer], gates \in [Providers -> Gates] :
                Fetch(w, answers, gates)
    BY <2>5, FetchKeeps
  <2>6. CASE \E w \in Workers, p \in Providers, a \in Answer : FetchDirect(w, p, a)
    BY <2>6, FetchDirectKeeps
  <2>7. CASE \E w \in Workers : ArchiveRaw(w) \/ ArchiveManifest(w)
    BY <2>7, ArchiveKeeps
  <2>8. CASE \E w \in Workers : Complete(w)
    BY <2>8, CompleteKeeps
  <2>9. CASE \E w \in Workers : RecordFailure(w)
    BY <2>9, RecordFailureKeeps
  <2>10. CASE Passes
    BY <2>10, PassesKeeps
  <2>11. CASE UNCHANGED snapshotVars
    BY <2>11, SnapshotStutters
  <2> QED
    BY <2>1, <2>2, <2>3, <2>4, <2>5, <2>6, <2>7, <2>8, <2>9, <2>10, <2>11 DEF SnapshotNext, Fetching
<1> QED
  BY <1>1, <1>2, PTL DEF SnapshotSpec

\* A snapshot run keeps rows of their types, for any workers, routes, values
\* and limits: the job, the run, the workers' leases and the link.
THEOREM SnapshotTypes == SnapshotSpec => []SnapshotTypeOK
<1>1. SnapshotInv => SnapshotTypeOK
  BY DEF SnapshotInv
<1> QED
  BY <1>1, SnapshotInvariant, PTL

\* A run succeeds exactly with its one link, by the attempt whose lease was live
\* and after every failed one; the linked snapshot is authorized, point in time
\* and archived under its own date, and a trace tells what was compared.
THEOREM SnapshotsAreSound == SnapshotSpec => []SnapshotIsSound
<1>1. SnapshotInv => SnapshotIsSound
  <2> SUFFICES ASSUME SnapshotInv PROVE SnapshotIsSound
    OBVIOUS
  <2>1. (srun.status = "succeeded") = (link # None)
    BY DEF SnapshotInv, CompletionInv
  <2>2. \A r \in receipts :
           /\ link # None
           /\ r = [manifest |-> link.manifest, gen |-> link.gen, seq |-> srun.version]
    BY DEF SnapshotInv, CompletionInv
  <2>3. /\ \A r1, r2 \in receipts : r1 = r2
        /\ \A r \in receipts : link # None /\ r.gen = link.gen /\ r.manifest = link.manifest
    BY <2>2
  <2>4. \A i \in DOMAIN failures :
           failures[i].trace # None => failures[i].trace.decision = "threshold_exceeded"
    BY DEF SnapshotInv, AttemptInv, TraceInv
  <2>5. ASSUME link # None
        PROVE  /\ link.gen = sjob.attempts
               /\ \A i \in DOMAIN failures : failures[i].gen < link.gen /\ failures[i].retry
    BY <2>5 DEF SnapshotInv, AttemptInv, CompletionInv, LinkInv
  <2>6. ASSUME link # None
        PROVE  LET m == link.manifest
               IN  /\ m.authorized /\ EvidencePit(m) /\ ArtifactsVerify(m)
                   /\ FinalizedAt(RawContent(m)) = m.observed
    BY <2>6 DEF SnapshotInv, LinkInv, ArtifactsVerify
  <2>7. ASSUME link # None
        PROVE  LET m == link.manifest
               IN  /\ AllowStale \/ (m.support = 2) = (m.trace # None)
                   /\ m.trace # None =>
                        /\ m.trace.decision # "threshold_exceeded"
                        /\ m.trace.primary = m.provider
                        /\ (m.trace.decision = "both_empty") = (m.state = "legitimate_empty")
    BY <2>7 DEF SnapshotInv, LinkInv, SelectionInv
  <2> QED
    BY <2>1, <2>3, <2>4, <2>5, <2>6, <2>7 DEF SnapshotIsSound
<1> QED
  BY <1>1, SnapshotInvariant, PTL
=============================================================================

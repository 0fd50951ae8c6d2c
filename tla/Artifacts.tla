----------------------------- MODULE Artifacts -----------------------------
(***************************************************************************)
(* The content-addressed artifact store on versioned object storage, and   *)
(* the operators' maintenance of it: adapters/artifacts/s3*.py,            *)
(* application/artifact_maintenance.py and its audit chain.                *)
(*                                                                         *)
(* One content hash is modelled: it has two keys, the object's and the     *)
(* manifest's, each a sequence of versions whose last is current.  A call  *)
(* to the storage service is one step; reads that follow each other with   *)
(* no write of the same caller between them are one step.                  *)
(***************************************************************************)
EXTENDS Nothing, Integers, Sequences, FiniteSets, SequencesExt

CONSTANTS
    Calls,        \* calls of finalize with this content
    Metas,        \* artifact metadata a caller may ask for
    Ops,          \* operation ids of maintenance commands
    MaxTime,      \* bound: the clock
    MaxVersions,  \* bound: versions of one key
    MaxMarkers,   \* bound: delete markers placed by others
    MaxSerial,    \* bound: version ids given out
    Retain        \* the retention period of the policy, 0 when it has none

ASSUME ArtifactAssumption == {MaxTime, MaxVersions, MaxMarkers, MaxSerial, Retain} \subseteq Nat

VARIABLES
    obj,          \* versions of the object key
    man,          \* versions of the manifest key
    clk,          \* the clock
    wr,           \* how far each call of finalize has got
    op,           \* the maintenance commands in progress
    events,       \* the append-only audit chain of maintenance
    returned,     \* the manifests that finalize has returned
    markers,      \* delete markers placed by others
    serial        \* version ids given out

artifactVars == <<obj, man, clk, wr, op, events, returned, markers, serial>>

Time == 0..MaxTime
Until == 0..(MaxTime + Retain + 1)

\* What a manifest says of the content: its metadata and when it was
\* finalized (size, hash and URI follow from the content).
ArtifactManifest == [meta : Metas, at : Time]

\* A version of a key: its id, a delete marker or not, when it was written,
\* the retention and hold on it, and what was stored.
Version ==
    [id : 1..MaxSerial, marker : BOOLEAN, at : Time,
     until : Until, hold : BOOLEAN, body : ArtifactManifest \cup {None}]

ArtifactMaintenanceAction == {"extend", "hold", "gc", "restore"}
ArtifactMaintenancePhase == {"requested", "completed", "failed"}
ArtifactMaintenanceAuditEvent ==
    [op : Ops, action : ArtifactMaintenanceAction, phase : ArtifactMaintenancePhase]

WriterState ==
    [pc : {"idle", "over", "lookup", "put", "verify", "publish", "confirm"},
     want : ArtifactManifest \cup {None}]
Idle == [pc |-> "idle", want |-> None]

ArtifactTypeOK ==
    /\ obj \in Seq(Version) /\ man \in Seq(Version)
    /\ clk \in Time
    /\ wr \in [Calls -> WriterState]
    /\ events \in Seq(ArtifactMaintenanceAuditEvent)
    /\ returned \subseteq ArtifactManifest

-----------------------------------------------------------------------------
(* The storage service, as the adapters use it. *)

HasCurrent(vs) == vs # <<>> /\ ~Last(vs).marker

\* retention_for: how long a manifest's versions are to be kept.
RetainUntil(m) == IF Retain = 0 THEN 0 ELSE m.at + Retain

Stored(m) ==
    [id |-> serial + 1, marker |-> FALSE, at |-> clk, until |-> RetainUntil(m),
     hold |-> FALSE, body |-> m]

PutUnconditional(vs, m) == Append(vs, Stored(m))

\* A conditional PUT (If-None-Match: *): it stores only where there is no
\* current version, and otherwise reports that one exists.
Put(vs, m) == IF HasCurrent(vs) THEN vs ELSE Append(vs, Stored(m))
Roomy(vs) == HasCurrent(vs) \/ (Len(vs) < MaxVersions /\ serial < MaxSerial)

Locked(v) == v.hold \/ v.until > clk

\* An exact delete, by version id: gone is gone.
Without(vs, id) ==
    IF \E i \in DOMAIN vs : vs[i].id = id
    THEN RemoveAt(vs, CHOOSE i \in DOMAIN vs : vs[i].id = id) ELSE vs

-----------------------------------------------------------------------------
(* Reading: the manifest first, then the object it names. *)

\* The stored retention must be exactly what the policy gives the manifest.
RetentionMatches(v, m) == Retain > 0 => v.until = RetainUntil(m)

EnvelopeReads == HasCurrent(man) /\ RetentionMatches(Last(man), Last(man).body)

\* read_object: the object is there, of the manifest's media type, intact
\* and retained as the manifest's policy says.
ObjectReads(m) ==
    /\ HasCurrent(obj)
    /\ Last(obj).body.meta = m.meta
    /\ RetentionMatches(Last(obj), m)

Readable == EnvelopeReads /\ ObjectReads(Last(man).body)

-----------------------------------------------------------------------------
(* finalize: object first, manifest last. *)

Goto(w, pc) == wr' = [wr EXCEPT ![w].pc = pc]
Ends(w) == wr' = [wr EXCEPT ![w] = [Idle EXCEPT !.pc = "over"]]

\* finalized_at is when the caller observed the content, not when it is stored.
Finalize(w, meta) ==
    /\ wr[w].pc = "idle"
    /\ wr' = [wr EXCEPT ![w] = [pc |-> "lookup", want |-> [meta |-> meta, at |-> clk]]]
    /\ UNCHANGED <<obj, man, clk, op, events, returned, markers, serial>>

\* The caller gets the manifest that is stored, if it says of the content
\* what the caller says and its object can be read.
Reconciles(want) == EnvelopeReads /\ Last(man).body.meta = want.meta /\ Readable
Reconcile(w) ==
    /\ returned' = IF Reconciles(wr[w].want) THEN returned \cup {Last(man).body} ELSE returned
    /\ Ends(w)

Lookup(w) ==
    /\ wr[w].pc = "lookup"
    /\ \/ ~HasCurrent(man) /\ Goto(w, "put") /\ UNCHANGED returned
       \/ HasCurrent(man) /\ Reconcile(w)
    /\ UNCHANGED <<obj, man, clk, op, events, markers, serial>>

\* The answer to a PUT may be lost after the service has stored it: that is
\* this step and then Abandon.
EnsureObject(w) ==
    /\ wr[w].pc = "put"
    /\ Roomy(obj)
    /\ obj' = Put(obj, wr[w].want)
    /\ serial' = serial + (Len(obj') - Len(obj))
    /\ Goto(w, "verify")
    /\ UNCHANGED <<man, clk, op, events, returned, markers>>

VerifyObject(w) ==
    /\ wr[w].pc = "verify"
    /\ IF ObjectReads(wr[w].want) THEN Goto(w, "publish") ELSE Ends(w)
    /\ UNCHANGED <<obj, man, clk, op, events, returned, markers, serial>>

PublishManifest(w) ==
    /\ wr[w].pc = "publish"
    /\ Roomy(man)
    /\ man' = Put(man, wr[w].want)
    /\ serial' = serial + (Len(man') - Len(man))
    /\ Goto(w, "confirm")
    /\ UNCHANGED <<obj, clk, op, events, returned, markers>>

Confirm(w) ==
    /\ wr[w].pc = "confirm"
    /\ Reconcile(w)
    /\ UNCHANGED <<obj, man, clk, op, events, markers, serial>>

\* A storage error, or the death of the process, ends the call anywhere.
Abandon(w) ==
    /\ wr[w].pc \notin {"idle", "over"}
    /\ Ends(w)
    /\ UNCHANGED <<obj, man, clk, op, events, returned, markers, serial>>

-----------------------------------------------------------------------------
(* Maintenance: every command is announced in the audit chain before it    *)
(* touches storage, and closed there after.                                *)

Announced == events # <<>> /\ Last(events).phase = "requested"
UsedOps == {e.op : e \in Range(events)}

\* A request is recorded only when the command before it is closed.
MayRequestAtOnce(o) == o \notin UsedOps
MayRequest(o) == o \notin UsedOps /\ ~Announced
MayClose(o) == Announced /\ Last(events).op = o

\* The events are chained; the row of the chain's head is locked.
Recorded(o, action, phase) == Append(events, [op |-> o, action |-> action, phase |-> phase])

Command(o, action, goal) ==
    [op |-> o, action |-> action, goal |-> goal, pc |-> "start", target |-> None]

\* A retention reaches into the future, a cutoff lies in the past.
Goals(action) ==
    CASE action = "extend" -> {g \in {clk + 1, MaxTime + Retain} : g > clk}
      [] action = "gc" -> {g \in {clk - 1} : g >= 0}
      [] action \in {"hold", "restore"} -> {0}

Request(o, action) ==
    /\ MayRequest(o)
    /\ events' = Recorded(o, action, "requested")
    /\ \E goal \in Goals(action) : op' = op \cup {Command(o, action, goal)}
    /\ UNCHANGED <<obj, man, clk, wr, returned, markers, serial>>

Step(c, pc) == op' = (op \ {c}) \cup {[c EXCEPT !.pc = pc]}

\* The terminal event: success or failure, whatever the command reached.
CloseCommand(c) ==
    /\ c.pc \in {"done", "failed"}
    /\ op' = op \ {c}
    /\ MayClose(c.op)
    /\ events' = Recorded(c.op, c.action, IF c.pc = "done" THEN "completed" ELSE "failed")
    /\ UNCHANGED <<obj, man, clk, wr, returned, markers, serial>>

ExtendsUnchecked(goal) == Readable /\ Last(obj).until = Last(man).until

\* finalized_versions and is_extension: the current pair, readable and
\* equally retained, and a retention that is not reduced.
Extends(goal) ==
    /\ Readable
    /\ Last(obj).until = Last(man).until
    /\ goal >= Last(obj).until

\* The versions found at the start are the ones changed, by their ids.
Aim(c) ==
    op' = (op \ {c}) \cup {[c EXCEPT !.pc = "object", !.target = <<Last(obj).id, Last(man).id>>]}
Change(vs, id, field, value) ==
    [i \in DOMAIN vs |-> IF vs[i].id = id THEN [vs[i] EXCEPT ![field] = value] ELSE vs[i]]

ExtendRetention(c) ==
    /\ c.action = "extend"
    /\ \/ c.pc = "start" /\ Extends(c.goal) /\ Aim(c) /\ UNCHANGED <<obj, man>>
       \/ c.pc = "start" /\ ~Extends(c.goal) /\ Step(c, "failed") /\ UNCHANGED <<obj, man>>
       \/ /\ c.pc = "object"
          /\ obj' = Change(obj, c.target[1], "until", c.goal)
          /\ Step(c, "manifest") /\ UNCHANGED man
       \/ /\ c.pc = "manifest"
          /\ man' = Change(man, c.target[2], "until", c.goal)
          /\ Step(c, "done") /\ UNCHANGED obj
       \/ /\ c.pc \in {"object", "manifest"}      \* the update fails
          /\ Step(c, "failed") /\ UNCHANGED <<obj, man>>
    /\ UNCHANGED <<clk, wr, events, returned, markers, serial>>

EnableLegalHold(c) ==
    /\ c.action = "hold"
    /\ \/ c.pc = "start" /\ Readable /\ Aim(c) /\ UNCHANGED <<obj, man>>
       \/ c.pc = "start" /\ ~Readable /\ Step(c, "failed") /\ UNCHANGED <<obj, man>>
       \/ /\ c.pc = "object"
          /\ obj' = Change(obj, c.target[1], "hold", TRUE)
          /\ Step(c, "manifest") /\ UNCHANGED man
       \/ /\ c.pc = "manifest"
          /\ man' = Change(man, c.target[2], "hold", TRUE)
          /\ Step(c, "done") /\ UNCHANGED obj
       \/ /\ c.pc \in {"object", "manifest"}
          /\ Step(c, "failed") /\ UNCHANGED <<obj, man>>
    /\ UNCHANGED <<clk, wr, events, returned, markers, serial>>

\* All pages of the listing; delete markers are not content.
Listed(vs) == {v \in Range(vs) : ~v.marker}
HasManifestVersion == Listed(man) # {}

\* gc_disposition: any manifest version makes the content canonical.
Collectable(v, cutoff) == ~HasManifestVersion /\ v.at < cutoff

\* The version is classified in one listing and deleted in a later call.
CollectOrphans(c) ==
    /\ c.action = "gc"
    /\ \/ /\ c.pc = "start"
          /\ \E v \in Listed(obj) :
                /\ Collectable(v, c.goal)
                /\ op' = (op \ {c}) \cup {[c EXCEPT !.pc = "delete", !.target = v.id]}
          /\ UNCHANGED obj
       \/ c.pc = "start" /\ Step(c, "done") /\ UNCHANGED obj
       \/ /\ c.pc = "delete"
          /\ obj' = IF \E v \in Range(obj) : v.id = c.target /\ Locked(v) THEN obj
                    ELSE Without(obj, c.target)
          /\ op' = (op \ {c}) \cup {[c EXCEPT !.pc = "start", !.target = None]}
    /\ UNCHANGED <<man, clk, wr, events, returned, markers, serial>>

\* The delete marker that a listing of the key finds latest, or none.
LatestMarker(vs) == IF vs # <<>> /\ Last(vs).marker THEN Last(vs).id ELSE None

\* What the listing finds is deleted in the next call, and no marker in none.
Find(c, vs, found, none) ==
    op' = (op \ {c}) \cup
            {[c EXCEPT !.pc = IF LatestMarker(vs) = None THEN none ELSE found,
                       !.target = LatestMarker(vs)]}

\* The latest delete markers are removed, the object's first, and what is
\* uncovered must read.
Restore(c) ==
    /\ c.action = "restore"
    /\ \/ c.pc = "start" /\ Find(c, obj, "object", "list") /\ UNCHANGED <<obj, man>>
       \/ c.pc = "object" /\ obj' = Without(obj, c.target) /\ Step(c, "list") /\ UNCHANGED man
       \/ c.pc = "list" /\ Find(c, man, "manifest", "verify") /\ UNCHANGED <<obj, man>>
       \/ c.pc = "manifest" /\ man' = Without(man, c.target) /\ Step(c, "verify") /\ UNCHANGED obj
       \/ /\ c.pc = "verify"
          /\ Step(c, IF Readable THEN "done" ELSE "failed")
          /\ UNCHANGED <<obj, man>>
       \/ /\ c.pc \in {"start", "object", "list", "manifest"}
          /\ Step(c, "failed") /\ UNCHANGED <<obj, man>>
    /\ UNCHANGED <<clk, wr, events, returned, markers, serial>>

\* The process that runs the command dies, or the audit store does not take
\* its terminal event: the request stays open.
CommandDies(c) ==
    /\ op' = op \ {c}
    /\ UNCHANGED <<obj, man, clk, wr, events, returned, markers, serial>>

-----------------------------------------------------------------------------
(* Others: a delete without a version id hides a key behind a marker. *)

PlaceMarker ==
    /\ markers < MaxMarkers /\ serial < MaxSerial
    /\ markers' = markers + 1
    /\ serial' = serial + 1
    /\ LET marker == [id |-> serial + 1, marker |-> TRUE, at |-> clk, until |-> 0,
                      hold |-> FALSE, body |-> None]
       IN \/ HasCurrent(obj) /\ obj' = Append(obj, marker) /\ UNCHANGED man
          \/ HasCurrent(man) /\ man' = Append(man, marker) /\ UNCHANGED obj
    /\ UNCHANGED <<clk, wr, op, events, returned>>

Tick ==
    /\ clk < MaxTime
    /\ clk' = clk + 1
    /\ UNCHANGED <<obj, man, wr, op, events, returned, markers, serial>>

ArtifactInit ==
    /\ obj = <<>> /\ man = <<>>
    /\ clk = 0
    /\ wr = [w \in Calls |-> Idle]
    /\ op = {}
    /\ events = <<>>
    /\ returned = {}
    /\ markers = 0 /\ serial = 0

ArtifactNext ==
    \/ \E w \in Calls :
          \/ \E m \in Metas : Finalize(w, m)
          \/ Lookup(w) \/ EnsureObject(w) \/ VerifyObject(w)
          \/ PublishManifest(w) \/ Confirm(w) \/ Abandon(w)
    \/ \E o \in Ops, a \in ArtifactMaintenanceAction : Request(o, a)
    \/ \E c \in op :
          \/ ExtendRetention(c) \/ EnableLegalHold(c) \/ CollectOrphans(c)
          \/ Restore(c) \/ CommandDies(c) \/ CloseCommand(c)
    \/ PlaceMarker
    \/ Tick

ArtifactSpec == ArtifactInit /\ [][ArtifactNext]_artifactVars

-----------------------------------------------------------------------------
(* Properties. *)

\* OneStory: nobody tells two stories about one content: while nobody has deleted
\* anything, every finalize that succeeds returns the same manifest, however
\* the writers' conditional PUTs and lost answers interleave.
OneStory ==
    markers = 0 => \A a, b \in returned : a = b

\* Versions are compared by id: a later version of the same id is the same one.
Kept(v) == CHOOSE u \in Range(obj') \cup Range(man') : u.id = v.id
Gone(v) == \A u \in Range(obj') \cup Range(man') : u.id # v.id

\* MutationsAreAccountable: commands are serial and audited, and a lock only
\* tightens: a step that deletes, retains or holds a version is a step of the one
\* command whose request is the open end of the audit chain, also after a
\* command's process has died; no step shortens a version's retention or lifts
\* its hold, and no locked version is ever deleted.
MutationsAreAccountable ==
    [][/\ \A v \in Range(obj) \cup Range(man) :
            IF Gone(v) THEN v.marker \/ ~Locked(v)
            ELSE Kept(v).until >= v.until /\ (v.hold => Kept(v).hold)
       /\ (\E v \in Range(obj) \cup Range(man) : Gone(v) \/ Kept(v) # v)
            => Announced /\ \E c \in op : c.op = Last(events).op /\ c \notin op']_<<obj, man>>
=============================================================================

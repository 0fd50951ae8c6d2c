---------------------------- MODULE RestoreDrill ----------------------------
(***************************************************************************)
(* The restore drill (scripts/drill_postgres_restore.py,                   *)
(* postgres_restore_contract.py, postgres_restore_process.py): two         *)
(* databases are started in docker, the first is migrated, seeded and      *)
(* dumped, the dump is restored into the second, the second is examined,   *)
(* and whatever happened everything that is the drill's is removed.        *)
(* Anyone may use docker meanwhile: a name can be taken before the drill   *)
(* takes it, and what the drill created can be replaced by another's, also *)
(* between the cleanup's look at a label and its removal by name.  A       *)
(* command may fail after docker did what it asked for.                    *)
(***************************************************************************)
EXTENDS Integers, Sequences, FiniteSets, Nothing

CONSTANT MaxStrangers    \* bound

ASSUME DrillAssumption == None \notin {"own", "other", "late", "passed", "failed"}

Names == {"network", "source", "target"}
SeedEvents == <<"requested", "completed">>
Guards == {"update", "delete", "chain"}

VARIABLES
    drill,      \* the step the drill is at
    docker,     \* [Names -> "own", "other", "late" or None]: whose label a resource has
    registered, \* _owned_containers and _owned_network
    removing,   \* what the cleanup has seen its label on and will remove by name, or None
    passedOver, \* what the cleanup had to leave
    sameServer, \* both names lead to one server
    origin,     \* content of the source database, or None
    dumped,     \* content of the dump file, or None
    copy,       \* content of the target database, or None
    proof,      \* what the validation found
    leaked,     \* created by a command that failed
    failed,     \* failure is set
    printed,    \* what main prints, or None
    strangers
drillVars == <<drill, docker, registered, removing, passedOver, sameServer, origin, dumped, copy, proof, leaked, failed, printed, strangers>>

DrillInit ==
    /\ drill = "check names"
    /\ docker \in [Names -> {None, "other"}] /\ Cardinality({n \in Names : docker[n] = "other"}) <= 1
    /\ registered = {} /\ removing = None /\ passedOver = {} /\ leaked = {} /\ sameServer \in BOOLEAN
    /\ origin = None /\ dumped = None /\ copy = None /\ proof = None
    /\ failed = FALSE /\ printed = None /\ strangers = 0

\* Another user of docker takes a free name, or replaces what the drill created:
\* "late", if the cleanup has already read the label of what was there.
Stranger(n) ==
    /\ strangers < MaxStrangers /\ printed = None
    /\ docker[n] \in {None, "own"}
    /\ docker' = [docker EXCEPT ![n] = IF drill = "remove" /\ removing = n THEN "late" ELSE "other"]
    /\ strangers' = strangers + 1
    /\ UNCHANGED <<drill, registered, removing, passedOver, sameServer, origin, dumped, copy, proof, leaked, failed, printed>>

-----------------------------------------------------------------------------
(* execute_drill: the stages, and the way to the cleanup from any of them. *)

Stages == <<"check names", "create network", "create source", "create target", "identities",
            "seed", "dump", "restore", "validate", "report">>
Creates == [s \in {"create network", "create source", "create target"} |->
              CASE s = "create network" -> "network" [] s = "create source" -> "source" [] s = "create target" -> "target"]
NextStage(s) == LET k == CHOOSE i \in 1..Len(Stages) : Stages[i] = s
            IN  IF k = Len(Stages) THEN "cleanup" ELSE Stages[k + 1]
InStage == \E k \in 1..Len(Stages) : Stages[k] = drill

\* Any command may fail or run out of time (run_text, run_status, _wait_ready, the
\* limits of the output); what docker has done by then stays.
StageFails ==
    /\ InStage
    /\ failed' = TRUE /\ drill' = "cleanup"
    /\ UNCHANGED <<docker, registered, removing, passedOver, sameServer, origin, dumped, copy, proof, leaked, printed, strangers>>

\* _assert_names_available
CheckNames ==
    /\ drill = "check names"
    /\ \A n \in Names : docker[n] = None
    /\ drill' = NextStage(drill)
    /\ UNCHANGED <<docker, registered, removing, passedOver, sameServer, origin, dumped, copy, proof, leaked, failed, printed, strangers>>

\* docker creates only what has a free name; it is the drill's once the label
\* was read back.
CreateResource ==
    /\ drill \in DOMAIN Creates
    /\ docker[Creates[drill]] = None
    /\ docker' = [docker EXCEPT ![Creates[drill]] = "own"]
    /\ \/ /\ registered' = registered \cup {Creates[drill]}
          /\ drill' = NextStage(drill) /\ UNCHANGED <<failed, leaked>>
       \/ /\ leaked' = leaked \cup {Creates[drill]}
          /\ failed' = TRUE /\ drill' = "cleanup" /\ UNCHANGED registered
    /\ UNCHANGED <<removing, passedOver, sameServer, origin, dumped, copy, proof, printed, strangers>>

\* validate_instance_pair
Identify ==
    /\ drill = "identities"
    /\ ~sameServer
    /\ drill' = NextStage(drill)
    /\ UNCHANGED <<docker, registered, removing, passedOver, sameServer, origin, dumped, copy, proof, leaked, failed, printed, strangers>>

\* The commands reach what has the name now.
Reaches(n) == docker[n] = "own"

\* The schema at its head with its guards, the marker, the events.
Seeded == [head |-> "head", events |-> SeedEvents, guards |-> Guards, marker |-> TRUE]

\* migrate_and_seed
Seed ==
    /\ drill = "seed" /\ Reaches("source")
    /\ origin' = Seeded
    /\ drill' = NextStage(drill)
    /\ UNCHANGED <<docker, registered, removing, passedOver, sameServer, dumped, copy, proof, leaked, failed, printed, strangers>>

\* A dump with a part missing that pg_dump did not report.
Damaged(c) ==
    {c, [c EXCEPT !.events = SubSeq(@, 1, 1)], [c EXCEPT !.marker = FALSE], [c EXCEPT !.head = "old"]}
      \cup {[c EXCEPT !.guards = @ \ {g}] : g \in Guards}

Dump ==
    /\ drill = "dump" /\ Reaches("source")
    /\ dumped' \in Damaged(origin)
    /\ drill' = NextStage(drill)
    /\ UNCHANGED <<docker, registered, removing, passedOver, sameServer, origin, copy, proof, leaked, failed, printed, strangers>>

\* pg_restore --single-transaction --exit-on-error
RestoreDump ==
    /\ drill = "restore" /\ Reaches("target")
    /\ copy' = dumped
    /\ drill' = NextStage(drill)
    /\ UNCHANGED <<docker, registered, removing, passedOver, sameServer, origin, dumped, proof, leaked, failed, printed, strangers>>

\* replay_event_rows
Replays(events) == events = SeedEvents

\* The three forbidden writes: each is refused by its guard, or is done.
AttemptedOn(c) ==
    [c EXCEPT !.events = (IF "update" \in c.guards THEN @ ELSE <<"tampered">> \o SubSeq(@, 2, Len(@)))
                           \o (IF "chain" \in c.guards THEN <<>> ELSE <<"forged">>)]
AfterAttempts(c) ==
    IF "delete" \in c.guards \/ Len(c.events) < 2 THEN AttemptedOn(c)
    ELSE [AttemptedOn(c) EXCEPT !.events = SubSeq(@, 1, 1)]

\* _validate_target: the proof before and after the attempts.
ValidateTarget ==
    /\ drill = "validate" /\ Reaches("target")
    /\ Replays(copy.events) /\ Replays(AfterAttempts(copy).events)
    /\ copy' = AfterAttempts(copy)
    /\ proof' = [head |-> copy.head, events |-> copy.events, marker |-> copy.marker,
                 rejected |-> Guards \cap copy.guards]
    /\ drill' = NextStage(drill)
    /\ UNCHANGED <<docker, registered, removing, passedOver, sameServer, origin, dumped, leaked, failed, printed, strangers>>

\* _validate_restore
RestoreAccepted ==
    proof.head = origin.head /\ proof.events = origin.events /\ proof.rejected = Guards /\ proof.marker

Report ==
    /\ drill = "report" /\ RestoreAccepted
    /\ drill' = "cleanup"
    /\ UNCHANGED <<docker, registered, removing, passedOver, sameServer, origin, dumped, copy, proof, leaked, failed, printed, strangers>>

-----------------------------------------------------------------------------
(* cleanup.                                                                *)

\* _container_is_owned, _network_is_owned
StillOwned(n) == docker[n] = "own"

\* Containers first, in any order; the network only if no container is left.
ToClean == registered \ passedOver
InspectLabel(n) ==
    /\ drill = "cleanup" /\ n \in ToClean
    /\ n = "network" => ToClean = {"network"}
    /\ IF StillOwned(n) /\ (n = "network" => registered = {"network"})
       THEN removing' = n /\ drill' = "remove" /\ UNCHANGED <<passedOver, failed>>
       ELSE passedOver' = passedOver \cup {n} /\ failed' = TRUE /\ UNCHANGED <<removing, drill>>
    /\ UNCHANGED <<docker, registered, sameServer, origin, dumped, copy, proof, leaked, printed, strangers>>

\* docker rm --force and docker network rm take whatever has the name now, or
\* refuse: their status is not looked at.
RemoveByName ==
    /\ drill = "remove"
    /\ docker' \in {docker, [docker EXCEPT ![removing] = None]}
    /\ drill' = "confirm"
    /\ UNCHANGED <<registered, removing, passedOver, sameServer, origin, dumped, copy, proof, leaked, failed, printed, strangers>>

\* _container_exists, _network_exists
ConfirmGone ==
    /\ drill = "confirm"
    /\ IF docker[removing] = None
       THEN registered' = registered \ {removing} /\ UNCHANGED <<passedOver, failed>>
       ELSE passedOver' = passedOver \cup {removing} /\ failed' = TRUE /\ UNCHANGED registered
    /\ removing' = None /\ drill' = "cleanup"
    /\ UNCHANGED <<docker, sameServer, origin, dumped, copy, proof, leaked, printed, strangers>>

\* A command of the cleanup could not be run or ran out of time.
CleanupGivesUp ==
    /\ drill \in {"cleanup", "remove", "confirm"} /\ ToClean # {}
    /\ failed' = TRUE /\ drill' = "ended" /\ printed' = "failed"
    /\ UNCHANGED <<docker, registered, removing, passedOver, sameServer, origin, dumped, copy, proof, leaked, strangers>>

ConcludeDrill ==
    /\ drill = "cleanup" /\ ToClean = {}
    /\ drill' = "ended"
    /\ printed' = IF failed THEN "failed" ELSE "passed"
    /\ UNCHANGED <<docker, registered, removing, passedOver, sameServer, origin, dumped, copy, proof, leaked, failed, strangers>>

DrillNext ==
    \/ StageFails \/ CheckNames \/ CreateResource \/ Identify \/ Seed \/ Dump \/ RestoreDump
    \/ ValidateTarget \/ Report \/ RemoveByName \/ ConfirmGone \/ CleanupGivesUp \/ ConcludeDrill
    \/ \E n \in Names : Stranger(n) \/ InspectLabel(n)

DrillSpec == DrillInit /\ [][DrillNext]_drillVars
-----------------------------------------------------------------------------
\* A drill that passed restored the whole database into another server, with
\* the guards that make its log append-only at work there and its rows as they
\* were, and left nothing of its own behind; and passed or not, the drill never
\* removes what was another's when it last read the label: what is put under a
\* name between that look and docker's removal by name ("late") is not safe.
DrillIsHonest ==
    [][/\ \A n \in Names : docker[n] = "other" => docker'[n] = "other"
       /\ printed' = "passed" =>
            /\ copy = origin /\ origin.guards = Guards /\ ~sameServer
            /\ \A n \in Names : docker'[n] # "own"]_drillVars
=============================================================================

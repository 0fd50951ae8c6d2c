----------------------------- MODULE Deployment -----------------------------
(***************************************************************************)
(* The deployment commands (entrypoints/deployment.py) and their health    *)
(* endpoints (entrypoints/api/deployment.py).  Several `migrate' and       *)
(* `serve' processes, of images that package different heads, share one    *)
(* database: migrate upgrades the schema on one connection while another   *)
(* holds an advisory lock, then creates the login that serve connects      *)
(* with.  The login's password is a file that may be replaced meanwhile.   *)
(***************************************************************************)
EXTENDS Integers, Nothing

CONSTANTS
    Migrators, Servers,
    Migrations,     \* how many migrations there are, in any image
    PackagedHead,   \* the head that each process's image packages
    MaxRotations,   \* bound: new passwords in the secret file
    MaxOutages      \* bound: stops of the database

ASSUME HeadAssumption ==
    /\ Migrations \in Nat /\ PackagedHead \in [Migrators \cup Servers -> 1..Migrations]
    /\ None \notin Nat \cup Migrators

VARIABLES
    database,    \* [up, revision, login]; login is the password it has, or None
    migrationLock, \* the migrator whose session holds _MIGRATION_LOCK_ID, or None
    migration,   \* [Migrators -> [step, from]]
    service,     \* [Servers -> [up, password, pooled]]
    secret,      \* the password in the secret file
    told,        \* the last answer of an endpoint, with the revision it is about
    applied,     \* history: how often each migration was applied
    outages

deploymentVars == <<database, migrationLock, migration, service, secret, told, applied, outages>>

Working == {"start", "configured", "locked", "upgrading", "upgraded", "provisioned", "unlocked"}

DeploymentInit ==
    /\ database = [up |-> TRUE, revision |-> 0, login |-> None]
    /\ migrationLock = None
    /\ migration = [m \in Migrators |-> [step |-> "start", from |-> 0]]
    /\ service = [s \in Servers |-> [up |-> FALSE, password |-> 0, pooled |-> FALSE]]
    /\ secret = 0 /\ told = None /\ outages = 0
    /\ applied = [i \in 1..Migrations |-> 0]

-----------------------------------------------------------------------------
(* migrate_database.                                                       *)

Goes(m, from, to) == migration[m].step = from /\ migration' = [migration EXCEPT ![m].step = to]

\* Settings, the login's name and the packaged head; any of them may be refused
\* (MigrateFails).
LoadSettings(m) ==
    /\ Goes(m, "start", "configured")
    /\ UNCHANGED <<database, migrationLock, service, secret, told, applied, outages>>

\* pg_try_advisory_lock: a lock that another session holds is a failure.
TryMigrationLock(m) ==
    /\ database.up
    /\ IF migrationLock = None THEN Goes(m, "configured", "locked") /\ migrationLock' = m
       ELSE Goes(m, "configured", "failed") /\ UNCHANGED migrationLock
    /\ UNCHANGED <<database, service, secret, told, applied, outages>>

\* _upgrade opens a transaction of its own; Alembic knows no revision beyond
\* its image's head.
BeginUpgrade(m) ==
    /\ database.up /\ database.revision <= PackagedHead[m]
    /\ migration[m].step = "locked"
    /\ migration' = [migration EXCEPT ![m] = [step |-> "upgrading", from |-> database.revision]]
    /\ UNCHANGED <<database, migrationLock, service, secret, told, applied, outages>>

\* All the migrations up to the head commit together (run_migrations_online),
\* if the row of alembic_version is still the one they began from.
CommitUpgrade(m) ==
    /\ database.up /\ database.revision = migration[m].from
    /\ Goes(m, "upgrading", "upgraded")
    /\ database' = [database EXCEPT !.revision = PackagedHead[m]]
    /\ applied' = [i \in 1..Migrations |->
                     IF migration[m].from < i /\ i <= PackagedHead[m] THEN applied[i] + 1 ELSE applied[i]]
    /\ UNCHANGED <<migrationLock, service, secret, told, outages>>

\* provision_runtime_role, on the connection that has the lock: the password
\* file is read now, the role created or altered, and its grants given.
ProvisionRuntimeRole(m) ==
    /\ database.up /\ migrationLock = m
    /\ Goes(m, "upgraded", "provisioned")
    /\ database' = [database EXCEPT !.login = secret]
    /\ UNCHANGED <<migrationLock, service, secret, told, applied, outages>>

Unlock(m) ==
    /\ database.up /\ migrationLock = m
    /\ Goes(m, "provisioned", "unlocked")
    /\ migrationLock' = None
    /\ UNCHANGED <<database, service, secret, told, applied, outages>>

\* The readiness check at the end: another image may have gone further.
CheckMigrated(m) ==
    /\ database.up
    /\ Goes(m, "unlocked", IF database.revision = PackagedHead[m] THEN "ready" ELSE "failed")
    /\ UNCHANGED <<database, migrationLock, service, secret, told, applied, outages>>

\* Settings or migrations that are refused, a statement that fails or runs
\* out of time, or the end of the process: what was not committed is rolled
\* back and the lock is given back.
MigrateFails(m) ==
    /\ migration[m].step \in Working
    /\ migration' = [migration EXCEPT ![m].step = "failed"]
    /\ migrationLock' = IF migrationLock = m THEN None ELSE migrationLock
    /\ UNCHANGED <<database, service, secret, told, applied, outages>>

\* The session of the lock ends without its process noticing.
LoseLock ==
    /\ migrationLock # None /\ migrationLock' = None
    /\ UNCHANGED <<database, migration, service, secret, told, applied, outages>>

-----------------------------------------------------------------------------
(* serve and its endpoints.                                                *)

\* serve, again after a crash: the password is read once, for the pool.
Serve(s) ==
    /\ service' = [service EXCEPT ![s] = [up |-> TRUE, password |-> secret, pooled |-> FALSE]]
    /\ UNCHANGED <<database, migrationLock, migration, secret, told, applied, outages>>

\* create_runtime_engine: a pooled connection that still answers, or a new one.
Connects(s, fresh) ==
    database.up /\ (fresh => database.login = service[s].password)

\* DatabaseReadinessProbe.check
IsReady(s, fresh) == Connects(s, fresh) /\ database.revision = PackagedHead[s]

Told(s, path, status) == told' = [by |-> s, path |-> path, status |-> status]

\* The pool keeps a connection that worked, and opens one that does not.
Asks(s, fresh) ==
    /\ service[s].up /\ (fresh \/ service[s].pooled)
    /\ service' = [service EXCEPT ![s].pooled = Connects(s, fresh) \/ (fresh /\ @)]

\* _ReadinessEndpoint
Readyz(s, fresh) ==
    /\ Asks(s, fresh)
    /\ Told(s, "readyz", IF IsReady(s, fresh) THEN 200 ELSE 503)
    /\ UNCHANGED <<database, migrationLock, migration, secret, applied, outages>>

\* probe, the container's health check: exit code 0 if /readyz answers 200.
ContainerProbe(s, fresh) ==
    /\ \/ Asks(s, fresh) /\ Told(s, "probe", IF IsReady(s, fresh) THEN 0 ELSE 1)
       \/ ~service[s].up /\ Told(s, "probe", 1) /\ UNCHANGED service
    /\ UNCHANGED <<database, migrationLock, migration, secret, applied, outages>>

\* _LivenessEndpoint asks nobody.
Healthz(s) ==
    /\ service[s].up
    /\ Told(s, "healthz", 200)
    /\ UNCHANGED <<database, migrationLock, migration, service, secret, applied, outages>>

-----------------------------------------------------------------------------
(* The surroundings.                                                       *)

\* All sessions end with the database, and the lock with its session.
DatabaseStops ==
    /\ database.up /\ outages < MaxOutages
    /\ database' = [database EXCEPT !.up = FALSE]
    /\ outages' = outages + 1
    /\ migrationLock' = None
    /\ migration' = [m \in Migrators |->
          IF migration[m].step \in Working \ {"start", "configured", "unlocked"} THEN [migration[m] EXCEPT !.step = "failed"]
          ELSE migration[m]]
    /\ service' = [s \in Servers |-> [service[s] EXCEPT !.pooled = FALSE]]
    /\ UNCHANGED <<secret, told, applied>>

DatabaseStarts ==
    /\ ~database.up
    /\ database' = [database EXCEPT !.up = TRUE]
    /\ UNCHANGED <<migrationLock, migration, service, secret, told, applied, outages>>

RotateSecret ==
    /\ secret < MaxRotations
    /\ secret' = secret + 1
    /\ UNCHANGED <<database, migrationLock, migration, service, told, applied, outages>>

DeploymentNext ==
    \/ \E m \in Migrators : \/ LoadSettings(m) \/ TryMigrationLock(m) \/ BeginUpgrade(m) \/ CommitUpgrade(m)
                            \/ ProvisionRuntimeRole(m) \/ Unlock(m) \/ CheckMigrated(m) \/ MigrateFails(m)
    \/ \E s \in Servers : Serve(s) \/ Healthz(s) \/ \E fresh \in BOOLEAN : Readyz(s, fresh) \/ ContainerProbe(s, fresh)
    \/ LoseLock \/ DatabaseStops \/ DatabaseStarts \/ RotateSecret

DeploymentSpec == DeploymentInit /\ [][DeploymentNext]_deploymentVars
-----------------------------------------------------------------------------
\* Whatever fails, restarts or is rotated between the two transactions of a
\* migration, and whichever images run at once: each migration up to the
\* schema's revision was applied once and none beyond it; a migrator that
\* reported "ready" and a server or probe that called itself ready left the schema no older
\* than their image's, with the login in place; and no login exists on a
\* schema that was never upgraded
\* (migrate_database of deployment.py; DatabaseReadinessProbe.check).
SchemaIsWhatWasTold ==
    /\ \A i \in 1..Migrations : applied[i] = (IF i <= database.revision THEN 1 ELSE 0)
    /\ \A m \in Migrators : migration[m].step = "ready" =>
          database.revision >= PackagedHead[m] /\ database.login # None
    /\ told # None => (told.path # "healthz" /\ told.status \in {0, 200} =>
          database.revision >= PackagedHead[told.by] /\ database.login # None)
    /\ database.login # None => database.revision > 0
=============================================================================

--------------------------- MODULE ResearchProofs ---------------------------
(***************************************************************************)
(* Proofs about a research worker.  First what the worker is deployed      *)
(* with: its transport to the object store (Outbound), the deployment      *)
(* commands (Deployment), the restore drill (RestoreDrill) and the two     *)
(* smokes (Smoke), each by an inductive invariant of its own, and their    *)
(* properties carried over to the specification that composes them, every  *)
(* step of which is a step of one part or leaves it alone.  Then the lease *)
(* of a research job with its tool loop and budgets (Research).            *)
(***************************************************************************)
EXTENDS MCResearch, FiniteSetTheorems, SequenceTheorems, TLAPS

-----------------------------------------------------------------------------
(* Outbound: requests go to addresses that were looked at, and only there. *)

\* What a thread does, and what its last request came to.
TransferRecord ==
    [pc : {"ended", "signed", "resolved", "authorized", "connecting", "sent"},
     op : Operation \cup {None}, target : Target \cup {None},
     resolved : SUBSET Addresses, left : SUBSET Addresses, via : Addresses \cup {None},
     outcome : {None, "ok", "failed", "denied", "out of scope"}]

\* A thread that was let through holds the pinned answer itself, and dials and
\* sends within it; one that was signed has passed the client's checks.
TransferIsSound(tr) ==
    /\ tr.pc = "signed" => tr.op \in Operation /\ tr.target \in Target /\ ClientAccepts(tr.op, tr.target)
    /\ tr.pc = "resolved" => AddressesAreValid(tr.resolved)
    /\ tr.pc \in {"authorized", "connecting", "sent"} => pinned # {} /\ tr.resolved = pinned
    /\ tr.pc = "connecting" => tr.left \subseteq pinned
    /\ tr.pc = "sent" => tr.via \in pinned
    /\ tr.outcome = "out of scope" => tr.op \in Listings /\ tr.target = "below"

OutboundInv ==
    /\ transfer \in [Transfers -> TransferRecord]
    /\ resolver \in (SUBSET Addresses) \cup {None}
    /\ pinned \subseteq Addresses /\ (pinned # {} => AddressesAreValid(pinned))
    /\ idle \subseteq pinned
    /\ \A t \in Transfers : TransferIsSound(transfer[t])

\* The guard's rules are the client's, but for listings below another key.
LEMMA GuardFollowsClient ==
    ASSUME NEW op \in Operation, NEW target \in Target, ClientAccepts(op, target), ~GuardMatches(op, target)
    PROVE  op \in Listings /\ target = "below"
<1>1. op \in {"object", "presign", "versions", "more_versions", "versioning", "object_lock", "retention", "legal_hold", "delete"}
  BY DEF Operation, QueryOf
<1>2. CASE op \in {"object", "presign"}
  <2>1. QueryOf[op] = {} /\ ~OfBucket(op)
    BY <1>2 DEF QueryOf, OfBucket, Listings
  <2> QED
    BY <2>1, <1>2 DEF GuardMatches, ClientAccepts
<1>3. CASE op \in {"versioning", "object_lock"}
  <2>1. QueryOf[op] \in {{"versioning"}, {"object-lock"}} /\ OfBucket(op)
    BY <1>3 DEF QueryOf, OfBucket, Listings
  <2> QED
    BY <2>1 DEF GuardMatches
<1>4. CASE op \in {"retention", "legal_hold", "delete"}
  <2>1. QueryOf[op] \in {{"versionId"}, {"retention", "versionId"}, {"legal-hold", "versionId"}} /\ ~OfBucket(op)
    BY <1>4 DEF QueryOf, OfBucket, Listings
  <2>2. target \in {"listed", "below"}
    BY <1>4 DEF ClientAccepts
  <2> QED
    BY <2>1, <2>2 DEF GuardMatches
<1>5. CASE op \in {"versions", "more_versions"}
  <2>1. QueryOf[op] \ {"key-marker", "version-id-marker"} = {"versions", "prefix", "max-keys"} /\ OfBucket(op)
    <3>1. CASE op = "versions"
      BY <3>1 DEF QueryOf, OfBucket, Listings
    <3>2. CASE op = "more_versions"
      BY <3>2 DEF QueryOf, OfBucket, Listings
    <3> QED
      BY <1>5, <3>1, <3>2
  <2>2. target # "listed"
    BY <2>1 DEF GuardMatches
  <2>3. target \in {"listed", "below"}
    BY <1>5 DEF ClientAccepts
  <2> QED
    BY <1>5, <2>2, <2>3 DEF Listings
<1> QED
  BY <1>1, <1>2, <1>3, <1>4, <1>5

\* A step of one thread that leaves the pin alone only has to care for itself.
LEMMA OneTransferMoves ==
    ASSUME OutboundInv, NEW t \in Transfers, NEW tr \in TransferRecord, transfer' = [transfer EXCEPT ![t] = tr],
           UNCHANGED <<pinned, resolver>>, idle' \subseteq pinned, TransferIsSound(tr)
    PROVE  OutboundInv'
<1>1. transfer' \in [Transfers -> TransferRecord]
  BY DEF OutboundInv
<1>2. \A u \in Transfers : TransferIsSound(transfer[u])'
  <2> TAKE u \in Transfers
  <2>1. TransferIsSound(transfer[u]) \/ (u = t /\ transfer'[u] = tr)
    BY DEF OutboundInv
  <2>2. transfer'[u] = IF u = t THEN tr ELSE transfer[u]
    BY DEF OutboundInv
  <2> QED
    BY <2>1, <2>2 DEF TransferIsSound, AddressesAreValid
<1> QED
  BY <1>1, <1>2 DEF OutboundInv, AddressesAreValid

\* A request that is over leaves nothing behind that could be unsound.
LEMMA OverIsSound ==
    ASSUME NEW outcome \in {"ok", "failed", "denied"}
    PROVE  /\ [NoTransfer EXCEPT !.outcome = outcome] \in TransferRecord
           /\ TransferIsSound([NoTransfer EXCEPT !.outcome = outcome])
BY OutboundAssumption DEF NoTransfer, TransferRecord, TransferIsSound

LEMMA OverKeeps ==
    ASSUME OutboundInv, NEW t \in Transfers, NEW outcome \in {"ok", "failed", "denied"}, Over(t, outcome),
           UNCHANGED <<pinned, resolver>>, idle' \subseteq pinned
    PROVE  OutboundInv'
BY OverIsSound, OneTransferMoves DEF Over

LEMMA SendRequestKeeps ==
    ASSUME OutboundInv, NEW t \in Transfers, NEW op \in Operation, NEW target \in Target, SendRequest(t, op, target)
    PROVE  OutboundInv'
<1>0. idle' \subseteq pinned /\ UNCHANGED <<pinned, resolver>>
  BY DEF SendRequest, OutboundInv
<1>1. CASE Over(t, "failed") \/ Over(t, "ok")
  BY <1>0, <1>1, OverKeeps
<1>2. CASE ~(Over(t, "failed") \/ Over(t, "ok"))
  <2> DEFINE tr == [NoTransfer EXCEPT !.pc = "signed", !.op = op, !.target = target]
  <2>1. transfer' = [transfer EXCEPT ![t] = tr] /\ ClientAccepts(op, target)
    BY <1>2 DEF SendRequest
  <2>2. tr \in TransferRecord
    BY DEF TransferRecord, NoTransfer
  <2>3. TransferIsSound(tr)
    BY <2>1, OutboundAssumption DEF TransferIsSound, NoTransfer
  <2> QED
    BY <1>0, <2>1, <2>2, <2>3, OneTransferMoves
<1> QED
  BY <1>1, <1>2

LEMMA ResolveHostKeeps ==
    ASSUME OutboundInv, NEW t \in Transfers, ResolveHost(t)
    PROVE  OutboundInv'
<1>0. idle' \subseteq pinned /\ UNCHANGED <<pinned, resolver>> /\ transfer[t].pc = "signed"
      /\ transfer[t] \in TransferRecord /\ TransferIsSound(transfer[t])
  BY DEF ResolveHost, OutboundInv
<1>1. CASE Over(t, "denied")
  BY <1>0, <1>1, OverKeeps
<1>2. CASE ~GuardMatches(transfer[t].op, transfer[t].target)
  <2> DEFINE tr == [transfer[t] EXCEPT !.pc = "ended", !.outcome = "out of scope"]
  <2>1. transfer' = [transfer EXCEPT ![t] = tr]
    BY <1>2 DEF ResolveHost
  <2>2. tr \in TransferRecord
    BY <1>0 DEF TransferRecord
  <2>3. transfer[t].op \in Operation /\ transfer[t].target \in Target /\ ClientAccepts(transfer[t].op, transfer[t].target)
    BY <1>0 DEF TransferIsSound
  <2>4. transfer[t].op \in Listings /\ transfer[t].target = "below"
    BY <1>2, <2>3, GuardFollowsClient
  <2>5. tr.pc = "ended" /\ tr.op = transfer[t].op /\ tr.target = transfer[t].target
    BY <1>0 DEF TransferRecord
  <2>6. TransferIsSound(tr)
    BY <2>4, <2>5 DEF TransferIsSound
  <2> QED
    BY <1>0, <2>1, <2>2, <2>6, OneTransferMoves
<1>3. CASE ~Over(t, "denied") /\ GuardMatches(transfer[t].op, transfer[t].target)
  <2> DEFINE tr == [NoTransfer EXCEPT !.pc = "resolved", !.resolved = resolver]
  <2>1. transfer' = [transfer EXCEPT ![t] = tr] /\ AddressesAreValid(resolver) /\ resolver # None
    BY <1>3 DEF ResolveHost
  <2>2. resolver \in SUBSET Addresses
    BY <2>1 DEF OutboundInv
  <2>3. tr \in TransferRecord
    BY <2>2 DEF TransferRecord, NoTransfer
  <2>4. TransferIsSound(tr)
    BY <2>1, OutboundAssumption DEF TransferIsSound, NoTransfer
  <2> QED
    BY <1>0, <2>1, <2>3, <2>4, OneTransferMoves
<1> QED
  BY <1>1, <1>2, <1>3

\* Threads that were let through hold the pin, so the first answer stays.
LEMMA PinStays ==
    ASSUME OutboundInv, NEW t \in Transfers, Pin(t), pinned # {}
    PROVE  pinned' = pinned
BY DEF Pin, PinsOn

LEMMA PinKeeps ==
    ASSUME OutboundInv, NEW t \in Transfers, Pin(t)
    PROVE  OutboundInv'
<1>0. transfer[t].pc = "resolved" /\ transfer[t] \in TransferRecord /\ AddressesAreValid(transfer[t].resolved)
  BY DEF Pin, OutboundInv, TransferIsSound
<1>1. CASE ~PinsOn(transfer[t].resolved)
  BY <1>1, OverKeeps DEF Pin, OutboundInv
<1>2. CASE PinsOn(transfer[t].resolved)
  <2> DEFINE tr == [transfer[t] EXCEPT !.pc = "authorized"]
  <2>1. /\ transfer' = [transfer EXCEPT ![t] = tr] /\ pinned' = transfer[t].resolved
        /\ UNCHANGED <<resolver, idle>>
    BY <1>2, <1>0 DEF Pin, OutboundInv
  <2>2. tr \in TransferRecord /\ tr.pc = "authorized" /\ tr.resolved = transfer[t].resolved
        /\ tr.outcome = transfer[t].outcome /\ tr.op = transfer[t].op /\ tr.target = transfer[t].target
    BY <1>0 DEF TransferRecord
  <2>3. pinned' # {} /\ pinned' \subseteq Addresses /\ AddressesAreValid(pinned')
    BY <1>0, <2>1 DEF AddressesAreValid, TransferRecord
  <2>4. pinned \subseteq pinned' /\ (pinned # {} => pinned' = pinned)
    BY <2>1, <1>2 DEF PinsOn
  <2>5. transfer' \in [Transfers -> TransferRecord]
    BY <2>1, <2>2 DEF OutboundInv
  <2>6. \A u \in Transfers : TransferIsSound(transfer[u])'
    <3> TAKE u \in Transfers
    <3>1. TransferIsSound(transfer[u])
      BY DEF OutboundInv
    <3>2. transfer'[u] = IF u = t THEN tr ELSE transfer[u]
      BY <2>1 DEF OutboundInv
    <3>3. CASE u = t
      <4> HIDE DEF tr
      <4>1. transfer'[u].outcome = "out of scope" => transfer'[u].op \in Listings /\ transfer'[u].target = "below"
        BY <3>1, <3>2, <3>3, <2>2 DEF TransferIsSound
      <4> QED
        BY <4>1, <3>2, <3>3, <2>1, <2>2, <2>3 DEF TransferIsSound
    <3>4. CASE u # t
      BY <3>1, <3>2, <3>4, <2>4 DEF TransferIsSound, AddressesAreValid
    <3> QED
      BY <3>3, <3>4
  <2>7. idle' \subseteq pinned' /\ resolver' \in (SUBSET Addresses) \cup {None}
    BY <2>1, <2>4 DEF OutboundInv
  <2>8. AddressesAreValid(pinned)'
    BY <2>3 DEF AddressesAreValid
  <2> QED
    BY <2>3, <2>5, <2>6, <2>7, <2>8 DEF OutboundInv
<1> QED
  BY <1>1, <1>2

\* A connection of the pool and a new one both lead into the pin.
LEMMA ConnectingKeeps ==
    ASSUME OutboundInv, NEW t \in Transfers,
           \/ ReadPin(t) \/ TransportFails(t)
           \/ \E a \in Addresses : Reuse(t, a) \/ \E works \in BOOLEAN : ConnectTcp(t, a, works)
    PROVE  OutboundInv'
<1>0. transfer[t] \in TransferRecord /\ TransferIsSound(transfer[t]) /\ idle \subseteq pinned /\ pinned \subseteq Addresses
  BY DEF OutboundInv
<1>1. CASE ReadPin(t)
  <2> DEFINE tr == [transfer[t] EXCEPT !.pc = "connecting", !.left = pinned]
  <2>1. transfer' = [transfer EXCEPT ![t] = tr] /\ UNCHANGED <<pinned, resolver, idle>> /\ transfer[t].pc = "authorized"
    BY <1>1 DEF ReadPin
  <2>2. tr \in TransferRecord
    BY <1>0 DEF TransferRecord
  <2>3. TransferIsSound(tr)
    BY <1>0, <2>1 DEF TransferIsSound, TransferRecord
  <2> QED
    BY <1>0, <2>1, <2>2, <2>3, OneTransferMoves
<1>2. CASE TransportFails(t)
  BY <1>0, <1>2, OverKeeps DEF TransportFails
<1>3. ASSUME NEW a \in Addresses, Reuse(t, a) PROVE OutboundInv'
  <2> DEFINE tr == [transfer[t] EXCEPT !.pc = "sent", !.via = a]
  <2>1. transfer' = [transfer EXCEPT ![t] = tr] /\ UNCHANGED <<pinned, resolver>> /\ transfer[t].pc = "authorized" /\ a \in pinned
        /\ idle' \subseteq pinned
    BY <1>0, <1>3 DEF Reuse
  <2>2. tr \in TransferRecord
    BY <1>0 DEF TransferRecord
  <2>3. TransferIsSound(tr)
    BY <1>0, <2>1 DEF TransferIsSound, TransferRecord
  <2> QED
    BY <1>0, <2>1, <2>2, <2>3, OneTransferMoves
<1>4. ASSUME NEW a \in Addresses, NEW works \in BOOLEAN, ConnectTcp(t, a, works) PROVE OutboundInv'
  <2>1. UNCHANGED <<pinned, resolver, idle>> /\ transfer[t].pc = "connecting" /\ a \in pinned
    BY <1>0, <1>4 DEF ConnectTcp, TransferIsSound
  <2>2. CASE works
    <3> DEFINE tr == [transfer[t] EXCEPT !.pc = "sent", !.via = a]
    <3>1. transfer' = [transfer EXCEPT ![t] = tr]
      BY <1>4, <2>2 DEF ConnectTcp
    <3>2. tr \in TransferRecord
      BY <1>0 DEF TransferRecord
    <3>3. TransferIsSound(tr)
      BY <1>0, <2>1 DEF TransferIsSound, TransferRecord
    <3> QED
      BY <1>0, <2>1, <3>1, <3>2, <3>3, OneTransferMoves
  <2>3. CASE Over(t, "failed")
    BY <1>0, <2>1, <2>3, OverKeeps
  <2>4. CASE ~works /\ ~Over(t, "failed")
    <3> DEFINE tr == [transfer[t] EXCEPT !.left = @ \ {a}]
    <3>1. transfer' = [transfer EXCEPT ![t] = tr]
      BY <1>4, <2>4, <1>0 DEF ConnectTcp
    <3>2. tr \in TransferRecord
      BY <1>0 DEF TransferRecord
    <3>3. TransferIsSound(tr)
      BY <1>0, <2>1 DEF TransferIsSound, TransferRecord
    <3> QED
      BY <1>0, <2>1, <3>1, <3>2, <3>3, OneTransferMoves
  <2> QED
    BY <2>2, <2>3, <2>4
<1> QED
  BY <1>1, <1>2, <1>3, <1>4

LEMMA RespondKeeps ==
    ASSUME OutboundInv, NEW t \in Transfers, NEW response \in DOMAIN OutcomeOf, NEW keep \in BOOLEAN, Respond(t, response, keep)
    PROVE  OutboundInv'
<1>1. OutcomeOf[response] \in {"ok", "failed", "denied"}
  BY DEF OutcomeOf
<1>2. transfer[t].via \in pinned /\ UNCHANGED <<pinned, resolver>>
  BY DEF Respond, OutboundInv, TransferIsSound
<1>3. idle' \subseteq pinned
  BY <1>2 DEF Respond, OutboundInv
<1> QED
  BY <1>1, <1>2, <1>3, OverKeeps DEF Respond

LEMMA SurroundingsKeep ==
    ASSUME OutboundInv, DnsChanges \/ CredentialsChange \/ CredentialsAge \/ \E a \in Addresses : IdleCloses(a)
    PROVE  OutboundInv'
<1>1. UNCHANGED <<pinned, transfer>> /\ idle' \subseteq idle
  BY DEF DnsChanges, CredentialsChange, CredentialsAge, IdleCloses
<1>2. resolver' \in (SUBSET Addresses) \cup {None}
  BY OutboundAssumption DEF OutboundInv, DnsChanges, CredentialsChange, CredentialsAge, IdleCloses
<1> QED
  BY <1>1, <1>2 DEF OutboundInv, TransferIsSound, AddressesAreValid

\* The invariant of the guarded transport.
THEOREM OutboundInvariant == OutboundSpec => []OutboundInv
<1>1. OutboundInit => OutboundInv
  <2> SUFFICES ASSUME OutboundInit PROVE OutboundInv
    OBVIOUS
  <2>1. NoTransfer \in TransferRecord /\ TransferIsSound(NoTransfer)
    BY OutboundAssumption DEF NoTransfer, TransferRecord, TransferIsSound
  <2> QED
    BY <2>1, OutboundAssumption DEF OutboundInit, OutboundInv
<1>2. OutboundInv /\ [OutboundNext]_outboundVars => OutboundInv'
  <2> SUFFICES ASSUME OutboundInv, [OutboundNext]_outboundVars PROVE OutboundInv'
    OBVIOUS
  <2>1. CASE UNCHANGED outboundVars
    BY <2>1 DEF outboundVars, OutboundInv, TransferIsSound, AddressesAreValid
  <2>2. CASE \E t \in Ended, op \in Operation, target \in Target : SendRequest(t, op, target)
    BY <2>2, SendRequestKeeps DEF Ended
  <2>3. ASSUME NEW t \in Transfers, ResolveHost(t) \/ Pin(t) \/ ReadPin(t) \/ TransportFails(t) PROVE OutboundInv'
    BY <2>3, ResolveHostKeeps, PinKeeps, ConnectingKeeps
  <2>4. ASSUME NEW t \in Transfers, NEW a \in Addresses, Reuse(t, a) \/ \E works \in BOOLEAN : ConnectTcp(t, a, works)
        PROVE OutboundInv'
    BY <2>4, ConnectingKeeps
  <2>5. ASSUME NEW t \in Transfers, NEW response \in DOMAIN OutcomeOf, NEW keep \in BOOLEAN, Respond(t, response, keep)
        PROVE OutboundInv'
    BY <2>5, RespondKeeps
  <2> QED
    BY <2>1, <2>2, <2>3, <2>4, <2>5, SurroundingsKeep DEF OutboundNext
<1> QED
  BY <1>1, <1>2, PTL DEF OutboundSpec

\* However the DNS answers and the threads interleave: what is sent goes to an
\* address of the one answer that was permitted as a whole, the pin never moves,
\* and the guard refuses of the client's requests only listings below another key.
THEOREM OutboundIsPinned == OutboundSpec => OutboundHolds
<1>1. OutboundInv => SentToThePin /\ ClientAndGuardAgree
  BY DEF OutboundInv, TransferIsSound, SentToThePin, ClientAndGuardAgree
<1>2. OutboundInv /\ [OutboundNext]_outboundVars => [pinned # {} => pinned' = pinned]_outboundVars
  BY PinStays DEF OutboundNext, outboundVars, Ended, SendRequest, ResolveHost, ReadPin, TransportFails, Reuse, ConnectTcp,
     Respond, DnsChanges, CredentialsChange, CredentialsAge, IdleCloses
<1> QED
  BY <1>1, <1>2, OutboundInvariant, PTL DEF OutboundSpec, OutboundHolds

-----------------------------------------------------------------------------
(* Deployment: the schema is what migrate and /readyz said.                *)

MigrationSteps == Working \cup {"ready", "failed"}
DeploymentTypes ==
    /\ database \in [up : BOOLEAN, revision : 0..Migrations, login : Nat \cup {None}]
    /\ migration \in [Migrators -> [step : MigrationSteps, from : 0..Migrations]]
    /\ service \in [Servers -> [up : BOOLEAN, password : Nat, pooled : BOOLEAN]]
    /\ secret \in Nat

HasLogin == database.login # None

\* What a migrator's step says of the schema: a transaction only goes forward
\* to its image's head, and the login is behind whoever provisioned it.
MigrationIsSound(m) ==
    /\ migration[m].step = "upgrading" => migration[m].from <= PackagedHead[m]
    /\ migration[m].step \in {"upgraded", "provisioned", "unlocked", "ready"} => database.revision >= PackagedHead[m]
    /\ migration[m].step \in {"provisioned", "unlocked", "ready"} => HasLogin

ToldIsSound ==
    told # None => (told.path # "healthz" /\ told.status \in {0, 200} =>
        told.by \in Servers /\ database.revision >= PackagedHead[told.by] /\ HasLogin)

DeploymentInv ==
    /\ DeploymentTypes
    /\ applied = [i \in 1..Migrations |-> IF i <= database.revision THEN 1 ELSE 0]
    /\ \A m \in Migrators : MigrationIsSound(m)
    /\ \A s \in Servers : service[s].pooled => HasLogin
    /\ HasLogin => database.revision > 0
    /\ ToldIsSound

\* A schema that does not go back, on which no login disappears.
SchemaStays == database'.revision >= database.revision /\ (HasLogin => HasLogin')

LEMMA HeadsAreNumbers ==
    /\ Migrations \in Nat /\ None \notin Nat
    /\ \A p \in Migrators \cup Servers : PackagedHead[p] \in 1..Migrations
BY HeadAssumption

\* One migrator makes a step on a schema that stays.
LEMMA MigratorMoves ==
    ASSUME DeploymentInv, NEW m \in Migrators, NEW row \in [step : MigrationSteps, from : 0..Migrations],
           migration' = [migration EXCEPT ![m] = row],
           database' \in [up : BOOLEAN, revision : 0..Migrations, login : Nat \cup {None}],
           SchemaStays, UNCHANGED <<service, secret, told>>,
           row.step = "upgrading" => row.from <= PackagedHead[m],
           row.step \in {"upgraded", "provisioned", "unlocked", "ready"} => database'.revision >= PackagedHead[m],
           row.step \in {"provisioned", "unlocked", "ready"} => HasLogin',
           HasLogin' => database'.revision > 0,
           applied' = [i \in 1..Migrations |-> IF i <= database'.revision THEN 1 ELSE 0]
    PROVE  DeploymentInv'
<1>0. database.revision \in Nat /\ database'.revision \in Nat /\ \A p \in Migrators \cup Servers : PackagedHead[p] \in Nat
  BY HeadsAreNumbers DEF DeploymentInv, DeploymentTypes
<1>1. DeploymentTypes'
  BY DEF DeploymentInv, DeploymentTypes
<1>2. \A n \in Migrators : MigrationIsSound(n)'
  <2> TAKE n \in Migrators
  <2>1. migration'[n] = IF n = m THEN row ELSE migration[n]
    BY DEF DeploymentInv, DeploymentTypes
  <2>2. MigrationIsSound(n)
    BY DEF DeploymentInv
  <2>3. CASE n = m
    BY <2>1, <2>3 DEF MigrationIsSound
  <2>4. CASE n # m
    BY <2>1, <2>2, <2>4, <1>0 DEF MigrationIsSound, SchemaStays
  <2> QED
    BY <2>3, <2>4
<1>3. ToldIsSound'
  BY <1>0 DEF DeploymentInv, ToldIsSound, SchemaStays
<1>4. \A s \in Servers : service'[s].pooled => HasLogin'
  BY DEF DeploymentInv, SchemaStays
<1> QED
  BY <1>1, <1>2, <1>3, <1>4 DEF DeploymentInv

\* Whoever goes a step has a row for it.
LEMMA GoesOn ==
    ASSUME DeploymentInv, NEW m \in Migrators, NEW from, NEW to \in MigrationSteps, Goes(m, from, to)
    PROVE  \E row \in [step : MigrationSteps, from : 0..Migrations] :
              /\ row.step = to /\ row.from = migration[m].from
              /\ migration' = [migration EXCEPT ![m] = row]
<1> DEFINE row == [migration[m] EXCEPT !.step = to]
<1>1. migration[m] \in [step : MigrationSteps, from : 0..Migrations]
  BY DEF DeploymentInv, DeploymentTypes
<1>2. row \in [step : MigrationSteps, from : 0..Migrations] /\ row.step = to /\ row.from = migration[m].from
  BY <1>1
<1>3. migration' = [migration EXCEPT ![m] = row]
  BY DEF Goes
<1> QED
  BY <1>2, <1>3

\* Steps that leave the database alone, to a step that it has already earned.
LEMMA QuietStepKeeps ==
    ASSUME DeploymentInv, NEW m \in Migrators, NEW from, NEW to \in MigrationSteps, Goes(m, from, to),
           UNCHANGED <<database, service, secret, told, applied>>,
           to # "upgrading",
           to \in {"upgraded", "provisioned", "unlocked", "ready"} => database.revision >= PackagedHead[m],
           to \in {"provisioned", "unlocked", "ready"} => HasLogin
    PROVE  DeploymentInv'
<1>1. PICK row \in [step : MigrationSteps, from : 0..Migrations] :
         row.step = to /\ migration' = [migration EXCEPT ![m] = row]
  BY GoesOn
<1>2. SchemaStays /\ database' \in [up : BOOLEAN, revision : 0..Migrations, login : Nat \cup {None}]
  BY HeadsAreNumbers DEF DeploymentInv, DeploymentTypes, SchemaStays, HasLogin
<1>3. HasLogin' = HasLogin /\ (HasLogin => database.revision > 0)
  BY DEF DeploymentInv, HasLogin
<1>4. applied' = [i \in 1..Migrations |-> IF i <= database'.revision THEN 1 ELSE 0]
  BY DEF DeploymentInv
<1> QED
  BY <1>1, <1>2, <1>3, <1>4, MigratorMoves

LEMMA MigratorStepKeeps ==
    ASSUME DeploymentInv, NEW m \in Migrators,
           LoadSettings(m) \/ TryMigrationLock(m) \/ Unlock(m) \/ CheckMigrated(m) \/ MigrateFails(m)
    PROVE  DeploymentInv'
<1>1. MigrationIsSound(m) /\ migration[m] \in [step : MigrationSteps, from : 0..Migrations]
  BY DEF DeploymentInv, DeploymentTypes
<1>2. UNCHANGED <<database, service, secret, told, applied>>
  BY DEF LoadSettings, TryMigrationLock, Unlock, CheckMigrated, MigrateFails
<1>3. CASE LoadSettings(m)
  BY <1>2, <1>3, QuietStepKeeps DEF LoadSettings, MigrationSteps, Working
<1>4. CASE TryMigrationLock(m)
  BY <1>2, <1>4, QuietStepKeeps DEF TryMigrationLock, MigrationSteps, Working
<1>5. CASE Unlock(m)
  <2>1. Goes(m, "provisioned", "unlocked") /\ migration[m].step = "provisioned"
    BY <1>5 DEF Unlock, Goes
  <2> QED
    BY <1>1, <1>2, <2>1, QuietStepKeeps DEF MigrationIsSound, MigrationSteps, Working
<1>6. CASE CheckMigrated(m)
  <2>1. migration[m].step = "unlocked" /\ (Goes(m, "unlocked", "ready") \/ Goes(m, "unlocked", "failed"))
    BY <1>6 DEF CheckMigrated, Goes
  <2> QED
    BY <1>1, <1>2, <2>1, QuietStepKeeps DEF MigrationIsSound, MigrationSteps, Working
<1>7. CASE MigrateFails(m)
  <2>1. Goes(m, migration[m].step, "failed")
    BY <1>7 DEF MigrateFails, Goes
  <2> QED
    BY <1>2, <2>1, QuietStepKeeps DEF MigrationSteps
<1> QED
  BY <1>3, <1>4, <1>5, <1>6, <1>7

LEMMA BeginUpgradeKeeps ==
    ASSUME DeploymentInv, NEW m \in Migrators, BeginUpgrade(m)
    PROVE  DeploymentInv'
<1> DEFINE row == [step |-> "upgrading", from |-> database.revision]
<1>1. migration' = [migration EXCEPT ![m] = row] /\ database.revision <= PackagedHead[m]
      /\ UNCHANGED <<database, service, secret, told, applied>>
  BY DEF BeginUpgrade
<1>2. row \in [step : MigrationSteps, from : 0..Migrations]
  BY DEF DeploymentInv, DeploymentTypes, MigrationSteps, Working
<1>3. SchemaStays /\ database' \in [up : BOOLEAN, revision : 0..Migrations, login : Nat \cup {None}]
  BY <1>1, HeadsAreNumbers DEF DeploymentInv, DeploymentTypes, SchemaStays, HasLogin
<1>4. HasLogin' => database'.revision > 0
  BY <1>1 DEF DeploymentInv, HasLogin
<1>5. applied' = [i \in 1..Migrations |-> IF i <= database'.revision THEN 1 ELSE 0]
  BY <1>1 DEF DeploymentInv
<1>6. row.step = "upgrading" /\ row.from <= PackagedHead[m]
  BY <1>1
<1> HIDE DEF row
<1> QED
  BY <1>1, <1>2, <1>3, <1>4, <1>5, <1>6, MigratorMoves

\* The migrations from a revision to a head are applied once more each.
LEMMA AppliedOnce ==
    ASSUME NEW from \in Nat, NEW head \in Nat, from <= head,
           applied = [i \in 1..Migrations |-> IF i <= from THEN 1 ELSE 0],
           applied' = [i \in 1..Migrations |-> IF from < i /\ i <= head THEN applied[i] + 1 ELSE applied[i]]
    PROVE  applied' = [i \in 1..Migrations |-> IF i <= head THEN 1 ELSE 0]
<1>1. \A i \in 1..Migrations : (IF from < i /\ i <= head THEN applied[i] + 1 ELSE applied[i]) = IF i <= head THEN 1 ELSE 0
  <2> TAKE i \in 1..Migrations
  <2>1. applied[i] = IF i <= from THEN 1 ELSE 0
    OBVIOUS
  <2>2. i \in Int
    BY HeadsAreNumbers
  <2> QED
    BY <2>1, <2>2
<1> QED
  BY <1>1

LEMMA CommitUpgradeKeeps ==
    ASSUME DeploymentInv, NEW m \in Migrators, CommitUpgrade(m)
    PROVE  DeploymentInv'
<1>1. /\ migration[m].step = "upgrading" /\ database.revision = migration[m].from /\ Goes(m, "upgrading", "upgraded")
      /\ database' = [database EXCEPT !.revision = PackagedHead[m]] /\ UNCHANGED <<service, secret, told>>
      /\ applied' = [i \in 1..Migrations |->
                     IF migration[m].from < i /\ i <= PackagedHead[m] THEN applied[i] + 1 ELSE applied[i]]
  BY DEF CommitUpgrade, Goes
<1>2. PICK row \in [step : MigrationSteps, from : 0..Migrations] :
         row.step = "upgraded" /\ migration' = [migration EXCEPT ![m] = row]
  BY <1>1, GoesOn DEF MigrationSteps, Working
<1>3. /\ database.revision \in Nat /\ PackagedHead[m] \in 1..Migrations /\ PackagedHead[m] \in Nat
      /\ database.revision <= PackagedHead[m] /\ database.revision = migration[m].from
  BY <1>1, HeadsAreNumbers DEF DeploymentInv, DeploymentTypes, MigrationIsSound
<1>4. database' \in [up : BOOLEAN, revision : 0..Migrations, login : Nat \cup {None}]
      /\ database'.revision = PackagedHead[m] /\ database'.login = database.login
  <2>1. database \in [up : BOOLEAN, revision : 0..Migrations, login : Nat \cup {None}]
    BY DEF DeploymentInv, DeploymentTypes
  <2>2. PackagedHead[m] \in 0..Migrations
    BY <1>3, HeadsAreNumbers
  <2> QED
    BY <1>1, <2>1, <2>2
<1>5. SchemaStays /\ database'.revision > 0 /\ database'.revision >= PackagedHead[m]
  BY <1>3, <1>4 DEF SchemaStays, HasLogin
<1>6. PICK before \in Nat : before = database.revision
  BY <1>3
<1>7. applied' = [i \in 1..Migrations |-> IF i <= PackagedHead[m] THEN 1 ELSE 0]
  <2>1. applied = [i \in 1..Migrations |-> IF i <= before THEN 1 ELSE 0]
    BY <1>6 DEF DeploymentInv
  <2>2. applied' = [i \in 1..Migrations |-> IF before < i /\ i <= PackagedHead[m] THEN applied[i] + 1 ELSE applied[i]]
    BY <1>1, <1>6
  <2> QED
    BY <2>1, <2>2, <1>3, <1>6, AppliedOnce
<1>8. applied' = [i \in 1..Migrations |-> IF i <= database'.revision THEN 1 ELSE 0]
  BY <1>4, <1>7
<1> QED
  BY <1>1, <1>2, <1>4, <1>5, <1>8, MigratorMoves

LEMMA ProvisionKeeps ==
    ASSUME DeploymentInv, NEW m \in Migrators, ProvisionRuntimeRole(m)
    PROVE  DeploymentInv'
<1>1. /\ migration[m].step = "upgraded" /\ Goes(m, "upgraded", "provisioned")
      /\ database' = [database EXCEPT !.login = secret] /\ UNCHANGED <<service, secret, told, applied>>
  BY DEF ProvisionRuntimeRole, Goes
<1>2. PICK row \in [step : MigrationSteps, from : 0..Migrations] :
         row.step = "provisioned" /\ migration' = [migration EXCEPT ![m] = row]
  BY <1>1, GoesOn DEF MigrationSteps, Working
<1>3. database.revision >= PackagedHead[m] /\ PackagedHead[m] \in 1..Migrations /\ database.revision \in Nat
  BY <1>1, HeadsAreNumbers DEF DeploymentInv, DeploymentTypes, MigrationIsSound
<1>4. database' \in [up : BOOLEAN, revision : 0..Migrations, login : Nat \cup {None}]
      /\ database'.revision = database.revision /\ database'.login = secret
  BY <1>1 DEF DeploymentInv, DeploymentTypes
<1>5. HasLogin'
  BY <1>4, HeadsAreNumbers DEF DeploymentInv, DeploymentTypes, HasLogin
<1>6. SchemaStays /\ database'.revision > 0 /\ database'.revision >= PackagedHead[m]
  BY <1>3, <1>4, <1>5, HeadsAreNumbers DEF SchemaStays
<1>7. applied' = [i \in 1..Migrations |-> IF i <= database'.revision THEN 1 ELSE 0]
  BY <1>1, <1>4 DEF DeploymentInv
<1> QED
  BY <1>1, <1>2, <1>4, <1>5, <1>6, <1>7, MigratorMoves

\* Whoever connects has a login to connect with.
LEMMA ConnectsByLogin ==
    ASSUME DeploymentInv, NEW s \in Servers, NEW fresh \in BOOLEAN, Asks(s, fresh), Connects(s, fresh)
    PROVE  HasLogin
<1>1. service[s].password \in Nat /\ service[s].pooled \in BOOLEAN
  BY DEF DeploymentInv, DeploymentTypes
<1>2. CASE fresh
  BY <1>1, <1>2, HeadsAreNumbers DEF Connects, HasLogin
<1>3. CASE ~fresh
  BY <1>1, <1>3 DEF Asks, DeploymentInv
<1> QED
  BY <1>2, <1>3

LEMMA AnswersAreSound ==
    ASSUME DeploymentInv, NEW s \in Servers, NEW fresh \in BOOLEAN, Readyz(s, fresh) \/ ContainerProbe(s, fresh)
    PROVE  DeploymentInv'
<1>1. UNCHANGED <<database, migration, secret, applied>> /\ (Asks(s, fresh) \/ UNCHANGED service)
  BY DEF Readyz, ContainerProbe
<1>2. HasLogin' = HasLogin
  BY <1>1 DEF HasLogin
<1>3. service' \in [Servers -> [up : BOOLEAN, password : Nat, pooled : BOOLEAN]]
      /\ \A r \in Servers : service'[r].pooled => HasLogin
  <2>1. CASE UNCHANGED service
    BY <2>1 DEF DeploymentInv, DeploymentTypes
  <2>2. CASE Asks(s, fresh)
    <3> DEFINE keeps == Connects(s, fresh) \/ (fresh /\ service[s].pooled)
               row == [service[s] EXCEPT !.pooled = keeps]
    <3>1. service' = [service EXCEPT ![s] = row]
      BY <2>2 DEF Asks
    <3>2. service[s] \in [up : BOOLEAN, password : Nat, pooled : BOOLEAN] /\ (service[s].pooled => HasLogin)
      BY DEF DeploymentInv, DeploymentTypes
    <3>3. keeps => HasLogin
      BY <2>2, <3>2, ConnectsByLogin
    <3>4. keeps \in BOOLEAN
      BY <3>2 DEF Connects
    <3> HIDE DEF keeps
    <3>5. row \in [up : BOOLEAN, password : Nat, pooled : BOOLEAN] /\ row.pooled = keeps
      BY <3>2, <3>4
    <3> HIDE DEF row
    <3>6. \A r \in Servers : service'[r] = IF r = s THEN row ELSE service[r]
      BY <3>1 DEF DeploymentInv, DeploymentTypes
    <3>7. service' \in [Servers -> [up : BOOLEAN, password : Nat, pooled : BOOLEAN]]
      BY <3>1, <3>5 DEF DeploymentInv, DeploymentTypes
    <3> QED
      BY <3>3, <3>5, <3>6, <3>7 DEF DeploymentInv
  <2> QED
    BY <1>1, <2>1, <2>2
<1>4. ToldIsSound'
  <2>1. Asks(s, fresh) /\ IsReady(s, fresh) => HasLogin /\ database.revision = PackagedHead[s]
    BY ConnectsByLogin DEF IsReady
  <2>2. \E path \in {"readyz", "probe"}, status \in {0, 1, 200, 503} :
           /\ told' = [by |-> s, path |-> path, status |-> status]
           /\ status \in {0, 200} => Asks(s, fresh) /\ IsReady(s, fresh)
    <3>1. CASE Readyz(s, fresh)
      <4>1. Asks(s, fresh) /\ told' = [by |-> s, path |-> "readyz", status |-> IF IsReady(s, fresh) THEN 200 ELSE 503]
        BY <3>1 DEF Readyz, Told
      <4>2. CASE IsReady(s, fresh)
        BY <4>1, <4>2
      <4>3. CASE ~IsReady(s, fresh)
        BY <4>1, <4>3
      <4> QED
        BY <4>2, <4>3
    <3>2. CASE Asks(s, fresh) /\ Told(s, "probe", IF IsReady(s, fresh) THEN 0 ELSE 1)
      <4>2. CASE IsReady(s, fresh)
        BY <3>2, <4>2 DEF Told
      <4>3. CASE ~IsReady(s, fresh)
        BY <3>2, <4>3 DEF Told
      <4> QED
        BY <4>2, <4>3
    <3>3. CASE Told(s, "probe", 1)
      BY <3>3 DEF Told
    <3> QED
      BY <3>1, <3>2, <3>3 DEF ContainerProbe
  <2>3. database' = database /\ database.revision \in Nat /\ PackagedHead[s] \in Nat
    BY <1>1, HeadsAreNumbers DEF DeploymentInv, DeploymentTypes
  <2> QED
    BY <1>2, <2>1, <2>2, <2>3 DEF ToldIsSound
<1> QED
  BY <1>1, <1>2, <1>3, <1>4 DEF DeploymentInv, DeploymentTypes, MigrationIsSound

LEMMA ServingKeeps ==
    ASSUME DeploymentInv, NEW s \in Servers, Serve(s) \/ Healthz(s)
    PROVE  DeploymentInv'
<1>1. UNCHANGED <<database, migration, secret, applied>>
  BY DEF Serve, Healthz
<1>2. CASE Serve(s)
  <2> DEFINE row == [up |-> TRUE, password |-> secret, pooled |-> FALSE]
  <2>1. service' = [service EXCEPT ![s] = row] /\ UNCHANGED told
    BY <1>2 DEF Serve
  <2>2. row \in [up : BOOLEAN, password : Nat, pooled : BOOLEAN] /\ ~row.pooled
    BY DEF DeploymentInv, DeploymentTypes
  <2> HIDE DEF row
  <2>3. service' \in [Servers -> [up : BOOLEAN, password : Nat, pooled : BOOLEAN]]
        /\ \A r \in Servers : service'[r].pooled => service[r].pooled
    BY <2>1, <2>2 DEF DeploymentInv, DeploymentTypes
  <2> QED
    BY <1>1, <2>1, <2>3 DEF DeploymentInv, DeploymentTypes, MigrationIsSound, ToldIsSound, HasLogin
<1>3. CASE Healthz(s)
  <2>1. told' = [by |-> s, path |-> "healthz", status |-> 200] /\ UNCHANGED service
    BY <1>3 DEF Healthz, Told
  <2>2. ToldIsSound'
    BY <2>1 DEF ToldIsSound
  <2> QED
    BY <1>1, <2>1, <2>2 DEF DeploymentInv, DeploymentTypes, MigrationIsSound, HasLogin
<1> QED
  BY <1>2, <1>3

LEMMA OutagesKeep ==
    ASSUME DeploymentInv, LoseLock \/ DatabaseStops \/ DatabaseStarts \/ RotateSecret
    PROVE  DeploymentInv'
<1>1. database' \in [up : BOOLEAN, revision : 0..Migrations, login : Nat \cup {None}]
      /\ database'.revision = database.revision /\ database'.login = database.login
      /\ UNCHANGED <<told, applied>>
  BY DEF LoseLock, DatabaseStops, DatabaseStarts, RotateSecret, DeploymentInv, DeploymentTypes
<1>2. secret' \in Nat
  BY DEF LoseLock, DatabaseStops, DatabaseStarts, RotateSecret, DeploymentInv, DeploymentTypes
<1>3. migration' \in [Migrators -> [step : MigrationSteps, from : 0..Migrations]]
      /\ \A m \in Migrators : migration'[m] = migration[m] \/ migration'[m].step = "failed"
  <2>1. CASE UNCHANGED migration
    BY <2>1 DEF DeploymentInv, DeploymentTypes
  <2>2. CASE DatabaseStops
    <3>1. \A m \in Migrators : [migration[m] EXCEPT !.step = "failed"] \in [step : MigrationSteps, from : 0..Migrations]
              /\ [migration[m] EXCEPT !.step = "failed"].step = "failed"
      BY DEF DeploymentInv, DeploymentTypes, MigrationSteps
    <3> QED
      BY <2>2, <3>1 DEF DatabaseStops, DeploymentInv, DeploymentTypes
  <2> QED
    BY <2>1, <2>2 DEF LoseLock, DatabaseStarts, RotateSecret
<1>4. service' \in [Servers -> [up : BOOLEAN, password : Nat, pooled : BOOLEAN]]
      /\ \A s \in Servers : service'[s].pooled => service[s].pooled
  <2>1. CASE UNCHANGED service
    BY <2>1 DEF DeploymentInv, DeploymentTypes
  <2>2. CASE DatabaseStops
    <3>1. \A s \in Servers : [service[s] EXCEPT !.pooled = FALSE] \in [up : BOOLEAN, password : Nat, pooled : BOOLEAN]
              /\ ~[service[s] EXCEPT !.pooled = FALSE].pooled
      BY DEF DeploymentInv, DeploymentTypes
    <3> QED
      BY <2>2, <3>1 DEF DatabaseStops, DeploymentInv, DeploymentTypes
  <2> QED
    BY <2>1, <2>2 DEF LoseLock, DatabaseStarts, RotateSecret
<1>5. HasLogin' = HasLogin
  BY <1>1 DEF HasLogin
<1>6. \A m \in Migrators : MigrationIsSound(m)'
  BY <1>1, <1>3, <1>5 DEF DeploymentInv, MigrationIsSound
<1>7. ToldIsSound'
  BY <1>1, <1>5 DEF DeploymentInv, ToldIsSound
<1> QED
  BY <1>1, <1>2, <1>3, <1>4, <1>5, <1>6, <1>7 DEF DeploymentInv, DeploymentTypes

\* The invariant of the deployment commands.
THEOREM DeploymentInvariant == DeploymentSpec => []DeploymentInv
<1>1. DeploymentInit => DeploymentInv
  <2> SUFFICES ASSUME DeploymentInit PROVE DeploymentInv
    OBVIOUS
  <2>1. DeploymentTypes
    BY HeadsAreNumbers DEF DeploymentInit, DeploymentTypes, MigrationSteps, Working
  <2>2. applied = [i \in 1..Migrations |-> IF i <= database.revision THEN 1 ELSE 0]
    BY HeadsAreNumbers DEF DeploymentInit
  <2>3. \A m \in Migrators : MigrationIsSound(m)
    BY DEF DeploymentInit, MigrationIsSound
  <2> QED
    BY <2>1, <2>2, <2>3 DEF DeploymentInit, DeploymentInv, ToldIsSound, HasLogin
<1>2. DeploymentInv /\ [DeploymentNext]_deploymentVars => DeploymentInv'
  <2> SUFFICES ASSUME DeploymentInv, [DeploymentNext]_deploymentVars PROVE DeploymentInv'
    OBVIOUS
  <2>1. CASE UNCHANGED deploymentVars
    BY <2>1 DEF deploymentVars, DeploymentInv, DeploymentTypes, MigrationIsSound, ToldIsSound, HasLogin
  <2>2. ASSUME NEW m \in Migrators,
               \/ LoadSettings(m) \/ TryMigrationLock(m) \/ BeginUpgrade(m) \/ CommitUpgrade(m)
               \/ ProvisionRuntimeRole(m) \/ Unlock(m) \/ CheckMigrated(m) \/ MigrateFails(m)
        PROVE DeploymentInv'
    BY <2>2, MigratorStepKeeps, BeginUpgradeKeeps, CommitUpgradeKeeps, ProvisionKeeps
  <2>3. ASSUME NEW s \in Servers,
               Serve(s) \/ Healthz(s) \/ \E fresh \in BOOLEAN : Readyz(s, fresh) \/ ContainerProbe(s, fresh)
        PROVE DeploymentInv'
    BY <2>3, ServingKeeps, AnswersAreSound
  <2> QED
    BY <2>1, <2>2, <2>3, OutagesKeep DEF DeploymentNext
<1> QED
  BY <1>1, <1>2, PTL DEF DeploymentSpec

\* Whichever releases migrate and serve one database at once, and whatever fails,
\* restarts or is rotated in between: no migration is applied twice or skipped,
\* and whoever called itself ready was right about the schema.
THEOREM SchemaStaysAsTold == DeploymentSpec => []SchemaIsWhatWasTold
<1>1. DeploymentInv => SchemaIsWhatWasTold
  BY DEF DeploymentInv, MigrationIsSound, ToldIsSound, HasLogin, SchemaIsWhatWasTold
<1> QED
  BY <1>1, DeploymentInvariant, PTL

-----------------------------------------------------------------------------
(* RestoreDrill: a drill reports success only of a restore that is one.    *)

StageNames == {"check names", "create network", "create source", "create target", "identities",
               "seed", "dump", "restore", "validate", "report"}

\* The database that was examined, as it was before the forbidden writes.
Examined(c) ==
    /\ copy = AfterAttempts(c)
    /\ proof = [head |-> c.head, events |-> c.events, marker |-> c.marker, rejected |-> Guards \cap c.guards]

Cleaning == {"cleanup", "remove", "confirm"}
Succeeding == drill \in Cleaning /\ ~failed

DrillInv ==
    /\ drill \in StageNames \cup Cleaning \cup {"ended"}
    /\ docker \in [Names -> {None, "own", "other", "late"}]
    /\ drill \in {"remove", "confirm"} => removing \in Names
    /\ drill = "remove" => docker[removing] # "other"
    /\ passedOver # {} => failed
    /\ printed # None <=> drill = "ended"
    /\ leaked # {} => failed
    /\ failed => drill \in Cleaning \cup {"ended"}
    /\ \A n \in Names : docker[n] = "own" => n \in registered \cup leaked
    /\ drill \in {"seed", "dump", "restore", "validate", "report"} \/ Succeeding => ~sameServer
    /\ drill \in {"dump", "restore", "validate", "report"} \/ Succeeding => origin = Seeded
    /\ drill = "restore" => dumped \in Damaged(Seeded)
    /\ drill = "validate" => copy \in Damaged(Seeded)
    /\ drill = "report" => \E c \in Damaged(Seeded) : Examined(c)
    /\ Succeeding => copy = Seeded
    /\ printed = "passed" =>
         copy = Seeded /\ origin = Seeded /\ ~sameServer /\ \A n \in Names : docker[n] # "own"

\* The stages follow each other.
LEMMA StageList ==
    /\ Len(Stages) = 10
    /\ Stages[1] = "check names" /\ Stages[2] = "create network" /\ Stages[3] = "create source"
    /\ Stages[4] = "create target" /\ Stages[5] = "identities" /\ Stages[6] = "seed" /\ Stages[7] = "dump"
    /\ Stages[8] = "restore" /\ Stages[9] = "validate" /\ Stages[10] = "report"
BY DEF Stages

LEMMA StageIsFound ==
    ASSUME NEW k \in 1..10
    PROVE  NextStage(Stages[k]) = IF k = 10 THEN "cleanup" ELSE Stages[k + 1]
<1>1. ASSUME NEW i \in 1..10, Stages[i] = Stages[k] PROVE i = k
  <2>1. i \in {1, 2, 3, 4, 5, 6, 7, 8, 9, 10} /\ k \in {1, 2, 3, 4, 5, 6, 7, 8, 9, 10}
    OBVIOUS
  <2>2. CASE k = 1
    BY <1>1, <2>1, <2>2, StageList
  <2>3. CASE k = 2
    BY <1>1, <2>1, <2>3, StageList
  <2>4. CASE k = 3
    BY <1>1, <2>1, <2>4, StageList
  <2>5. CASE k = 4
    BY <1>1, <2>1, <2>5, StageList
  <2>6. CASE k = 5
    BY <1>1, <2>1, <2>6, StageList
  <2>7. CASE k = 6
    BY <1>1, <2>1, <2>7, StageList
  <2>8. CASE k = 7
    BY <1>1, <2>1, <2>8, StageList
  <2>9. CASE k = 8
    BY <1>1, <2>1, <2>9, StageList
  <2>10. CASE k = 9
    BY <1>1, <2>1, <2>10, StageList
  <2>11. CASE k = 10
    BY <1>1, <2>1, <2>11, StageList
  <2> QED
    BY <2>1, <2>2, <2>3, <2>4, <2>5, <2>6, <2>7, <2>8, <2>9, <2>10, <2>11
<1>2. (CHOOSE i \in 1..Len(Stages) : Stages[i] = Stages[k]) = k
  <2>1. \A i \in 1..Len(Stages) : Stages[i] = Stages[k] <=> i = k
    BY <1>1, StageList
  <2>2. k \in 1..Len(Stages)
    BY StageList
  <2> QED
    BY <2>1, <2>2
<1> DEFINE at == CHOOSE i \in 1..Len(Stages) : Stages[i] = Stages[k]
<1>3. NextStage(Stages[k]) = IF at = Len(Stages) THEN "cleanup" ELSE Stages[at + 1]
  BY Zenon DEF NextStage
<1>4. at = k
  BY <1>2
<1> HIDE DEF at
<1> QED
  BY <1>3, <1>4, StageList

LEMMA InStageNames == InStage => drill \in StageNames
<1>1. ASSUME NEW k \in 1..10 PROVE Stages[k] \in StageNames
  <2>1. k \in {1, 2, 3, 4, 5, 6, 7, 8, 9, 10}
    OBVIOUS
  <2> QED
    BY <2>1, StageList DEF StageNames
<1> QED
  BY <1>1, StageList DEF InStage

LEMMA StageAfter ==
    /\ NextStage("check names") = "create network" /\ NextStage("create network") = "create source"
    /\ NextStage("create source") = "create target" /\ NextStage("create target") = "identities"
    /\ NextStage("identities") = "seed" /\ NextStage("seed") = "dump" /\ NextStage("dump") = "restore"
    /\ NextStage("restore") = "validate" /\ NextStage("validate") = "report" /\ NextStage("report") = "cleanup"
<1>1. \A k \in 1..10 : NextStage(Stages[k]) = IF k = 10 THEN "cleanup" ELSE Stages[k + 1]
  BY StageIsFound
<1>2. /\ NextStage(Stages[1]) = Stages[2] /\ NextStage(Stages[2]) = Stages[3] /\ NextStage(Stages[3]) = Stages[4]
      /\ NextStage(Stages[4]) = Stages[5] /\ NextStage(Stages[5]) = Stages[6] /\ NextStage(Stages[6]) = Stages[7]
      /\ NextStage(Stages[7]) = Stages[8] /\ NextStage(Stages[8]) = Stages[9] /\ NextStage(Stages[9]) = Stages[10]
      /\ NextStage(Stages[10]) = "cleanup"
  BY <1>1
<1> QED
  BY <1>2, StageList

\* A dump whose proof agrees with the source is the source, and the forbidden
\* writes, which its guards refuse, leave it so.
LEMMA AcceptedIsWhole ==
    ASSUME NEW c \in Damaged(Seeded), c.head = Seeded.head, c.events = Seeded.events, c.marker, Guards \cap c.guards = Guards
    PROVE  c = Seeded
<1> DEFINE Content == [head : {"head"}, events : {SeedEvents}, guards : {Guards}, marker : {TRUE}]
<1>1. Seeded \in Content
  BY DEF Seeded
<1>2. CASE c = [Seeded EXCEPT !.events = SubSeq(@, 1, 1)]
  <2>1. Len(SubSeq(Seeded.events, 1, 1)) = 1 /\ Len(Seeded.events) = 2
    BY DEF Seeded, SeedEvents
  <2>2. c.events = SubSeq(Seeded.events, 1, 1)
    BY <1>1, <1>2
  <2> QED
    BY <2>1, <2>2
<1>3. CASE c = [Seeded EXCEPT !.marker = FALSE]
  BY <1>1, <1>3
<1>4. CASE c = [Seeded EXCEPT !.head = "old"]
  <2>1. c.head = "old"
    BY <1>1, <1>4
  <2> QED
    BY <2>1 DEF Seeded
<1>5. CASE \E g \in Guards : c = [Seeded EXCEPT !.guards = @ \ {g}]
  <2>1. PICK g \in Guards : c = [Seeded EXCEPT !.guards = @ \ {g}]
    BY <1>5
  <2>2. c.guards = Seeded.guards \ {g}
    BY <1>1, <2>1
  <2> QED
    BY <2>2
<1> QED
  BY <1>2, <1>3, <1>4, <1>5 DEF Damaged

LEMMA GuardsHold == AfterAttempts(Seeded) = Seeded
<1>1. Seeded.guards = Guards /\ Seeded.events = <<"requested", "completed">>
  BY DEF Seeded, SeedEvents
<1>2. <<"requested", "completed">> \o <<>> = <<"requested", "completed">>
  OBVIOUS
<1>3. "update" \in Guards /\ "chain" \in Guards /\ "delete" \in Guards
  BY DEF Guards
<1>4. AttemptedOn(Seeded) = [Seeded EXCEPT !.events = Seeded.events]
  BY <1>1, <1>2, <1>3 DEF AttemptedOn
<1>5. AttemptedOn(Seeded) = Seeded
  BY <1>4 DEF Seeded
<1> QED
  BY <1>1, <1>3, <1>5 DEF AfterAttempts

LEMMA DrillStepKeeps ==
    ASSUME DrillInv, \/ StageFails \/ CheckNames \/ Identify \/ Seed \/ Dump \/ RestoreDump
    PROVE  DrillInv'
<1>0. UNCHANGED <<docker, registered, removing, passedOver, leaked, printed, sameServer, proof>> /\ printed = None
  <2>1. drill # "ended"
    BY InStageNames DEF StageFails, StageNames, CheckNames, Identify, Seed, Dump, RestoreDump
  <2> QED
    BY <2>1 DEF DrillInv, StageFails, CheckNames, Identify, Seed, Dump, RestoreDump
<1>1. CASE StageFails
  BY <1>0, <1>1, DrillAssumption DEF DrillInv, StageFails, Succeeding, Cleaning
<1>2. CASE CheckNames
  BY <1>0, <1>2, StageAfter, DrillAssumption DEF DrillInv, CheckNames, Succeeding, Cleaning, StageNames
<1>3. CASE Identify
  <2>1. drill' = "seed" /\ ~sameServer /\ UNCHANGED <<origin, dumped, copy, failed>>
    BY <1>3, StageAfter DEF Identify
  <2> QED
    BY <1>0, <2>1, <1>3, DrillAssumption DEF DrillInv, Identify, Succeeding, Cleaning, StageNames
<1>4. CASE Seed
  <2>1. drill' = "dump" /\ origin' = Seeded /\ ~sameServer /\ UNCHANGED <<dumped, copy, failed>>
    BY <1>4, StageAfter DEF Seed, DrillInv
  <2>2. (origin = Seeded)'
    BY <2>1 DEF Seeded
  <2> QED
    BY <1>0, <2>1, <2>2, <1>4, DrillAssumption DEF DrillInv, Seed, Succeeding, Cleaning, StageNames
<1>5. CASE Dump
  <2>1. drill' = "restore" /\ origin = Seeded /\ dumped' \in Damaged(Seeded) /\ ~sameServer /\ UNCHANGED <<origin, copy, failed>>
    BY <1>5, StageAfter DEF Dump, DrillInv
  <2> QED
    BY <1>0, <2>1, DrillAssumption, <1>5 DEF DrillInv, Dump, Succeeding, Cleaning, StageNames
<1>6. CASE RestoreDump
  <2>1. drill' = "validate" /\ origin = Seeded /\ copy' \in Damaged(Seeded) /\ ~sameServer /\ UNCHANGED <<origin, failed>>
    BY <1>6, StageAfter DEF RestoreDump, DrillInv
  <2> QED
    BY <1>0, <2>1, DrillAssumption, <1>6 DEF DrillInv, RestoreDump, Succeeding, Cleaning, StageNames
<1> QED
  BY <1>1, <1>2, <1>3, <1>4, <1>5, <1>6

LEMMA CreateResourceKeeps ==
    ASSUME DrillInv, CreateResource
    PROVE  DrillInv' /\ \A n \in Names : docker[n] = "other" => docker'[n] = "other"
<1>1. drill \in {"create network", "create source", "create target"} /\ Creates[drill] \in Names
  BY DEF CreateResource, Creates, Names
<1> DEFINE made == Creates[drill]
<1>2. docker' = [docker EXCEPT ![made] = "own"] /\ docker[made] = None
      /\ UNCHANGED <<removing, passedOver, sameServer, origin, copy, printed>>
  BY DEF CreateResource
<1>3. \/ registered' = registered \cup {made} /\ drill' = NextStage(drill) /\ UNCHANGED <<failed, leaked>>
      \/ leaked' = leaked \cup {made} /\ failed' = TRUE /\ drill' = "cleanup" /\ UNCHANGED registered
  BY DEF CreateResource
<1>4. drill' \in {"create source", "create target", "identities"} \/ (drill' = "cleanup" /\ failed')
  BY <1>1, <1>3, StageAfter
<1>5. made \in Names
  BY <1>1
<1> HIDE DEF made
<1>6. docker' \in [Names -> {None, "own", "other", "late"}]
  BY <1>2, <1>5 DEF DrillInv
<1>7. \A n \in Names : docker'[n] = IF n = made THEN "own" ELSE docker[n]
  BY <1>2, <1>5 DEF DrillInv
<1>8. printed = None
  BY <1>1 DEF DrillInv
<1>9. \A n \in Names : docker'[n] = "own" => n \in registered' \cup leaked'
  BY <1>3, <1>7 DEF DrillInv
<1>10. leaked' # {} => failed'
  BY <1>3 DEF DrillInv
<1>11. (failed' => drill' \in Cleaning \cup {"ended"}) /\ (passedOver' # {} => failed')
  <2>1. drill \notin Cleaning \cup {"ended"}
    BY <1>1 DEF Cleaning
  <2>2. failed => drill \in Cleaning \cup {"ended"}
    BY DEF DrillInv
  <2>3. passedOver # {} => failed
    BY DEF DrillInv
  <2>4. ~failed /\ passedOver' = {}
    BY <1>2, <2>1, <2>2, <2>3
  <2> QED
    BY <1>3, <2>4 DEF Cleaning
<1>12. DrillInv'
  BY <1>2, <1>4, <1>6, <1>8, <1>9, <1>10, <1>11, DrillAssumption DEF DrillInv, Succeeding, Cleaning, StageNames
<1> QED
  BY <1>2, <1>7, <1>12, DrillAssumption

LEMMA ValidateTargetKeeps ==
    ASSUME DrillInv, ValidateTarget
    PROVE  DrillInv'
<1>1. /\ drill = "validate" /\ drill' = "report" /\ copy \in Damaged(Seeded) /\ ~sameServer /\ origin = Seeded
      /\ UNCHANGED <<docker, registered, removing, passedOver, sameServer, origin, leaked, failed, printed>>
  BY StageAfter DEF ValidateTarget, DrillInv
<1>2. copy' = AfterAttempts(copy)
      /\ proof' = [head |-> copy.head, events |-> copy.events, marker |-> copy.marker, rejected |-> Guards \cap copy.guards]
  BY DEF ValidateTarget
<1>3. \E c \in Damaged(Seeded) : Examined(c)'
  BY <1>1, <1>2 DEF Examined
<1>4. (\E c \in Damaged(Seeded) : Examined(c))'
  BY <1>3 DEF Damaged, Seeded, SeedEvents, Guards
<1> QED
  BY <1>1, <1>4, DrillAssumption DEF DrillInv, Succeeding, Cleaning, StageNames

LEMMA ReportKeeps ==
    ASSUME DrillInv, Report
    PROVE  DrillInv'
<1>1. /\ drill = "report" /\ drill' = "cleanup" /\ ~sameServer /\ origin = Seeded /\ RestoreAccepted
      /\ UNCHANGED <<docker, registered, removing, passedOver, sameServer, origin, copy, leaked, failed, printed>>
  BY StageAfter DEF Report, DrillInv
<1>2. PICK c \in Damaged(Seeded) : Examined(c)
  BY <1>1 DEF DrillInv
<1>3. /\ proof.head = c.head /\ proof.events = c.events /\ proof.marker = c.marker
      /\ proof.rejected = Guards \cap c.guards /\ copy = AfterAttempts(c)
  BY <1>2 DEF Examined
<1>4. c.head = Seeded.head /\ c.events = Seeded.events /\ c.marker /\ Guards \cap c.guards = Guards
  BY <1>1, <1>3 DEF RestoreAccepted
<1>5. copy = Seeded
  BY <1>3, <1>4, AcceptedIsWhole, GuardsHold
<1> QED
  BY <1>1, <1>5, DrillAssumption DEF DrillInv, Succeeding, Cleaning, StageNames

LEMMA CleaningKeeps ==
    ASSUME DrillInv, CleanupGivesUp \/ ConcludeDrill
    PROVE  DrillInv'
<1>1. /\ drill \in Cleaning /\ drill' = "ended" /\ printed' \in {"passed", "failed"}
      /\ UNCHANGED <<docker, registered, passedOver, leaked, origin, copy, sameServer>>
      /\ (printed' = "passed" => registered \subseteq passedOver /\ ~failed)
  BY DEF CleanupGivesUp, ConcludeDrill, ToClean, Cleaning
<1>2. printed' = "passed" =>
        copy = Seeded /\ origin = Seeded /\ ~sameServer /\ \A n \in Names : docker[n] # "own"
  BY <1>1 DEF DrillInv, Succeeding
<1>3. (leaked' # {} => failed') /\ (passedOver' # {} => failed')
  BY <1>1 DEF DrillInv, CleanupGivesUp, ConcludeDrill
<1>4. DrillInv
  OBVIOUS
<1> QED
  BY <1>1, <1>2, <1>3, <1>4, DrillAssumption DEF DrillInv, Succeeding, Cleaning, StageNames

\* What is examined does not change when only docker's side does.
LEMMA ExaminedStays ==
    ASSUME DrillInv, UNCHANGED <<copy, proof>>
    PROVE  drill = "report" => (\E c \in Damaged(Seeded) : Examined(c))'
BY DEF DrillInv, Examined, Damaged, Seeded, SeedEvents, Guards, AfterAttempts, AttemptedOn

LEMMA NamesKeep ==
    ASSUME DrillInv, NEW n \in Names, Stranger(n) \/ InspectLabel(n)
    PROVE  DrillInv' /\ \A m \in Names : docker[m] = "other" => docker'[m] = "other"
<1>1. CASE Stranger(n)
  <2>1. printed = None /\ UNCHANGED <<drill, registered, removing, passedOver, sameServer, origin, dumped, copy, proof, leaked, failed, printed>>
    BY <1>1 DEF Stranger
  <2> DEFINE as == IF drill = "remove" /\ removing = n THEN "late" ELSE "other"
  <2>2. docker[n] \in {None, "own"} /\ docker' = [docker EXCEPT ![n] = as]
    BY <1>1 DEF Stranger
  <2>3. as \in {"other", "late"} /\ (drill = "remove" /\ removing = n => as = "late")
    OBVIOUS
  <2> HIDE DEF as
  <2>4. docker' \in [Names -> {None, "own", "other", "late"}] /\ \A m \in Names : docker'[m] = IF m = n THEN as ELSE docker[m]
    BY <2>2, <2>3 DEF DrillInv
  <2>5. drill = "remove" => docker'[removing] # "other"
    BY <2>3, <2>4 DEF DrillInv
  <2>6. \A m \in Names : docker'[m] = "own" => docker[m] = "own"
    BY <2>3, <2>4
  <2>7. DrillInv'
    BY <2>1, <2>4, <2>5, <2>6, ExaminedStays, DrillAssumption DEF DrillInv, Succeeding
  <2> QED
    BY <2>2, <2>4, <2>7, DrillAssumption
<1>2. CASE InspectLabel(n)
  <2>1. drill = "cleanup" /\ UNCHANGED <<docker, registered, sameServer, origin, dumped, copy, proof, leaked, printed>>
    BY <1>2 DEF InspectLabel
  <2>2. \/ docker[n] = "own" /\ removing' = n /\ drill' = "remove" /\ UNCHANGED <<passedOver, failed>>
        \/ failed' = TRUE /\ UNCHANGED <<removing, drill>>
    BY <1>2 DEF InspectLabel, StillOwned
  <2>3. passedOver' # {} => failed'
    BY <2>2 DEF DrillInv
  <2>4. DrillInv'
    BY <2>1, <2>2, <2>3, DrillAssumption DEF DrillInv, Succeeding, Cleaning, StageNames
  <2> QED
    BY <2>1, <2>4
<1> QED
  BY <1>1, <1>2

\* What docker removes by name was the drill's or no one's when its label was read.
LEMMA RemovalKeeps ==
    ASSUME DrillInv, RemoveByName \/ ConfirmGone
    PROVE  DrillInv' /\ \A m \in Names : docker[m] = "other" => docker'[m] = "other"
<1>1. CASE RemoveByName
  <2>1. drill = "remove" /\ drill' = "confirm" /\ removing \in Names /\ docker[removing] # "other"
        /\ UNCHANGED <<registered, removing, passedOver, sameServer, origin, dumped, copy, proof, leaked, failed, printed>>
    BY <1>1 DEF RemoveByName, DrillInv
  <2>2. docker' = docker \/ docker' = [docker EXCEPT ![removing] = None]
    BY <1>1 DEF RemoveByName
  <2>3. docker' \in [Names -> {None, "own", "other", "late"}]
        /\ \A m \in Names : docker'[m] = docker[m] \/ (m = removing /\ docker'[m] = None)
    BY <2>1, <2>2 DEF DrillInv
  <2>4. \A m \in Names : docker'[m] = "own" => docker[m] = "own"
    BY <2>3, DrillAssumption
  <2>5. DrillInv'
    BY <2>1, <2>3, <2>4, DrillAssumption DEF DrillInv, Succeeding, Cleaning, StageNames
  <2> QED
    BY <2>1, <2>3, <2>5
<1>2. CASE ConfirmGone
  <2>1. drill = "confirm" /\ drill' = "cleanup" /\ removing \in Names
        /\ UNCHANGED <<docker, sameServer, origin, dumped, copy, proof, leaked, printed>>
    BY <1>2 DEF ConfirmGone, DrillInv
  <2>2. \/ docker[removing] = None /\ registered' = registered \ {removing} /\ UNCHANGED <<passedOver, failed>>
        \/ failed' = TRUE /\ UNCHANGED registered
    BY <1>2 DEF ConfirmGone
  <2>3. (passedOver' # {} => failed') /\ (failed => failed')
    BY <2>2 DEF DrillInv
  <2>4. \A m \in Names : docker[m] = "own" => m \in registered' \cup leaked'
    BY <2>1, <2>2, DrillAssumption DEF DrillInv
  <2>5. DrillInv'
    BY <2>1, <2>2, <2>3, <2>4, DrillAssumption DEF DrillInv, Succeeding, Cleaning, StageNames
  <2> QED
    BY <2>1, <2>5
<1> QED
  BY <1>1, <1>2

\* The invariant of the drill.
THEOREM DrillInvariant == DrillSpec => []DrillInv
<1>1. DrillInit => DrillInv
  <2> SUFFICES ASSUME DrillInit PROVE DrillInv
    OBVIOUS
  <2>1. docker \in [Names -> {None, "own", "other", "late"}] /\ \A n \in Names : docker[n] # "own"
    BY DrillAssumption DEF DrillInit
  <2> QED
    BY <2>1, DrillAssumption DEF DrillInit, DrillInv, Succeeding, Cleaning, StageNames
<1>2. DrillInv /\ [DrillNext]_drillVars => DrillInv'
  <2> SUFFICES ASSUME DrillInv, [DrillNext]_drillVars PROVE DrillInv'
    OBVIOUS
  <2>1. CASE UNCHANGED drillVars
    <3>1. \A c \in Damaged(Seeded) : Examined(c) <=> Examined(c)'
      BY <2>1 DEF drillVars, Examined
    <3>2. Damaged(Seeded)' = Damaged(Seeded) /\ Seeded' = Seeded
      BY DEF Damaged, Seeded, SeedEvents, Guards
    <3> QED
      BY <2>1, <3>1, <3>2 DEF drillVars, DrillInv, Succeeding
  <2> QED
    BY <2>1, DrillStepKeeps, CreateResourceKeeps, ValidateTargetKeeps, ReportKeeps, CleaningKeeps, NamesKeep, RemovalKeeps DEF DrillNext
<1> QED
  BY <1>1, <1>2, PTL DEF DrillSpec

\* Whoever uses docker meanwhile and whichever command fails: a drill that prints
\* "passed" restored the whole database and left nothing of its own, and no step
\* of it removes what was another user's when the drill last read its label.
THEOREM DrillsAreHonest == DrillSpec => DrillIsHonest
<1>1. DrillInv /\ DrillInv' /\ [DrillNext]_drillVars =>
        [/\ \A n \in Names : docker[n] = "other" => docker'[n] = "other"
         /\ printed' = "passed" =>
              /\ copy = origin /\ origin.guards = Guards /\ ~sameServer
              /\ \A n \in Names : docker'[n] # "own"]_drillVars
  <2> SUFFICES ASSUME DrillInv, DrillInv', DrillNext
               PROVE  /\ \A n \in Names : docker[n] = "other" => docker'[n] = "other"
                      /\ printed' = "passed" =>
                           /\ copy = origin /\ origin.guards = Guards /\ ~sameServer
                           /\ \A n \in Names : docker'[n] # "own"
    OBVIOUS
  <2>1. \A n \in Names : docker[n] = "other" => docker'[n] = "other"
    <3>1. CASE UNCHANGED docker
      BY <3>1
    <3>2. CASE CreateResource
      BY <3>2, CreateResourceKeeps
    <3>3. CASE \E n \in Names : Stranger(n) \/ InspectLabel(n)
      BY <3>3, NamesKeep
    <3>4. CASE RemoveByName \/ ConfirmGone
      BY <3>4, RemovalKeeps
    <3> QED
      BY <3>1, <3>2, <3>3, <3>4 DEF DrillNext, StageFails, CheckNames, Identify, Seed, Dump, RestoreDump, ValidateTarget, Report,
         CleanupGivesUp, ConcludeDrill
  <2>2. ASSUME printed' = "passed" PROVE UNCHANGED <<copy, origin, sameServer>>
    <3>1. drill' = "ended"
      BY <2>2, DrillAssumption DEF DrillInv
    <3>2. CASE RemoveByName \/ ConfirmGone \/ CleanupGivesUp \/ ConcludeDrill \/ \E n \in Names : Stranger(n) \/ InspectLabel(n)
      BY <3>2 DEF RemoveByName, ConfirmGone, CleanupGivesUp, ConcludeDrill, Stranger, InspectLabel
    <3>3. CASE StageFails \/ CheckNames \/ CreateResource \/ Identify \/ Seed \/ Dump \/ RestoreDump \/ ValidateTarget \/ Report
      <4>1. drill' # "ended"
        <5>1. CASE CreateResource
          <6>1. drill \in {"create network", "create source", "create target"}
            BY <5>1 DEF CreateResource, Creates
          <6> QED
            BY <5>1, <6>1, StageAfter DEF CreateResource
        <5>2. CASE StageFails \/ CheckNames \/ Identify \/ Seed \/ Dump \/ RestoreDump \/ ValidateTarget \/ Report
          BY <5>2, StageAfter DEF StageFails, CheckNames, Identify, Seed, Dump, RestoreDump, ValidateTarget, Report
        <5> QED
          BY <3>3, <5>1, <5>2
      <4> QED
        BY <3>1, <4>1
    <3> QED
      BY <3>2, <3>3 DEF DrillNext
  <2>3. printed' = "passed" => copy' = Seeded /\ origin' = Seeded /\ ~sameServer' /\ \A n \in Names : docker'[n] # "own"
    BY DEF DrillInv, Seeded, SeedEvents, Guards
  <2>4. Seeded.guards = Guards
    BY DEF Seeded
  <2> QED
    BY <2>1, <2>2, <2>3, <2>4
<1> QED
  BY <1>1, DrillInvariant, PTL DEF DrillSpec, DrillIsHonest

-----------------------------------------------------------------------------
(* Smoke: the script of the core smoke misses none of the defects.         *)

Volume == [schema : BOOLEAN, run : 0..3]
Stack == [postgres : BOOLEAN, core : BOOLEAN, stuck : BOOLEAN, volume : Volume \cup {None}]

\* What the position in the script says of the deployment.
StackAt(at) ==
    /\ at \in 3..17 \cup 19..26 => stack.volume \in Volume
    /\ at \in {1, 2} => stack.volume = None
    /\ at = 4 => stack.volume.schema
    /\ at \in 13..15 => ~stack.postgres
    /\ at \in 13..16 /\ defect = "never_reconnects" => stack.stuck
    /\ defect = "volatile_volume" => (at = 18 => stack.volume = None) /\ (at \in 19..22 => stack.volume.run = 0)
    /\ defect = "forgets_commits" =>
         /\ at \in 3..22 => stack.volume \in Volume
         /\ at \in 3..22 => stack.volume.run = 0

\* Which defects a script that got that far cannot have met.
NotMet(at) ==
    /\ at >= 5 => defect # "migrates_once"
    /\ at >= 9 => defect # "cycle_differs"
    /\ at >= 14 => defect # "liveness_asks_the_database"
    /\ at >= 15 => defect # "readiness_lies"
    /\ at >= 17 => defect # "never_reconnects"
    /\ at >= 23 => defect \notin {"volatile_volume", "forgets_commits"}
    /\ at >= 25 => defect # "unhardened"
    /\ at >= 26 => defect # "tells_secrets"

SmokeInv ==
    /\ defect \in Defects /\ smoke \in {"running", "failing", "failed", "verified"}
    /\ smoke = "running" => position \in 1..26 /\ stack \in Stack /\ StackAt(position) /\ NotMet(position)
    /\ smoke = "verified" => defect = "none" /\ stack = Removed

LEMMA ScriptIs ==
    /\ Len(Script) = 25
    /\ Script[1] = "build" /\ Script[2] = "up_postgres" /\ Script[3] = "migrate" /\ Script[4] = "migrate"
    /\ Script[5] = "up_core" /\ Script[6] = "healthz_200" /\ Script[7] = "readyz_200" /\ Script[8] = "cycle"
    /\ Script[9] = "write" /\ Script[10] = "restart_core" /\ Script[11] = "readyz_200" /\ Script[12] = "stop_postgres"
    /\ Script[13] = "healthz_200" /\ Script[14] = "readyz_503" /\ Script[15] = "start_postgres" /\ Script[16] = "readyz_200"
    /\ Script[17] = "down" /\ Script[18] = "up_postgres" /\ Script[19] = "migrate" /\ Script[20] = "up_core"
    /\ Script[21] = "readyz_200" /\ Script[22] = "replay" /\ Script[23] = "verify" /\ Script[24] = "hardening"
    /\ Script[25] = "evidence"
BY DEF Script

LEMMA CommandsStay ==
    ASSUME SmokeInv, CoreStep, NEW at \in 1..25, at = position
    PROVE  /\ stack \in Stack /\ StackAt(at) /\ NotMet(at)
           /\ CommandPasses(Script[at]) /\ stack' = Effect(Script[at])
           /\ position' = at + 1 /\ UNCHANGED <<defect, smoke>> /\ smoke = "running"
BY DEF CoreStep, SmokeInv

\* Commands that only look leave the stack alone.
Looking == {"build", "healthz_200", "readyz_200", "readyz_503", "cycle", "hardening", "evidence"}

LEMMA EffectOfLooking ==
    ASSUME NEW command \in Looking
    PROVE  Effect(command) = stack
BY DEF Looking, Effect, ProbeStages

LEMMA EffectOfPostgres ==
    /\ Effect("up_postgres") = StartsPostgres /\ Effect("start_postgres") = StartsPostgres
    /\ Effect("stop_postgres") = [stack EXCEPT !.postgres = FALSE, !.stuck = (defect = "never_reconnects")]
BY DEF Effect, ProbeStages

LEMMA EffectOfCore ==
    /\ Effect("up_core") = [stack EXCEPT !.core = TRUE, !.stuck = FALSE]
    /\ Effect("restart_core") = [stack EXCEPT !.stuck = FALSE]
BY DEF Effect, ProbeStages

LEMMA EffectOfMigrate == Effect("migrate") = [stack EXCEPT !.volume.schema = TRUE]
BY DEF Effect, ProbeStages

LEMMA EffectOfDown ==
    Effect("down") = [Removed EXCEPT !.volume = IF defect = "volatile_volume" THEN None ELSE stack.volume]
BY DEF Effect, ProbeStages

LEMMA EffectOfProbe ==
    ASSUME NEW command \in ProbeStages
    PROVE  Effect(command) = IF defect # "forgets_commits"
                             THEN [stack EXCEPT !.volume.run = StageOf(command, stack.volume.run)] ELSE stack
BY DEF Effect, ProbeStages

LEMMA PassingCommands ==
    /\ CommandPasses("migrate") => ~(defect = "migrates_once" /\ stack.volume.schema)
    /\ CommandPasses("healthz_200") => HealthzIs200
    /\ CommandPasses("readyz_200") => ReadyzIs200
    /\ CommandPasses("readyz_503") => stack.core /\ ~ReadyzIs200
    /\ CommandPasses("cycle") => defect # "cycle_differs"
    /\ CommandPasses("hardening") => defect # "unhardened"
    /\ CommandPasses("evidence") => defect # "tells_secrets"
    /\ \A command \in ProbeStages : CommandPasses(command) => StageOf(command, stack.volume.run) # None
BY DEF CommandPasses, ProbeStages

LEMMA StartedStack ==
    ASSUME stack \in Stack
    PROVE  /\ StartsPostgres \in Stack /\ StartsPostgres.volume \in Volume
           /\ StartsPostgres.volume = IF stack.volume = None THEN EmptyVolume ELSE stack.volume
<1> DEFINE v == IF stack.volume = None THEN EmptyVolume ELSE stack.volume
<1>1. v \in Volume
  BY DEF Stack, Volume, EmptyVolume
<1>2. StartsPostgres = [stack EXCEPT !.postgres = TRUE, !.volume = v]
  BY DEF StartsPostgres
<1> HIDE DEF v
<1>3. StartsPostgres \in Stack /\ StartsPostgres.volume = v
  BY <1>1, <1>2 DEF Stack
<1>4. QED  BY <1>1, <1>3 DEF v

LEMMA MigratedStack ==
    ASSUME stack \in Stack, stack.volume \in Volume, NEW s, s = [stack EXCEPT !.volume.schema = TRUE]
    PROVE  /\ s \in Stack /\ s.volume \in Volume /\ s.volume.schema = TRUE
           /\ s.volume.run = stack.volume.run /\ s.postgres = stack.postgres /\ s.stuck = stack.stuck
<1> DEFINE v == [stack.volume EXCEPT !.schema = TRUE]
<1>1. v \in Volume /\ v.schema = TRUE /\ v.run = stack.volume.run
  BY DEF Volume
<1>2. s = [stack EXCEPT !.volume = v]
  BY DEF Stack
<1> HIDE DEF v
<1>3. s \in Stack /\ s.volume = v /\ s.postgres = stack.postgres /\ s.stuck = stack.stuck
  BY <1>1, <1>2 DEF Stack
<1>4. QED  BY <1>1, <1>3

\* The stack after one command, with all that the next position needs of it.
NextStack(at) == stack' \in Stack /\ StackAt(at)' /\ NotMet(at)'

\* A command that only looks.
LEMMA LookingStep ==
    ASSUME SmokeInv, CoreStep, NEW at \in {1, 6, 7, 8, 11, 13, 14, 16, 21, 24, 25}, at = position
    PROVE  NextStack(at + 1)
<1>1. CommandPasses(Script[at]) /\ stack' = Effect(Script[at])
  BY CommandsStay
<1>a. stack \in Stack /\ defect' = defect
  BY CommandsStay
<1>b. StackAt(at)
  BY CommandsStay
<1>c. NotMet(at)
  BY CommandsStay
<1>2. CASE at = 1
  <2>1. Script[at] = "build"
    BY <1>2, ScriptIs
  <2>2. stack' = stack
    BY <1>1, <2>1, EffectOfLooking DEF Looking
  <2>3. stack' \in Stack
    BY <1>a, <1>b, <1>c, <1>2, <2>2 DEF Stack, Volume, EmptyVolume, StackAt, NotMet
  <2>4. StackAt(2)'
    BY <1>a, <1>b, <1>c, <1>2, <2>2 DEF Stack, Volume, EmptyVolume, StackAt, NotMet
  <2>5. NotMet(2)'
    BY <1>a, <1>b, <1>c, <1>2, <2>2 DEF NotMet, StackAt
  <2>6. QED  BY <1>2, <2>3, <2>4, <2>5 DEF NextStack
<1>3. CASE at = 6
  <2>1. Script[at] = "healthz_200"
    BY <1>3, ScriptIs
  <2>2. stack' = stack
    BY <1>1, <2>1, EffectOfLooking DEF Looking
  <2>3. HealthzIs200
    BY <1>1, <2>1, PassingCommands DEF ProbeStages, StageOf, WriteRun, ReplayRun, VerifyRun
  <2>4. stack' \in Stack
    BY <1>a, <1>b, <1>c, <1>3, <2>2, <2>3 DEF Stack, Volume, EmptyVolume, StackAt, NotMet, HealthzIs200
  <2>5. StackAt(7)'
    BY <1>a, <1>b, <1>c, <1>3, <2>2, <2>3 DEF Stack, Volume, EmptyVolume, StackAt, NotMet, HealthzIs200
  <2>6. NotMet(7)'
    BY <1>a, <1>b, <1>c, <1>3, <2>2, <2>3 DEF NotMet, StackAt, HealthzIs200
  <2>7. QED  BY <1>3, <2>4, <2>5, <2>6 DEF NextStack
<1>4. CASE at = 7
  <2>1. Script[at] = "readyz_200"
    BY <1>4, ScriptIs
  <2>2. stack' = stack
    BY <1>1, <2>1, EffectOfLooking DEF Looking
  <2>3. ReadyzIs200
    BY <1>1, <2>1, PassingCommands DEF ProbeStages, StageOf, WriteRun, ReplayRun, VerifyRun
  <2>4. stack' \in Stack
    BY <1>a, <1>b, <1>c, <1>4, <2>2, <2>3 DEF Stack, Volume, EmptyVolume, StackAt, NotMet, ReadyzIs200
  <2>5. StackAt(8)'
    BY <1>a, <1>b, <1>c, <1>4, <2>2, <2>3 DEF Stack, Volume, EmptyVolume, StackAt, NotMet, ReadyzIs200
  <2>6. NotMet(8)'
    BY <1>a, <1>b, <1>c, <1>4, <2>2, <2>3 DEF NotMet, StackAt, ReadyzIs200
  <2>7. QED  BY <1>4, <2>4, <2>5, <2>6 DEF NextStack
<1>5. CASE at = 8
  <2>1. Script[at] = "cycle"
    BY <1>5, ScriptIs
  <2>2. stack' = stack
    BY <1>1, <2>1, EffectOfLooking DEF Looking
  <2>3. defect # "cycle_differs"
    BY <1>1, <2>1, PassingCommands DEF ProbeStages, StageOf, WriteRun, ReplayRun, VerifyRun
  <2>4. stack' \in Stack
    BY <1>a, <1>b, <1>c, <1>5, <2>2, <2>3 DEF Stack, Volume, EmptyVolume, StackAt, NotMet
  <2>5. StackAt(9)'
    BY <1>a, <1>b, <1>c, <1>5, <2>2, <2>3 DEF Stack, Volume, EmptyVolume, StackAt, NotMet
  <2>6. NotMet(9)'
    BY <1>a, <1>b, <1>c, <1>5, <2>2, <2>3 DEF NotMet, StackAt
  <2>7. QED  BY <1>5, <2>4, <2>5, <2>6 DEF NextStack
<1>6. CASE at = 11
  <2>1. Script[at] = "readyz_200"
    BY <1>6, ScriptIs
  <2>2. stack' = stack
    BY <1>1, <2>1, EffectOfLooking DEF Looking
  <2>3. ReadyzIs200
    BY <1>1, <2>1, PassingCommands DEF ProbeStages, StageOf, WriteRun, ReplayRun, VerifyRun
  <2>4. stack' \in Stack
    BY <1>a, <1>b, <1>c, <1>6, <2>2, <2>3 DEF Stack, Volume, EmptyVolume, StackAt, NotMet, ReadyzIs200
  <2>5. StackAt(12)'
    BY <1>a, <1>b, <1>c, <1>6, <2>2, <2>3 DEF Stack, Volume, EmptyVolume, StackAt, NotMet, ReadyzIs200
  <2>6. NotMet(12)'
    BY <1>a, <1>b, <1>c, <1>6, <2>2, <2>3 DEF NotMet, StackAt, ReadyzIs200
  <2>7. QED  BY <1>6, <2>4, <2>5, <2>6 DEF NextStack
<1>7. CASE at = 13
  <2>1. Script[at] = "healthz_200"
    BY <1>7, ScriptIs
  <2>2. stack' = stack
    BY <1>1, <2>1, EffectOfLooking DEF Looking
  <2>3. HealthzIs200
    BY <1>1, <2>1, PassingCommands DEF ProbeStages, StageOf, WriteRun, ReplayRun, VerifyRun
  <2>4. stack' \in Stack
    BY <1>a, <1>b, <1>c, <1>7, <2>2, <2>3 DEF Stack, Volume, EmptyVolume, StackAt, NotMet, HealthzIs200
  <2>5. StackAt(14)'
    BY <1>a, <1>b, <1>c, <1>7, <2>2, <2>3 DEF Stack, Volume, EmptyVolume, StackAt, NotMet, HealthzIs200
  <2>6. NotMet(14)'
    BY <1>a, <1>b, <1>c, <1>7, <2>2, <2>3 DEF NotMet, StackAt, HealthzIs200
  <2>7. QED  BY <1>7, <2>4, <2>5, <2>6 DEF NextStack
<1>8. CASE at = 14
  <2>1. Script[at] = "readyz_503"
    BY <1>8, ScriptIs
  <2>2. stack' = stack
    BY <1>1, <2>1, EffectOfLooking DEF Looking
  <2>3. stack.core /\ ~ReadyzIs200
    BY <1>1, <2>1, PassingCommands DEF ProbeStages, StageOf, WriteRun, ReplayRun, VerifyRun
  <2>4. stack' \in Stack
    BY <1>a, <1>b, <1>c, <1>8, <2>2, <2>3 DEF Stack, Volume, EmptyVolume, StackAt, NotMet, ReadyzIs200
  <2>5. StackAt(15)'
    BY <1>a, <1>b, <1>c, <1>8, <2>2, <2>3 DEF Stack, Volume, EmptyVolume, StackAt, NotMet, ReadyzIs200
  <2>6. NotMet(15)'
    BY <1>a, <1>b, <1>c, <1>8, <2>2, <2>3 DEF NotMet, StackAt, ReadyzIs200
  <2>7. QED  BY <1>8, <2>4, <2>5, <2>6 DEF NextStack
<1>9. CASE at = 16
  <2>1. Script[at] = "readyz_200"
    BY <1>9, ScriptIs
  <2>2. stack' = stack
    BY <1>1, <2>1, EffectOfLooking DEF Looking
  <2>3. ReadyzIs200
    BY <1>1, <2>1, PassingCommands DEF ProbeStages, StageOf, WriteRun, ReplayRun, VerifyRun
  <2>4. stack' \in Stack
    BY <1>a, <1>b, <1>c, <1>9, <2>2, <2>3 DEF Stack, Volume, EmptyVolume, StackAt, NotMet, ReadyzIs200
  <2>5. StackAt(17)'
    BY <1>a, <1>b, <1>c, <1>9, <2>2, <2>3 DEF Stack, Volume, EmptyVolume, StackAt, NotMet, ReadyzIs200
  <2>6. NotMet(17)'
    BY <1>a, <1>b, <1>c, <1>9, <2>2, <2>3 DEF NotMet, StackAt, ReadyzIs200
  <2>7. QED  BY <1>9, <2>4, <2>5, <2>6 DEF NextStack
<1>10. CASE at = 21
  <2>1. Script[at] = "readyz_200"
    BY <1>10, ScriptIs
  <2>2. stack' = stack
    BY <1>1, <2>1, EffectOfLooking DEF Looking
  <2>3. ReadyzIs200
    BY <1>1, <2>1, PassingCommands DEF ProbeStages, StageOf, WriteRun, ReplayRun, VerifyRun
  <2>4. stack' \in Stack
    BY <1>a, <1>b, <1>c, <1>10, <2>2, <2>3 DEF Stack, Volume, EmptyVolume, StackAt, NotMet, ReadyzIs200
  <2>5. StackAt(22)'
    BY <1>a, <1>b, <1>c, <1>10, <2>2, <2>3 DEF Stack, Volume, EmptyVolume, StackAt, NotMet, ReadyzIs200
  <2>6. NotMet(22)'
    BY <1>a, <1>b, <1>c, <1>10, <2>2, <2>3 DEF NotMet, StackAt, ReadyzIs200
  <2>7. QED  BY <1>10, <2>4, <2>5, <2>6 DEF NextStack
<1>11. CASE at = 24
  <2>1. Script[at] = "hardening"
    BY <1>11, ScriptIs
  <2>2. stack' = stack
    BY <1>1, <2>1, EffectOfLooking DEF Looking
  <2>3. defect # "unhardened"
    BY <1>1, <2>1, PassingCommands DEF ProbeStages, StageOf, WriteRun, ReplayRun, VerifyRun
  <2>4. stack' \in Stack
    BY <1>a, <1>b, <1>c, <1>11, <2>2, <2>3 DEF Stack, Volume, EmptyVolume, StackAt, NotMet
  <2>5. StackAt(25)'
    BY <1>a, <1>b, <1>c, <1>11, <2>2, <2>3 DEF Stack, Volume, EmptyVolume, StackAt, NotMet
  <2>6. NotMet(25)'
    BY <1>a, <1>b, <1>c, <1>11, <2>2, <2>3 DEF NotMet, StackAt
  <2>7. QED  BY <1>11, <2>4, <2>5, <2>6 DEF NextStack
<1>12. CASE at = 25
  <2>1. Script[at] = "evidence"
    BY <1>12, ScriptIs
  <2>2. stack' = stack
    BY <1>1, <2>1, EffectOfLooking DEF Looking
  <2>3. defect # "tells_secrets"
    BY <1>1, <2>1, PassingCommands DEF ProbeStages, StageOf, WriteRun, ReplayRun, VerifyRun
  <2>4. stack' \in Stack
    BY <1>a, <1>b, <1>c, <1>12, <2>2, <2>3 DEF Stack, Volume, EmptyVolume, StackAt, NotMet
  <2>5. StackAt(26)'
    BY <1>a, <1>b, <1>c, <1>12, <2>2, <2>3 DEF Stack, Volume, EmptyVolume, StackAt, NotMet
  <2>6. NotMet(26)'
    BY <1>a, <1>b, <1>c, <1>12, <2>2, <2>3 DEF NotMet, StackAt
  <2>7. QED  BY <1>12, <2>4, <2>5, <2>6 DEF NextStack
<1>13. QED  BY <1>2, <1>3, <1>4, <1>5, <1>6, <1>7, <1>8, <1>9, <1>10, <1>11, <1>12

\* Postgres starts.
LEMMA PostgresStep ==
    ASSUME SmokeInv, CoreStep, NEW at \in {2, 15, 18}, at = position
    PROVE  NextStack(at + 1)
<1>1. CommandPasses(Script[at]) /\ stack' = Effect(Script[at])
  BY CommandsStay
<1>a. stack \in Stack /\ defect' = defect
  BY CommandsStay
<1>b. StackAt(at)
  BY CommandsStay
<1>c. NotMet(at)
  BY CommandsStay
<1>2. CASE at = 2
  <2>1. Script[at] = "up_postgres"
    BY <1>2, ScriptIs
  <2>2. stack' = StartsPostgres
    BY <1>1, <2>1, EffectOfPostgres
  <2>3. stack' \in Stack
    BY <1>a, <1>b, <1>c, <1>2, <2>2, StartedStack DEF EmptyVolume, StackAt, NotMet
  <2>4. StackAt(3)'
    BY <1>a, <1>b, <1>c, <1>2, <2>2 DEF Stack, Volume, EmptyVolume, StackAt, NotMet, StartsPostgres
  <2>5. NotMet(3)'
    BY <1>a, <1>b, <1>c, <1>2, <2>2 DEF NotMet, StackAt, StartsPostgres
  <2>6. QED  BY <1>2, <2>3, <2>4, <2>5 DEF NextStack
<1>3. CASE at = 15
  <2>1. Script[at] = "start_postgres"
    BY <1>3, ScriptIs
  <2>2. stack' = StartsPostgres
    BY <1>1, <2>1, EffectOfPostgres
  <2>3. stack' \in Stack
    BY <1>a, <1>b, <1>c, <1>3, <2>2, StartedStack DEF EmptyVolume, StackAt, NotMet
  <2>4. StackAt(16)'
    BY <1>a, <1>b, <1>c, <1>3, <2>2 DEF Stack, Volume, EmptyVolume, StackAt, NotMet, StartsPostgres
  <2>5. NotMet(16)'
    BY <1>a, <1>b, <1>c, <1>3, <2>2 DEF NotMet, StackAt, StartsPostgres
  <2>6. QED  BY <1>3, <2>3, <2>4, <2>5 DEF NextStack
<1>4. CASE at = 18
  <2>1. Script[at] = "up_postgres"
    BY <1>4, ScriptIs
  <2>2. stack' = StartsPostgres
    BY <1>1, <2>1, EffectOfPostgres
  <2>3. stack' \in Stack
    BY <1>a, <1>b, <1>c, <1>4, <2>2, StartedStack DEF EmptyVolume, StackAt, NotMet
  <2>4. StackAt(19)'
    BY <1>a, <1>b, <1>c, <1>4, <2>2 DEF Stack, Volume, EmptyVolume, StackAt, NotMet, StartsPostgres
  <2>5. NotMet(19)'
    BY <1>a, <1>b, <1>c, <1>4, <2>2 DEF NotMet, StackAt, StartsPostgres
  <2>6. QED  BY <1>4, <2>3, <2>4, <2>5 DEF NextStack
<1>5. QED  BY <1>2, <1>3, <1>4

\* Postgres stops.
LEMMA StopStep ==
    ASSUME SmokeInv, CoreStep, NEW at \in {12}, at = position
    PROVE  NextStack(at + 1)
<1>1. CommandPasses(Script[at]) /\ stack' = Effect(Script[at])
  BY CommandsStay
<1>a. stack \in Stack /\ defect' = defect
  BY CommandsStay
<1>b. StackAt(at)
  BY CommandsStay
<1>c. NotMet(at)
  BY CommandsStay
<1>2. CASE at = 12
  <2>1. Script[at] = "stop_postgres"
    BY <1>2, ScriptIs
  <2>2. stack' = [stack EXCEPT !.postgres = FALSE, !.stuck = (defect = "never_reconnects")]
    BY <1>1, <2>1, EffectOfPostgres
  <2>3. stack' \in Stack
    BY <1>a, <1>b, <1>c, <1>2, <2>2 DEF Stack, Volume, EmptyVolume, StackAt, NotMet
  <2>s. /\ stack'.volume = stack.volume /\ stack'.postgres = FALSE
        /\ stack'.stuck = (defect = "never_reconnects")
    BY <1>a, <2>2 DEF Stack
  <2>4. StackAt(13)'
    <3>1. defect = "never_reconnects" => stack'.stuck
      BY <2>s, Zenon
    <3>2. /\ stack'.volume = stack.volume /\ stack'.postgres = FALSE
      BY <2>s
    <3>3. QED  BY <1>a, <1>b, <1>2, <3>1, <3>2 DEF StackAt
  <2>5. NotMet(13)'
    BY <1>a, <1>b, <1>c, <1>2, <2>2 DEF NotMet, StackAt
  <2>6. QED  BY <1>2, <2>3, <2>4, <2>5 DEF NextStack
<1>3. QED  BY <1>2

\* The schema is migrated; the second time it is there already.
LEMMA MigrateStep ==
    ASSUME SmokeInv, CoreStep, NEW at \in {3, 4, 19}, at = position
    PROVE  NextStack(at + 1)
<1>1. CommandPasses(Script[at]) /\ stack' = Effect(Script[at])
  BY CommandsStay
<1>a. stack \in Stack /\ defect' = defect
  BY CommandsStay
<1>b. StackAt(at)
  BY CommandsStay
<1>c. NotMet(at)
  BY CommandsStay
<1>2. CASE at = 3
  <2>1. Script[at] = "migrate"
    BY <1>2, ScriptIs
  <2>2. stack' = [stack EXCEPT !.volume.schema = TRUE]
    BY <1>1, <2>1, EffectOfMigrate
  <2>3. ~(defect = "migrates_once" /\ stack.volume.schema)
    BY <1>1, <2>1, PassingCommands DEF ProbeStages, StageOf, WriteRun, ReplayRun, VerifyRun
  <2> stack.volume \in Volume
    BY <1>b, <1>2 DEF StackAt
  <2>s. /\ stack' \in Stack /\ stack'.volume \in Volume /\ stack'.volume.schema = TRUE
        /\ stack'.volume.run = stack.volume.run /\ stack'.postgres = stack.postgres /\ stack'.stuck = stack.stuck
    <3>1. PICK s : s = stack'
      OBVIOUS
    <3>2. QED  BY <1>a, <2>2, <3>1, MigratedStack
  <2>4. stack' \in Stack
    BY <2>s
  <2>5. StackAt(4)'
    BY <1>a, <1>b, <1>c, <1>2, <2>s, <2>3 DEF StackAt, NotMet
  <2>6. NotMet(4)'
    BY <1>a, <1>b, <1>c, <1>2, <2>2, <2>3 DEF NotMet, StackAt
  <2>7. QED  BY <1>2, <2>4, <2>5, <2>6 DEF NextStack
<1>3. CASE at = 4
  <2>1. Script[at] = "migrate"
    BY <1>3, ScriptIs
  <2>2. stack' = [stack EXCEPT !.volume.schema = TRUE]
    BY <1>1, <2>1, EffectOfMigrate
  <2>3. ~(defect = "migrates_once" /\ stack.volume.schema)
    BY <1>1, <2>1, PassingCommands DEF ProbeStages, StageOf, WriteRun, ReplayRun, VerifyRun
  <2> stack.volume \in Volume
    BY <1>b, <1>3 DEF StackAt
  <2>s. /\ stack' \in Stack /\ stack'.volume \in Volume /\ stack'.volume.schema = TRUE
        /\ stack'.volume.run = stack.volume.run /\ stack'.postgres = stack.postgres /\ stack'.stuck = stack.stuck
    <3>1. PICK s : s = stack'
      OBVIOUS
    <3>2. QED  BY <1>a, <2>2, <3>1, MigratedStack
  <2>4. stack' \in Stack
    BY <2>s
  <2>5. StackAt(5)'
    BY <1>a, <1>b, <1>c, <1>3, <2>s, <2>3 DEF StackAt, NotMet
  <2>6. NotMet(5)'
    BY <1>a, <1>b, <1>c, <1>3, <2>2, <2>3 DEF NotMet, StackAt
  <2>7. QED  BY <1>3, <2>4, <2>5, <2>6 DEF NextStack
<1>4. CASE at = 19
  <2>1. Script[at] = "migrate"
    BY <1>4, ScriptIs
  <2>2. stack' = [stack EXCEPT !.volume.schema = TRUE]
    BY <1>1, <2>1, EffectOfMigrate
  <2>3. ~(defect = "migrates_once" /\ stack.volume.schema)
    BY <1>1, <2>1, PassingCommands DEF ProbeStages, StageOf, WriteRun, ReplayRun, VerifyRun
  <2> stack.volume \in Volume
    BY <1>b, <1>4 DEF StackAt
  <2>s. /\ stack' \in Stack /\ stack'.volume \in Volume /\ stack'.volume.schema = TRUE
        /\ stack'.volume.run = stack.volume.run /\ stack'.postgres = stack.postgres /\ stack'.stuck = stack.stuck
    <3>1. PICK s : s = stack'
      OBVIOUS
    <3>2. QED  BY <1>a, <2>2, <3>1, MigratedStack
  <2>4. stack' \in Stack
    BY <2>s
  <2>5. StackAt(20)'
    BY <1>a, <1>b, <1>c, <1>4, <2>s, <2>3 DEF StackAt, NotMet
  <2>6. NotMet(20)'
    BY <1>a, <1>b, <1>c, <1>4, <2>2, <2>3 DEF NotMet, StackAt
  <2>7. QED  BY <1>4, <2>4, <2>5, <2>6 DEF NextStack
<1>5. QED  BY <1>2, <1>3, <1>4

\* The core starts.
LEMMA CoreStarts ==
    ASSUME SmokeInv, CoreStep, NEW at \in {5, 10, 20}, at = position
    PROVE  NextStack(at + 1)
<1>1. CommandPasses(Script[at]) /\ stack' = Effect(Script[at])
  BY CommandsStay
<1>a. stack \in Stack /\ defect' = defect
  BY CommandsStay
<1>b. StackAt(at)
  BY CommandsStay
<1>c. NotMet(at)
  BY CommandsStay
<1>2. CASE at = 5
  <2>1. Script[at] = "up_core"
    BY <1>2, ScriptIs
  <2>2. stack' = [stack EXCEPT !.core = TRUE, !.stuck = FALSE]
    BY <1>1, <2>1, EffectOfCore
  <2>3. stack' \in Stack
    BY <1>a, <1>b, <1>c, <1>2, <2>2 DEF Stack, Volume, EmptyVolume, StackAt, NotMet
  <2>4. StackAt(6)'
    BY <1>a, <1>b, <1>c, <1>2, <2>2 DEF Stack, Volume, EmptyVolume, StackAt, NotMet
  <2>5. NotMet(6)'
    BY <1>a, <1>b, <1>c, <1>2, <2>2 DEF NotMet, StackAt
  <2>6. QED  BY <1>2, <2>3, <2>4, <2>5 DEF NextStack
<1>3. CASE at = 10
  <2>1. Script[at] = "restart_core"
    BY <1>3, ScriptIs
  <2>2. stack' = [stack EXCEPT !.stuck = FALSE]
    BY <1>1, <2>1, EffectOfCore
  <2>3. stack' \in Stack
    BY <1>a, <1>b, <1>c, <1>3, <2>2 DEF Stack, Volume, EmptyVolume, StackAt, NotMet
  <2>4. StackAt(11)'
    BY <1>a, <1>b, <1>c, <1>3, <2>2 DEF Stack, Volume, EmptyVolume, StackAt, NotMet
  <2>5. NotMet(11)'
    BY <1>a, <1>b, <1>c, <1>3, <2>2 DEF NotMet, StackAt
  <2>6. QED  BY <1>3, <2>3, <2>4, <2>5 DEF NextStack
<1>4. CASE at = 20
  <2>1. Script[at] = "up_core"
    BY <1>4, ScriptIs
  <2>2. stack' = [stack EXCEPT !.core = TRUE, !.stuck = FALSE]
    BY <1>1, <2>1, EffectOfCore
  <2>3. stack' \in Stack
    BY <1>a, <1>b, <1>c, <1>4, <2>2 DEF Stack, Volume, EmptyVolume, StackAt, NotMet
  <2>4. StackAt(21)'
    BY <1>a, <1>b, <1>c, <1>4, <2>2 DEF Stack, Volume, EmptyVolume, StackAt, NotMet
  <2>5. NotMet(21)'
    BY <1>a, <1>b, <1>c, <1>4, <2>2 DEF NotMet, StackAt
  <2>6. QED  BY <1>4, <2>3, <2>4, <2>5 DEF NextStack
<1>5. QED  BY <1>2, <1>3, <1>4

\* The project is removed and its volume is not, if it is a volume.
LEMMA DownStep ==
    ASSUME SmokeInv, CoreStep, NEW at \in {17}, at = position
    PROVE  NextStack(at + 1)
<1>1. CommandPasses(Script[at]) /\ stack' = Effect(Script[at])
  BY CommandsStay
<1>a. stack \in Stack /\ defect' = defect
  BY CommandsStay
<1>b. StackAt(at)
  BY CommandsStay
<1>c. NotMet(at)
  BY CommandsStay
<1>2. CASE at = 17
  <2>1. Script[at] = "down"
    BY <1>2, ScriptIs
  <2>2. stack' = [Removed EXCEPT !.volume = IF defect = "volatile_volume" THEN None ELSE stack.volume]
    BY <1>1, <2>1, EffectOfDown
  <2>3. stack' \in Stack
    BY <1>a, <1>b, <1>c, <1>2, <2>2 DEF Stack, Volume, EmptyVolume, StackAt, NotMet, Removed
  <2>4. StackAt(18)'
    BY <1>a, <1>b, <1>c, <1>2, <2>2 DEF Stack, Volume, EmptyVolume, StackAt, NotMet, Removed
  <2>5. NotMet(18)'
    BY <1>a, <1>b, <1>c, <1>2, <2>2 DEF NotMet, StackAt, Removed
  <2>6. QED  BY <1>2, <2>3, <2>4, <2>5 DEF NextStack
<1>3. QED  BY <1>2

\* A stage of the probe.
LEMMA ProbeStep ==
    ASSUME SmokeInv, CoreStep, NEW at \in {9, 22, 23}, at = position
    PROVE  NextStack(at + 1)
<1>1. CommandPasses(Script[at]) /\ stack' = Effect(Script[at])
  BY CommandsStay
<1>a. stack \in Stack /\ defect' = defect
  BY CommandsStay
<1>b. StackAt(at)
  BY CommandsStay
<1>c. NotMet(at)
  BY CommandsStay
<1>2. CASE at = 9
  <2>1. Script[at] = "write"
    BY <1>2, ScriptIs
  <2>2. stack' = IF defect # "forgets_commits" THEN [stack EXCEPT !.volume.run = WriteRun(stack.volume.run)] ELSE stack
    BY <1>1, <2>1, EffectOfProbe DEF ProbeStages, StageOf
  <2>3. WriteRun(stack.volume.run) # None
    BY <1>1, <2>1, PassingCommands DEF ProbeStages, StageOf, WriteRun, ReplayRun, VerifyRun
  <2>4. stack' \in Stack
    BY <1>a, <1>b, <1>c, <1>2, <2>2, <2>3 DEF Stack, Volume, EmptyVolume, StackAt, NotMet, WriteRun, ReplayRun, VerifyRun
  <2>5. StackAt(10)'
    BY <1>a, <1>b, <1>c, <1>2, <2>2, <2>3 DEF Stack, Volume, EmptyVolume, StackAt, NotMet, WriteRun, ReplayRun, VerifyRun
  <2>6. NotMet(10)'
    BY <1>a, <1>b, <1>c, <1>2, <2>2, <2>3 DEF NotMet, StackAt, WriteRun, ReplayRun, VerifyRun
  <2>7. QED  BY <1>2, <2>4, <2>5, <2>6 DEF NextStack
<1>3. CASE at = 22
  <2>1. Script[at] = "replay"
    BY <1>3, ScriptIs
  <2>2. stack' = IF defect # "forgets_commits" THEN [stack EXCEPT !.volume.run = ReplayRun(stack.volume.run)] ELSE stack
    BY <1>1, <2>1, EffectOfProbe DEF ProbeStages, StageOf
  <2>3. ReplayRun(stack.volume.run) # None
    BY <1>1, <2>1, PassingCommands DEF ProbeStages, StageOf, WriteRun, ReplayRun, VerifyRun
  <2>4. stack' \in Stack
    BY <1>a, <1>b, <1>c, <1>3, <2>2, <2>3 DEF Stack, Volume, EmptyVolume, StackAt, NotMet, WriteRun, ReplayRun, VerifyRun
  <2>5. StackAt(23)'
    BY <1>a, <1>b, <1>c, <1>3, <2>2, <2>3 DEF Stack, Volume, EmptyVolume, StackAt, NotMet, WriteRun, ReplayRun, VerifyRun
  <2>6. NotMet(23)'
    BY <1>a, <1>b, <1>c, <1>3, <2>2, <2>3 DEF NotMet, StackAt, WriteRun, ReplayRun, VerifyRun
  <2>7. QED  BY <1>3, <2>4, <2>5, <2>6 DEF NextStack
<1>4. CASE at = 23
  <2>1. Script[at] = "verify"
    BY <1>4, ScriptIs
  <2>2. stack' = IF defect # "forgets_commits" THEN [stack EXCEPT !.volume.run = VerifyRun(stack.volume.run)] ELSE stack
    BY <1>1, <2>1, EffectOfProbe DEF ProbeStages, StageOf
  <2>3. VerifyRun(stack.volume.run) # None
    BY <1>1, <2>1, PassingCommands DEF ProbeStages, StageOf, WriteRun, ReplayRun, VerifyRun
  <2>4. stack' \in Stack
    BY <1>a, <1>b, <1>c, <1>4, <2>2, <2>3 DEF Stack, Volume, EmptyVolume, StackAt, NotMet, WriteRun, ReplayRun, VerifyRun
  <2>5. StackAt(24)'
    BY <1>a, <1>b, <1>c, <1>4, <2>2, <2>3 DEF Stack, Volume, EmptyVolume, StackAt, NotMet, WriteRun, ReplayRun, VerifyRun
  <2>6. NotMet(24)'
    BY <1>a, <1>b, <1>c, <1>4, <2>2, <2>3 DEF NotMet, StackAt, WriteRun, ReplayRun, VerifyRun
  <2>7. QED  BY <1>4, <2>4, <2>5, <2>6 DEF NextStack
<1>5. QED  BY <1>2, <1>3, <1>4

LEMMA CoreStepKeepsInv ==
    ASSUME SmokeInv, CoreStep
    PROVE  SmokeInv'
<1>1. position \in 1..25 /\ smoke = "running" /\ position' = position + 1 /\ smoke' = smoke
      /\ defect' = defect /\ defect \in Defects
  BY ScriptIs DEF CoreStep, SmokeInv
<1>2. PICK at \in 1..25 : at = position
  BY <1>1
<1>3. NextStack(at + 1)
  <2>1. CASE at \in {1, 6, 7, 8, 11, 13, 14, 16, 21, 24, 25}
    BY <1>2, <2>1, LookingStep
  <2>2. CASE at \in {2, 15, 18}
    BY <1>2, <2>2, PostgresStep
  <2>3. CASE at \in {12}
    BY <1>2, <2>3, StopStep
  <2>4. CASE at \in {3, 4, 19}
    BY <1>2, <2>4, MigrateStep
  <2>5. CASE at \in {5, 10, 20}
    BY <1>2, <2>5, CoreStarts
  <2>6. CASE at \in {17}
    BY <1>2, <2>6, DownStep
  <2>7. CASE at \in {9, 22, 23}
    BY <1>2, <2>7, ProbeStep
  <2>8. QED  BY <1>2, <2>1, <2>2, <2>3, <2>4, <2>5, <2>6, <2>7
<1>4. stack' \in Stack /\ StackAt(position)' /\ NotMet(position)'
  <2>1. position' = at + 1
    BY <1>1, <1>2
  <2>2. QED  BY <1>3, <2>1 DEF NextStack, StackAt, NotMet
<1>5. position' \in 1..26
  BY <1>1
<1>6. QED  BY <1>1, <1>4, <1>5 DEF SmokeInv

\* A deployment that passed the whole script has no defect.
LEMMA VerifiedMetNothing ==
    ASSUME SmokeInv, NEW works \in BOOLEAN, Dispose(works)
    PROVE  SmokeInv'
<1>1. CASE smoke = "running" /\ works
  <2>1. position = 26 /\ NotMet(26)
    BY <1>1, ScriptIs DEF Dispose, SmokeInv
  <2>2. defect = "none"
    BY <2>1 DEF NotMet, SmokeInv, Defects
  <2>3. QED  BY <1>1, <2>2 DEF Dispose, SmokeInv
<1>2. CASE ~(smoke = "running" /\ works)
  BY <1>2 DEF Dispose, SmokeInv
<1>3. QED  BY <1>1, <1>2

\* The invariant of the core smoke: the stack is as the script's next step finds
\* it, and the defects that earlier steps fail on are not there.
THEOREM SmokeInvariant == SmokeSpec => []SmokeInv
<1>1. ASSUME SmokeInit PROVE SmokeInv
  <2>1. StackAt(1) /\ Removed \in Stack
    <3>1. Removed.volume = None
      BY DEF Removed
    <3>2. Removed \in Stack
      BY DEF Removed, Stack
    <3>3. StackAt(1)
      BY <1>1, <3>1 DEF SmokeInit, StackAt
    <3>4. QED  BY <3>2, <3>3
  <2>2. NotMet(1)
    BY DEF NotMet
  <2>3. QED  BY <1>1, <2>1, <2>2 DEF SmokeInit, SmokeInv
<1>2. ASSUME SmokeInv, [SmokeNext]_smokeVars PROVE SmokeInv'
  <2>1. CASE CoreStep
    BY <1>2, <2>1, CoreStepKeepsInv
  <2>2. CASE CoreStepFails
    BY <1>2, <2>2 DEF CoreStepFails, SmokeInv
  <2>3. ASSUME NEW works \in BOOLEAN, Dispose(works) PROVE SmokeInv'
    BY <1>2, <2>3, VerifiedMetNothing
  <2>4. CASE UNCHANGED smokeVars
    BY <1>2, <2>4 DEF smokeVars, SmokeInv, StackAt, NotMet
  <2>5. QED  BY <1>2, <2>1, <2>2, <2>3, <2>4 DEF SmokeNext
<1>3. QED  BY <1>1, <1>2, PTL DEF SmokeSpec

\* A core smoke that reports "verified" met a deployment without any defect of
\* its list, and left nothing of it behind (exercise_deployment and main).
THEOREM VerifiedDeploymentsAreSound == SmokeSpec => []VerifiedIsSound
<1>1. SmokeInv => VerifiedIsSound
  BY DEF SmokeInv, VerifiedIsSound
<1>2. QED  BY <1>1, SmokeInvariant, PTL

-----------------------------------------------------------------------------
(* Smoke: what the report on the optional profiles says is true.           *)

Observations == {Observation[e] : e \in Expectation}
ProfileResult == [compatibility : Observations \cup {None}, readiness : Seq(Nat), counts : Seq(Nat)]
Matrix ==
    [at : {"start", "profiles", "build", "write", "link", "linked", "down", "ended"}, step : 1..7,
     result : ProfileResult, results : Seq(ProfileResult), failed : BOOLEAN]
MatrixTypeOK ==
    /\ matrix \in Matrix /\ core \in [ready : BOOLEAN, revision : Nat, rows : Nat]
    /\ Profile \in 1..(Len(Expectations) + 1) /\ tainted \subseteq {Profile}

\* The observation of a profile, and the boundary that was tried for it.
Observed(k, compatibility) ==
    /\ compatibility = Observation[Expectations[k]]
    /\ Expectations[k] = "blocked" => boundary[k]

\* The profile being exercised: what was counted before and after it was
\* observed tells whether rows were written in between, as rows never vanish.
Current(profile, step, result) ==
    /\ profile <= Len(Expectations)
    /\ step <= 2 => result.counts = <<>> /\ tainted = {}
    /\ step \in 3..5 =>
         /\ Len(result.counts) = 1 /\ result.counts[1] <= core.rows
         /\ tainted # {} => result.counts[1] < core.rows
    /\ step >= 6 =>
         /\ Len(result.counts) = 2
         /\ tainted # {} => result.counts[1] < result.counts[2]
    /\ step >= 4 => Observed(profile, result.compatibility)

AllObserved(results) == \A k \in 1..Len(results) : Observed(k, results[k].compatibility)


\* The report is of all profiles, as each of them was observed.
Claims(results) ==
    /\ tainted = {} /\ Len(results) = Len(Expectations)
    /\ AllObserved(results)

MatrixInv ==
    /\ MatrixTypeOK
    /\ AllObserved(matrix.results)
    /\ matrix.at = "start" => tainted = {} /\ matrix.step = 1 /\ matrix.results = <<>> /\ matrix.result = EmptyResult
    /\ matrix.at = "profiles" => Current(Profile, matrix.step, matrix.result)
    /\ matrix.at \in {"build", "write", "link", "linked"} => Claims(matrix.results)
    /\ output # None /\ output.by = "smoke" => matrix.at \in {"linked", "down", "ended"} /\ Claims(output.results)

LEMMA ExerciseIs ==
    /\ Len(Exercise) = 6
    /\ Exercise[1] = "readiness" /\ Exercise[2] = "counts" /\ Exercise[3] = "observe"
    /\ Exercise[4] = "readiness" /\ Exercise[5] = "counts" /\ Exercise[6] = "readiness"
BY DEF Exercise

LEMMA ReadsWhat ==
    ASSUME MatrixInv, NEW what, Reads(what)
    PROVE  /\ matrix.at = "profiles" /\ matrix.step \in 1..6
           /\ what = "observe" => matrix.step = 3
           /\ what = "counts" => matrix.step \in {2, 5}
           /\ what = "readiness" => matrix.step \in {1, 4, 6}
<1>1. matrix.step \in 1..7
  BY DEF MatrixInv, MatrixTypeOK, Matrix
<1>2. QED  BY <1>1, ExerciseIs DEF Reads

\* Which step of the exercise it is that observes.
LEMMA ReadsObserve ==
    ASSUME MatrixInv, matrix.at = "profiles"
    PROVE  Reads("observe") <=> matrix.step = 3
<1>1. matrix.step \in 1..7
  BY DEF MatrixInv, MatrixTypeOK, Matrix
<1>2. QED  BY <1>1, ExerciseIs DEF Reads

LEMMA StatusIs ==
    ASSUME NEW e \in Expectation
    PROVE  /\ Observation[e] \in Observations
           /\ Observation[e].status = "blocked" <=> e = "blocked"
           /\ Observation[e].status = "actual_passed" <=> e = "actual_runtime"
<1>1. CASE e = "actual_runtime"
  BY <1>1 DEF Observation, Observations, Expectation
<1>2. CASE e = "blocked"
  BY <1>2 DEF Observation, Observations, Expectation
<1>3. CASE e = "unsupported"
  BY <1>3 DEF Observation, Observations, Expectation
<1>4. QED  BY <1>1, <1>2, <1>3 DEF Expectation

LEMMA ExpectationIs == Expectations \in Seq(Expectation) /\ Len(Expectations) \in Nat /\ Len(Expectations) > 0
                       /\ DOMAIN Expectations = 1..Len(Expectations)
BY PolicyAssumption

\* A step that reads something: only the result changes, and the step.
LEMMA ReadKeepsInv ==
    ASSUME MatrixInv, matrix.at = "profiles", matrix.step \in 1..6, NEW result \in ProfileResult,
           matrix' = [matrix EXCEPT !.step = @ + 1, !.result = result],
           UNCHANGED <<boundary, core, output, tainted>>, Current(Profile, matrix.step + 1, result)
    PROVE  MatrixInv'
<1>1. /\ matrix' \in Matrix /\ matrix'.at = "profiles" /\ matrix'.step = matrix.step + 1
      /\ matrix'.result = result /\ matrix'.results = matrix.results
  <2>1. matrix \in Matrix
    BY DEF MatrixInv, MatrixTypeOK
  <2>2. matrix.step + 1 \in 1..7
    OBVIOUS
  <2>3. PICK step \in 1..7 : step = matrix.step + 1
    BY <2>2
  <2>4. matrix' = [matrix EXCEPT !.step = step, !.result = result]
    BY <2>3
  <2>5. matrix' \in Matrix
    BY <2>1, <2>4 DEF Matrix
  <2>6. /\ matrix'.at = "profiles" /\ matrix'.step = matrix.step + 1
        /\ matrix'.result = result /\ matrix'.results = matrix.results
    BY <2>1, <2>3, <2>4 DEF Matrix
  <2>7. QED  BY <2>5, <2>6
<1>2. Profile' = Profile
  BY <1>1 DEF Profile
<1>3. MatrixTypeOK'
  BY <1>1, <1>2 DEF MatrixInv, MatrixTypeOK
<1>4. AllObserved(matrix.results)'
  BY <1>1 DEF MatrixInv, AllObserved, Observed
<1>5. Current(Profile, matrix.step, matrix.result)'
  BY <1>1, <1>2 DEF Current, Observed
<1>6. QED  BY <1>1, <1>3, <1>4, <1>5 DEF MatrixInv

LEMMA ReadReadinessKeepsInv ==
    ASSUME MatrixInv, ReadReadiness
    PROVE  MatrixInv'
<1> DEFINE result == [matrix.result EXCEPT !.readiness = Append(@, core.revision)]
<1>1. matrix.at = "profiles" /\ matrix.step \in {1, 4, 6}
  BY ReadsWhat DEF ReadReadiness
<1>2. matrix.result \in ProfileResult /\ core.revision \in Nat
  BY DEF MatrixInv, MatrixTypeOK, Matrix
<1>3. result \in ProfileResult /\ result.counts = matrix.result.counts /\ result.compatibility = matrix.result.compatibility
  <2>1. matrix.result.readiness \in Seq(Nat)
    BY <1>2 DEF ProfileResult
  <2>2. PICK readiness \in Seq(Nat) : readiness = Append(matrix.result.readiness, core.revision)
    BY <1>2, <2>1, AppendProperties
  <2>3. result = [matrix.result EXCEPT !.readiness = readiness]
    BY <2>2
  <2> HIDE DEF result
  <2>4. QED  BY <1>2, <2>3 DEF ProfileResult
<1>4. matrix' = [matrix EXCEPT !.step = @ + 1, !.result = result]
  BY DEF ReadReadiness, MatrixInv, MatrixTypeOK, Matrix
<1>5. PICK r \in ProfileResult : r = result
  BY <1>3
<1> HIDE DEF result
<1>6. Current(Profile, matrix.step + 1, r)
  BY <1>1, <1>3, <1>5 DEF MatrixInv, Current
<1>7. matrix' = [matrix EXCEPT !.step = @ + 1, !.result = r] /\ matrix.step \in 1..6
  BY <1>1, <1>4, <1>5
<1>8. UNCHANGED <<boundary, core, output, tainted>>
  BY DEF ReadReadiness
<1>9. QED  BY <1>1, <1>7, <1>8, <1>6, ReadKeepsInv

LEMMA ReadCountsKeepsInv ==
    ASSUME MatrixInv, ReadCounts
    PROVE  MatrixInv'
<1> DEFINE result == [matrix.result EXCEPT !.counts = Append(@, core.rows)]
<1>1. matrix.at = "profiles" /\ matrix.step \in {2, 5}
  BY ReadsWhat DEF ReadCounts
<1>2. matrix.result \in ProfileResult /\ core.rows \in Nat /\ Current(Profile, matrix.step, matrix.result)
  BY <1>1 DEF MatrixInv, MatrixTypeOK, Matrix
<1>3. /\ result \in ProfileResult /\ result.counts = Append(matrix.result.counts, core.rows)
      /\ result.compatibility = matrix.result.compatibility
  <2>1. matrix.result.counts \in Seq(Nat)
    BY <1>2 DEF ProfileResult
  <2>2. PICK counts \in Seq(Nat) : counts = Append(matrix.result.counts, core.rows)
    BY <1>2, <2>1, AppendProperties
  <2>3. result = [matrix.result EXCEPT !.counts = counts]
    BY <2>2
  <2> HIDE DEF result
  <2>4. QED  BY <1>2, <2>2, <2>3 DEF ProfileResult
<1>4. matrix' = [matrix EXCEPT !.step = @ + 1, !.result = result]
  BY DEF ReadCounts, MatrixInv, MatrixTypeOK, Matrix
<1>5. PICK r \in ProfileResult : r = result
  BY <1>3
<1> HIDE DEF result
<1>6. Current(Profile, matrix.step + 1, r)
  <2>0. matrix.result.counts \in Seq(Nat)
    BY <1>2 DEF ProfileResult
  <2>1. CASE matrix.step = 2
    <3>1. matrix.result.counts = <<>> /\ tainted = {} /\ Profile <= Len(Expectations)
      BY <1>2, <2>1 DEF Current
    <3>2. Len(r.counts) = 1 /\ r.counts[1] = core.rows
      <4>1. r.counts = Append(<<>>, core.rows)
        BY <1>3, <1>5, <3>1
      <4>2. QED  BY <1>2, <4>1
    <3>3. QED  BY <1>2, <2>1, <3>1, <3>2 DEF Current
  <2>2. CASE matrix.step = 5
    <3>1. /\ Len(matrix.result.counts) = 1 /\ matrix.result.counts[1] <= core.rows /\ Profile <= Len(Expectations)
          /\ tainted # {} => matrix.result.counts[1] < core.rows
          /\ Observed(Profile, matrix.result.compatibility)
      BY <1>2, <2>2 DEF Current
    <3>2. Len(r.counts) = 2 /\ r.counts[1] = matrix.result.counts[1] /\ r.counts[2] = core.rows
      <4>1. r.counts = Append(matrix.result.counts, core.rows)
        BY <1>3, <1>5
      <4>2. QED  BY <1>2, <2>0, <3>1, <4>1
    <3>3. QED  BY <1>3, <1>5, <2>2, <3>1, <3>2 DEF Current
  <2>3. QED  BY <1>1, <2>1, <2>2
<1>7. matrix' = [matrix EXCEPT !.step = @ + 1, !.result = r] /\ matrix.step \in 1..6
  BY <1>1, <1>4, <1>5
<1>8. UNCHANGED <<boundary, core, output, tainted>>
  BY DEF ReadCounts
<1>9. QED  BY <1>1, <1>7, <1>8, <1>6, ReadKeepsInv

LEMMA ObserveKeepsInv ==
    ASSUME MatrixInv, Observe
    PROVE  MatrixInv'
<1> DEFINE result == [matrix.result EXCEPT !.compatibility = Observation[Expectations[Profile]]]
<1>1. matrix.at = "profiles" /\ matrix.step = 3
  BY ReadsWhat DEF Observe
<1>2. matrix.result \in ProfileResult /\ Current(Profile, matrix.step, matrix.result) /\ Profile \in 1..(Len(Expectations) + 1)
  BY <1>1 DEF MatrixInv, MatrixTypeOK, Matrix
<1>a. Observation[Expectations[Profile]] \in Observations
  <2>1. Profile \in 1..Len(Expectations)
    BY <1>1, <1>2, ExpectationIs DEF Current
  <2>2. Expectations[Profile] \in Expectation
    BY <2>1, ExpectationIs
  <2>3. QED  BY <2>2, StatusIs
<1>3. /\ result \in ProfileResult /\ result.counts = matrix.result.counts
      /\ result.compatibility = Observation[Expectations[Profile]]
  BY <1>2, <1>a DEF ProfileResult
<1>4. matrix' = [matrix EXCEPT !.step = @ + 1, !.result = result]
  BY DEF Observe, MatrixInv, MatrixTypeOK, Matrix
<1>5. PICK r \in ProfileResult : r = result
  BY <1>3
<1> HIDE DEF result
<1>6. Observed(Profile, r.compatibility)
  BY <1>3, <1>5 DEF Observe, Observed
<1>7. Current(Profile, matrix.step + 1, r)
  BY <1>1, <1>2, <1>3, <1>5, <1>6 DEF Current
<1>8. matrix' = [matrix EXCEPT !.step = @ + 1, !.result = r] /\ matrix.step \in 1..6
  BY <1>1, <1>4, <1>5
<1>9. UNCHANGED <<boundary, core, output, tainted>>
  BY DEF Observe
<1>10. QED  BY <1>1, <1>8, <1>9, <1>7, ReadKeepsInv

LEMMA FinishKeepsInv ==
    ASSUME MatrixInv, FinishProfile
    PROVE  MatrixInv'
<1>1. /\ matrix \in Matrix /\ Profile \in 1..(Len(Expectations) + 1) /\ tainted \subseteq {Profile}
      /\ matrix.at = "profiles" /\ matrix.step = 7 /\ Current(Profile, matrix.step, matrix.result)
  <2>1. MatrixTypeOK /\ matrix.at = "profiles" /\ matrix.step > 6
    BY ExerciseIs DEF FinishProfile, MatrixInv
  <2>2. matrix \in Matrix /\ Profile \in 1..(Len(Expectations) + 1) /\ tainted \subseteq {Profile} /\ matrix.step \in 1..7
    BY <2>1 DEF MatrixTypeOK, Matrix
  <2>3. Current(Profile, matrix.step, matrix.result)
    BY <2>1 DEF MatrixInv
  <2>4. QED  BY <2>1, <2>2, <2>3
<1>2. tainted = {} /\ Observed(Profile, matrix.result.compatibility) /\ Profile <= Len(Expectations)
  <2>1. /\ Len(matrix.result.counts) = 2
        /\ tainted # {} => matrix.result.counts[1] < matrix.result.counts[2]
        /\ Observed(Profile, matrix.result.compatibility) /\ Profile <= Len(Expectations)
    BY <1>1 DEF Current
  <2>2. matrix.result.counts \in Seq(Nat)
    BY <1>1 DEF Matrix, ProfileResult
  <2>3. matrix.result.counts[1] = matrix.result.counts[2]
    <3>1. 1 \in DOMAIN matrix.result.counts /\ 2 \in DOMAIN matrix.result.counts
      BY <2>1, <2>2
    <3>2. QED  BY <3>1 DEF FinishProfile, Constant
  <2>4. tainted = {}
    BY <2>1, <2>2, <2>3
  <2>5. QED  BY <2>1, <2>4
<1>3. EmptyResult \in ProfileResult /\ EmptyResult.counts = <<>>
  BY DEF EmptyResult, ProfileResult
<1>4. PICK results \in Seq(ProfileResult) : results = Append(matrix.results, matrix.result)
  <2>1. matrix.results \in Seq(ProfileResult) /\ matrix.result \in ProfileResult
    BY <1>1 DEF Matrix
  <2>2. QED  BY <2>1, AppendProperties
<1>5. PICK at \in {"build", "profiles"} : at = IF Profile = Len(Expectations) THEN "build" ELSE "profiles"
  OBVIOUS
<1>6. /\ matrix' \in Matrix /\ matrix'.at = at /\ matrix'.step = 1
      /\ matrix'.result = EmptyResult /\ matrix'.results = results
  <2>1. matrix' = [matrix EXCEPT !.results = results, !.result = EmptyResult, !.step = 1, !.at = at]
    BY <1>4, <1>5 DEF FinishProfile, Matrix
  <2>2. matrix' \in Matrix
    <3>1. 1 \in 1..7 /\ at \in {"start", "profiles", "build", "write", "link", "linked", "down", "ended"}
      BY <1>5
    <3>2. QED  BY <1>1, <1>3, <2>1, <3>1 DEF Matrix
  <2>3. matrix'.at = at /\ matrix'.step = 1 /\ matrix'.result = EmptyResult /\ matrix'.results = results
    BY <1>1, <2>1 DEF Matrix
  <2>4. QED  BY <2>2, <2>3
<1>7. /\ Len(matrix.results) \in Nat /\ Len(results) = Len(matrix.results) + 1
      /\ results[Len(matrix.results) + 1] = matrix.result
      /\ \A k \in 1..Len(matrix.results) : results[k] = matrix.results[k]
  <2>1. matrix.results \in Seq(ProfileResult)
    BY <1>1 DEF Matrix
  <2>2. QED  BY <1>4, <2>1
<1>8. AllObserved(results)
  <2> SUFFICES \A k \in 1..Len(results) : Observed(k, results[k].compatibility)
    BY DEF AllObserved
  <2>1. TAKE k \in 1..Len(results)
  <2>2. CASE k = Len(matrix.results) + 1
    BY <1>2, <1>7, <2>2 DEF Profile
  <2>3. CASE k \in 1..Len(matrix.results)
    BY <1>7, <2>3 DEF MatrixInv, AllObserved
  <2>4. QED  BY <1>7, <2>2, <2>3
<1>9. UNCHANGED <<boundary, core, output, tainted>>
  BY DEF FinishProfile
<1>10. Profile' = Len(results) + 1 /\ Len(results) = Profile
  BY <1>6, <1>7 DEF Profile
<1>11. MatrixTypeOK'
  BY <1>1, <1>2, <1>6, <1>9, <1>10, ExpectationIs DEF MatrixInv, MatrixTypeOK
<1>12. AllObserved(matrix.results)'
  BY <1>6, <1>8, <1>9 DEF AllObserved, Observed
<1>13. at = "profiles" => Current(Profile, matrix.step, matrix.result)'
  <2> SUFFICES ASSUME at = "profiles" PROVE Current(Profile, matrix.step, matrix.result)'
    OBVIOUS
  <2>1. Profile' <= Len(Expectations)
    <3>1. Profile # Len(Expectations)
      BY <1>5
    <3>2. Profile \in Nat /\ Profile <= Len(Expectations) /\ Len(Expectations) \in Nat
      BY <1>1, <1>2, ExpectationIs
    <3>3. Profile' = Profile + 1
      BY <1>10
    <3>4. QED  BY <3>1, <3>2, <3>3
  <2>2. matrix'.step = 1 /\ matrix'.result.counts = <<>> /\ tainted' = {}
    BY <1>2, <1>3, <1>6, <1>9
  <2>3. QED  BY <2>1, <2>2 DEF Current
<1>14. at = "build" => Claims(matrix.results)'
  <2>1. at = "build" => Len(results) = Len(Expectations)
    BY <1>5, <1>10
  <2>2. tainted' = {} /\ AllObserved(matrix.results)' /\ matrix'.results = results
    BY <1>2, <1>6, <1>9, <1>12
  <2>3. QED  BY <2>1, <2>2 DEF Claims
<1>15. ~(output' # None /\ output'.by = "smoke")
  BY <1>1, <1>9 DEF MatrixInv
<1>16. QED  BY <1>5, <1>6, <1>11, <1>12, <1>13, <1>14, <1>15 DEF MatrixInv

\* The matrix only moves on.
LEMMA MovesKeepInv ==
    ASSUME MatrixInv, NEW at \in {"profiles", "write", "link", "linked", "down", "ended"}, NEW ill \in BOOLEAN,
           matrix' = [matrix EXCEPT !.at = at, !.failed = ill],
           UNCHANGED <<boundary, core, tainted>>,
           at = "profiles" => matrix.at = "start",
           at \in {"write", "link", "linked"} => Claims(matrix.results),
           output' # None /\ output'.by = "smoke" => at \in {"linked", "down", "ended"} /\ Claims(output.results)'
    PROVE  MatrixInv'
<1>0. matrix \in Matrix
  BY DEF MatrixInv, MatrixTypeOK
<1>1. matrix' \in Matrix
  BY <1>0 DEF Matrix
<1>2. /\ matrix'.at = at /\ matrix'.step = matrix.step
      /\ matrix'.result = matrix.result /\ matrix'.results = matrix.results
  BY <1>0 DEF Matrix
<1>3. Profile' = Profile
  BY <1>2 DEF Profile
<1>4. MatrixTypeOK'
  BY <1>1, <1>3 DEF MatrixInv, MatrixTypeOK
<1>5. AllObserved(matrix.results)'
  BY <1>2 DEF MatrixInv, AllObserved, Observed
<1>6. at \in {"write", "link", "linked"} => Claims(matrix.results)'
  BY <1>2, <1>5 DEF Claims
<1>7. at = "profiles" => Current(Profile, matrix.step, matrix.result)'
  <2> SUFFICES ASSUME at = "profiles" PROVE Current(Profile, matrix.step, matrix.result)'
    OBVIOUS
  <2>1. tainted = {} /\ matrix.step = 1 /\ matrix.results = <<>> /\ matrix.result = EmptyResult
    BY DEF MatrixInv
  <2>2. matrix'.step = 1 /\ matrix'.result.counts = <<>> /\ tainted' = {}
    BY <1>2, <2>1 DEF EmptyResult
  <2>3. Profile' <= Len(Expectations)
    BY <1>3, <2>1, ExpectationIs DEF Profile
  <2>4. QED  BY <2>2, <2>3 DEF Current
<1>8. QED  BY <1>2, <1>4, <1>5, <1>6, <1>7 DEF MatrixInv

LEMMA AtIs ==
    ASSUME MatrixInv
    PROVE  /\ matrix \in Matrix
           /\ output # None /\ output.by = "smoke" => matrix.at \in {"linked", "down", "ended"} /\ Claims(output.results)
           /\ matrix.at \in {"build", "write", "link", "linked"} => Claims(matrix.results)
BY DEF MatrixInv, MatrixTypeOK

\* What the report claims goes on being so, as nothing is observed any more.
LEMMA ClaimsStay ==
    ASSUME UNCHANGED <<boundary, output, tainted>>
    PROVE  Claims(output.results)' <=> Claims(output.results)
BY DEF Claims, AllObserved, Observed

LEMMA DisturbKeepsInv ==
    ASSUME MatrixInv, Disturb
    PROVE  MatrixInv'
<1>1. /\ matrix.at = "profiles" /\ matrix \in Matrix /\ Current(Profile, matrix.step, matrix.result)
      /\ core \in [ready : BOOLEAN, revision : Nat, rows : Nat] /\ tainted \subseteq {Profile}
  BY DEF Disturb, MatrixInv, MatrixTypeOK
<1>2. UNCHANGED <<matrix, boundary, output>> /\ Profile' = Profile
  BY DEF Disturb, Profile
<1>3. ~(output # None /\ output.by = "smoke")
  BY <1>1, AtIs
<1>4. /\ core' \in [ready : BOOLEAN, revision : Nat, rows : Nat] /\ tainted' \subseteq {Profile}
      /\ core'.rows >= core.rows
      /\ tainted' # {} => tainted # {} \/ (matrix.step = 3 /\ core'.rows > core.rows)
      /\ tainted = {} /\ matrix.step # 3 => tainted' = {}
  <2>1. CASE /\ core' = [core EXCEPT !.rows = @ + 1]
             /\ tainted' = IF Reads("observe") THEN tainted \cup {Profile} ELSE tainted
    <3>1. core' \in [ready : BOOLEAN, revision : Nat, rows : Nat] /\ core'.rows = core.rows + 1 /\ core.rows \in Nat
      BY <1>1, <2>1
    <3>2. tainted' = IF matrix.step = 3 THEN tainted \cup {Profile} ELSE tainted
      BY <1>1, <2>1, ReadsObserve
    <3>3. QED  BY <1>1, <3>1, <3>2
  <2>2. CASE core' \in {[core EXCEPT !.ready = ~@], [core EXCEPT !.revision = @ + 1]} /\ UNCHANGED tainted
    <3>1. core' \in [ready : BOOLEAN, revision : Nat, rows : Nat] /\ core'.rows = core.rows /\ core.rows \in Nat
      <4>1. CASE core' = [core EXCEPT !.ready = ~@]
        <5>1. PICK ready \in BOOLEAN : ready = ~core.ready
          BY Zenon
        <5>2. core' = [core EXCEPT !.ready = ready]
          BY <4>1, <5>1
        <5>3. QED  BY <1>1, <5>2
      <4>2. CASE core' = [core EXCEPT !.revision = @ + 1]
        BY <1>1, <4>2
      <4>3. QED  BY <2>2, <4>1, <4>2
    <3>2. QED  BY <1>1, <2>2, <3>1
  <2>3. QED  BY <2>1, <2>2 DEF Disturb
<1>5. MatrixTypeOK'
  BY <1>1, <1>2, <1>4 DEF MatrixInv, MatrixTypeOK
<1>6. Current(Profile, matrix.step, matrix.result)'
  <2>1. matrix.step \in 1..7 /\ core.rows \in Nat /\ core'.rows \in Nat /\ matrix.result.counts \in Seq(Nat)
    BY <1>1, <1>4 DEF Matrix, ProfileResult
  <2>2. Profile <= Len(Expectations) /\ (matrix.step >= 4 => Observed(Profile, matrix.result.compatibility)')
    BY <1>1, <1>2 DEF Current, Observed
  <2>3. matrix.step <= 2 => matrix.result.counts = <<>> /\ tainted' = {}
    BY <1>1, <1>4, <2>1 DEF Current
  <2>4. matrix.step \in 3..5 =>
          /\ Len(matrix.result.counts) = 1 /\ matrix.result.counts[1] <= core'.rows
          /\ tainted' # {} => matrix.result.counts[1] < core'.rows
    <3> SUFFICES ASSUME matrix.step \in 3..5
                 PROVE  /\ Len(matrix.result.counts) = 1 /\ matrix.result.counts[1] <= core'.rows
                        /\ tainted' # {} => matrix.result.counts[1] < core'.rows
      OBVIOUS
    <3>1. /\ Len(matrix.result.counts) = 1 /\ matrix.result.counts[1] <= core.rows
          /\ tainted # {} => matrix.result.counts[1] < core.rows
      BY <1>1 DEF Current
    <3>2. matrix.result.counts[1] \in Nat
      BY <2>1, <3>1
    <3>3. QED  BY <1>4, <2>1, <3>1, <3>2
  <2>5. matrix.step >= 6 =>
          /\ Len(matrix.result.counts) = 2
          /\ tainted' # {} => matrix.result.counts[1] < matrix.result.counts[2]
    BY <1>1, <1>4, <2>1 DEF Current
  <2>6. QED  BY <1>2, <2>2, <2>3, <2>4, <2>5 DEF Current
<1>7. AllObserved(matrix.results)'
  BY <1>2 DEF MatrixInv, AllObserved, Observed
<1>8. QED  BY <1>1, <1>2, <1>3, <1>5, <1>6, <1>7 DEF MatrixInv

\* The invariant of the optional smoke: what is kept of the profiles was observed,
\* and a report claims no more than that.
THEOREM MatrixInvariant == MatrixSpec => []MatrixInv
<1>1. ASSUME MatrixInit PROVE MatrixInv
  <2>1. /\ matrix.at = "start" /\ matrix.step = 1 /\ matrix.results = <<>> /\ matrix.result = EmptyResult
        /\ tainted = {}
    BY <1>1 DEF MatrixInit
  <2>2. EmptyResult \in ProfileResult
    BY DEF EmptyResult, ProfileResult
  <2>3. matrix \in Matrix
    BY <1>1, <2>2 DEF MatrixInit, Matrix
  <2>4. Len(matrix.results) = 0 /\ Profile = 1
    BY <2>1 DEF Profile
  <2>5. MatrixTypeOK
    BY <1>1, <2>1, <2>3, <2>4, ExpectationIs DEF MatrixTypeOK, MatrixInit
  <2>6. AllObserved(matrix.results)
    BY <2>4 DEF AllObserved
  <2>7. ~(output # None /\ output.by = "smoke")
    BY <1>1 DEF MatrixInit
  <2>8. QED  BY <2>1, <2>5, <2>6, <2>7 DEF MatrixInv
<1>2. ASSUME MatrixInv, [MatrixNext]_matrixVars PROVE MatrixInv'
  <2>0. matrix \in Matrix
    BY <1>2, AtIs
  <2>1. CASE StartMatrix
    <3>1. /\ matrix.at = "start" /\ matrix' = [matrix EXCEPT !.at = "profiles", !.failed = matrix.failed]
          /\ UNCHANGED <<boundary, core, output, tainted>> /\ matrix.failed \in BOOLEAN
      BY <2>0, <2>1 DEF StartMatrix, Matrix
    <3>2. QED  BY <1>2, <3>1, AtIs, MovesKeepInv
  <2>2. CASE ReadReadiness
    BY <1>2, <2>2, ReadReadinessKeepsInv
  <2>3. CASE ReadCounts
    BY <1>2, <2>3, ReadCountsKeepsInv
  <2>4. CASE Observe
    BY <1>2, <2>4, ObserveKeepsInv
  <2>5. CASE FinishProfile
    BY <1>2, <2>5, FinishKeepsInv
  <2>6. CASE BuildReport
    <3>1. /\ matrix.at = "build" /\ matrix' = [matrix EXCEPT !.at = "write", !.failed = matrix.failed]
          /\ UNCHANGED <<boundary, core, output, tainted>> /\ matrix.failed \in BOOLEAN
      BY <2>0, <2>6 DEF BuildReport, Matrix
    <3>2. QED  BY <1>2, <3>1, AtIs, MovesKeepInv
  <2>7. CASE LookForReport
    <3>1. /\ matrix.at = "write" /\ matrix' = [matrix EXCEPT !.at = "link", !.failed = matrix.failed]
          /\ UNCHANGED <<boundary, core, output, tainted>> /\ matrix.failed \in BOOLEAN
      BY <2>0, <2>7 DEF LookForReport, Matrix
    <3>2. QED  BY <1>2, <3>1, AtIs, MovesKeepInv
  <2>8. CASE LinkReport
    <3>1. /\ matrix.at = "link" /\ matrix' = [matrix EXCEPT !.at = "linked", !.failed = matrix.failed]
          /\ UNCHANGED <<boundary, core, tainted>> /\ matrix.failed \in BOOLEAN /\ output' = MatrixReport
      BY <2>0, <2>8 DEF LinkReport, Matrix
    <3>2. output'.results = matrix.results
      BY <3>1 DEF MatrixReport
    <3>3. Claims(matrix.results)
      BY <1>2, <3>1, AtIs
    <3>4. Claims(output.results)'
      BY <3>1, <3>2, <3>3 DEF Claims, AllObserved, Observed
    <3>5. QED  BY <1>2, <3>1, <3>3, <3>4, MovesKeepInv
  <2>9. CASE MatrixFails
    <3>1. /\ matrix.at \notin {"down", "ended"} /\ matrix' = [matrix EXCEPT !.at = "down", !.failed = TRUE]
          /\ UNCHANGED <<boundary, core, output, tainted>>
      BY <2>9 DEF MatrixFails
    <3>2. QED  BY <1>2, <3>1, AtIs, ClaimsStay, MovesKeepInv
  <2>10. CASE MatrixWritten
    <3>1. /\ matrix' = [matrix EXCEPT !.at = "down", !.failed = matrix.failed]
          /\ UNCHANGED <<boundary, core, output, tainted>> /\ matrix.failed \in BOOLEAN
      BY <2>0, <2>10 DEF MatrixWritten, Matrix
    <3>2. QED  BY <1>2, <3>1, AtIs, ClaimsStay, MovesKeepInv
  <2>11. ASSUME NEW works \in BOOLEAN, TakeDown(works) PROVE MatrixInv'
    <3>1. PICK ill \in BOOLEAN : ill = (matrix.failed \/ ~works)
      BY Zenon
    <3>2. /\ matrix' = [matrix EXCEPT !.at = "ended", !.failed = ill]
          /\ UNCHANGED <<boundary, core, output, tainted>>
      BY <2>11, <3>1 DEF TakeDown
    <3>3. QED  BY <1>2, <3>2, AtIs, ClaimsStay, MovesKeepInv
  <2>12. CASE Disturb
    BY <1>2, <2>12, DisturbKeepsInv
  <2>13. CASE SomebodyWrites
    <3>1. UNCHANGED <<matrix, boundary, core, tainted>> /\ output'.by = "others"
      BY <2>13 DEF SomebodyWrites
    <3>2. QED
      BY <1>2, <3>1 DEF MatrixInv, MatrixTypeOK, Profile, AllObserved, Observed, Current, Claims
  <2>14. CASE UNCHANGED matrixVars
    BY <1>2, <2>14 DEF matrixVars, MatrixInv, MatrixTypeOK, Profile, AllObserved, Observed, Current, Claims
  <2>15. QED
    BY <1>2, <2>1, <2>2, <2>3, <2>4, <2>5, <2>6, <2>7, <2>8, <2>9, <2>10, <2>11, <2>12, <2>13, <2>14 DEF MatrixNext
<1>3. QED  BY <1>1, <1>2, PTL DEF MatrixSpec

\* A report of the optional smoke is true of the profiles and of the core, and
\* stays so (_exercise_profile, verify_report, _write_report).
THEOREM ReportsAreTrue == MatrixSpec => []ReportIsTrue
<1>1. ASSUME MatrixInv PROVE ReportIsTrue
  <2> SUFFICES ASSUME output # None, output.by = "smoke"
               PROVE  /\ tainted = {} /\ Len(output.results) = Len(Expectations)
                      /\ \A k \in DOMAIN Expectations :
                            /\ output.results[k].compatibility.status = "blocked" => boundary[k]
                            /\ output.results[k].compatibility.status = "actual_passed" <=> Expectations[k] = "actual_runtime"
    BY DEF ReportIsTrue
  <2>1. Claims(output.results)
    BY <1>1, AtIs
  <2>2. \A k \in DOMAIN Expectations :
          /\ output.results[k].compatibility.status = "blocked" => boundary[k]
          /\ output.results[k].compatibility.status = "actual_passed" <=> Expectations[k] = "actual_runtime"
    <3>1. TAKE k \in DOMAIN Expectations
    <3>2. Expectations[k] \in Expectation /\ k \in 1..Len(output.results)
      BY <2>1, ExpectationIs DEF Claims
    <3>3. Observed(k, output.results[k].compatibility)
      BY <2>1, <3>2 DEF Claims, AllObserved
    <3>4. QED  BY <3>2, <3>3, StatusIs DEF Observed
  <2>3. QED  BY <2>1, <2>2 DEF Claims
<1>2. QED  BY <1>1, MatrixInvariant, PTL

\* No file at --output is ever replaced: the link is only made, and anybody else
\* only writes, where there is none (_write_report).
THEOREM ReportsStay == MatrixSpec => ReportStays
<1>1. ASSUME [MatrixNext]_matrixVars PROVE [output # None => output' = output]_matrixVars
  BY <1>1 DEF MatrixNext, StartMatrix, ReadReadiness, ReadCounts, Observe, FinishProfile, BuildReport,
     LookForReport, LinkReport, MatrixWritten, MatrixFails, TakeDown, Disturb, SomebodyWrites, matrixVars
<1>2. QED  BY <1>1, PTL DEF MatrixSpec, ReportStays

-----------------------------------------------------------------------------
(* The parts together.                                                     *)

LEMMA PartsStep ==
    ASSUME [Next]_vars
    PROVE  /\ [OutboundNext]_outboundVars /\ [DeploymentNext]_deploymentVars
           /\ [DrillNext]_drillVars /\ [SmokeNext]_smokeVars /\ [MatrixNext]_matrixVars
BY DEF Next, vars

LEMMA PartsSpec ==
    Spec => OutboundSpec /\ DeploymentSpec /\ DrillSpec /\ SmokeSpec /\ MatrixSpec
<1>1. Init => OutboundInit /\ DeploymentInit /\ DrillInit /\ SmokeInit /\ MatrixInit
  BY DEF Init
<1>2. [Next]_vars => /\ [OutboundNext]_outboundVars /\ [DeploymentNext]_deploymentVars
                     /\ [DrillNext]_drillVars /\ [SmokeNext]_smokeVars /\ [MatrixNext]_matrixVars
  BY PartsStep
<1>3. QED  BY <1>1, <1>2, PTL DEF Spec, OutboundSpec, DeploymentSpec, DrillSpec, SmokeSpec, MatrixSpec

\* What the deployment commands, the drill and the smokes report is so
\* (DeploymentService, run_disposable_drill, exercise_deployment, _write_report).
THEOREM ReportsAreHonest == Spec => ScriptsAreHonest
<1>1. Spec => []SchemaIsWhatWasTold /\ []VerifiedIsSound /\ []ReportIsTrue
  BY PartsSpec, SchemaStaysAsTold, VerifiedDeploymentsAreSound, ReportsAreTrue
<1>2. Spec => DrillIsHonest /\ ReportStays
  BY PartsSpec, DrillsAreHonest, ReportsStay
<1>3. QED  BY <1>1, <1>2, PTL DEF ScriptsAreHonest

\* The same of the worker's transport (PinnedTransport, check_endpoint).
THEOREM WorkersArePinned == Spec => OutboundHolds
BY PartsSpec, OutboundIsPinned

-----------------------------------------------------------------------------
(* The lease of a research job.                                            *)

\* The stages of a model call, and those in which an answer has been accepted.
Calling == {"request", "sending", "answered"}
Evaluated == {"turned", "generated"}
AtEnd == {"forecast", "done"}

\* What the model call under way has cost so far is the only thing billed that
\* the loop has not consumed yet, and the tracker learns it when the call ends.
SpendInv ==
    /\ pc \in AtEnd \/ bill.billed = usage.tokens + req.tokens + req.last
    /\ pc \in AtEnd \cup Evaluated \/ bill.billed = bill.metered + req.tokens + req.last
    /\ pc \in Evaluated => bill.billed = bill.metered
    /\ pc \in AtEnd \cup Calling \cup Evaluated \/ req.tokens = 0
    /\ pc \in AtEnd \cup {"answered"} \/ req.last = 0
    /\ bill.billed <= usage.tokens + RouteTokens + AnswerTokens
    /\ bill.billed <= bill.metered + req.tokens + AnswerTokens
    /\ usage.tokens <= TokenBudget /\ usage.calls <= MaxToolCalls

\* Tools run on the snapshot's evidence only, and what counts as read was shown.
ScopeInv ==
    /\ pc = "preflight" => scope = {}
    /\ scope \subseteq Available
    /\ \A i \in DOMAIN thread : AuthorizedCall(thread[i].call)
    /\ seen.materialized = seen.shown /\ seen.shown \subseteq scope
    /\ pipe.cited \subseteq seen.shown

\* The result says how far the pipeline got, and the verdict follows the result.
PipeInv ==
    /\ pc \notin AtEnd => /\ pipe.status = "none" /\ ~pipe.report
                         /\ pipe.issues \subseteq {"tradingagents"}
    /\ pc # "done" => verdict = "none"
    /\ pc \in {"report", "generated"} \/ (pc \in Calling /\ req.for # "turn") =>
         pipe.opinion \/ "tradingagents" \in pipe.issues
    /\ pipe.report => /\ bill.metered <= SoftCost /\ "budget" \notin pipe.issues
                      /\ pipe.status \in {"succeeded", "degraded"}
    /\ pipe.status = "succeeded" => pipe.report /\ pipe.opinion /\ pipe.issues = {}
    /\ verdict \in {"succeeded", "degraded", "failed"} => pipe.research
    /\ verdict = "succeeded" => pipe.status = "succeeded"

ResearchInv == ResearchTypeOK /\ SpendInv /\ ScopeInv /\ PipeInv

USE ResearchAssumption, EvidenceAssumption

FailureCode == {"conflict", "budget_exhausted", "deadline_exceeded", "data_unavailable",
                "model_output_invalid", "capability_denied", "tool_failed", "payload_too_large",
                "configuration_invalid", "internal_error"}

-----------------------------------------------------------------------------
(* Facts about the rows.                                                   *)

LEMMA LimitsAreNumbers ==
    /\ MaxBatch \in Nat /\ MaxParallel \in Nat /\ MaxIterations \in Nat /\ AnswerTokens \in Nat
    /\ RouteTokens \in Nat /\ Timeout \in Nat /\ ToolTimeout \in Nat /\ MaxToolCalls \in Nat
    /\ TokenBudget \in Nat /\ MaxRepairs \in Nat /\ MaxRetries \in Nat /\ MaxBlocks \in Nat
    /\ Deadline \in Nat /\ MaxTime \in Nat /\ SoftCost \in Nat /\ HardCost \in Nat
    /\ SoftElapsed \in Nat /\ HardElapsed \in Nat
OBVIOUS

LEMMA RowsAreTyped ==
    ASSUME ResearchInv
    PROVE  /\ usage.iterations \in Nat /\ usage.calls \in Nat /\ usage.tokens \in Nat
           /\ req.tokens \in Nat /\ req.tokens <= RouteTokens /\ req.last \in Nat
           /\ bill.billed \in Nat /\ bill.metered \in Nat /\ seen.blocks \in Nat /\ now \in Nat
<1>1. usage \in [iterations : Nat, calls : Nat, tokens : Nat]
  BY DEF ResearchInv, ResearchTypeOK
<1>2. req \in ModelCall
  BY DEF ResearchInv, ResearchTypeOK
<1>3. req.tokens \in Nat /\ req.tokens <= RouteTokens /\ req.last \in Nat
  BY <1>2, LimitsAreNumbers DEF ModelCall
<1>4. bill.billed \in Nat /\ bill.metered \in Nat /\ seen.blocks \in Nat /\ now \in Nat
  BY DEF ResearchInv, ResearchTypeOK
<1> QED
  BY <1>1, <1>3, <1>4

LEMMA ThreadsAreTyped ==
    ASSUME ResearchInv
    PROVE  thread \in Seq(ToolCall) /\ \A i \in DOMAIN thread : thread[i] \in ToolCall
<1>1. thread \in Seq(ToolCall)
  BY DEF ResearchInv, ResearchTypeOK
<1> QED
  BY <1>1, SMTT(30)

LEMMA CancelledIsTyped ==
    ASSUME NEW t \in ToolCall
    PROVE  Cancelled(t) \in ToolCall /\ Cancelled(t).call = t.call
BY DEF Cancelled, ToolCall

LEMMA FunctionIsSeq ==
    ASSUME NEW T, NEW n \in Nat, NEW f \in [1..n -> T] PROVE f \in Seq(T)
BY SMTT(30)

\* A list made from another one, entry by entry.
LEMMA MappedThreads ==
    ASSUME NEW S, NEW s \in Seq(S), thread' = [i \in DOMAIN s |-> thread'[i]],
           \A i \in DOMAIN s : thread'[i] \in ToolCall
    PROVE  thread' \in Seq(ToolCall)
<1>1. Len(s) \in Nat /\ DOMAIN s = 1..Len(s)
  BY SMTT(30)
<1>2. thread' \in [1..Len(s) -> ToolCall]
  BY <1>1
<1> QED
  BY <1>1, <1>2, FunctionIsSeq

\* A failed lease keeps its threads, but for those that are cancelled.
LEMMA ThreadsAfterFailure ==
    ASSUME ResearchInv, NEW code, FailLease(code)
    PROVE  /\ pc' = "done" /\ verdict' = code
           /\ thread' \in Seq(ToolCall) /\ \A i \in DOMAIN thread' : AuthorizedCall(thread'[i].call)
<1>1. thread \in Seq(ToolCall) /\ \A i \in DOMAIN thread : thread[i] \in ToolCall /\ AuthorizedCall(thread[i].call)
  BY ThreadsAreTyped DEF ResearchInv, ScopeInv
<1>2. thread' = [i \in DOMAIN thread |-> Cancelled(thread[i])]
  BY DEF FailLease
<1>3. DOMAIN thread' = DOMAIN thread /\ \A i \in DOMAIN thread : thread'[i] = Cancelled(thread[i])
  BY <1>2
<1>4. \A i \in DOMAIN thread : Cancelled(thread[i]) \in ToolCall
                               /\ Cancelled(thread[i]).call = thread[i].call
  BY <1>1, CancelledIsTyped
<1>5. thread' \in Seq(ToolCall)
  <2>1. \A i \in DOMAIN thread : thread'[i] \in ToolCall
    BY <1>3, <1>4
  <2>2. PICK s \in Seq(ToolCall) : s = thread
    BY <1>1
  <2>3. DOMAIN thread' = DOMAIN s /\ thread' = [i \in DOMAIN s |-> thread'[i]]
    BY <1>2, <1>3, <2>2
  <2> QED
    BY <2>1, <2>2, <2>3, MappedThreads
<1> QED
  BY <1>1, <1>3, <1>4, <1>5 DEF FailLease

\* What the tools ran on and what they showed is left alone.
LEMMA ScopeStays ==
    ASSUME ResearchInv, UNCHANGED <<scope, seen>>, pipe'.cited = pipe.cited,
           pc' = pc \/ pc' # "preflight",
           \A i \in DOMAIN thread' : AuthorizedCall(thread'[i].call)
    PROVE  ScopeInv'
BY DEF ResearchInv, ScopeInv, AuthorizedCall

\* So is the spending, while no call begins or ends.
LEMMA SpendStays ==
    ASSUME ResearchInv, UNCHANGED <<usage, req, bill>>,
           \/ pc' = pc \/ pc' \in AtEnd
           \/ pc \notin AtEnd \cup Calling \cup Evaluated /\ pc' \notin Evaluated
    PROVE  SpendInv'
<1>1. /\ usage.tokens \in Nat /\ req.tokens \in Nat /\ req.last \in Nat
      /\ bill.billed \in Nat /\ bill.metered \in Nat
  BY RowsAreTyped
<1> QED
  BY <1>1, LimitsAreNumbers DEF ResearchInv, SpendInv, AtEnd, Calling, Evaluated

\* A lease that fails with a code leaves the result as it is.
LEMMA VerdictIsCode ==
    ASSUME ResearchInv, NEW code \in FailureCode, pc' = "done", verdict' = code, pc # "done",
           UNCHANGED <<bill, pipe>>
    PROVE  PipeInv' /\ verdict' \in FailureCode
BY DEF ResearchInv, PipeInv, FailureCode, AtEnd, Calling

LEMMA FailLeaseKeeps ==
    ASSUME ResearchInv, NEW code \in FailureCode, FailLease(code), pc # "done",
           UNCHANGED <<now, scope, seen, req, turn, bill, pipe>>,
           usage' = usage \/ (/\ usage' \in [iterations : Nat, calls : Nat, tokens : Nat]
                              /\ usage'.calls <= MaxToolCalls /\ usage'.tokens <= TokenBudget
                              /\ usage.tokens <= usage'.tokens)
    PROVE  ResearchInv'
<1>1. /\ pc' = "done" /\ verdict' = code
      /\ thread' \in Seq(ToolCall) /\ \A i \in DOMAIN thread' : AuthorizedCall(thread'[i].call)
  BY ThreadsAfterFailure
<1>2. PipeInv' /\ verdict' \in FailureCode
  BY <1>1, VerdictIsCode
<1>3. ScopeInv'
  BY <1>1, ScopeStays
<1>4. SpendInv'
  <2>1. /\ usage.tokens \in Nat /\ bill.billed \in Nat /\ bill.metered \in Nat
        /\ usage'.tokens \in Nat /\ usage.tokens <= usage'.tokens
        /\ usage'.calls <= MaxToolCalls /\ usage'.tokens <= TokenBudget
    BY RowsAreTyped DEF ResearchInv, SpendInv
  <2> QED
    BY <1>1, <2>1, LimitsAreNumbers, SMTT(30) DEF ResearchInv, SpendInv, AtEnd, Calling, Evaluated
<1>5. ResearchTypeOK'
  <2>1. usage' \in [iterations : Nat, calls : Nat, tokens : Nat]
    BY DEF ResearchInv, ResearchTypeOK
  <2> QED
    BY <1>1, <1>2, <2>1 DEF ResearchInv, ResearchTypeOK, Stage, FailureCode
<1> QED
  BY <1>2, <1>3, <1>4, <1>5 DEF ResearchInv

-----------------------------------------------------------------------------
(* The clock and the start of an iteration.                                *)

LEMMA TickKeeps ==
    ASSUME ResearchInv, Tick PROVE ResearchInv'
<1>1. now' \in 0..MaxTime
  BY LimitsAreNumbers DEF ResearchInv, ResearchTypeOK, Tick
<1>2. UNCHANGED <<pc, scope, usage, req, turn, thread, seen, bill, pipe, verdict>>
  BY DEF Tick
<1>3. ResearchTypeOK'
  BY <1>1, <1>2 DEF ResearchInv, ResearchTypeOK
<1>4. SpendInv' /\ PipeInv'
  BY <1>2, SpendStays DEF ResearchInv, PipeInv
<1>5. ScopeInv'
  BY <1>2 DEF ResearchInv, ScopeInv, AuthorizedCall
<1> QED
  BY <1>3, <1>4, <1>5 DEF ResearchInv

LEMMA PreflightKeeps ==
    ASSUME ResearchInv, NEW items \in SUBSET Evidence, Preflight(items) PROVE ResearchInv'
<1>1. UNCHANGED <<now, usage, req, turn, bill, pipe>> /\ pc = "preflight"
  BY DEF Preflight
<1>2. CASE FailLease("conflict") /\ UNCHANGED <<scope, seen>>
  BY <1>1, <1>2, FailLeaseKeeps DEF FailureCode
<1>3. CASE /\ PointInTime(items) /\ pc' = "iterate" /\ scope' = items
           /\ seen' = [seen EXCEPT !.blocks = InventoryBlocks(items)]
           /\ UNCHANGED <<thread, verdict>>
  <2>1. InventoryBlocks(items) \in Nat
    <3>1. IsFiniteSet(items)
      BY FS_Subset
    <3>2. Cardinality(items) \in Nat
      BY <3>1, FS_CardinalityType
    <3> QED
      BY <3>2 DEF InventoryBlocks
  <2>2. /\ seen' \in [materialized : SUBSET Evidence, shown : SUBSET Evidence, blocks : Nat]
        /\ seen'.materialized = seen.materialized /\ seen'.shown = seen.shown
    <3>1. seen \in [materialized : SUBSET Evidence, shown : SUBSET Evidence, blocks : Nat]
      BY DEF ResearchInv, ResearchTypeOK
    <3> QED
      BY <1>3, <2>1, <3>1
  <2>3. ResearchTypeOK'
    BY <1>1, <1>3, <2>2 DEF ResearchInv, ResearchTypeOK, Stage
  <2>4. ScopeInv'
    <3>1. scope = {}
      BY <1>1 DEF ResearchInv, ScopeInv
    <3>2. DOMAIN thread = {} /\ seen.shown = {} /\ seen.materialized = {}
      BY <3>1 DEF ResearchInv, ScopeInv, AuthorizedCall
    <3>3. scope' \subseteq Available
      BY <1>3 DEF PointInTime
    <3> QED
      BY <1>1, <1>3, <2>2, <3>2, <3>3 DEF ResearchInv, ScopeInv
  <2>5. SpendInv'
    BY <1>1, <1>3, SpendStays DEF AtEnd, Calling, Evaluated
  <2>6. PipeInv'
    BY <1>1, <1>3 DEF ResearchInv, PipeInv, AtEnd, Calling
  <2> QED
    BY <2>3, <2>4, <2>5, <2>6 DEF ResearchInv
<1> QED
  BY <1>2, <1>3 DEF Preflight

LEMMA NewRequestIsTyped ==
    ASSUME NEW purpose \in {"none", "turn", "report"}
    PROVE  LET r == [NoRequest EXCEPT !.for = purpose]
           IN  r \in ModelCall /\ r.for = purpose /\ r.tokens = 0 /\ r.last = 0
<1>1. NoRequest \in [for : {"none", "turn", "report"}, repair : 0..MaxRepairs, retry : 0..MaxRetries,
                     tokens : 0..RouteTokens, last : 0..AnswerTokens, until : Nat]
      /\ NoRequest.tokens = 0 /\ NoRequest.last = 0 /\ NoRequest.for = "none"
  BY LimitsAreNumbers DEF NoRequest
<1> QED
  BY <1>1 DEF ModelCall

LEMMA NoRequestIsTyped ==
    NoRequest \in ModelCall /\ NoRequest.tokens = 0 /\ NoRequest.last = 0
BY LimitsAreNumbers DEF NoRequest, ModelCall

\* A call begins: nothing is spent on it yet.
LEMMA RequestBegins ==
    ASSUME ResearchInv, NEW purpose \in {"turn", "report"},
           pc \in {"iterate", "report"}, pc = "report" \/ purpose = "turn",
           pc' = "request", req' = NewRequest(purpose),
           UNCHANGED <<now, scope, usage, turn, thread, seen, bill, pipe, verdict>>
    PROVE  ResearchInv'
<1>1. req' \in ModelCall /\ req'.for = purpose /\ req'.tokens = 0 /\ req'.last = 0
  BY NewRequestIsTyped DEF NewRequest
<1>2. ResearchTypeOK'
  BY <1>1 DEF ResearchInv, ResearchTypeOK, Stage
<1>3. ScopeInv'
  BY ScopeStays DEF ResearchInv, ScopeInv
<1>4. SpendInv'
  BY <1>1, RowsAreTyped, LimitsAreNumbers DEF ResearchInv, SpendInv, AtEnd, Calling, Evaluated
<1>5. PipeInv'
  BY <1>1 DEF ResearchInv, PipeInv, AtEnd, Calling
<1> QED
  BY <1>2, <1>3, <1>4, <1>5 DEF ResearchInv

LEMMA BeginIterationKeeps ==
    ASSUME ResearchInv, BeginIteration PROVE ResearchInv'
<1>1. UNCHANGED <<now, scope, usage, turn, seen, bill, pipe>> /\ pc = "iterate"
  BY DEF BeginIteration
<1>2. CASE \E code \in FailureCode : FailLease(code) /\ UNCHANGED req
  BY <1>1, <1>2, FailLeaseKeeps
<1>3. CASE pc' = "request" /\ req' = NewRequest("turn") /\ UNCHANGED <<thread, verdict>>
  BY <1>1, <1>3, RequestBegins
<1>4. \/ FailLease("budget_exhausted") /\ UNCHANGED req
      \/ FailLease("deadline_exceeded") /\ UNCHANGED req
      \/ pc' = "request" /\ req' = NewRequest("turn") /\ UNCHANGED <<thread, verdict>>
  BY DEF BeginIteration
<1>5. "budget_exhausted" \in FailureCode /\ "deadline_exceeded" \in FailureCode
  BY DEF FailureCode
<1> QED
  BY <1>2, <1>3, <1>4, <1>5

-----------------------------------------------------------------------------
(* The model call.                                                         *)

\* A call ends without an answer that can be used: the tracker learns what the
\* evaluated answers cost, and at most the last one is lost to it.
LEMMA CallFailsKeeps ==
    ASSUME ResearchInv, pc \in Calling, NEW tokens \in Nat, NEW code \in FailureCode,
           CallFails(tokens, code), UNCHANGED <<now, scope, usage, turn, seen>>,
           bill.billed <= bill.metered + tokens + AnswerTokens
    PROVE  ResearchInv'
<1>1. /\ bill.billed \in Nat /\ bill.metered \in Nat /\ usage.tokens \in Nat
      /\ bill \in [billed : Nat, metered : Nat]
  BY RowsAreTyped DEF ResearchInv, ResearchTypeOK
<1>2. /\ bill'.billed = bill.billed /\ bill'.metered = bill.metered + tokens
      /\ bill' \in [billed : Nat, metered : Nat]
  BY <1>1 DEF CallFails, Metered
<1>3. req' \in ModelCall /\ req'.tokens = 0 /\ req'.last = 0
  BY NoRequestIsTyped DEF CallFails
<1>4. ~pipe.report /\ pipe.status = "none" /\ pipe.issues \subseteq {"tradingagents"} /\ verdict = "none"
  BY DEF ResearchInv, PipeInv, Calling, AtEnd
<1>5. ASSUME pc' \in AtEnd PROVE SpendInv'
  BY <1>1, <1>2, <1>3, <1>5, LimitsAreNumbers
     DEF ResearchInv, SpendInv, AtEnd, Calling, Evaluated
<1>6. CASE FailLease(code) /\ UNCHANGED pipe
  <2>1. /\ pc' = "done" /\ verdict' = code
        /\ thread' \in Seq(ToolCall) /\ \A i \in DOMAIN thread' : AuthorizedCall(thread'[i].call)
    BY <1>6, ThreadsAfterFailure
  <2>2. ScopeInv'
    BY <1>6, <2>1, ScopeStays
  <2>3. PipeInv' /\ verdict' \in FailureCode
    BY <1>4, <1>6, <2>1 DEF ResearchInv, PipeInv, FailureCode, AtEnd, Calling
  <2>4. ResearchTypeOK'
    BY <1>2, <1>3, <1>6, <2>1, <2>3 DEF ResearchInv, ResearchTypeOK, Stage, FailureCode
  <2> QED
    BY <1>5, <2>1, <2>2, <2>3, <2>4 DEF ResearchInv, AtEnd
<1>7. CASE /\ pipe' = [pipe EXCEPT !.status = "failed", !.issues = @ \cup {"report"}]
           /\ pc' = "forecast" /\ UNCHANGED <<thread, verdict>>
  <2>1. /\ pipe' \in Result /\ ~pipe'.report /\ pipe'.status = "failed" /\ pipe'.cited = pipe.cited
        /\ pipe'.issues = pipe.issues \cup {"report"}
    <3>1. pipe \in Result
      BY DEF ResearchInv, ResearchTypeOK
    <3> QED
      BY <1>4, <1>7, <3>1 DEF Result, Issue
  <2>2. ScopeInv'
    BY <1>7, <2>1, ScopeStays DEF ResearchInv, ScopeInv
  <2>3. PipeInv'
    BY <1>4, <1>7, <2>1 DEF PipeInv, AtEnd, Calling
  <2>4. ResearchTypeOK'
    BY <1>2, <1>3, <1>7, <2>1 DEF ResearchInv, ResearchTypeOK, Stage
  <2> QED
    BY <1>5, <1>7, <2>2, <2>3, <2>4 DEF ResearchInv, AtEnd
<1> QED
  BY <1>6, <1>7 DEF CallFails

\* During a call the bill is ahead of the tracker by what the call has cost.
LEMMA BilledSoFar ==
    ASSUME ResearchInv, pc \in Calling
    PROVE  /\ bill.billed = bill.metered + req.tokens + req.last
           /\ bill.billed = usage.tokens + req.tokens + req.last
           /\ pc # "answered" => req.last = 0
           /\ bill.billed <= bill.metered + req.tokens + AnswerTokens
BY DEF ResearchInv, SpendInv, Calling, AtEnd, Evaluated

\* A step within a call that changes neither its cost nor the bill.
LEMMA CallGoesOn ==
    ASSUME ResearchInv, pc \in Calling, pc' \in Calling, req' \in ModelCall, req'.for = req.for,
           req'.tokens = req.tokens, req'.last = req.last, pc # "answered",
           UNCHANGED <<now, scope, usage, turn, thread, seen, bill, pipe, verdict>>
    PROVE  ResearchInv'
<1>1. ResearchTypeOK'
  BY DEF ResearchInv, ResearchTypeOK, Calling, Stage
<1>2. ScopeInv'
  BY ScopeStays DEF ResearchInv, ScopeInv, Calling
<1>3. SpendInv'
  BY RowsAreTyped, LimitsAreNumbers DEF ResearchInv, SpendInv, AtEnd, Calling, Evaluated
<1>4. PipeInv'
  BY DEF ResearchInv, PipeInv, AtEnd, Calling
<1> QED
  BY <1>1, <1>2, <1>3, <1>4 DEF ResearchInv

LEMMA SmallerOfTwo ==
    ASSUME NEW a \in Nat, NEW b \in Nat PROVE Min({a, b}) \in Nat
<1>1. \E x \in {a, b} : \A y \in {a, b} : x <= y
  OBVIOUS
<1> QED
  BY <1>1 DEF Min

LEMMA SendKeeps ==
    ASSUME ResearchInv, Send PROVE ResearchInv'
<1>1. UNCHANGED <<now, scope, usage, turn, seen>> /\ pc = "request" /\ pc \in Calling
  BY DEF Send, Calling
<1>2. CASE CallFails(req.tokens, "deadline_exceeded")
  BY <1>1, <1>2, BilledSoFar, RowsAreTyped, CallFailsKeeps DEF FailureCode
<1>3. CASE /\ pc' = "sending" /\ req' = [req EXCEPT !.until = Min({now + Timeout, Deadline})]
           /\ UNCHANGED <<bill, pipe, thread, verdict>>
  <2>1. PICK u \in Nat : u = Min({now + Timeout, Deadline})
    <3>1. now + Timeout \in Nat /\ Deadline \in Nat
      BY RowsAreTyped, LimitsAreNumbers
    <3> QED
      BY <3>1, SmallerOfTwo
  <2>2. req' = [req EXCEPT !.until = u] /\ req \in ModelCall
    BY <1>3, <2>1 DEF ResearchInv, ResearchTypeOK
  <2>3. /\ req' \in ModelCall /\ req'.for = req.for /\ req'.tokens = req.tokens
        /\ req'.last = req.last
    BY <2>2 DEF ModelCall
  <2> QED
    BY <1>1, <1>3, <2>3, CallGoesOn DEF Calling
<1> QED
  BY <1>2, <1>3 DEF Send

LEMMA ReceiveAnswerKeeps ==
    ASSUME ResearchInv, NEW tokens \in 1..AnswerTokens, ReceiveAnswer(tokens) PROVE ResearchInv'
<1>1. /\ pc = "sending" /\ pc' = "answered" /\ bill' = [bill EXCEPT !.billed = @ + tokens]
      /\ req' = [req EXCEPT !.last = tokens]
      /\ UNCHANGED <<now, scope, usage, turn, thread, seen, pipe, verdict>>
  BY DEF ReceiveAnswer
<1>2. /\ req \in ModelCall /\ bill \in [billed : Nat, metered : Nat]
      /\ tokens \in 0..AnswerTokens /\ tokens \in Nat
  BY LimitsAreNumbers DEF ResearchInv, ResearchTypeOK
<1>3. req' \in ModelCall /\ req'.for = req.for /\ req'.tokens = req.tokens /\ req'.last = tokens
  BY <1>1, <1>2 DEF ModelCall
<1>4. /\ bill' \in [billed : Nat, metered : Nat] /\ bill'.metered = bill.metered
      /\ bill'.billed = bill.billed + tokens
  BY <1>1, <1>2
<1>5. ResearchTypeOK'
  BY <1>1, <1>3, <1>4 DEF ResearchInv, ResearchTypeOK, Stage
<1>6. ScopeInv'
  BY <1>1, ScopeStays DEF ResearchInv, ScopeInv
<1>7. SpendInv'
  <2>1. /\ bill.billed = bill.metered + req.tokens /\ bill.billed = usage.tokens + req.tokens
    BY <1>1, BilledSoFar, RowsAreTyped DEF Calling
  <2>2. /\ bill'.billed = bill'.metered + req'.tokens + req'.last
        /\ bill'.billed = usage'.tokens + req'.tokens + req'.last
        /\ req'.tokens <= RouteTokens /\ req'.last <= AnswerTokens
    BY <1>1, <1>2, <1>3, <1>4, <2>1, RowsAreTyped
  <2>3. usage' = usage /\ usage.tokens <= TokenBudget /\ usage.calls <= MaxToolCalls
    BY <1>1 DEF ResearchInv, SpendInv
  <2>4. /\ bill'.metered \in Nat /\ req'.tokens \in Nat /\ req'.last \in Nat /\ usage'.tokens \in Nat
    BY <1>2, <1>3, <1>4, <2>3, RowsAreTyped
  <2> QED
    BY <1>1, <2>2, <2>3, <2>4, LimitsAreNumbers DEF SpendInv, AtEnd, Calling, Evaluated
<1>8. PipeInv'
  BY <1>1, <1>3, <1>4 DEF ResearchInv, PipeInv, AtEnd, Calling
<1> QED
  BY <1>5, <1>6, <1>7, <1>8 DEF ResearchInv

LEMMA ReceiveNothingKeeps ==
    ASSUME ResearchInv, ReceiveTransient \/ ReceiveRefusal \/ AnswerUnusable PROVE ResearchInv'
<1>1. UNCHANGED <<now, scope, usage, turn, seen>> /\ pc \in Calling
  BY DEF ReceiveTransient, ReceiveRefusal, AnswerUnusable, Calling
<1>2. CASE \E code \in FailureCode : CallFails(req.tokens, code)
  BY <1>1, <1>2, BilledSoFar, RowsAreTyped, CallFailsKeeps
<1>3. CASE /\ pc = "sending" /\ req.retry < MaxRetries
           /\ pc' = "request" /\ req' = [req EXCEPT !.retry = @ + 1]
           /\ UNCHANGED <<bill, pipe, thread, verdict>>
  <2>1. /\ req' \in ModelCall /\ req'.for = req.for /\ req'.tokens = req.tokens
        /\ req'.last = req.last
    <3>1. req \in ModelCall
      BY DEF ResearchInv, ResearchTypeOK
    <3>2. req.retry + 1 \in 0..MaxRetries
      BY <1>3, <3>1, LimitsAreNumbers DEF ModelCall
    <3> QED
      BY <1>3, <3>1, <3>2 DEF ModelCall
  <2> QED
    BY <1>1, <1>3, <2>1, CallGoesOn DEF Calling
<1>4. "data_unavailable" \in FailureCode /\ "model_output_invalid" \in FailureCode
  BY DEF FailureCode
<1> QED
  BY <1>2, <1>3, <1>4 DEF ReceiveTransient, ReceiveRefusal, AnswerUnusable

LEMMA RequestAnswered ==
    ASSUME NEW r \in ModelCall, NEW tokens \in 0..RouteTokens
    PROVE  LET x == [r EXCEPT !.tokens = tokens, !.last = 0, !.until = 0]
           IN  x \in ModelCall /\ x.for = r.for /\ x.tokens = tokens /\ x.last = 0
<1>1. 0 \in 0..AnswerTokens /\ 0 \in Nat
  BY LimitsAreNumbers
<1> QED
  BY <1>1 DEF ModelCall

\* An accepted answer: the tracker now knows the whole call.
LEMMA AnswerAccounted ==
    ASSUME ResearchInv, NEW cost \in 0..RouteTokens,
           bill.billed = bill.metered + cost, bill.billed = usage.tokens + cost,
           bill'.billed = bill.billed, bill'.metered = bill.metered + cost,
           req'.tokens = cost, req'.last = 0, usage' = usage, pc' \in Evaluated
    PROVE  SpendInv'
<1>1. /\ usage.tokens \in Nat /\ cost \in Nat /\ cost <= RouteTokens /\ bill.metered \in Nat
      /\ RouteTokens \in Nat /\ AnswerTokens \in Nat
  BY LimitsAreNumbers, RowsAreTyped
<1>2. /\ bill'.billed = usage'.tokens + req'.tokens + req'.last
      /\ bill'.billed = bill'.metered
  BY <1>1
<1>3. /\ bill'.billed <= usage'.tokens + RouteTokens + AnswerTokens
      /\ bill'.billed <= bill'.metered + req'.tokens + AnswerTokens
  BY <1>1
<1>4. usage'.tokens <= TokenBudget /\ usage'.calls <= MaxToolCalls
  BY DEF ResearchInv, SpendInv
<1> QED
  BY <1>2, <1>3, <1>4 DEF SpendInv, AtEnd, Evaluated

LEMMA AnswerAccepted ==
    ASSUME ResearchInv, pc = "answered", NEW cost \in 0..RouteTokens,
           bill.billed = bill.metered + cost, bill.billed = usage.tokens + cost,
           bill' \in [billed : Nat, metered : Nat], bill'.billed = bill.billed,
           bill'.metered = bill.metered + cost,
           req' \in ModelCall, req'.for = req.for, req'.tokens = cost, req'.last = 0,
           pc' = IF req.for = "turn" THEN "turned" ELSE "generated",
           turn' \in [action : {"none", "final", "tools", "report"}, cited : SUBSET Evidence,
                      calls : Seq(Plan)],
           UNCHANGED <<now, scope, usage, seen, pipe, thread, verdict>>
    PROVE  ResearchInv'
<1>4. ResearchTypeOK'
  BY DEF ResearchInv, ResearchTypeOK, Stage
<1>5. ScopeInv'
  BY ScopeStays DEF ResearchInv, ScopeInv
<1>6. SpendInv'
  BY AnswerAccounted DEF Evaluated
<1>7. PipeInv'
  BY DEF ResearchInv, PipeInv, AtEnd, Calling
<1> QED
  BY <1>4, <1>5, <1>6, <1>7 DEF ResearchInv

LEMMA TurnsAreTyped ==
    /\ Turn \subseteq [action : {"none", "final", "tools", "report"}, cited : SUBSET Evidence,
                       calls : Seq(Plan)]
    /\ [action : {"report"}, cited : SUBSET Evidence, calls : {<<>>}]
         \subseteq [action : {"none", "final", "tools", "report"}, cited : SUBSET Evidence,
                    calls : Seq(Plan)]
<1>1. UNION {[1..n -> Plan] : n \in 1..MaxBatch} \subseteq Seq(Plan)
  <2> SUFFICES ASSUME NEW n \in 1..MaxBatch, NEW s \in [1..n -> Plan] PROVE s \in Seq(Plan)
    OBVIOUS
  <2>1. n \in Nat
    BY LimitsAreNumbers
  <2> QED
    BY <2>1, SMTT(30)
<1>2. <<>> \in Seq(Plan) /\ {} \in SUBSET Evidence
  OBVIOUS
<1>3. [action: {"final"}, cited: SUBSET Evidence, calls: {<<>>}]
        \subseteq [action : {"none", "final", "tools", "report"}, cited : SUBSET Evidence,
                   calls : Seq(Plan)]
  BY <1>2
<1>4. [action: {"report"}, cited: SUBSET Evidence, calls: {<<>>}]
        \subseteq [action : {"none", "final", "tools", "report"}, cited : SUBSET Evidence,
                   calls : Seq(Plan)]
  BY <1>2
<1> DEFINE Batches == UNION {[1..n -> Plan] : n \in 1..MaxBatch}
<1>5. [action: {"tools"}, cited: {{}}, calls: Batches]
        \subseteq [action : {"none", "final", "tools", "report"}, cited : SUBSET Evidence,
                   calls : Seq(Plan)]
  <2>1. Batches \subseteq Seq(Plan)
    BY <1>1
  <2> HIDE DEF Batches
  <2> QED
    BY <1>2, <2>1
<1> QED
  BY <1>3, <1>4, <1>5 DEF Turn

LEMMA EvaluateAnswerKeeps ==
    ASSUME ResearchInv, NEW answer \in {"valid", "invalid", "unrepairable"}, EvaluateAnswer(answer)
    PROVE  ResearchInv'
<1> DEFINE tokens == req.tokens + req.last
<1>1. UNCHANGED <<now, scope, usage, seen>> /\ pc = "answered" /\ pc \in Calling
  BY DEF EvaluateAnswer, Calling
<1>2. tokens \in Nat /\ bill.billed = bill.metered + tokens /\ bill.metered \in Nat
  BY <1>1, BilledSoFar, RowsAreTyped
<1>3. CASE \E code \in FailureCode : CallFails(tokens, code) /\ UNCHANGED turn
  <2>1. bill.billed <= bill.metered + tokens + AnswerTokens
    BY <1>2, LimitsAreNumbers
  <2> HIDE DEF tokens
  <2> QED
    BY <1>1, <1>2, <1>3, <2>1, CallFailsKeeps
<1>4. CASE /\ tokens <= RouteTokens /\ req.repair < MaxRepairs /\ UNCHANGED turn
           /\ req' = [req EXCEPT !.repair = @ + 1, !.retry = 0,
                                 !.tokens = tokens, !.last = 0, !.until = 0]
           /\ pc' = "request" /\ UNCHANGED <<bill, pipe, thread, verdict>>
  <2>1. PICK n \in 0..RouteTokens : n = tokens
    BY <1>2, <1>4, LimitsAreNumbers
  <2>2. req' \in ModelCall /\ req'.for = req.for /\ req'.tokens = n /\ req'.last = 0
    <3>1. req \in ModelCall
      BY DEF ResearchInv, ResearchTypeOK
    <3>2. req.repair + 1 \in 0..MaxRepairs /\ 0 \in 0..MaxRetries /\ 0 \in 0..AnswerTokens
      BY <1>4, <3>1, LimitsAreNumbers DEF ModelCall
    <3>3. req' = [req EXCEPT !.repair = @ + 1, !.retry = 0, !.tokens = n, !.last = 0, !.until = 0]
      BY <1>4, <2>1
    <3> QED
      BY <3>1, <3>2, <3>3 DEF ModelCall
  <2>3. ResearchTypeOK'
    BY <1>1, <1>4, <2>2 DEF ResearchInv, ResearchTypeOK, Stage
  <2>4. ScopeInv'
    BY <1>1, <1>4, ScopeStays DEF ResearchInv, ScopeInv
  <2>5. SpendInv'
    <3>1. /\ bill'.billed = bill'.metered + req'.tokens /\ bill'.billed = usage'.tokens + req'.tokens
          /\ usage' = usage /\ bill' = bill /\ n \in Nat /\ n <= RouteTokens
      BY <1>1, <1>2, <1>4, <2>1, <2>2, BilledSoFar, RowsAreTyped, LimitsAreNumbers
    <3>2. usage.tokens <= TokenBudget /\ usage.calls <= MaxToolCalls /\ usage.tokens \in Nat
      BY RowsAreTyped DEF ResearchInv, SpendInv
    <3> QED
      BY <1>2, <1>4, <2>2, <3>1, <3>2, LimitsAreNumbers DEF SpendInv, AtEnd, Calling, Evaluated
  <2>6. PipeInv'
    BY <1>1, <1>4, <2>2 DEF ResearchInv, PipeInv, AtEnd, Calling
  <2> QED
    BY <2>3, <2>4, <2>5, <2>6 DEF ResearchInv
<1>5. CASE /\ tokens <= RouteTokens /\ bill' = Metered(tokens)
           /\ req' = [req EXCEPT !.tokens = tokens, !.last = 0, !.until = 0]
           /\ pc' = IF req.for = "turn" THEN "turned" ELSE "generated"
           /\ turn' \in IF req.for = "turn" THEN Turn
                        ELSE [action: {"report"}, cited: SUBSET Evidence, calls: {<<>>}]
           /\ UNCHANGED <<pipe, thread, verdict>>
  <2>1. PICK n \in 0..RouteTokens : n = tokens
    BY <1>2, <1>5, LimitsAreNumbers
  <2>2. turn' \in [action : {"none", "final", "tools", "report"}, cited : SUBSET Evidence,
                   calls : Seq(Plan)]
    BY <1>5, TurnsAreTyped
  <2>3. /\ req' \in ModelCall /\ req'.for = req.for /\ req'.tokens = n /\ req'.last = 0
        /\ bill' \in [billed : Nat, metered : Nat] /\ bill'.billed = bill.billed
        /\ bill'.metered = bill.metered + n
    <3>1. /\ req \in ModelCall /\ bill \in [billed : Nat, metered : Nat] /\ n \in Nat
          /\ req' = [req EXCEPT !.tokens = n, !.last = 0, !.until = 0]
          /\ bill' = [bill EXCEPT !.metered = @ + n]
      BY <1>5, <2>1, LimitsAreNumbers DEF ResearchInv, ResearchTypeOK, Metered
    <3>2. bill' \in [billed : Nat, metered : Nat] /\ bill'.billed = bill.billed
          /\ bill'.metered = bill.metered + n
      BY <3>1
    <3>3. req' \in ModelCall /\ req'.for = req.for /\ req'.tokens = n /\ req'.last = 0
      BY <3>1, RequestAnswered
    <3> QED
      BY <3>2, <3>3
  <2>4. bill.billed = bill.metered + n /\ bill.billed = usage.tokens + n
    BY <1>1, <1>2, <2>1, BilledSoFar, RowsAreTyped
  <2> QED
    BY <1>1, <1>5, <2>1, <2>2, <2>3, <2>4, AnswerAccepted
<1>6. \/ \E code \in {"budget_exhausted", "deadline_exceeded", "model_output_invalid"} :
            CallFails(tokens, code) /\ UNCHANGED turn
      \/ /\ tokens <= RouteTokens /\ req.repair < MaxRepairs /\ UNCHANGED turn
         /\ req' = [req EXCEPT !.repair = @ + 1, !.retry = 0,
                               !.tokens = tokens, !.last = 0, !.until = 0]
         /\ pc' = "request" /\ UNCHANGED <<bill, pipe, thread, verdict>>
      \/ /\ tokens <= RouteTokens /\ bill' = Metered(tokens)
         /\ req' = [req EXCEPT !.tokens = tokens, !.last = 0, !.until = 0]
         /\ pc' = IF req.for = "turn" THEN "turned" ELSE "generated"
         /\ turn' \in IF req.for = "turn" THEN Turn
                      ELSE [action: {"report"}, cited: SUBSET Evidence, calls: {<<>>}]
         /\ UNCHANGED <<pipe, thread, verdict>>
  <2>1. CASE tokens > RouteTokens
    BY <2>1 DEF EvaluateAnswer
  <2>2. CASE tokens <= RouteTokens /\ Passed
    BY <1>2, <2>2, LimitsAreNumbers DEF EvaluateAnswer
  <2>3. CASE tokens <= RouteTokens /\ ~Passed /\ answer = "unrepairable"
    BY <1>2, <2>3, LimitsAreNumbers DEF EvaluateAnswer
  <2>4. CASE tokens <= RouteTokens /\ ~Passed /\ answer = "invalid"
    BY <1>2, <2>4, LimitsAreNumbers DEF EvaluateAnswer
  <2>5. CASE tokens <= RouteTokens /\ ~Passed /\ answer = "valid"
    BY <1>2, <2>5, LimitsAreNumbers DEF EvaluateAnswer
  <2> QED
    BY <1>2, <2>1, <2>2, <2>3, <2>4, <2>5, LimitsAreNumbers, SMTT(30)
<1>7. {"budget_exhausted", "deadline_exceeded", "model_output_invalid"} \subseteq FailureCode
  BY DEF FailureCode
<1> HIDE DEF tokens
<1> QED
  BY <1>3, <1>4, <1>5, <1>6, <1>7

-----------------------------------------------------------------------------
(* The end of a turn and the tools' threads.                               *)

LEMMA WithinBudget ==
    ASSUME NEW u \in [iterations : Nat, calls : Nat, tokens : Nat], ~Exceeded(u)
    PROVE  u.calls <= MaxToolCalls /\ u.tokens <= TokenBudget
BY LimitsAreNumbers DEF Exceeded

\* The turn's cost is consumed, or the lease is over.
LEMMA TurnAccounted ==
    ASSUME ResearchInv, pc = "turned", req' = NoRequest, UNCHANGED bill,
           usage' \in [iterations : Nat, calls : Nat, tokens : Nat],
           usage'.calls <= MaxToolCalls, usage'.tokens <= TokenBudget,
           \/ usage'.tokens = usage.tokens + req.tokens
           \/ usage'.tokens = usage.tokens /\ pc' \in AtEnd,
           pc' \in AtEnd \cup {"pipeline", "collect"}
    PROVE  SpendInv'
<1>1. req'.tokens = 0 /\ req'.last = 0
  BY NoRequestIsTyped
<1>2. /\ usage.tokens \in Nat /\ req.tokens \in Nat /\ req.tokens <= RouteTokens
      /\ bill.billed \in Nat /\ bill.metered \in Nat /\ RouteTokens \in Nat /\ AnswerTokens \in Nat
  BY RowsAreTyped, LimitsAreNumbers
<1>3. bill.billed = bill.metered /\ bill.billed = usage.tokens + req.tokens
  <2>1. /\ bill.billed = bill.metered /\ bill.billed = usage.tokens + req.tokens + req.last
        /\ req.last = 0
    BY DEF ResearchInv, SpendInv, AtEnd, Evaluated
  <2> QED
    BY <1>2, <2>1
<1>4. bill.billed <= usage'.tokens + RouteTokens + AnswerTokens
  BY <1>2, <1>3
<1>5. bill.billed <= bill.metered + req'.tokens + AnswerTokens
  BY <1>1, <1>2, <1>3
<1>6. pc' \in AtEnd \/ bill.billed = usage'.tokens + req'.tokens + req'.last
  BY <1>1, <1>2, <1>3
<1>7. bill.billed = bill.metered + req'.tokens + req'.last
  BY <1>1, <1>2, <1>3
<1>8. pc' \notin Evaluated
  BY DEF AtEnd, Evaluated
<1>9. bill' = bill
  OBVIOUS
<1> HIDE DEF AtEnd, Evaluated
<1> QED
  BY <1>1, <1>4, <1>5, <1>6, <1>7, <1>8, <1>9 DEF SpendInv

LEMMA EndTurnFails ==
    ASSUME ResearchInv, pc = "turned", NEW code \in FailureCode, FailLease(code), req' = NoRequest,
           UNCHANGED <<now, scope, turn, seen, bill, pipe>>,
           usage' \in [iterations : Nat, calls : Nat, tokens : Nat],
           usage'.calls <= MaxToolCalls, usage'.tokens <= TokenBudget,
           usage'.tokens = usage.tokens + req.tokens \/ usage'.tokens = usage.tokens
    PROVE  ResearchInv'
<1>1. /\ pc' = "done" /\ verdict' = code
      /\ thread' \in Seq(ToolCall) /\ \A i \in DOMAIN thread' : AuthorizedCall(thread'[i].call)
  BY ThreadsAfterFailure
<1>2. PipeInv' /\ verdict' \in FailureCode
  BY <1>1, VerdictIsCode
<1>3. ScopeInv'
  BY <1>1, ScopeStays
<1>4. SpendInv'
  BY <1>1, TurnAccounted DEF AtEnd
<1>5. ResearchTypeOK'
  BY <1>1, <1>2, NoRequestIsTyped DEF ResearchInv, ResearchTypeOK, Stage, FailureCode
<1> QED
  BY <1>2, <1>3, <1>4, <1>5 DEF ResearchInv

\* The batch is submitted as it was authorized.
LEMMA ThreadsSubmitted ==
    ASSUME ResearchInv, BatchAllowed(turn.calls),
           thread' = [i \in DOMAIN turn.calls |-> Thread(turn.calls[i])]
    PROVE  thread' \in Seq(ToolCall) /\ \A i \in DOMAIN thread' : AuthorizedCall(thread'[i].call)
<1>1. turn.calls \in Seq(Plan) /\ now + ToolTimeout \in Nat
  BY RowsAreTyped, LimitsAreNumbers, SMTT(30) DEF ResearchInv, ResearchTypeOK
<1>2. ASSUME NEW i \in DOMAIN turn.calls
      PROVE  Thread(turn.calls[i]) \in ToolCall /\ Thread(turn.calls[i]).call = turn.calls[i]
  <2>1. turn.calls[i] \in Plan
    BY <1>1, SMTT(30)
  <2> QED
    BY <1>1, <2>1 DEF Thread, ToolCall
<1>3. DOMAIN thread' = DOMAIN turn.calls
      /\ \A i \in DOMAIN turn.calls : thread'[i] = Thread(turn.calls[i])
  OBVIOUS
<1>4. thread' \in Seq(ToolCall)
  <2>1. \A i \in DOMAIN turn.calls : thread'[i] \in ToolCall
    BY <1>2, <1>3
  <2>2. PICK s \in Seq(Plan) : s = turn.calls
    BY <1>1
  <2>3. DOMAIN thread' = DOMAIN s /\ thread' = [i \in DOMAIN s |-> thread'[i]]
    BY <1>3, <2>2
  <2> QED
    BY <2>1, <2>2, <2>3, MappedThreads
<1> QED
  BY <1>2, <1>3, <1>4 DEF BatchAllowed

LEMMA EndTurnKeeps ==
    ASSUME ResearchInv, EndTurn PROVE ResearchInv'
<1> DEFINE spent == Consumed(usage, 1, 0, req.tokens)
           reserved == Consumed(spent, 0, Len(turn.calls), 0)
           Typed == [iterations : Nat, calls : Nat, tokens : Nat]
<1>1. /\ pc = "turned" /\ req' = NoRequest /\ UNCHANGED <<now, scope, turn, seen, bill>>
      /\ verdict = "none"
  BY DEF EndTurn, ResearchInv, PipeInv
<1>2. usage \in Typed /\ usage.calls <= MaxToolCalls /\ usage.tokens <= TokenBudget
  BY DEF ResearchInv, ResearchTypeOK, SpendInv
<1>3. spent \in Typed /\ spent.tokens = usage.tokens + req.tokens
  <2>1. req.tokens \in Nat
    BY RowsAreTyped
  <2> QED
    BY <1>2, <2>1 DEF Consumed
<1>4. reserved \in Typed /\ reserved.tokens = usage.tokens + req.tokens
  <2>1. turn.calls \in Seq(Plan)
    BY DEF ResearchInv, ResearchTypeOK
  <2>2. PICK n \in Nat : n = Len(turn.calls)
    <3>1. \A s \in Seq(Plan) : Len(s) \in Nat
      OBVIOUS
    <3> QED
      BY <2>1, <3>1
  <2>3. PICK x \in Typed : x = spent
    BY <1>3
  <2> HIDE DEF spent
  <2>4. Consumed(x, 0, n, 0) \in Typed /\ Consumed(x, 0, n, 0).tokens = x.tokens
    BY DEF Consumed
  <2>5. x.tokens \in Nat /\ x.tokens = usage.tokens + req.tokens
    BY <1>3, <2>3
  <2>6. reserved = Consumed(x, 0, n, 0)
    BY <2>2, <2>3
  <2> HIDE DEF reserved
  <2> QED
    BY <2>3, <2>4, <2>5, <2>6
<1>5. \/ \E code \in {"deadline_exceeded", "budget_exhausted"} :
            FailLease(code) /\ UNCHANGED <<usage, pipe>>
      \/ /\ ~Exceeded(spent) /\ usage' = spent
         /\ \/ \E code \in {"model_output_invalid", "capability_denied", "budget_exhausted"} :
                  FailLease(code) /\ UNCHANGED pipe
            \/ /\ CitationsMaterialized(turn.cited) /\ pipe' = [pipe EXCEPT !.cited = turn.cited]
               /\ pc' = "pipeline" /\ UNCHANGED <<thread, verdict>>
      \/ /\ ~Exceeded(reserved) /\ usage' = reserved /\ BatchAllowed(turn.calls)
         /\ thread' = [i \in DOMAIN turn.calls |-> Thread(turn.calls[i])]
         /\ pc' = "collect" /\ UNCHANGED <<pipe, verdict>>
  <2> DEFINE allowed == BatchAllowed(turn.calls)
  <2> HIDE DEF spent, reserved, Typed
  <2>1. CASE Late
    BY <2>1 DEF EndTurn, spent, reserved
  <2>2. CASE ~Late /\ Exceeded(spent)
    BY <2>2 DEF EndTurn, spent, reserved
  <2>3. CASE ~Late /\ ~Exceeded(spent) /\ turn.action = "final"
    BY <2>3 DEF EndTurn, spent, reserved
  <2>4. CASE ~Late /\ ~Exceeded(spent) /\ turn.action # "final" /\ ~allowed
    BY <2>4 DEF EndTurn, spent, reserved
  <2>5. CASE ~Late /\ ~Exceeded(spent) /\ turn.action # "final" /\ allowed /\ Exceeded(reserved)
    BY <2>5 DEF EndTurn, spent, reserved
  <2>6. CASE ~Late /\ ~Exceeded(spent) /\ turn.action # "final" /\ allowed /\ ~Exceeded(reserved)
    BY <2>6 DEF EndTurn, spent, reserved
  <2> QED
    BY <2>1, <2>2, <2>3, <2>4, <2>5, <2>6
<1>6. {"deadline_exceeded", "budget_exhausted", "model_output_invalid", "capability_denied"}
        \subseteq FailureCode
  BY DEF FailureCode
<1>7. CASE \E code \in FailureCode : FailLease(code) /\ UNCHANGED <<usage, pipe>>
  BY <1>1, <1>2, <1>7, EndTurnFails
<1>8. CASE /\ ~Exceeded(spent) /\ usage' = spent
           /\ \E code \in FailureCode : FailLease(code) /\ UNCHANGED pipe
  <2>1. usage' \in Typed /\ usage'.tokens = usage.tokens + req.tokens
        /\ usage'.calls <= MaxToolCalls /\ usage'.tokens <= TokenBudget
    BY <1>3, <1>8, WithinBudget
  <2> QED
    BY <1>1, <1>8, <2>1, EndTurnFails
<1>9. CASE /\ ~Exceeded(spent) /\ usage' = spent
           /\ CitationsMaterialized(turn.cited) /\ pipe' = [pipe EXCEPT !.cited = turn.cited]
           /\ pc' = "pipeline" /\ UNCHANGED <<thread, verdict>>
  <2>1. usage' \in Typed /\ usage'.tokens = usage.tokens + req.tokens
        /\ usage'.calls <= MaxToolCalls /\ usage'.tokens <= TokenBudget
    BY <1>3, <1>9, WithinBudget
  <2>2. pipe \in Result /\ turn.cited \in SUBSET Evidence
    BY DEF ResearchInv, ResearchTypeOK
  <2>3. /\ pipe' \in Result /\ pipe'.cited = turn.cited /\ pipe'.report = pipe.report
        /\ pipe'.status = pipe.status /\ pipe'.issues = pipe.issues
        /\ pipe'.opinion = pipe.opinion /\ pipe'.research = pipe.research
    BY <1>9, <2>2 DEF Result
  <2>4. SpendInv'
    BY <1>1, <1>9, <2>1, TurnAccounted
  <2>5. ScopeInv'
    BY <1>1, <1>9, <2>3 DEF ResearchInv, ScopeInv, CitationsMaterialized, AuthorizedCall
  <2>6. PipeInv'
    BY <1>1, <1>9, <2>3 DEF ResearchInv, PipeInv, AtEnd, Calling
  <2>7. ResearchTypeOK'
    BY <1>1, <1>9, <2>1, <2>3, NoRequestIsTyped DEF ResearchInv, ResearchTypeOK, Stage
  <2> QED
    BY <2>4, <2>5, <2>6, <2>7 DEF ResearchInv
<1>10. CASE /\ ~Exceeded(reserved) /\ usage' = reserved /\ BatchAllowed(turn.calls)
            /\ thread' = [i \in DOMAIN turn.calls |-> Thread(turn.calls[i])]
            /\ pc' = "collect" /\ UNCHANGED <<pipe, verdict>>
  <2>1. usage' \in Typed /\ usage'.tokens = usage.tokens + req.tokens
        /\ usage'.calls <= MaxToolCalls /\ usage'.tokens <= TokenBudget
    BY <1>4, <1>10, WithinBudget
  <2>2. thread' \in Seq(ToolCall) /\ \A i \in DOMAIN thread' : AuthorizedCall(thread'[i].call)
    BY <1>10, ThreadsSubmitted
  <2>3. SpendInv'
    BY <1>1, <1>10, <2>1, TurnAccounted
  <2>4. ScopeInv'
    BY <1>1, <1>10, <2>2, ScopeStays
  <2>5. PipeInv'
    BY <1>1, <1>10 DEF ResearchInv, PipeInv, AtEnd, Calling
  <2>6. ResearchTypeOK'
    BY <1>1, <1>10, <2>1, <2>2, NoRequestIsTyped DEF ResearchInv, ResearchTypeOK, Stage
  <2> QED
    BY <2>3, <2>4, <2>5, <2>6 DEF ResearchInv
<1> HIDE DEF spent, reserved
<1> QED
  BY <1>5, <1>6, <1>7, <1>8, <1>9, <1>10

LEMMA ThreadsGoOn ==
    ASSUME ResearchInv, NEW i \in DOMAIN thread, NEW t \in ToolCall, t.call = thread[i].call,
           thread' = [thread EXCEPT ![i] = t],
           UNCHANGED <<now, pc, scope, usage, req, turn, seen, bill, pipe, verdict>>
    PROVE  ResearchInv'
<1>1. thread' \in Seq(ToolCall) /\ \A j \in DOMAIN thread' : AuthorizedCall(thread'[j].call)
  <2>1. DOMAIN thread' = DOMAIN thread
        /\ \A j \in DOMAIN thread : thread'[j] = IF j = i THEN t ELSE thread[j]
    OBVIOUS
  <2>2. /\ thread \in Seq(ToolCall)
        /\ \A j \in DOMAIN thread : thread[j] \in ToolCall /\ AuthorizedCall(thread[j].call)
    BY ThreadsAreTyped DEF ResearchInv, ScopeInv
  <2>3. thread' \in Seq(ToolCall)
    BY <2>2, SMTT(30)
  <2> QED
    BY <2>1, <2>2, <2>3
<1>2. ResearchTypeOK'
  BY <1>1 DEF ResearchInv, ResearchTypeOK
<1>3. ScopeInv' /\ SpendInv'
  BY <1>1, ScopeStays, SpendStays
<1>4. PipeInv'
  BY DEF ResearchInv, PipeInv
<1> QED
  BY <1>2, <1>3, <1>4 DEF ResearchInv

LEMMA ToolThreadKeeps ==
    ASSUME ResearchInv, NEW i, NEW s \in {"answered", "failed"}, ThreadStart(i) \/ ThreadEnd(i, s)
    PROVE  ResearchInv'
<1>1. /\ i \in DOMAIN thread /\ thread[i] \in ToolCall
      /\ UNCHANGED <<now, pc, scope, usage, req, turn, seen, bill, pipe, verdict>>
  BY ThreadsAreTyped DEF ThreadStart, ThreadEnd, InState
<1>2. CASE thread' = [thread EXCEPT ![i].state = "running"]
  <2> DEFINE t == [thread[i] EXCEPT !.state = "running"]
  <2>1. t \in ToolCall /\ t.call = thread[i].call /\ thread' = [thread EXCEPT ![i] = t]
    BY <1>1, <1>2 DEF ToolCall
  <2>2. PICK x \in ToolCall : x = t
    BY <2>1
  <2> HIDE DEF t
  <2> QED
    BY <1>1, <2>1, <2>2, ThreadsGoOn
<1>3. CASE thread' = [thread EXCEPT ![i].state = s, ![i].at = now]
  <2> DEFINE t == [thread[i] EXCEPT !.state = s, !.at = now]
  <2>1. t \in ToolCall /\ t.call = thread[i].call /\ thread' = [thread EXCEPT ![i] = t]
    BY <1>1, <1>3, RowsAreTyped DEF ToolCall
  <2>2. PICK x \in ToolCall : x = t
    BY <2>1
  <2> HIDE DEF t
  <2> QED
    BY <1>1, <2>1, <2>2, ThreadsGoOn
<1> QED
  BY <1>2, <1>3 DEF ThreadStart, ThreadEnd

LEMMA CollectTimeoutKeeps ==
    ASSUME ResearchInv, CollectTimeout PROVE ResearchInv'
<1>1. "tool_failed" \in FailureCode /\ pc = "collect" /\ FailLease("tool_failed")
      /\ UNCHANGED <<now, scope, usage, req, turn, seen, bill, pipe>>
  BY DEF FailureCode, CollectTimeout
<1> QED
  BY <1>1, FailLeaseKeeps

\* Of an authorized call, the content that counts as read is the content shown.
LEMMA ShownIsMaterialized ==
    ASSUME NEW call, AuthorizedCall(call)
    PROVE  Materializes(call) = Shows(call) /\ Shows(call) \subseteq scope
<1>1. call.tool \in Tool /\ call.ids \subseteq scope
  BY DEF AuthorizedCall
<1>2. CASE call.tool = "list_evidence"
  BY <1>2 DEF Materializes, Shows
<1>3. CASE call.tool = "read_evidence"
  BY <1>1, <1>3 DEF Materializes, Shows
<1>4. CASE call.tool = "price_window"
  BY <1>1, <1>4 DEF Materializes, Shows
<1>5. CASE call.tool = "fundamental_snapshot"
  BY <1>1, <1>5 DEF Materializes, Shows
<1>6. CASE call.tool = "filing_history"
  BY <1>1, <1>6 DEF Materializes, Shows
<1> QED
  BY <1>1, <1>2, <1>3, <1>4, <1>5, <1>6 DEF Tool

LEMMA CollectAllKeeps ==
    ASSUME ResearchInv, NEW readable \in BOOLEAN, CollectAll(readable) PROVE ResearchInv'
<1>1. pc = "collect" /\ UNCHANGED <<now, scope, usage, req, turn, bill, pipe>>
  BY DEF CollectAll
<1>2. CASE \E code \in FailureCode : FailLease(code) /\ UNCHANGED seen
  BY <1>1, <1>2, FailLeaseKeeps
<1>3. CASE /\ seen' = [materialized |-> seen.materialized \cup
                           UNION {Materializes(thread[i].call) : i \in DOMAIN thread},
                       shown |-> seen.shown \cup
                           UNION {Shows(thread[i].call) : i \in DOMAIN thread},
                       blocks |-> seen.blocks + Len(thread)]
           /\ Extends(readable) /\ pc' = "iterate" /\ thread' = <<>> /\ UNCHANGED verdict
  <2> DEFINE M == UNION {Materializes(thread[i].call) : i \in DOMAIN thread}
             S == UNION {Shows(thread[i].call) : i \in DOMAIN thread}
  <2>1. \A i \in DOMAIN thread : Materializes(thread[i].call) = Shows(thread[i].call)
                                 /\ Shows(thread[i].call) \subseteq scope
    BY ShownIsMaterialized DEF ResearchInv, ScopeInv
  <2>2. M = S /\ S \subseteq scope
    BY <2>1
  <2>3. seen'.materialized = seen.materialized \cup M /\ seen'.shown = seen.shown \cup S
    BY <1>3
  <2> HIDE DEF M, S
  <2>4. scope \subseteq Evidence /\ seen.shown \subseteq scope /\ seen.materialized = seen.shown
        /\ pipe.cited \subseteq seen.shown
    BY DEF ResearchInv, ResearchTypeOK, ScopeInv
  <2>5. seen'.blocks \in Nat
    <3>1. thread \in Seq(ToolCall) /\ seen'.blocks = seen.blocks + Len(thread)
      BY <1>3 DEF ResearchInv, ResearchTypeOK
    <3>2. \A s \in Seq(ToolCall) : Len(s) \in Nat
      OBVIOUS
    <3>3. PICK a, b \in Nat : a = seen.blocks /\ b = Len(thread)
      BY <3>1, <3>2, RowsAreTyped
    <3>4. \A x, y \in Nat : x + y \in Nat
      OBVIOUS
    <3> QED
      BY <3>1, <3>3, <3>4
  <2>6. seen' \in [materialized : SUBSET Evidence, shown : SUBSET Evidence, blocks : Nat]
    <3>1. seen' = [materialized |-> seen.materialized \cup M, shown |-> seen.shown \cup S,
                   blocks |-> seen'.blocks]
      BY <1>3 DEF M, S
    <3> QED
      BY <2>2, <2>4, <2>5, <3>1
  <2>7. DOMAIN thread' = {} /\ thread' \in Seq(ToolCall)
    BY <1>3
  <2>8. ScopeInv'
    BY <1>1, <1>3, <2>2, <2>3, <2>4, <2>7 DEF ResearchInv, ScopeInv
  <2>9. SpendInv'
    BY <1>1, <1>3, SpendStays DEF AtEnd, Calling, Evaluated
  <2>10. PipeInv'
    BY <1>1, <1>3 DEF ResearchInv, PipeInv, AtEnd, Calling
  <2>11. ResearchTypeOK'
    BY <1>1, <1>3, <2>6, <2>7 DEF ResearchInv, ResearchTypeOK, Stage
  <2> QED
    BY <2>8, <2>9, <2>10, <2>11 DEF ResearchInv
<1>4. \/ \E code \in {"tool_failed", "payload_too_large", "deadline_exceeded"} :
            FailLease(code) /\ UNCHANGED seen
      \/ /\ seen' = [materialized |-> seen.materialized \cup
                         UNION {Materializes(thread[i].call) : i \in DOMAIN thread},
                     shown |-> seen.shown \cup
                         UNION {Shows(thread[i].call) : i \in DOMAIN thread},
                     blocks |-> seen.blocks + Len(thread)]
         /\ Extends(readable) /\ pc' = "iterate" /\ thread' = <<>> /\ UNCHANGED verdict
  <2>1. CASE \E i \in DOMAIN thread : thread[i].state = "failed"
    BY <2>1 DEF CollectAll
  <2>2. (\E i \in DOMAIN thread : thread[i].state = "failed") = (InState("failed") # {})
    BY DEF InState
  <2>3. CASE InState("failed") = {} /\ ~Extends(readable)
    BY <2>2, <2>3 DEF CollectAll
  <2>4. CASE InState("failed") = {} /\ Extends(readable) /\ Late
    BY <2>2, <2>4 DEF CollectAll
  <2>5. CASE InState("failed") = {} /\ Extends(readable) /\ ~Late
    BY <2>2, <2>5 DEF CollectAll
  <2> QED
    BY <2>1, <2>2, <2>3, <2>4, <2>5
<1>5. {"tool_failed", "payload_too_large", "deadline_exceeded"} \subseteq FailureCode
  BY DEF FailureCode
<1> QED
  BY <1>2, <1>3, <1>4, <1>5

-----------------------------------------------------------------------------
(* The pipeline and the end of the lease.                                  *)

\* A stage of the pipeline that goes on with the same budget and the same tools.
LEMMA PipelineGoesOn ==
    ASSUME ResearchInv, pc \notin AtEnd \cup Calling \cup {"preflight", "turned", "collect", "iterate"},
           pc' \in Stage, pc' \notin {"preflight", "done"} \cup Calling \cup Evaluated,
           pc = "generated" => pc' = "forecast",
           UNCHANGED <<now, scope, usage, turn, thread, seen, bill, verdict>>,
           req' = req \/ (pc' = "forecast" /\ req' = NoRequest),
           pipe' \in Result, pipe'.cited = pipe.cited,
           PipeInv'
    PROVE  ResearchInv'
<1>1. ResearchTypeOK'
  BY NoRequestIsTyped DEF ResearchInv, ResearchTypeOK
<1>2. ScopeInv'
  BY ScopeStays DEF ResearchInv, ScopeInv
<1>3. SpendInv'
  <2>1. CASE req' = req
    BY <2>1, SpendStays DEF AtEnd, Calling, Evaluated
  <2>2. CASE pc' = "forecast" /\ req' = NoRequest
    <3>1. bill.billed = bill.metered
      BY RowsAreTyped DEF ResearchInv, SpendInv, AtEnd, Calling, Evaluated
    <3>2. req'.tokens = 0 /\ req'.last = 0
      BY <2>2, NoRequestIsTyped
    <3>3. bill.metered \in Nat /\ AnswerTokens \in Nat
      BY RowsAreTyped, LimitsAreNumbers
    <3> QED
      BY <2>2, <3>1, <3>2, <3>3 DEF ResearchInv, SpendInv, AtEnd, Calling, Evaluated
  <2> QED
    BY <2>1, <2>2
<1> QED
  BY <1>1, <1>2, <1>3 DEF ResearchInv

\* What the stages before the end of the pipeline may rely on.
LEMMA BeforeTheEnd ==
    ASSUME ResearchInv, pc \notin AtEnd
    PROVE  /\ pipe \in Result /\ pipe.status = "none" /\ ~pipe.report
           /\ pipe.issues \subseteq {"tradingagents"} /\ verdict = "none"
BY DEF ResearchInv, ResearchTypeOK, PipeInv, AtEnd

\* The pipeline ends without a report.
LEMMA FinishKeeps ==
    ASSUME ResearchInv, pc \notin AtEnd \cup Calling \cup {"preflight", "turned", "collect", "iterate"},
           NEW status \in {"failed", "degraded"}, NEW issue \in SUBSET Issue,
           Finish(status, issue),
           UNCHANGED <<now, scope, usage, turn, thread, seen, bill, verdict>>,
           req' = req \/ req' = NoRequest
    PROVE  ResearchInv'
<1>1. /\ pipe \in Result /\ pipe.status = "none" /\ ~pipe.report
      /\ pipe.issues \subseteq {"tradingagents"} /\ verdict = "none"
  BY BeforeTheEnd
<1>2. pipe' = [pipe EXCEPT !.status = status, !.issues = @ \cup issue] /\ pc' = "forecast"
  BY DEF Finish
<1>3. /\ pipe' \in Result /\ pipe'.cited = pipe.cited /\ ~pipe'.report /\ pipe'.status = status
  BY <1>1, <1>2 DEF Result
<1>4. PipeInv'
  BY <1>1, <1>2, <1>3 DEF PipeInv, AtEnd, Calling
<1> QED
  BY <1>2, <1>3, <1>4, PipelineGoesOn DEF Stage, AtEnd, Calling, Evaluated

LEMMA StopForBudgetKeeps ==
    ASSUME ResearchInv, StopForBudget PROVE ResearchInv'
<1>1. /\ pc \in CheckedStage /\ BudgetStatus # "within" /\ Finish(BudgetStatus, {"budget"})
      /\ UNCHANGED <<now, scope, usage, req, turn, thread, seen, bill, verdict>>
  BY DEF StopForBudget
<1>2. BudgetStatus \in {"failed", "degraded"}
  BY <1>1 DEF BudgetStatus
<1>3. PICK status \in {"failed", "degraded"} : status = BudgetStatus
  BY <1>2
<1>4. Finish(status, {"budget"})
  BY <1>1, <1>3
<1>5. {"budget"} \in SUBSET Issue
  BY DEF Issue
<1> QED
  BY <1>1, <1>4, <1>5, FinishKeeps DEF CheckedStage, AtEnd, Calling

\* A stage that succeeds, or misses the opinion and says so.
LEMMA StagesKeep ==
    ASSUME ResearchInv,
           \/ StartPipeline \/ AcceptResearch
           \/ \E ok \in BOOLEAN : Assemble(ok) \/ Analyze(ok)
    PROVE  ResearchInv'
<1>1. /\ UNCHANGED <<now, scope, usage, req, turn, thread, seen, bill, verdict>>
      /\ pc \in {"pipeline", "context", "research", "opinion"}
  BY DEF StartPipeline, AcceptResearch, Assemble, Analyze
<1>2. /\ pipe \in Result /\ pipe.status = "none" /\ ~pipe.report
      /\ pipe.issues \subseteq {"tradingagents"} /\ verdict = "none"
  BY <1>1, BeforeTheEnd DEF AtEnd
<1>3. CASE \E issue \in {"deadline", "context", "deterministic"} : Finish("failed", {issue})
  <2>1. PICK issue \in {"deadline", "context", "deterministic"} : Finish("failed", {issue})
    BY <1>3
  <2>2. {issue} \in SUBSET Issue
    BY DEF Issue
  <2> QED
    BY <1>1, <2>1, <2>2, FinishKeeps DEF AtEnd, Calling
<1>4. CASE /\ pc' \in {"context", "research"} /\ UNCHANGED pipe
  <2>1. PipeInv'
    BY <1>1, <1>2, <1>4 DEF ResearchInv, PipeInv, AtEnd, Calling
  <2> QED
    BY <1>1, <1>2, <1>4, <2>1, PipelineGoesOn DEF Stage, AtEnd, Calling, Evaluated
<1>5. CASE pc' = "opinion" /\ pipe' = [pipe EXCEPT !.research = TRUE]
  <2>1. /\ pipe' \in Result /\ pipe'.cited = pipe.cited /\ pipe'.report = pipe.report
        /\ pipe'.status = pipe.status /\ pipe'.issues = pipe.issues /\ pipe'.research
    BY <1>2, <1>5 DEF Result
  <2>2. PipeInv'
    BY <1>1, <1>2, <1>5, <2>1 DEF ResearchInv, PipeInv, AtEnd, Calling
  <2> QED
    BY <1>1, <1>5, <2>1, <2>2, PipelineGoesOn DEF Stage, AtEnd, Calling, Evaluated
<1>6. CASE /\ pc' = "report"
           /\ \/ pipe' = [pipe EXCEPT !.opinion = TRUE]
              \/ pipe' = [pipe EXCEPT !.issues = @ \cup {"tradingagents"}]
  <2>1. /\ pipe' \in Result /\ pipe'.cited = pipe.cited /\ pipe'.report = pipe.report
        /\ pipe'.status = pipe.status /\ pipe'.research = pipe.research
        /\ pipe'.issues \subseteq {"tradingagents"}
        /\ pipe'.opinion \/ "tradingagents" \in pipe'.issues
    <3>1. CASE pipe' = [pipe EXCEPT !.opinion = TRUE]
      BY <1>2, <3>1 DEF Result
    <3>2. CASE pipe' = [pipe EXCEPT !.issues = @ \cup {"tradingagents"}]
      BY <1>2, <3>2 DEF Result, Issue
    <3> QED
      BY <1>6, <3>1, <3>2
  <2>2. PipeInv'
    BY <1>1, <1>2, <1>6, <2>1 DEF ResearchInv, PipeInv, AtEnd, Calling
  <2> QED
    BY <1>1, <1>6, <2>1, <2>2, PipelineGoesOn DEF Stage, AtEnd, Calling, Evaluated
<1> QED
  BY <1>3, <1>4, <1>5, <1>6 DEF StartPipeline, AcceptResearch, Assemble, Analyze

LEMMA GenerateKeeps ==
    ASSUME ResearchInv, Generate PROVE ResearchInv'
BY RequestBegins DEF Generate

\* A report is rendered only while the metered cost is within the soft limit.
LEMMA RenderKeeps ==
    ASSUME ResearchInv, NEW ok \in BOOLEAN, Render(ok) PROVE ResearchInv'
<1>1. /\ pc = "generated" /\ req' = NoRequest
      /\ UNCHANGED <<now, scope, usage, turn, thread, seen, bill, verdict>>
  BY DEF Render
<1>2. /\ pipe \in Result /\ pipe.status = "none" /\ ~pipe.report
      /\ pipe.issues \subseteq {"tradingagents"} /\ verdict = "none"
      /\ pipe.opinion \/ "tradingagents" \in pipe.issues
  BY <1>1, BeforeTheEnd DEF ResearchInv, PipeInv, AtEnd
<1>3. CASE \E issue \in {"report", "render"} : Finish("failed", {issue})
  <2>1. PICK issue \in {"report", "render"} : Finish("failed", {issue})
    BY <1>3
  <2>2. {issue} \in SUBSET Issue
    BY DEF Issue
  <2> QED
    BY <1>1, <2>1, <2>2, FinishKeeps DEF AtEnd, Calling
<1>4. CASE /\ BudgetStatus = "within" /\ pc' = "forecast"
           /\ pipe' = [pipe EXCEPT !.report = TRUE,
                         !.status = IF pipe.issues = {} THEN "succeeded" ELSE "degraded"]
  <2>1. /\ pipe' \in Result /\ pipe'.cited = pipe.cited /\ pipe'.report
        /\ pipe'.issues = pipe.issues /\ pipe'.opinion = pipe.opinion
        /\ pipe'.status = IF pipe.issues = {} THEN "succeeded" ELSE "degraded"
    BY <1>2, <1>4 DEF Result
  <2>2. bill.metered <= SoftCost
    <3>1. Violation(bill.metered, SoftCost, HardCost) = "within"
      <4>1. Violation(bill.metered, SoftCost, HardCost) \in {"failed", "degraded", "within"}
        BY DEF Violation
      <4> QED
        BY <1>4, <4>1 DEF BudgetStatus
    <3> QED
      BY <3>1, RowsAreTyped, LimitsAreNumbers DEF Violation
  <2>3. PipeInv'
    BY <1>1, <1>2, <1>4, <2>1, <2>2 DEF PipeInv, AtEnd, Calling
  <2> QED
    BY <1>1, <1>4, <2>1, <2>3, PipelineGoesOn DEF Stage, AtEnd, Calling, Evaluated
<1>5. \/ \E issue \in {"report", "render"} : Finish("failed", {issue})
      \/ /\ BudgetStatus = "within" /\ pc' = "forecast"
         /\ pipe' = [pipe EXCEPT !.report = TRUE,
                       !.status = IF pipe.issues = {} THEN "succeeded" ELSE "degraded"]
  <2>1. CASE ~DraftIsSound
    BY <2>1 DEF Render
  <2>2. CASE DraftIsSound /\ ~ok
    BY <2>2 DEF Render
  <2>3. CASE DraftIsSound /\ ok
    BY <1>1, <2>3 DEF Render, CheckedStage
  <2> QED
    BY <2>1, <2>2, <2>3
<1> QED
  BY <1>3, <1>4, <1>5

LEMMA ConcludeKeeps ==
    ASSUME ResearchInv, NEW forecast \in BOOLEAN, NEW stored \in BOOLEAN, Conclude(forecast, stored)
    PROVE  ResearchInv'
<1>1. pc = "forecast" /\ UNCHANGED <<now, scope, usage, req, turn, seen, bill, pipe>>
  BY DEF Conclude
<1>2. CASE \E code \in FailureCode : FailLease(code)
  BY <1>1, <1>2, FailLeaseKeeps
<1>3. CASE pipe.research /\ pc' = "done" /\ verdict' = ResultStatus(forecast) /\ UNCHANGED thread
  <2>1. /\ ResultStatus(forecast) \in {"none", "succeeded", "degraded", "failed"}
        /\ ResultStatus(forecast) = "succeeded" => pipe.status = "succeeded"
    BY DEF ResultStatus, ResearchInv, ResearchTypeOK, Result
  <2>2. ResearchTypeOK'
    BY <1>1, <1>3, <2>1 DEF ResearchInv, ResearchTypeOK, Stage
  <2>3. ScopeInv'
    BY <1>1, <1>3, ScopeStays DEF ResearchInv, ScopeInv
  <2>4. SpendInv'
    BY <1>1, <1>3, SpendStays DEF AtEnd
  <2>5. PipeInv'
    BY <1>1, <1>3, <2>1 DEF ResearchInv, PipeInv, AtEnd, Calling
  <2> QED
    BY <2>2, <2>3, <2>4, <2>5 DEF ResearchInv
<1>4. "configuration_invalid" \in FailureCode /\ "internal_error" \in FailureCode
  BY DEF FailureCode
<1>5. \/ FailLease("configuration_invalid") \/ FailLease("internal_error")
      \/ pipe.research /\ pc' = "done" /\ verdict' = ResultStatus(forecast) /\ UNCHANGED thread
  <2>1. CASE ~pipe.research
    BY <2>1 DEF Conclude
  <2>2. CASE pipe.research /\ ~stored
    BY <2>2 DEF Conclude
  <2>3. CASE pipe.research /\ stored
    BY <2>3 DEF Conclude
  <2> QED
    BY <2>1, <2>2, <2>3
<1> QED
  BY <1>2, <1>3, <1>4, <1>5

-----------------------------------------------------------------------------
(* Theorems.                                                               *)

LEMMA ResearchStarts == ResearchInit => ResearchInv
<1> SUFFICES ASSUME ResearchInit PROVE ResearchInv
  OBVIOUS
<1>1. /\ bill.billed = 0 /\ bill.metered = 0 /\ usage.tokens = 0 /\ usage.calls = 0
      /\ req.tokens = 0 /\ req.last = 0 /\ pc = "preflight" /\ verdict = "none"
  BY NoRequestIsTyped DEF ResearchInit
<1>2. pipe \in Result /\ pipe.cited = {} /\ pipe.issues = {} /\ ~pipe.report /\ pipe.status = "none"
  BY DEF ResearchInit, NoResult, Result
<1>3. ResearchTypeOK
  <2>1. turn \in [action : {"none", "final", "tools", "report"}, cited : SUBSET Evidence,
                  calls : Seq(Plan)]
    BY DEF ResearchInit, NoTurn
  <2>2. /\ now \in 0..MaxTime /\ scope \subseteq Evidence /\ thread \in Seq(ToolCall)
        /\ usage \in [iterations : Nat, calls : Nat, tokens : Nat]
        /\ bill \in [billed : Nat, metered : Nat]
        /\ seen \in [materialized : SUBSET Evidence, shown : SUBSET Evidence, blocks : Nat]
    BY LimitsAreNumbers DEF ResearchInit
  <2>3. req \in ModelCall
    BY NoRequestIsTyped DEF ResearchInit
  <2> QED
    BY <1>1, <1>2, <2>1, <2>2, <2>3 DEF ResearchTypeOK, Stage
<1>4. ScopeInv
  BY <1>2 DEF ResearchInit, ScopeInv
<1>5. SpendInv
  BY <1>1, LimitsAreNumbers DEF SpendInv, AtEnd, Calling, Evaluated
<1>6. PipeInv
  BY <1>1, <1>2 DEF PipeInv, AtEnd, Calling
<1> QED
  BY <1>3, <1>4, <1>5, <1>6 DEF ResearchInv

LEMMA ResearchStutters ==
    ASSUME ResearchInv, UNCHANGED researchVars PROVE ResearchInv'
<1>1. UNCHANGED <<now, pc, scope, usage, req, turn, thread, seen, bill, pipe, verdict>>
  BY DEF researchVars
<1>2. ResearchTypeOK'
  BY <1>1 DEF ResearchInv, ResearchTypeOK
<1>3. SpendInv' /\ PipeInv'
  BY <1>1 DEF ResearchInv, SpendInv, PipeInv
<1>4. ScopeInv'
  BY <1>1 DEF ResearchInv, ScopeInv, AuthorizedCall
<1> QED
  BY <1>2, <1>3, <1>4 DEF ResearchInv

\* The inductive invariant of a research lease: what the bill, the tracker and
\* the loop's usage know of each other, what the tools may run on, and how far
\* the pipeline's result has got (application/research, adapters/llm).
THEOREM ResearchInvariant == ResearchSpec => []ResearchInv
<1>1. ResearchInit => ResearchInv
  BY ResearchStarts
<1>2. ResearchInv /\ [ResearchNext]_researchVars => ResearchInv'
  <2> SUFFICES ASSUME ResearchInv, [ResearchNext]_researchVars PROVE ResearchInv'
    OBVIOUS
  <2>1. CASE Tick
    BY <2>1, TickKeeps
  <2>2. CASE ToolThread
    BY <2>2, ToolThreadKeeps DEF ToolThread
  <2>3. CASE UNCHANGED researchVars
    BY <2>3, ResearchStutters
  <2>4. CASE Worker
    <3>1. CASE \E items \in SUBSET Evidence : Preflight(items)
      BY <3>1, PreflightKeeps
    <3>2. CASE BeginIteration \/ Send
      BY <3>2, BeginIterationKeeps, SendKeeps
    <3>3. CASE \E tokens \in 1..AnswerTokens : ReceiveAnswer(tokens)
      BY <3>3, ReceiveAnswerKeeps
    <3>4. CASE ReceiveTransient \/ ReceiveRefusal \/ AnswerUnusable
      BY <3>4, ReceiveNothingKeeps
    <3>5. CASE \E answer \in {"valid", "invalid", "unrepairable"} : EvaluateAnswer(answer)
      BY <3>5, EvaluateAnswerKeeps
    <3>6. CASE EndTurn \/ CollectTimeout
      BY <3>6, EndTurnKeeps, CollectTimeoutKeeps
    <3>7. CASE \E ok \in BOOLEAN : CollectAll(ok) \/ Assemble(ok) \/ Analyze(ok) \/ Render(ok)
      BY <3>7, CollectAllKeeps, StagesKeep, RenderKeeps
    <3>8. CASE StartPipeline \/ StopForBudget \/ AcceptResearch \/ Generate
      BY <3>8, StagesKeep, StopForBudgetKeeps, GenerateKeeps
    <3>9. CASE \E forecast, stored \in BOOLEAN : Conclude(forecast, stored)
      BY <3>9, ConcludeKeeps
    <3> QED
      BY <2>4, <3>1, <3>2, <3>3, <3>4, <3>5, <3>6, <3>7, <3>8, <3>9 DEF Worker
  <2> QED
    BY <2>1, <2>2, <2>3, <2>4 DEF ResearchNext
<1> QED
  BY <1>1, <1>2, PTL DEF ResearchSpec

\* What the provider bills for a lease stays within the loop's budget and one
\* request more, and the tracker that the operational budget reads is behind it
\* by one answer at most, for any budgets, repairs, retries and answers
\* (tool_loop.consume_usage, adapters/llm, UsageTrackingLLM).
THEOREM SpendStaysBounded == ResearchSpec => []SpendIsBounded
<1>1. ResearchInv => SpendIsBounded
  <2> SUFFICES ASSUME ResearchInv PROVE SpendIsBounded
    OBVIOUS
  <2>1. usage.tokens \in Nat /\ bill.billed \in Nat
    BY RowsAreTyped
  <2> QED
    BY <2>1, LimitsAreNumbers DEF ResearchInv, SpendInv, SpendIsBounded
<1> QED
  BY <1>1, ResearchInvariant, PTL

\* A lease reports a success or a degraded result only of what was produced, and
\* cites only evidence of its own snapshot whose content the model was shown,
\* for any evidence, plans, tools that answer late and limits.
THEOREM LeasesAreHonest == ResearchSpec => []LeaseIsHonest
<1>1. ResearchInv => LeaseIsHonest
  <2> SUFFICES ASSUME ResearchInv PROVE LeaseIsHonest
    OBVIOUS
  <2>1. /\ verdict = "succeeded" => pipe.report /\ pipe.opinion /\ pipe.issues = {}
        /\ verdict \in {"succeeded", "degraded", "failed"} => pipe.research
        /\ pipe.report => bill.metered <= SoftCost /\ "budget" \notin pipe.issues
        /\ pipe.status = "failed" => ~pipe.report
    BY DEF ResearchInv, PipeInv
  <2>2. pipe.cited \subseteq seen.shown \cap scope \cap Available
    BY DEF ResearchInv, ScopeInv
  <2> QED
    BY <2>1, <2>2 DEF LeaseIsHonest
<1> QED
  BY <1>1, ResearchInvariant, PTL
=============================================================================

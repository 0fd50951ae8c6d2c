------------------------------- MODULE Replay -------------------------------
(***************************************************************************)
(* Recorded market data: ReplayMarketDataAdapter, which reads and checks   *)
(* every fixture once (adapters/market_data/replay.py), and                *)
(* ReplaySnapshotMaterializationSource, which reads the fixture again for  *)
(* every snapshot (replay_snapshot.py).  Fixture files may change on disk  *)
(* between one read and the next.                                          *)
(***************************************************************************)
EXTENDS Nothing, Integers

CONSTANTS
    Fixtures,
    FixtureAsOf,     \* as_of of each manifest entry
    FixtureState,    \* its provider state
    FixtureConflicts,\* whether its dataset lists conflicts
    AllowStale, AllowPartial,   \* of the provider policy
    MaxAsOf          \* bound: the as_of of a request

ASSUME FixtureAssumption == FixtureAsOf \in [Fixtures -> Int] /\ MaxAsOf \in Nat

VARIABLES
    files,      \* what is on disk: as recorded, altered, oversized or missing
    adapter,    \* the loaded adapter: not loaded, refused, or what it read
    replayed    \* the last answer

replayVars == <<files, adapter, replayed>>

FileStates == {"recorded", "altered", "oversized", "missing"}

\* ReplayFixtureIntegrityError: no adapter.
NoAdapter == <<>>

ReplayInit ==
    /\ files \in [Fixtures -> FileStates]
    /\ adapter = None
    /\ replayed = None

\* _validate_fixture_state, _parse_dataset: conflicts and the conflict state
\* go together.
StateFits(f) == (FixtureState[f] = "conflict") = FixtureConflicts[f]

\* _load_fixture of the adapter: any size, but the recorded digest; and its
\* mutant, in which the digest is not compared.
AnyDigest(f) == files[f] # "missing" /\ StateFits(f)
Loadable(f) == files[f] = "recorded" /\ StateFits(f)

\* ReplayMarketDataAdapter(manifest): one bad fixture refuses them all.
LoadAdapter ==
    /\ adapter = None
    /\ adapter' = IF \A f \in Fixtures : Loadable(f) THEN files ELSE NoAdapter
    /\ UNCHANGED <<files, replayed>>

\* Data of a fixture goes with every state but a conflict (_fixture_observation).
Data(f, content) == IF FixtureState[f] = "conflict" THEN None ELSE content

\* ReplayMarketDataAdapter.fetch: from memory, for a request not before it.
Replayed(f, asOf) ==
    /\ adapter # None /\ adapter # NoAdapter
    /\ replayed' = IF FixtureAsOf[f] > asOf
                   THEN [by |-> "adapter", fixture |-> f, asOf |-> asOf, state |-> "fetch_failed", data |-> None]
                   ELSE [by |-> "adapter", fixture |-> f, asOf |-> asOf, state |-> FixtureState[f],
                         data |-> Data(f, adapter[f])]
    /\ UNCHANGED <<files, adapter>>

\* _read_verified: the bounded read, and the digest of what was just read.
Verified(f) == files[f] = "recorded"

\* accepted, of ProviderObservation.
PolicyAccepts(state) ==
    \/ state \in {"available", "legitimate_empty"}
    \/ state = "stale" /\ AllowStale
    \/ state = "partial" /\ AllowPartial

\* ReplaySnapshotMaterializationSource.fetch.
ReplaySnapshot(f, asOf) ==
    LET usable == FixtureAsOf[f] <= asOf /\ Verified(f) /\ StateFits(f) /\ PolicyAccepts(FixtureState[f])
    IN  /\ replayed' = [by |-> "snapshot", fixture |-> f, asOf |-> asOf,
                        state |-> IF usable THEN FixtureState[f] ELSE "failure",
                        data |-> IF usable THEN Data(f, files[f]) ELSE None]
        /\ UNCHANGED <<files, adapter>>

\* Something changes a file.
Change(f, state) ==
    /\ files[f] # state
    /\ files' = [files EXCEPT ![f] = state]
    /\ UNCHANGED <<adapter, replayed>>

ReplayNext ==
    \/ LoadAdapter
    \/ \E f \in Fixtures :
          \/ \E a \in 0 .. MaxAsOf : Replayed(f, a) \/ ReplaySnapshot(f, a)
          \/ \E s \in FileStates : Change(f, s)
ReplaySpec == ReplayInit /\ [][ReplayNext]_replayVars
-----------------------------------------------------------------------------
\* Replayed data is what was recorded, whatever happens to the files between
\* loading and use, is not from after the request's as_of, and a snapshot is
\* made of it only in a state its policy accepts
\* (_load_fixture and fetch of replay.py; _read_verified of replay_snapshot.py).
ReplayIsRecorded ==
    (IF replayed = None THEN FALSE ELSE replayed.data # None) =>
        /\ replayed.data = "recorded"
        /\ FixtureAsOf[replayed.fixture] <= replayed.asOf
        /\ replayed.by = "snapshot" => PolicyAccepts(replayed.state)
=============================================================================

------------------------------- MODULE MCEdge -------------------------------
(* What the core meets outside of its process, each on its own: the API's    *)
(* gateway, the issuer's keys, isolated services, the artifact store, and    *)
(* the market data of a snapshot.                                            *)
EXTENDS Gateway, KeyCache, Dispatch, Artifacts, Snapshot, TLC

CONSTANTS r1, r2, r3, token, session, forged, a1, a2, p1, p2, c1, c2, o1, o2, w1, w2
VARIABLE part

Bearer(peer, credential) ==
    [peer |-> peer, authorization |-> credential, cookie |-> "none", method |-> "GET",
     host |-> "public", origin |-> "none", csrf |-> FALSE, forwarded |-> FALSE, oversized |-> FALSE]
Cookie(peer, credential, method, origin, csrf) ==
    [Bearer(peer, "none") EXCEPT !.cookie = credential, !.method = method,
        !.origin = origin, !.csrf = csrf]

MCShapes ==
    {Bearer("p", token), Bearer("p", forged),
     Cookie("q", session, "POST", "public", TRUE), Cookie("q", session, "POST", "public", FALSE),
     [Cookie("q", session, "GET", "none", FALSE) EXCEPT !.authorization = token]}
MCSubjectOf == [c \in Credentials |-> IF c = forged THEN None ELSE "alice"]
MCIssuedAt == [c \in Credentials |-> IF c = session THEN 1 ELSE 0]
MCExpiresAt == [c \in Credentials |-> 2]

MCJobOf == [a \in Attempts |-> "job"]
MCGenerationOf == [a \in Attempts |-> IF a = a1 THEN 1 ELSE 2]
MCDeadline == [a \in Attempts |-> IF a = a1 THEN 1 ELSE 2]
MCRuntimeOf == [a \in Attempts |-> "v1"]

MCRoutes == <<p1, p2>>

\* Bound: two calls of finalize and a command, or one call and two commands.
MaxStarted == 3
Started == Cardinality({w \in Calls : wr[w].pc # "idle"}) + Cardinality(UsedOps)

\* Requests, calls, commands and workers are interchangeable: the first to start is r1, c1, o1, w1.
RequestsInOrder ==
    (call[r2].stage # "idle" => call[r1].stage # "idle") /\ (call[r3].stage # "idle" => call[r2].stage # "idle")
StoreInOrder == (wr[c2].pc # "idle" => wr[c1].pc # "idle") /\ (o2 \in UsedOps => o1 \in UsedOps)
WorkersInOrder == swk[w2].gen # 1

edgeVars == <<gatewayVars, keyVars, dispatchVars>>

Init ==
    /\ GatewayInit /\ KeyInit /\ DispatchInit
    /\ ArtifactInit /\ SnapshotInit
    /\ part \in {"gateway", "keys", "dispatch", "artifacts", "snapshot"}
    /\ part # "keys" => published = Kids
    /\ part # "dispatch" => kind = "kronos" /\ serving = "kronos"
    /\ service.runtime = "v1"

Next ==
    \/ part = "gateway" /\ GatewayNext /\ RequestsInOrder'
       /\ UNCHANGED <<keyVars, dispatchVars, artifactVars, snapshotVars, part>>
    \/ part = "keys" /\ KeyNext
       /\ UNCHANGED <<gatewayVars, dispatchVars, artifactVars, snapshotVars, part>>
    \/ part = "dispatch" /\ DispatchNext
       /\ UNCHANGED <<gatewayVars, keyVars, artifactVars, snapshotVars, part>>
    \/ part = "artifacts" /\ ArtifactNext /\ Started' <= MaxStarted /\ StoreInOrder'
       /\ UNCHANGED <<edgeVars, snapshotVars, part>>
    \/ part = "snapshot" /\ SnapshotNext /\ WorkersInOrder'
       /\ UNCHANGED <<edgeVars, artifactVars, part>>

Spec == Init /\ [][Next]_<<edgeVars, artifactVars, snapshotVars, part>>
=============================================================================

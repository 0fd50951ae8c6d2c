---------------------------- MODULE RequestGate -----------------------------
(***************************************************************************)
(* The local console's _ProviderRequestGate (entrypoints/api/gui.py): a    *)
(* sliding minute of requests and a pause after repeated failures.  A gate *)
(* is a value here; admit and record are one step each of whoever holds    *)
(* its lock.  The clock is read before the lock is taken, so a reading may *)
(* be up to MaxStall older than the step that uses it.                     *)
(***************************************************************************)
EXTENDS Integers, Sequences, FiniteSetsExt

CONSTANTS
    Minute,         \* the 60 seconds of the sliding window
    GateRequests,   \* PROVIDER_REQUESTS_PER_MINUTE
    GateFailures,   \* PROVIDER_FAILURES_BEFORE_COOLDOWN
    GateCooldown,   \* PROVIDER_COOLDOWN_SECONDS
    MaxStall        \* bound: how long a thread waits between its reading and the lock

ASSUME GateAssumption ==
    /\ {Minute, GateRequests, GateFailures, GateCooldown} \subseteq Nat \ {0}
    /\ MaxStall \in 0 .. Minute - 1

Readings(at) == {r \in at - MaxStall .. at : r >= 0}

OpenGate == [requests |-> <<>>, failures |-> 0, blockedUntil |-> 0]

\* _discard_expired: drop readings from the front as long as they are a
\* minute old.  A younger one in front keeps the older ones behind it.
Unexpired(requests, now) ==
    LET young == {i \in DOMAIN requests : now - requests[i] < Minute}
    IN  IF young = {} THEN <<>> ELSE SubSeq(requests, Min(young), Len(requests))

\* A mutant of Admit: one request too many fits into the minute.
AdmitOneMore(gate, now) ==
    LET recent == Unexpired(gate.requests, now)
    IN  IF now < gate.blockedUntil \/ Len(recent) > GateRequests
        THEN [gate |-> [gate EXCEPT !.requests = recent], admitted |-> FALSE]
        ELSE [gate |-> [gate EXCEPT !.requests = Append(recent, now)], admitted |-> TRUE]

\* admit.
Admit(gate, now) ==
    LET recent == Unexpired(gate.requests, now)
    IN  IF now < gate.blockedUntil \/ Len(recent) >= GateRequests
        THEN [gate |-> [gate EXCEPT !.requests = recent], admitted |-> FALSE]
        ELSE [gate |-> [gate EXCEPT !.requests = Append(recent, now)], admitted |-> TRUE]

\* record.
Record(gate, ok, now) ==
    IF ok THEN [gate EXCEPT !.failures = 0]
    ELSE IF gate.failures + 1 >= GateFailures
         THEN [gate EXCEPT !.failures = 0, !.blockedUntil = now + GateCooldown]
         ELSE [gate EXCEPT !.failures = @ + 1]
=============================================================================

------------------------------ MODULE KeyCache ------------------------------
(***************************************************************************)
(* HTTPSJWKSetProvider of adapters/auth/oidc.py: the issuer's signing keys *)
(* behind a cache with one lock.  A thread reads the monotonic clock, then *)
(* waits for the lock; the fetch runs under the lock and takes time, so a  *)
(* thread may decide on a reading that is older than what it finds.        *)
(***************************************************************************)
EXTENDS Nothing, Integers, Sequences, FiniteSets

CONSTANTS
    Threads,
    Kids,          \* key identifiers
    CacheSeconds,  \* jwks_cache_seconds
    MinRefresh,    \* jwks_min_refresh_seconds
    MaxMono,       \* bound: the monotonic clock
    MaxFetches     \* bound: fetches that are tried

VARIABLES
    mono,
    published,     \* what the issuer publishes now
    lastSeen,      \* history: when each key was last published, -1: never
    keyCache,      \* the cached keys, their expiry, and the two refresh times
    lookup,        \* how far each thread has got
    answer,        \* the issuer's answer to the fetch that holds the lock
    fetches        \* history: the clock readings that fetches were made for, and why

keyVars == <<mono, published, lastSeen, keyCache, lookup, answer, fetches>>

\* OIDCSettings.validate_closed_urls_and_values.
ASSUME RefreshAssumption ==
    /\ MinRefresh \in Nat /\ CacheSeconds \in Nat
    /\ 0 < MinRefresh /\ MinRefresh <= CacheSeconds
    /\ MaxMono \in Nat /\ MaxFetches \in Nat

Never == -(CacheSeconds + MinRefresh)   \* stands for float("-inf")

NoLookup == [pc |-> "idle", kid |-> None, at |-> 0, path |-> "none", seen |-> 0]

KeyInit ==
    /\ mono = 0
    /\ published \in (SUBSET Kids) \ {{}}
    /\ lastSeen = [k \in Kids |-> IF k \in published THEN 0 ELSE -1]
    /\ keyCache = [keys |-> {}, expiresAt |-> 0, lastRefresh |-> Never, lastUnknown |-> Never]
    /\ lookup = [t \in Threads |-> NoLookup]
    /\ answer = None
    /\ fetches = <<>>

\* A lookup of a key starts: signing_key reads the clock before it locks.
ReadClock(t, kid) ==
    /\ lookup[t].pc \in {"idle", "accepted", "refused"}
    /\ lookup' = [lookup EXCEPT ![t] = [NoLookup EXCEPT !.pc = "locking", !.kid = kid, !.at = mono]]
    /\ UNCHANGED <<mono, published, lastSeen, keyCache, answer, fetches>>

LockFree == \A t \in Threads : lookup[t].pc # "fetching"

\* _refresh_allowed, with the mutant that forgets the reading before it.
RefreshOftener(at, previous) == at >= previous
RefreshAllowed(at, previous) == at - previous >= MinRefresh

\* How a lookup proceeds under the lock: a cached key, a refresh for a kid
\* that the live cache does not know, or a refresh of an empty or old cache.
Path(t) ==
    LET at == lookup[t].at
        live == at < keyCache.expiresAt
    IN  IF lookup[t].kid \in keyCache.keys /\ live THEN "cached"
        ELSE IF keyCache.keys # {} /\ live
        THEN IF RefreshAllowed(at, keyCache.lastUnknown) THEN "unknown_kid" ELSE "throttled"
        ELSE IF RefreshAllowed(at, keyCache.lastRefresh) THEN "expired" ELSE "throttled"

KeyAccepted(t) == [lookup[t] EXCEPT !.pc = "accepted", !.seen = lastSeen[lookup[t].kid]]
Refused(t) == [NoLookup EXCEPT !.pc = "refused"]

\* signing_key takes the lock and answers from what is cached.
FromCache(t) ==
    /\ lookup[t].pc = "locking" /\ LockFree
    /\ Path(t) \in {"cached", "throttled"}
    /\ lookup' = [lookup EXCEPT ![t] = IF Path(t) = "cached" THEN KeyAccepted(t) ELSE Refused(t)]
    /\ UNCHANGED <<mono, published, lastSeen, keyCache, answer, fetches>>

\* _refresh_unknown_kid and signing_key start _refresh: its time is noted
\* before the request is sent, whatever comes of it.
BeginFetch(t) ==
    /\ lookup[t].pc = "locking" /\ LockFree
    /\ Path(t) \in {"unknown_kid", "expired"}
    /\ Len(fetches) < MaxFetches
    /\ keyCache' = [keyCache EXCEPT !.lastRefresh = lookup[t].at,
                        !.lastUnknown = IF Path(t) = "unknown_kid" THEN lookup[t].at ELSE @]
    /\ lookup' = [lookup EXCEPT ![t].pc = "fetching", ![t].path = Path(t)]
    /\ fetches' = Append(fetches, [at |-> lookup[t].at, path |-> Path(t)])
    /\ UNCHANGED <<mono, published, lastSeen, answer>>

\* The issuer answers with what it publishes at that moment.
IssuerAnswers ==
    /\ ~LockFree /\ answer = None
    /\ answer' = published
    /\ UNCHANGED <<mono, published, lastSeen, keyCache, lookup, fetches>>

\* _refresh succeeds; the cache lives from the reading that asked for it.
\* A kid that is still unknown is noted on the path of an expired cache too.
StoredKeys(t) ==
    [keyCache EXCEPT !.keys = answer, !.expiresAt = lookup[t].at + CacheSeconds,
        !.lastUnknown = IF lookup[t].path = "expired" /\ lookup[t].kid \notin answer
                        THEN lookup[t].at ELSE @]

EndFetch(t) ==
    /\ lookup[t].pc = "fetching" /\ answer # None
    /\ keyCache' = StoredKeys(t)
    /\ lookup' = [lookup EXCEPT ![t] = IF @.kid \in answer THEN KeyAccepted(t) ELSE Refused(t)]
    /\ answer' = None
    /\ UNCHANGED <<mono, published, lastSeen, fetches>>

\* _refresh fails (_bounded_jwks_body, _validated_keys, the connection): what
\* was cached stays, and so does its expiry.  Mutant: the expiry is renewed.
KeptLongerOnFailure == [keyCache EXCEPT !.expiresAt = keyCache.lastRefresh + CacheSeconds]
KeptOnFailure == keyCache

FetchFails(t) ==
    /\ lookup[t].pc = "fetching"
    /\ keyCache' = KeptOnFailure
    /\ lookup' = [lookup EXCEPT ![t] = Refused(t)]
    /\ answer' = None
    /\ UNCHANGED <<mono, published, lastSeen, fetches>>

\* The issuer adds and withdraws keys.
Rotate ==
    /\ \E s \in (SUBSET Kids) \ {{}, published} : published' = s
    /\ lastSeen' = [k \in Kids |-> IF k \in published \cup published' THEN mono ELSE lastSeen[k]]
    /\ UNCHANGED <<mono, keyCache, lookup, answer, fetches>>

MonoTick ==
    /\ mono < MaxMono /\ mono' = mono + 1
    /\ lastSeen' = [k \in Kids |-> IF k \in published THEN mono + 1 ELSE lastSeen[k]]
    /\ UNCHANGED <<published, keyCache, lookup, answer, fetches>>

KeyNext ==
    \/ \E t \in Threads, kid \in Kids : ReadClock(t, kid)
    \/ \E t \in Threads : FromCache(t) \/ BeginFetch(t) \/ EndFetch(t) \/ FetchFails(t)
    \/ IssuerAnswers
    \/ Rotate
    \/ MonoTick

KeySpec == KeyInit /\ [][KeyNext]_keyVars

\* KeysAreCurrent: a withdrawn key runs out: a lookup that began CacheSeconds
\* after the issuer last published a key does not get it, however long the
\* threads waited for the lock and for slow or failing fetches.  And tokens with
\* made-up key identifiers cannot make the cache hammer the issuer: the readings
\* that fetches for unknown keys are made for lie MinRefresh apart, each later
\* than those before it, and of three fetches in a row one is made for a reading
\* MinRefresh later than the one before it, although readings come in any order.
KeysAreCurrent ==
    /\ \A t \in Threads : lookup[t].pc = "accepted" =>
         lookup[t].at < lookup[t].seen + CacheSeconds
    /\ \A i \in 1..Len(fetches) : \A j \in (i + 1)..Len(fetches) :
         fetches[i].path = "unknown_kid" /\ fetches[j].path = "unknown_kid" =>
            fetches[j].at - fetches[i].at >= MinRefresh
    /\ \A i \in 3..Len(fetches) :
         \/ fetches[i].at - fetches[i - 1].at >= MinRefresh
         \/ fetches[i - 1].at - fetches[i - 2].at >= MinRefresh
=============================================================================

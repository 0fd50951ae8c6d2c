----------------------------- MODULE EdgeProofs -----------------------------
(***************************************************************************)
(* Proofs about the edge of the platform: the issuer's key cache, the      *)
(* gateway with its rate limits, and the dispatch of work to services; for *)
(* any threads, requests, attempts, limits and clocks.  Each lemma XKeeps  *)
(* shows that the action X preserves the component's invariant.            *)
(***************************************************************************)
EXTENDS Gateway, KeyCache, Dispatch, FiniteSetTheorems, TLAPS

------------------------------------------------------------------------------
(* The key cache.                                                          *)

MaybeKid == Kids \cup {None}
MaybeKeys == (SUBSET Kids) \cup {None}
Reason == {"unknown_kid", "expired"}
LookupPc == {"idle", "locking", "fetching", "accepted", "refused"}
LookupPath == {"none", "unknown_kid", "expired"}
LookupRow == [pc : LookupPc, kid : MaybeKid, at : Nat, path : LookupPath, seen : Int]
CacheRow == [keys : SUBSET Kids, expiresAt : Int, lastRefresh : Int, lastUnknown : Int]
FetchRow == [at : Int, path : Reason]

KeyShape ==
    /\ mono \in Nat
    /\ published \subseteq Kids
    /\ lastSeen \in [Kids -> Int]
    /\ keyCache \in CacheRow
    /\ lookup \in [Threads -> LookupRow]
    /\ answer \in MaybeKeys
    /\ fetches \in Seq(FetchRow)

\* What a thread may rely on: its reading is in the past, the fetch it makes
\* is the latest, and every key in the answer to it was published after it.
LookupInv(t) ==
    /\ lookup[t].at <= mono
    /\ lookup[t].pc \in {"locking", "fetching"} => lookup[t].kid \in Kids
    /\ lookup[t].pc = "fetching" => lookup[t].at = keyCache.lastRefresh
    /\ lookup[t].pc = "fetching" /\ answer # None =>
         \A k \in answer : lookup[t].at <= lastSeen[k]
    /\ lookup[t].pc = "accepted" => lookup[t].at < lookup[t].seen + CacheSeconds

\* Cached keys expire in time, and the two refresh times are ordered.
CacheInv ==
    /\ \A k \in Kids : lastSeen[k] <= mono
    /\ \A k \in published : lastSeen[k] = mono
    /\ \A k \in keyCache.keys : keyCache.expiresAt <= lastSeen[k] + CacheSeconds
    /\ keyCache.lastUnknown <= keyCache.lastRefresh
    /\ LockFree => answer = None

\* Each fetch for an old cache follows the fetch before it by MinRefresh, each
\* one for an unknown key the last that was made for one.
FetchInv ==
    /\ Len(fetches) > 0 => keyCache.lastRefresh = fetches[Len(fetches)].at
    /\ \A i \in 2..Len(fetches) :
         fetches[i].path = "expired" => fetches[i].at - fetches[i - 1].at >= MinRefresh
    /\ \A i \in 1..Len(fetches) :
         fetches[i].path = "unknown_kid" => fetches[i].at <= keyCache.lastUnknown
    /\ \A i \in 1..Len(fetches) : \A j \in (i + 1)..Len(fetches) :
         fetches[i].path = "unknown_kid" /\ fetches[j].path = "unknown_kid" =>
            fetches[j].at - fetches[i].at >= MinRefresh

KeyInv == KeyShape /\ (\A t \in Threads : LookupInv(t)) /\ CacheInv /\ FetchInv

\* The records that the cache's operations build.
LEMMA LookupRows ==
    ASSUME NEW pc \in LookupPc, NEW kid \in Kids \cup {None}, NEW at \in Nat, NEW path \in LookupPath, NEW seen \in Int
    PROVE  [pc |-> pc, kid |-> kid, at |-> at, path |-> path, seen |-> seen] \in LookupRow
    BY DEF LookupRow, MaybeKid

\* A thread that has nothing to do.
LEMMA IdleLookup == NoLookup \in LookupRow
<1>1. "idle" \in LookupPc /\ "none" \in LookupPath /\ None \in Kids \cup {None}
    BY DEF LookupPc, LookupPath
<1> QED
    BY <1>1, LookupRows DEF NoLookup

\* A thread that was refused.
LEMMA RefusedLookup ==
    ASSUME NEW t
    PROVE  Refused(t) \in LookupRow /\ Refused(t).pc = "refused" /\ Refused(t).at = 0
<1>1. Refused(t) = [pc |-> "refused", kid |-> None, at |-> 0, path |-> "none", seen |-> 0]
    BY DEF Refused, NoLookup
<1>2. "refused" \in LookupPc /\ "none" \in LookupPath /\ None \in Kids \cup {None}
    BY DEF LookupPc, LookupPath
<1> QED
    BY <1>1, <1>2, LookupRows

\* What one new field leaves of a lookup.
LEMMA LookupFields ==
    ASSUME NEW row \in LookupRow
    PROVE  /\ row.at \in Nat /\ row.pc \in LookupPc /\ row.kid \in Kids \cup {None}
           /\ row.path \in LookupPath /\ row.seen \in Int
           /\ row = [pc |-> row.pc, kid |-> row.kid, at |-> row.at, path |-> row.path, seen |-> row.seen]
    BY DEF LookupRow, MaybeKid

\* A lookup with one field changed.
LEMMA LookupWith ==
    ASSUME NEW row \in LookupRow
    PROVE  /\ \A p \in LookupPc : LET d == [row EXCEPT !.pc = p] IN
                d \in LookupRow /\ d.pc = p /\ d.kid = row.kid /\ d.at = row.at /\ d.seen = row.seen
           /\ \A p \in LookupPath : LET d == [row EXCEPT !.path = p] IN
                d \in LookupRow /\ d.pc = row.pc /\ d.kid = row.kid /\ d.at = row.at /\ d.seen = row.seen
           /\ \A n \in Int : LET d == [row EXCEPT !.seen = n] IN
                d \in LookupRow /\ d.pc = row.pc /\ d.kid = row.kid /\ d.at = row.at /\ d.seen = n
           /\ \A k \in MaybeKid : LET d == [row EXCEPT !.kid = k] IN
                d \in LookupRow /\ d.pc = row.pc /\ d.kid = k /\ d.at = row.at /\ d.seen = row.seen
           /\ \A n \in Nat : LET d == [row EXCEPT !.at = n] IN
                d \in LookupRow /\ d.pc = row.pc /\ d.kid = row.kid /\ d.at = n /\ d.seen = row.seen
    BY DEF LookupRow

\* A thread whose token was accepted.
LEMMA AcceptedLookup ==
    ASSUME NEW t \in Threads, lookup[t] \in LookupRow, lookup[t].kid \in Kids, lastSeen \in [Kids -> Int]
    PROVE  /\ KeyAccepted(t) \in LookupRow /\ KeyAccepted(t).pc = "accepted" /\ KeyAccepted(t).at = lookup[t].at
           /\ KeyAccepted(t).seen = lastSeen[lookup[t].kid]
<1>1. PICK l \in LookupRow : l = lookup[t]
    OBVIOUS
<1>2. PICK n \in Int : n = lastSeen[lookup[t].kid]
    OBVIOUS
<1>3. "accepted" \in LookupPc
    BY DEF LookupPc
<1>4. PICK e \in LookupRow : e = [l EXCEPT !.pc = "accepted"] /\ e.pc = "accepted" /\ e.at = l.at
    <2>1. LET d == [l EXCEPT !.pc = "accepted"] IN
            d \in LookupRow /\ d.pc = "accepted" /\ d.kid = l.kid /\ d.at = l.at /\ d.seen = l.seen
        BY <1>3, LookupWith
    <2> QED
        BY <2>1
<1>5. KeyAccepted(t) = [e EXCEPT !.seen = n]
    BY <1>1, <1>2, <1>4 DEF KeyAccepted
<1>6. LET d == [e EXCEPT !.seen = n] IN
        d \in LookupRow /\ d.pc = e.pc /\ d.kid = e.kid /\ d.at = e.at /\ d.seen = n
    BY LookupWith
<1> QED
    BY <1>1, <1>2, <1>4, <1>5, <1>6

\* What the invariant says of the types of fields.
LEMMA KeyTypes ==
    ASSUME KeyInv
    PROVE  /\ mono \in Nat /\ published \subseteq Kids /\ lastSeen \in [Kids -> Int]
           /\ lookup \in [Threads -> LookupRow]
           /\ keyCache.keys \subseteq Kids /\ keyCache.expiresAt \in Int
           /\ keyCache.lastRefresh \in Int /\ keyCache.lastUnknown \in Int
           /\ keyCache = [keys |-> keyCache.keys, expiresAt |-> keyCache.expiresAt,
                          lastRefresh |-> keyCache.lastRefresh, lastUnknown |-> keyCache.lastUnknown]
           /\ answer # None => answer \subseteq Kids
           /\ answer \in MaybeKeys
           /\ fetches \in Seq(FetchRow)
    BY DEF KeyInv, KeyShape, CacheRow, MaybeKeys

\* What one new field leaves of the cache.
LEMMA CacheRows ==
    ASSUME NEW keys \in SUBSET Kids, NEW e \in Int, NEW r \in Int, NEW u \in Int
    PROVE  [keys |-> keys, expiresAt |-> e, lastRefresh |-> r, lastUnknown |-> u] \in CacheRow
    BY DEF CacheRow

\* A fetch keeps the reading and the reason it was made with.
LEMMA FetchFields ==
    ASSUME NEW s \in Seq(FetchRow)
    PROVE  Len(s) \in Nat /\ \A i \in 1..Len(s) : s[i].at \in Int /\ s[i].path \in Reason
<1>1. \A i \in 1..Len(s) : s[i] \in FetchRow
    OBVIOUS
<1> QED
    BY <1>1 DEF FetchRow

\* The invariant holds initially.
LEMMA KeyStart == KeyInit => KeyInv
<1> SUFFICES ASSUME KeyInit PROVE KeyInv
    OBVIOUS
<1> USE RefreshAssumption
<1>1. KeyShape
    <2>2. lookup \in [Threads -> LookupRow]
        BY IdleLookup DEF KeyInit
    <2>3. Never \in Int
        BY DEF Never
    <2>4. keyCache \in CacheRow
        <3>1. {} \in SUBSET Kids /\ 0 \in Int
            OBVIOUS
        <3>2. [keys |-> {}, expiresAt |-> 0, lastRefresh |-> Never, lastUnknown |-> Never] \in CacheRow
            BY <2>3, <3>1, CacheRows
        <3> QED
            BY <3>2 DEF KeyInit
    <2>5. answer \in MaybeKeys
        BY DEF KeyInit, MaybeKeys
    <2> QED
        BY <2>2, <2>4, <2>5 DEF KeyInit, KeyShape
<1>2. \A t \in Threads : LookupInv(t)
    BY DEF KeyInit, LookupInv, NoLookup
<1>3. CacheInv
    BY DEF KeyInit, CacheInv, Never
<1>4. FetchInv
    BY DEF KeyInit, FetchInv
<1> QED
    BY <1>1, <1>2, <1>3, <1>4 DEF KeyInv

\* A thread that moves alone, without a fetch, disturbs nothing else.
LEMMA LookupMoves ==
    ASSUME KeyInv, NEW t \in Threads,
           NEW new \in LookupRow,
           lookup' = [lookup EXCEPT ![t] = new],
           UNCHANGED <<mono, published, lastSeen, keyCache, answer, fetches>>,
           new.at <= mono, new.pc \notin {"fetching"},
           new.pc = "locking" => new.kid \in Kids,
           new.pc = "accepted" => new.at < new.seen + CacheSeconds,
           lookup[t].pc # "fetching"
    PROVE  KeyInv'
<1>1. KeyShape'
    BY DEF KeyInv, KeyShape
<1>2. ASSUME NEW u \in Threads PROVE LookupInv(u)'
    <2>1. CASE u = t
        BY <2>1 DEF KeyInv, KeyShape, LookupInv
    <2>2. CASE u # t
        BY <2>2 DEF KeyInv, KeyShape, LookupInv
    <2> QED
        BY <2>1, <2>2
<1>3. LockFree' => LockFree
    BY DEF LockFree, KeyInv, KeyShape
<1>4. CacheInv'
    BY <1>3 DEF KeyInv, CacheInv
<1>5. FetchInv'
    BY DEF KeyInv, FetchInv
<1> QED
    BY <1>1, <1>2, <1>4, <1>5 DEF KeyInv

LEMMA ReadClockKeeps ==
    ASSUME KeyInv, NEW t \in Threads, NEW kid \in Kids, ReadClock(t, kid)
    PROVE  KeyInv'
<1> DEFINE new == [NoLookup EXCEPT !.pc = "locking", !.kid = kid, !.at = mono]
<1>1. lookup' = [lookup EXCEPT ![t] = new]
    BY DEF ReadClock
<1>2. new \in LookupRow /\ new.pc = "locking" /\ new.kid = kid /\ new.at = mono
    <2>1. "locking" \in LookupPc /\ kid \in MaybeKid /\ mono \in Nat
        BY KeyTypes DEF LookupPc, MaybeKid
    <2>2. PICK l \in LookupRow : l = NoLookup
        BY IdleLookup
    <2>3. PICK e \in LookupRow : e = [l EXCEPT !.pc = "locking"] /\ e.pc = "locking"
        BY <2>1, LookupWith
    <2>4. PICK f \in LookupRow : f = [e EXCEPT !.kid = kid] /\ f.pc = e.pc /\ f.kid = kid
        BY <2>1, LookupWith
    <2>5. PICK g \in LookupRow : g = [f EXCEPT !.at = mono] /\ g.pc = f.pc /\ g.kid = f.kid /\ g.at = mono
        BY <2>1, LookupWith
    <2>6. new = g
        BY <2>2, <2>3, <2>4, <2>5
    <2> QED
        BY <2>3, <2>4, <2>5, <2>6
<1> HIDE DEF new
<1>3. /\ new.at <= mono /\ new.pc \notin {"fetching"} /\ (new.pc = "locking" => new.kid \in Kids)
      /\ (new.pc = "accepted" => new.at < new.seen + CacheSeconds)
    BY <1>2, KeyTypes
<1>4. lookup[t].pc # "fetching"
    BY DEF ReadClock
<1> QED
    BY <1>1, <1>2, <1>3, <1>4, LookupMoves DEF ReadClock

LEMMA FromCacheKeeps ==
    ASSUME KeyInv, NEW t \in Threads, FromCache(t)
    PROVE  KeyInv'
<1> USE RefreshAssumption
<1>0. lookup[t] \in LookupRow
    BY DEF KeyInv, KeyShape
<1>1. LookupInv(t) /\ lookup[t].pc = "locking" /\ lookup[t].kid \in Kids
    BY DEF KeyInv, FromCache, LookupInv
<1>2. CASE Path(t) = "cached"
    <2>1. lookup' = [lookup EXCEPT ![t] = KeyAccepted(t)]
        BY <1>2 DEF FromCache
    <2>2. lookup[t].kid \in keyCache.keys /\ lookup[t].at < keyCache.expiresAt
        BY <1>2 DEF Path
    <2>3. /\ KeyAccepted(t) \in LookupRow /\ KeyAccepted(t).pc = "accepted" /\ KeyAccepted(t).at = lookup[t].at
          /\ KeyAccepted(t).seen = lastSeen[lookup[t].kid]
        BY <1>0, <1>1, KeyTypes, AcceptedLookup
    <2>4. lookup[t].at \in Nat /\ lastSeen[lookup[t].kid] \in Int /\ keyCache.expiresAt \in Int
        BY <1>0, <1>1, KeyTypes, LookupFields
    <2>5. lookup[t].at < lastSeen[lookup[t].kid] + CacheSeconds
        BY <2>2, <2>4 DEF KeyInv, CacheInv
    <2>6. UNCHANGED <<mono, published, lastSeen, keyCache, answer, fetches>>
        BY DEF FromCache
    <2> QED
        BY <1>1, <2>1, <2>3, <2>4, <2>5, <2>6, LookupMoves DEF LookupInv
<1>3. CASE Path(t) = "throttled"
    <2>1. lookup' = [lookup EXCEPT ![t] = Refused(t)]
        BY <1>3 DEF FromCache
    <2>2. /\ Refused(t) \in LookupRow
          /\ Refused(t).pc = "refused" /\ Refused(t).at = 0
        BY RefusedLookup
    <2>3. UNCHANGED <<mono, published, lastSeen, keyCache, answer, fetches>>
        BY DEF FromCache
    <2>4. 0 <= mono
        BY DEF KeyInv, KeyShape
    <2> QED
        BY <1>1, <2>1, <2>2, <2>3, <2>4, LookupMoves
<1> QED
    BY <1>2, <1>3 DEF FromCache

\* The history after one more fetch.
LEMMA OneMoreFetch ==
    ASSUME NEW s \in Seq(FetchRow),
           NEW f \in FetchRow
    PROVE  /\ Append(s, f) \in Seq(FetchRow)
           /\ Len(Append(s, f)) = Len(s) + 1 /\ Len(s) \in Nat
           /\ Append(s, f)[Len(s) + 1] = f
           /\ \A i \in 1..Len(s) : Append(s, f)[i] = s[i]
           /\ \A i \in 1..Len(s) : s[i] \in FetchRow
    OBVIOUS

LEMMA BeginFetchKeeps ==
    ASSUME KeyInv, NEW t \in Threads, BeginFetch(t)
    PROVE  KeyInv'
<1> USE RefreshAssumption
<1> DEFINE at == lookup[t].at
           why == Path(t)
           f == [at |-> at, path |-> why]
<1>0. lookup[t] \in LookupRow
    BY DEF KeyInv, KeyShape
<1>1. LookupInv(t) /\ lookup[t].pc = "locking" /\ lookup[t].kid \in Kids /\ LockFree
      /\ why \in {"unknown_kid", "expired"}
    BY DEF KeyInv, BeginFetch, LookupInv
<1>2. answer = None
    BY <1>1 DEF KeyInv, CacheInv
<1>3. /\ keyCache.lastRefresh \in Int /\ keyCache.lastUnknown \in Int /\ at \in Nat
      /\ why = "unknown_kid" => at - keyCache.lastUnknown >= MinRefresh
      /\ why = "expired" => at - keyCache.lastRefresh >= MinRefresh
    BY <1>0, <1>1, KeyTypes, LookupFields DEF Path, RefreshAllowed
<1>4. /\ keyCache'.keys = keyCache.keys /\ keyCache'.expiresAt = keyCache.expiresAt
      /\ keyCache'.lastRefresh = at
      /\ keyCache'.lastUnknown = IF why = "unknown_kid" THEN at ELSE keyCache.lastUnknown
      /\ keyCache' \in CacheRow
    <2> DEFINE c == keyCache
               u == IF why = "unknown_kid" THEN at ELSE c.lastUnknown
    <2>1. keyCache' = [keyCache EXCEPT !.lastRefresh = at, !.lastUnknown = u]
        BY DEF BeginFetch
    <2>2. c = [keys |-> c.keys, expiresAt |-> c.expiresAt,
               lastRefresh |-> c.lastRefresh, lastUnknown |-> c.lastUnknown]
        BY KeyTypes
    <2>3. u \in Int /\ at \in Int /\ c.expiresAt \in Int /\ c.keys \in SUBSET Kids
        BY <1>3, KeyTypes
    <2> HIDE DEF u, at, why
    <2>4. keyCache' = [keys |-> c.keys, expiresAt |-> c.expiresAt, lastRefresh |-> at, lastUnknown |-> u]
        BY <2>1, <2>2
    <2>5. keyCache' \in CacheRow
        BY <2>3, <2>4, CacheRows
    <2> QED
        BY <2>4, <2>5 DEF u
<1>5. lookup' = [lookup EXCEPT ![t] = [lookup[t] EXCEPT !.pc = "fetching", !.path = why]]
    BY DEF BeginFetch, KeyInv, KeyShape
<1>6. fetches' = Append(fetches, f) /\ UNCHANGED <<mono, published, lastSeen, answer>>
    BY DEF BeginFetch
<1>7. f \in FetchRow
    BY <1>1, <1>3 DEF FetchRow, Reason
<1>8. fetches \in Seq(FetchRow)
    BY DEF KeyInv, KeyShape
<1>9. KeyShape'
    <2>1. [lookup[t] EXCEPT !.pc = "fetching", !.path = why] \in LookupRow
        <3>1. "fetching" \in LookupPc
            BY DEF LookupPc
        <3>2. PICK w \in LookupPath : w = why
            BY <1>1 DEF LookupPath
        <3>3. PICK l \in LookupRow : l = lookup[t]
            BY <1>0
        <3>4. PICK e \in LookupRow : e = [l EXCEPT !.pc = "fetching"]
            BY <3>1, LookupWith
        <3>5. [lookup[t] EXCEPT !.pc = "fetching", !.path = why] = [e EXCEPT !.path = w]
            BY <3>2, <3>3, <3>4
        <3>6. [e EXCEPT !.path = w] \in LookupRow
            BY LookupWith
        <3> QED
            BY <3>5, <3>6
    <2>2. lookup' \in [Threads -> LookupRow]
        BY <1>5, <2>1, KeyTypes
    <2>3. fetches' \in Seq(FetchRow)
        BY <1>6, <1>7, <1>8, OneMoreFetch
    <2> QED
        BY <1>4, <1>6, <2>2, <2>3 DEF KeyInv, KeyShape
<1>10. ASSUME NEW u \in Threads PROVE LookupInv(u)'
    <2>1. CASE u = t
        BY <1>0, <1>1, <1>2, <1>4, <1>5, <1>6, <2>1 DEF KeyInv, KeyShape, LookupInv
    <2>2. CASE u # t
        <3>1. lookup'[u] = lookup[u] /\ lookup[u].pc # "fetching" /\ LookupInv(u)
            BY <1>1, <1>5, <2>2 DEF KeyInv, KeyShape, LockFree
        <3> QED
            BY <3>1, <1>6 DEF LookupInv
    <2> QED
        BY <2>1, <2>2
<1>11. CacheInv'
    <2>1. keyCache'.lastUnknown <= keyCache'.lastRefresh
        BY <1>1, <1>3, <1>4 DEF KeyInv, CacheInv
    <2>2. LockFree' => answer' = None
        BY <1>2, <1>6
    <2> QED
        BY <1>4, <1>6, <2>1, <2>2 DEF KeyInv, CacheInv
<1>12. FetchInv'
    <2> DEFINE n == Len(fetches)
    <2>1. /\ Len(fetches') = n + 1 /\ n \in Nat /\ fetches'[n + 1] = f
          /\ \A i \in 1..n : fetches'[i] = fetches[i] /\ fetches[i].at \in Int
        BY <1>6, <1>7, <1>8, OneMoreFetch, FetchFields
    <2> HIDE DEF n
    <2>2. f.at = at /\ f.path = why
        OBVIOUS
    <2>3. n > 0 => keyCache.lastRefresh = fetches[n].at
        BY DEF KeyInv, FetchInv, n
    <2>4. \A i \in 2..(n + 1) :
            fetches'[i].path = "expired" => fetches'[i].at - fetches'[i - 1].at >= MinRefresh
        <3> SUFFICES ASSUME NEW i \in 2..(n + 1), fetches'[i].path = "expired"
                     PROVE  fetches'[i].at - fetches'[i - 1].at >= MinRefresh
            OBVIOUS
        <3>1. CASE i = n + 1
            <4>1. n \in 1..n /\ fetches'[n] = fetches[n] /\ i - 1 = n
                BY <2>1, <3>1
            <4> QED
                BY <4>1, <1>3, <2>1, <2>2, <2>3, <3>1
        <3>2. CASE i \in 2..n
            <4>1. fetches'[i] = fetches[i] /\ fetches'[i - 1] = fetches[i - 1]
                BY <2>1, <3>2
            <4> QED
                BY <4>1, <3>2 DEF KeyInv, FetchInv, n
        <3> QED
            BY <2>1, <3>1, <3>2
    <2>5. \A i \in 1..n : fetches[i].path = "unknown_kid" => fetches[i].at <= keyCache.lastUnknown
        BY DEF KeyInv, FetchInv, n
    <2>6. \A i \in 1..(n + 1) : fetches'[i].path = "unknown_kid" => fetches'[i].at <= keyCache'.lastUnknown
        <3> SUFFICES ASSUME NEW i \in 1..(n + 1), fetches'[i].path = "unknown_kid"
                     PROVE  fetches'[i].at <= keyCache'.lastUnknown
            OBVIOUS
        <3>1. CASE i = n + 1
            BY <1>3, <1>4, <2>1, <2>2, <3>1
        <3>2. CASE i \in 1..n
            BY <1>1, <1>3, <1>4, <2>1, <2>5, <3>2
        <3> QED
            BY <2>1, <3>1, <3>2
    <2>7. \A i \in 1..(n + 1) : \A j \in (i + 1)..(n + 1) :
            fetches'[i].path = "unknown_kid" /\ fetches'[j].path = "unknown_kid" =>
               fetches'[j].at - fetches'[i].at >= MinRefresh
        <3> SUFFICES ASSUME NEW i \in 1..(n + 1), NEW j \in (i + 1)..(n + 1),
                            fetches'[i].path = "unknown_kid", fetches'[j].path = "unknown_kid"
                     PROVE  fetches'[j].at - fetches'[i].at >= MinRefresh
            OBVIOUS
        <3>1. i \in 1..n /\ fetches'[i] = fetches[i] /\ fetches[i].at \in Int
            BY <2>1
        <3>2. CASE j = n + 1
            BY <1>3, <2>1, <2>2, <2>5, <3>1, <3>2
        <3>3. CASE j \in 1..n
            <4>1. fetches'[j] = fetches[j] /\ j \in (i + 1)..n
                BY <2>1, <3>3, <3>1
            <4> QED
                BY <4>1, <3>1 DEF KeyInv, FetchInv, n
        <3> QED
            BY <2>1, <3>1, <3>2, <3>3
    <2>8. keyCache'.lastRefresh = fetches'[n + 1].at
        BY <1>4, <2>1, <2>2
    <2> QED
        BY <2>1, <2>4, <2>6, <2>7, <2>8 DEF FetchInv
<1> QED
    BY <1>9, <1>10, <1>11, <1>12 DEF KeyInv

LEMMA AnswerKeeps ==
    ASSUME KeyInv, IssuerAnswers
    PROVE  KeyInv'
<1>1. KeyShape'
    <2>1. answer' \in MaybeKeys
        BY KeyTypes DEF IssuerAnswers, MaybeKeys
    <2> QED
        BY <2>1 DEF KeyInv, KeyShape, IssuerAnswers
<1>2. ASSUME NEW u \in Threads PROVE LookupInv(u)'
    BY DEF KeyInv, KeyShape, LookupInv, CacheInv, IssuerAnswers
<1>3. ~LockFree'
    BY DEF IssuerAnswers, LockFree
<1>4. CacheInv'
    BY <1>3 DEF KeyInv, CacheInv, IssuerAnswers
<1>5. FetchInv'
    BY DEF KeyInv, FetchInv, IssuerAnswers
<1> QED
    BY <1>1, <1>2, <1>4, <1>5 DEF KeyInv

\* The fetch of t ends, with a cache in which every key's expiry is justified.
LEMMA FetchEnds ==
    ASSUME KeyInv, NEW t \in Threads, lookup[t].pc = "fetching",
           NEW new \in LookupRow,
           lookup' = [lookup EXCEPT ![t] = new], answer' = None,
           UNCHANGED <<mono, published, lastSeen, fetches>>,
           new.at <= mono, new.pc \in {"accepted", "refused"},
           new.pc = "accepted" => new.at < new.seen + CacheSeconds,
           keyCache' \in CacheRow,
           keyCache'.lastRefresh = keyCache.lastRefresh,
           keyCache'.lastUnknown \in {keyCache.lastUnknown, keyCache.lastRefresh},
           \A k \in keyCache'.keys : keyCache'.expiresAt <= lastSeen[k] + CacheSeconds
    PROVE  KeyInv'
<1>1. KeyShape'
    <2>1. answer' \in MaybeKeys
        BY DEF MaybeKeys
    <2> QED
        BY <2>1 DEF KeyInv, KeyShape
<1>2. ASSUME NEW u \in Threads PROVE LookupInv(u)'
    <2>1. CASE u = t
        BY <2>1 DEF KeyInv, KeyShape, LookupInv
    <2>2. CASE u # t
        BY <2>2 DEF KeyInv, KeyShape, LookupInv
    <2> QED
        BY <2>1, <2>2
<1>3. /\ keyCache.lastUnknown \in Int /\ keyCache.lastRefresh \in Int
      /\ keyCache.lastUnknown <= keyCache'.lastUnknown
      /\ keyCache'.lastUnknown <= keyCache'.lastRefresh
    BY KeyTypes DEF KeyInv, CacheInv
<1>4. CacheInv'
    BY <1>3 DEF KeyInv, CacheInv
<1>5. FetchInv'
    <2>1. \A i \in 1..Len(fetches) : fetches[i].at \in Int
        BY KeyTypes, FetchFields
    <2>2. \A i \in 1..Len(fetches) :
            fetches[i].path = "unknown_kid" => fetches[i].at <= keyCache'.lastUnknown
        BY <1>3, <2>1 DEF KeyInv, FetchInv
    <2> QED
        BY <2>2 DEF KeyInv, FetchInv
<1> QED
    BY <1>1, <1>2, <1>4, <1>5 DEF KeyInv

LEMMA EndFetchKeeps ==
    ASSUME KeyInv, NEW t \in Threads, EndFetch(t)
    PROVE  KeyInv'
<1> USE RefreshAssumption
<1>0. lookup[t] \in LookupRow
    BY DEF KeyInv, KeyShape
<1>1. LookupInv(t) /\ lookup[t].pc = "fetching" /\ lookup[t].kid \in Kids /\ answer # None
      /\ answer \subseteq Kids /\ lookup[t].at = keyCache.lastRefresh /\ lookup[t].at <= mono
      /\ \A k \in answer : lookup[t].at <= lastSeen[k]
    BY KeyTypes DEF KeyInv, EndFetch, LookupInv
<1>2. \A k \in Kids : lastSeen[k] \in Int
    BY DEF KeyInv, KeyShape
<1>3. /\ keyCache'.keys = answer /\ keyCache'.expiresAt = lookup[t].at + CacheSeconds
      /\ keyCache'.lastRefresh = keyCache.lastRefresh
      /\ keyCache'.lastUnknown \in {keyCache.lastUnknown, keyCache.lastRefresh}
      /\ keyCache' \in CacheRow
    <2> DEFINE c == keyCache
               at == lookup[t].at
               u == IF lookup[t].path = "expired" /\ lookup[t].kid \notin answer THEN at ELSE c.lastUnknown
    <2>1. keyCache' = [keyCache EXCEPT !.keys = answer, !.expiresAt = at + CacheSeconds, !.lastUnknown = u]
        BY DEF EndFetch, StoredKeys
    <2>2. c = [keys |-> c.keys, expiresAt |-> c.expiresAt,
               lastRefresh |-> c.lastRefresh, lastUnknown |-> c.lastUnknown]
        BY KeyTypes
    <2>3. u \in {c.lastUnknown, c.lastRefresh} /\ at + CacheSeconds \in Int /\ u \in Int
          /\ c.lastRefresh \in Int /\ answer \in SUBSET Kids
        BY <1>0, <1>1, KeyTypes, LookupFields
    <2> HIDE DEF u, at
    <2>4. keyCache' = [keys |-> answer, expiresAt |-> at + CacheSeconds,
                       lastRefresh |-> c.lastRefresh, lastUnknown |-> u]
        BY <2>1, <2>2
    <2>5. keyCache' \in CacheRow
        BY <2>3, <2>4, CacheRows
    <2> QED
        BY <2>3, <2>4, <2>5 DEF at
<1>4. \A k \in keyCache'.keys : keyCache'.expiresAt <= lastSeen[k] + CacheSeconds
    BY <1>0, <1>1, <1>2, <1>3, LookupFields
<1>5. answer' = None /\ UNCHANGED <<mono, published, lastSeen, fetches>>
    BY DEF EndFetch
<1>6. CASE lookup[t].kid \in answer
    <2>1. lookup' = [lookup EXCEPT ![t] = KeyAccepted(t)]
        BY <1>6 DEF EndFetch, KeyInv, KeyShape
    <2>2. /\ KeyAccepted(t) \in LookupRow
          /\ KeyAccepted(t).pc = "accepted" /\ KeyAccepted(t).at = lookup[t].at
          /\ KeyAccepted(t).seen = lastSeen[lookup[t].kid]
        BY <1>0, <1>1, KeyTypes, AcceptedLookup
    <2>3. lookup[t].at < lastSeen[lookup[t].kid] + CacheSeconds
        BY <1>0, <1>1, <1>2, <1>6, LookupFields
    <2> QED
        BY <1>1, <1>3, <1>4, <1>5, <2>1, <2>2, <2>3, FetchEnds
<1>7. CASE lookup[t].kid \notin answer
    <2>1. lookup' = [lookup EXCEPT ![t] = Refused(t)]
        BY <1>7 DEF EndFetch, KeyInv, KeyShape
    <2>2. /\ Refused(t) \in LookupRow
          /\ Refused(t).pc = "refused" /\ Refused(t).at = 0 /\ 0 <= mono
        BY RefusedLookup, KeyTypes
    <2> QED
        BY <1>1, <1>3, <1>4, <1>5, <2>1, <2>2, FetchEnds
<1> QED
    BY <1>6, <1>7

LEMMA FetchFailsKeeps ==
    ASSUME KeyInv, NEW t \in Threads, FetchFails(t)
    PROVE  KeyInv'
<1>1. lookup' = [lookup EXCEPT ![t] = Refused(t)] /\ lookup[t].pc = "fetching" /\ answer' = None
      /\ keyCache' = keyCache /\ UNCHANGED <<mono, published, lastSeen, fetches>>
    BY DEF FetchFails, KeptOnFailure
<1>2. /\ Refused(t) \in LookupRow
      /\ Refused(t).pc = "refused" /\ Refused(t).at = 0 /\ 0 <= mono
    BY RefusedLookup, KeyTypes
<1>3. /\ keyCache' \in CacheRow
      /\ \A k \in keyCache'.keys : keyCache'.expiresAt <= lastSeen[k] + CacheSeconds
    BY <1>1 DEF KeyInv, KeyShape, CacheInv
<1> QED
    BY <1>1, <1>2, <1>3, FetchEnds

\* The issuer's keys or the clock move: what was published is published later.
LEMMA IssuerMoves ==
    ASSUME KeyInv, mono' \in Nat, mono <= mono', published' \subseteq Kids,
           lastSeen' \in [Kids -> Int],
           \A k \in Kids : lastSeen[k] <= lastSeen'[k] /\ lastSeen'[k] <= mono',
           \A k \in published' : lastSeen'[k] = mono',
           UNCHANGED <<keyCache, lookup, answer, fetches>>
    PROVE  KeyInv'
<1> USE RefreshAssumption
<1>1. KeyShape'
    BY DEF KeyInv, KeyShape
<1>2. ASSUME NEW u \in Threads PROVE LookupInv(u)'
    <2>1. LookupInv(u) /\ lookup[u].at \in Nat /\ mono \in Nat
        BY KeyTypes, LookupFields DEF KeyInv
    <2>2. answer # None => answer \subseteq Kids
        BY KeyTypes
    <2>3. \A k \in Kids : lastSeen[k] \in Int /\ lastSeen'[k] \in Int
        BY DEF KeyInv, KeyShape
    <2>4. lookup[u].pc = "fetching" /\ answer # None => \A k \in answer : lookup[u].at <= lastSeen'[k]
        <3> SUFFICES ASSUME lookup[u].pc = "fetching", answer # None, NEW k \in answer
                     PROVE  lookup[u].at <= lastSeen'[k]
            OBVIOUS
        <3>1. k \in Kids /\ lookup[u].at <= lastSeen[k]
            BY <2>1, <2>2 DEF LookupInv
        <3> QED
            BY <2>1, <2>3, <3>1
    <2> QED
        BY <2>1, <2>4 DEF LookupInv
<1>3. LockFree' => LockFree
    BY DEF LockFree
<1>4. CacheInv'
    <2>1. \A k \in keyCache.keys : keyCache.expiresAt <= lastSeen'[k] + CacheSeconds
        BY KeyTypes DEF KeyInv, CacheInv
    <2> QED
        BY <1>3, <2>1 DEF KeyInv, CacheInv
<1>5. FetchInv'
    BY DEF KeyInv, FetchInv
<1> QED
    BY <1>1, <1>2, <1>4, <1>5 DEF KeyInv

LEMMA RotateKeeps ==
    ASSUME KeyInv, Rotate
    PROVE  KeyInv'
<1>1. mono \in Nat /\ mono' = mono /\ published \subseteq Kids /\ published' \subseteq Kids
      /\ UNCHANGED <<keyCache, lookup, answer, fetches>>
    BY DEF Rotate, KeyInv, KeyShape
<1>2. \A k \in Kids : lastSeen[k] \in Int /\ lastSeen[k] <= mono
    BY DEF KeyInv, KeyShape, CacheInv
<1>3. lastSeen' = [k \in Kids |-> IF k \in published \cup published' THEN mono ELSE lastSeen[k]]
    BY DEF Rotate
<1>4. lastSeen' \in [Kids -> Int]
    BY <1>1, <1>2, <1>3
<1>5. \A k \in Kids : lastSeen[k] <= lastSeen'[k] /\ lastSeen'[k] <= mono'
    BY <1>1, <1>2, <1>3
<1>6. \A k \in published' : lastSeen'[k] = mono'
    BY <1>1, <1>3
<1>7. mono' \in Nat /\ mono <= mono'
    BY <1>1
<1> QED
    BY <1>1, <1>4, <1>5, <1>6, <1>7, IssuerMoves

LEMMA MonoTickKeeps ==
    ASSUME KeyInv, MonoTick
    PROVE  KeyInv'
<1>1. mono \in Nat /\ mono' = mono + 1 /\ published \subseteq Kids /\ published' = published
      /\ UNCHANGED <<keyCache, lookup, answer, fetches>>
    BY DEF MonoTick, KeyInv, KeyShape
<1>2. \A k \in Kids : lastSeen[k] \in Int /\ lastSeen[k] <= mono
    BY DEF KeyInv, KeyShape, CacheInv
<1>3. lastSeen' = [k \in Kids |-> IF k \in published THEN mono + 1 ELSE lastSeen[k]]
    BY DEF MonoTick
<1>4. lastSeen' \in [Kids -> Int]
    BY <1>1, <1>2, <1>3
<1>5. \A k \in Kids : lastSeen[k] <= lastSeen'[k] /\ lastSeen'[k] <= mono'
    BY <1>1, <1>2, <1>3
<1>6. \A k \in published' : lastSeen'[k] = mono'
    BY <1>1, <1>3
<1>7. mono' \in Nat /\ mono <= mono'
    BY <1>1
<1> QED
    BY <1>1, <1>4, <1>5, <1>6, <1>7, IssuerMoves

\* KeyInv is inductive.
THEOREM KeyInvariant == KeySpec => []KeyInv
<1>1. KeyInv /\ [KeyNext]_keyVars => KeyInv'
    <2> SUFFICES ASSUME KeyInv, [KeyNext]_keyVars PROVE KeyInv'
        OBVIOUS
    <2>1. CASE UNCHANGED keyVars
        BY <2>1 DEF keyVars, KeyInv, KeyShape, LookupInv, CacheInv, LockFree, FetchInv
    <2>2. CASE \E t \in Threads, kid \in Kids : ReadClock(t, kid)
        BY <2>2, ReadClockKeeps
    <2>3. CASE \E t \in Threads : FromCache(t) \/ BeginFetch(t) \/ EndFetch(t) \/ FetchFails(t)
        BY <2>3, FromCacheKeeps, BeginFetchKeeps, EndFetchKeeps, FetchFailsKeeps
    <2>4. CASE IssuerAnswers
        BY <2>4, AnswerKeeps
    <2>5. CASE Rotate
        BY <2>5, RotateKeeps
    <2>6. CASE MonoTick
        BY <2>6, MonoTickKeeps
    <2> QED
        BY <2>1, <2>2, <2>3, <2>4, <2>5, <2>6 DEF KeyNext
<1> QED
    BY <1>1, KeyStart, PTL DEF KeySpec

\* The invariant gives the property.
LEMMA CurrentFollows == KeyInv => KeysAreCurrent
<1> SUFFICES ASSUME KeyInv PROVE KeysAreCurrent
    OBVIOUS
<1>1. \A t \in Threads : lookup[t].pc = "accepted" => lookup[t].at < lookup[t].seen + CacheSeconds
    BY DEF KeyInv, LookupInv
<1>2. ASSUME NEW i \in 3..Len(fetches)
      PROVE  \/ fetches[i].at - fetches[i - 1].at >= MinRefresh
             \/ fetches[i - 1].at - fetches[i - 2].at >= MinRefresh
    <2>1. fetches[i].path \in {"unknown_kid", "expired"} /\ fetches[i - 1].path \in {"unknown_kid", "expired"}
        BY KeyTypes, FetchFields, SMTT(30) DEF Reason
    <2>2. CASE fetches[i].path = "expired"
        BY <2>2 DEF KeyInv, FetchInv
    <2>3. CASE fetches[i - 1].path = "expired"
        <3>1. i - 1 \in 2..Len(fetches) /\ (i - 1) - 1 = i - 2
            OBVIOUS
        <3> QED
            BY <2>3, <3>1 DEF KeyInv, FetchInv
    <2>4. CASE fetches[i].path = "unknown_kid" /\ fetches[i - 1].path = "unknown_kid"
        <3>1. i - 1 \in 1..Len(fetches) /\ i \in ((i - 1) + 1)..Len(fetches)
            OBVIOUS
        <3> QED
            BY <2>4, <3>1 DEF KeyInv, FetchInv
    <2> QED
        BY <2>1, <2>2, <2>3, <2>4
<1> QED
    BY <1>1, <1>2 DEF KeyInv, FetchInv, KeysAreCurrent

\* A withdrawn key runs out in CacheSeconds and made-up key identifiers cannot
\* make the cache hammer the issuer (signing_key, _refresh_unknown_kid), for any
\* number of threads that wait for the lock however long.
THEOREM KeysStayCurrent == KeySpec => []KeysAreCurrent
    BY KeyInvariant, CurrentFollows, PTL

------------------------------------------------------------------------------
(* Fixed windows: a store that fits the requests it has allowed.            *)

\* Where the window of a time begins and ends.
LEMMA WindowOf ==
    ASSUME NEW a \in Int
    PROVE  Identifier(a) \in Int /\ Identifier(a) * WindowSeconds <= a
           /\ a < (Identifier(a) + 1) * WindowSeconds
    BY WindowAssumption DEF Identifier

\* A window that has not ended at a is not before the one a falls in.
LEMMA LiveWindow ==
    ASSUME NEW a \in Int, NEW i \in Int, (i + 1) * WindowSeconds > a
    PROVE  Identifier(a) <= i
<1>1. Identifier(a) \in Int /\ Identifier(a) * WindowSeconds <= a /\ WindowSeconds \in Nat \ {0}
    BY WindowOf, WindowAssumption
<1>2. PICK d \in Int : d = Identifier(a)
    BY <1>1
<1>3. d * WindowSeconds < (i + 1) * WindowSeconds
    BY <1>1, <1>2
<1>4. d < i + 1
    BY <1>1, <1>3
<1> QED
    BY <1>2, <1>4

\* Later times fall in later windows.
LEMMA WindowsInOrder ==
    ASSUME NEW a \in Int, NEW b \in Int, a <= b
    PROVE  Identifier(a) <= Identifier(b)
<1>1. Identifier(b) \in Int /\ b < (Identifier(b) + 1) * WindowSeconds
    BY WindowOf
<1>2. (Identifier(b) + 1) * WindowSeconds > a
    BY <1>1, WindowAssumption
<1> QED
    BY <1>1, <1>2, LiveWindow

WindowRow == [identifier : Int, count : Nat, limit : Nat]

\* The grants g of a key in a window.
Of(g, k, w) == {h \in g : h[1] = k /\ h[2] = w}

\* The windows ws, last used at n, remember enough of the grants g: those of
\* the current window are counted, no key has more than its limit.
Fits(ws, n, g) ==
    /\ IsFiniteSet(g) /\ n \in Int
    /\ \A k \in DOMAIN ws : ws[k] \in WindowRow /\ ws[k].identifier <= Identifier(n)
    /\ \A h \in g : h[2] \in Int /\ h[2] <= Identifier(n)
    /\ \A h \in g : h[2] = Identifier(n) => h[1] \in DOMAIN ws /\ ws[h[1]].identifier = h[2]
    /\ \A k \in DOMAIN ws : Cardinality(Of(g, k, ws[k].identifier)) <= ws[k].count
    /\ \A h \in g : Cardinality(Of(g, h[1], h[2])) <= LimitOf(h[1])

\* The grants of one window can be counted.
LEMMA GrantsAreFinite ==
    ASSUME NEW g, IsFiniteSet(g), NEW k, NEW w
    PROVE  IsFiniteSet(Of(g, k, w)) /\ Cardinality(Of(g, k, w)) \in Nat
<1>1. IsFiniteSet(Of(g, k, w))
    <2>1. Of(g, k, w) \subseteq g
        BY DEF Of
    <2> QED
        BY <2>1, FS_Subset
<1> QED
    BY <1>1, FS_CardinalityType

\* Windows that have ended can be forgotten.
LEMMA ExpireFits ==
    ASSUME NEW ws, NEW n, NEW g, Fits(ws, n, g), NEW at \in Int, n <= at
    PROVE  Fits(Expire(ws, at), at, g)
<1> DEFINE live == Expire(ws, at)
<1>1. n \in Int /\ Identifier(n) \in Int /\ Identifier(at) \in Int /\ Identifier(n) <= Identifier(at)
    BY WindowOf, WindowsInOrder DEF Fits
<1>2. /\ \A k \in DOMAIN live : k \in DOMAIN ws /\ live[k] = ws[k]
      /\ \A k \in DOMAIN ws : (ws[k].identifier + 1) * WindowSeconds > at => k \in DOMAIN live
    BY DEF Expire
<1> HIDE DEF live
<1>3. \A k \in DOMAIN live : live[k] \in WindowRow /\ live[k].identifier <= Identifier(at)
    <2> SUFFICES ASSUME NEW k \in DOMAIN live
                 PROVE  live[k] \in WindowRow /\ live[k].identifier <= Identifier(at)
        OBVIOUS
    <2>1. live[k] = ws[k] /\ ws[k] \in WindowRow /\ ws[k].identifier <= Identifier(n)
        BY <1>2 DEF Fits
    <2>2. ws[k].identifier \in Int
        BY <2>1 DEF WindowRow
    <2> QED
        BY <1>1, <2>1, <2>2
<1>4. \A h \in g : h[2] \in Int /\ h[2] <= Identifier(at)
    BY <1>1 DEF Fits
<1>5. ASSUME NEW h \in g, h[2] = Identifier(at) PROVE h[1] \in DOMAIN live /\ live[h[1]].identifier = h[2]
    <2>1. h[2] = Identifier(n)
        BY <1>1, <1>5 DEF Fits
    <2>2. h[1] \in DOMAIN ws /\ ws[h[1]].identifier = Identifier(at)
        BY <2>1, <1>5 DEF Fits
    <2>3. (Identifier(at) + 1) * WindowSeconds > at
        BY WindowOf, WindowAssumption, <1>1
    <2>4. h[1] \in DOMAIN live
        BY <1>2, <2>2, <2>3
    <2> QED
        BY <1>2, <2>2, <2>4, <1>5
<1>6. \A k \in DOMAIN live : Cardinality(Of(g, k, live[k].identifier)) <= live[k].count
    BY <1>2 DEF Fits
<1> QED
    BY <1>3, <1>4, <1>5, <1>6 DEF Fits, live

\* One more grant in the current window, with its counter set.
LEMMA GrantFits ==
    ASSUME NEW ws, NEW n, NEW g, Fits(ws, n, g), NEW k, NEW r, NEW ws1,
           DOMAIN ws1 = DOMAIN ws \cup {k},
           \A j \in DOMAIN ws \ {k} : ws1[j] = ws[j],
           ws1[k] \in WindowRow, ws1[k].identifier = Identifier(n),
           Cardinality(Of(g, k, Identifier(n))) + 1 <= ws1[k].count,
           Cardinality(Of(g, k, Identifier(n))) + 1 <= LimitOf(k)
    PROVE  Fits(ws1, n, g \cup {<<k, Identifier(n), r>>})
<1> DEFINE w == Identifier(n)
           new == <<k, w, r>>
           g1 == g \cup {new}
<1>0. IsFiniteSet(g) /\ n \in Int /\ w \in Int
    BY WindowOf DEF Fits
<1>1. IsFiniteSet(g1)
    BY <1>0, FS_AddElement
<1>2. new[1] = k /\ new[2] = w
    OBVIOUS
<1> HIDE DEF new, w
<1>3. \A j, v : j # k \/ v # w => Of(g1, j, v) = Of(g, j, v)
    BY <1>2 DEF Of
<1>4. Cardinality(Of(g1, k, w)) <= Cardinality(Of(g, k, w)) + 1
    <2>1. Of(g1, k, w) = Of(g, k, w) \cup {new}
        BY <1>2 DEF Of
    <2>2. PICK S : S = Of(g, k, w)
        OBVIOUS
    <2>3. IsFiniteSet(S) /\ Cardinality(S) \in Nat
        BY <1>0, <2>2, GrantsAreFinite
    <2>4. Cardinality(S \cup {new}) = IF new \in S THEN Cardinality(S) ELSE Cardinality(S) + 1
        BY <2>3, FS_AddElement
    <2>5. Cardinality(S \cup {new}) <= Cardinality(S) + 1
        BY <2>3, <2>4
    <2>6. Of(g1, k, w) = S \cup {new}
        BY <2>1, <2>2
    <2> HIDE DEF g1
    <2> QED
        BY <2>2, <2>5, <2>6
<1>5. /\ Cardinality(Of(g1, k, w)) \in Nat /\ Cardinality(Of(g, k, w)) \in Nat
    BY <1>0, <1>1, GrantsAreFinite
<1>6. \A j \in DOMAIN ws1 : ws1[j] \in WindowRow /\ ws1[j].identifier <= w
    BY <1>0 DEF Fits, w
<1>7. \A h \in g1 : h[2] \in Int /\ h[2] <= w
    BY <1>0, <1>2 DEF Fits, w
<1>8. \A h \in g1 : h[2] = w => h[1] \in DOMAIN ws1 /\ ws1[h[1]].identifier = h[2]
    BY <1>2 DEF Fits, w
<1>9. ASSUME NEW j \in DOMAIN ws1 PROVE Cardinality(Of(g1, j, ws1[j].identifier)) <= ws1[j].count
    <2>1. CASE j = k
        <3>1. ws1[k].count \in Nat
            BY DEF WindowRow
        <3> QED
            BY <1>4, <1>5, <2>1, <3>1 DEF w
    <2>2. CASE j # k
        <3>1. j \in DOMAIN ws /\ ws1[j] = ws[j]
            BY <2>2
        <3>2. Of(g1, j, ws[j].identifier) = Of(g, j, ws[j].identifier)
            BY <1>3, <2>2
        <3> QED
            BY <3>1, <3>2 DEF Fits
    <2> QED
        BY <2>1, <2>2
<1>10. ASSUME NEW h \in g1 PROVE Cardinality(Of(g1, h[1], h[2])) <= LimitOf(h[1])
    <2>1. CASE h[1] = k /\ h[2] = w
        <3>1. LimitOf(k) \in Int
            BY EdgeAssumption DEF LimitOf
        <3>2. Cardinality(Of(g, k, w)) + 1 <= LimitOf(k)
            BY DEF w
        <3>3. Cardinality(Of(g1, k, w)) <= LimitOf(k)
            BY <1>4, <1>5, <3>1, <3>2
        <3> QED
            BY <2>1, <3>3
    <2>2. CASE h[1] # k \/ h[2] # w
        BY <1>2, <1>3, <2>2 DEF Fits
    <2> QED
        BY <2>1, <2>2
<1> QED
    BY <1>0, <1>1, <1>6, <1>7, <1>8, <1>9, <1>10 DEF Fits, w, new

\* A refused request of a known key: its counter runs on.
LEMMA CountFits ==
    ASSUME NEW ws, NEW n, NEW g, Fits(ws, n, g), NEW k \in DOMAIN ws, NEW ws1,
           DOMAIN ws1 = DOMAIN ws,
           \A j \in DOMAIN ws \ {k} : ws1[j] = ws[j],
           ws1[k] \in WindowRow, ws1[k].identifier = ws[k].identifier, ws1[k].count >= ws[k].count
    PROVE  Fits(ws1, n, g)
<1>1. Cardinality(Of(g, k, ws[k].identifier)) \in Nat /\ ws[k].count \in Nat /\ ws1[k].count \in Nat
    BY GrantsAreFinite DEF Fits, WindowRow
<1>2. \A j \in DOMAIN ws1 : Cardinality(Of(g, j, ws1[j].identifier)) <= ws1[j].count
    <2> SUFFICES ASSUME NEW j \in DOMAIN ws1
                 PROVE  Cardinality(Of(g, j, ws1[j].identifier)) <= ws1[j].count
        OBVIOUS
    <2>1. CASE j = k
        BY <1>1, <2>1 DEF Fits
    <2>2. CASE j # k
        BY <2>2 DEF Fits
    <2> QED
        BY <2>1, <2>2
<1>3. \A j \in DOMAIN ws1 : ws1[j] \in WindowRow /\ ws1[j].identifier <= Identifier(n)
    BY DEF Fits
<1>4. \A h \in g : h[2] = Identifier(n) => h[1] \in DOMAIN ws1 /\ ws1[h[1]].identifier = h[2]
    BY DEF Fits
<1> QED
    BY <1>2, <1>3, <1>4 DEF Fits

\* consume: what it allows is granted, what it refuses is not.
LEMMA ConsumeFits ==
    ASSUME NEW store, NEW g, NEW key, NEW at \in Nat, NEW r, NEW limit \in Nat \ {0},
           limit = LimitOf(key), Fits(store.windows, store.latest, g)
    PROVE  LET use == Consume(store, key, at, limit) IN
             /\ use.allowed \in BOOLEAN
             /\ use.allowed => Fits(use.store.windows, use.store.latest, g \cup {<<key, Identifier(at), r>>})
             /\ ~use.allowed => Fits(use.store.windows, use.store.latest, g)
<1> DEFINE live == Expire(store.windows, at)
           use == Consume(store, key, at, limit)
           w == Identifier(at)
<1>0. store.latest \in Int /\ w \in Int
    BY WindowOf DEF Fits
<1>1. CASE at < store.latest
    <2>1. use = [store |-> store, allowed |-> FALSE]
        BY <1>1 DEF Consume
    <2> QED
        BY <2>1
<1>2. CASE at >= store.latest
    <2>1. Fits(live, at, g)
        BY <1>0, <1>2, ExpireFits
    <2>2. CASE key \notin DOMAIN live
        <3>1. use = CreateWindow(live, key, at, limit)
            BY <1>0, <1>2, <2>2 DEF Consume
        <3>2. CASE Cardinality(DOMAIN live) >= MaxKeys
            <4>1. use = [store |-> [windows |-> live, latest |-> at], allowed |-> FALSE]
                BY <3>1, <3>2 DEF CreateWindow
            <4> QED
                BY <2>1, <4>1
        <3>3. CASE ~(Cardinality(DOMAIN live) >= MaxKeys)
            <4> DEFINE row == [identifier |-> w, count |-> 1, limit |-> limit]
                       ws1 == [k \in DOMAIN live \cup {key} |-> IF k = key THEN row ELSE live[k]]
            <4>1. use = [store |-> [windows |-> ws1, latest |-> at], allowed |-> TRUE]
                BY <3>1, <3>3 DEF CreateWindow
            <4>2. DOMAIN ws1 = DOMAIN live \cup {key} /\ ws1[key] = row
                  /\ \A j \in DOMAIN live \ {key} : ws1[j] = live[j]
                OBVIOUS
            <4>3. row \in WindowRow /\ row.identifier = w /\ row.count = 1
                BY <1>0 DEF WindowRow
            <4>4. Of(g, key, w) = {}
                BY <2>1, <2>2 DEF Fits, Of
            <4>5. Cardinality(Of(g, key, w)) = 0
                BY <4>4, FS_EmptySet
            <4>7. use.allowed = TRUE /\ use.store.windows = ws1 /\ use.store.latest = at
                BY <4>1
            <4> HIDE DEF ws1, row, live, w, use
            <4>8. /\ Cardinality(Of(g, key, w)) + 1 <= ws1[key].count
                  /\ Cardinality(Of(g, key, w)) + 1 <= LimitOf(key)
                  /\ ws1[key] \in WindowRow /\ ws1[key].identifier = w
                BY <4>2, <4>3, <4>5
            <4>6. Fits(ws1, at, g \cup {<<key, Identifier(at), r>>})
                BY <2>1, <4>2, <4>8, GrantFits DEF w
            <4> QED
                BY <4>6, <4>7 DEF use
        <3> QED
            BY <3>2, <3>3
    <2>3. CASE key \in DOMAIN live
        <3>0. /\ live[key] \in WindowRow /\ live[key].identifier \in Int
              /\ live[key].count \in Nat /\ live[key].limit \in Nat
            BY <2>1, <2>3 DEF Fits, WindowRow
        <3>1. live[key].identifier = w
            <4>1. live[key].identifier <= w
                BY <2>1, <2>3 DEF Fits
            <4>2. (live[key].identifier + 1) * WindowSeconds > at
                BY <2>3 DEF Expire
            <4>3. PICK i \in Int : i = live[key].identifier
                BY <3>0
            <4>4. w <= i
                BY <4>2, <4>3, LiveWindow
            <4> QED
                BY <1>0, <4>1, <4>3, <4>4
        <3>2. CASE live[key].limit # limit
            <4>1. use = [store |-> [windows |-> live, latest |-> at], allowed |-> FALSE]
                BY <1>0, <1>2, <2>3, <3>2 DEF Consume
            <4> QED
                BY <2>1, <4>1
        <3>3. CASE live[key].limit = limit
            <4> DEFINE row == [live[key] EXCEPT !.count = @ + 1]
                       ws1 == [live EXCEPT ![key] = row]
            <4>1. use = [store |-> [windows |-> ws1, latest |-> at], allowed |-> live[key].count + 1 <= limit]
                BY <1>0, <1>2, <2>3, <3>3 DEF Consume
            <4>2. DOMAIN ws1 = DOMAIN live /\ ws1[key] = row
                  /\ \A j \in DOMAIN live \ {key} : ws1[j] = live[j]
                BY <2>3 DEF Expire
            <4>3. row \in WindowRow /\ row.identifier = w /\ row.count = live[key].count + 1
                BY <3>0, <3>1 DEF WindowRow
            <4>4. Cardinality(Of(g, key, w)) \in Nat /\ Cardinality(Of(g, key, w)) <= live[key].count
                BY <2>1, <2>3, <3>1, GrantsAreFinite DEF Fits
            <4>7. /\ use.allowed = (live[key].count + 1 <= limit)
                  /\ use.store.windows = ws1 /\ use.store.latest = at
                BY <4>1
            <4> HIDE DEF ws1, row, live, w, use
            <4>5. CASE live[key].count + 1 <= limit
                <5>1. Fits(ws1, at, g \cup {<<key, Identifier(at), r>>})
                    <6>1. DOMAIN ws1 = DOMAIN live \cup {key}
                        BY <2>3, <4>2
                    <6>2. /\ Cardinality(Of(g, key, w)) + 1 <= ws1[key].count
                          /\ Cardinality(Of(g, key, w)) + 1 <= LimitOf(key)
                        BY <3>0, <4>2, <4>3, <4>4, <4>5
                    <6> QED
                        BY <2>1, <4>2, <4>3, <6>1, <6>2, GrantFits DEF w
                <5>2. use.allowed = TRUE
                    BY <4>5, <4>7
                <5> QED
                    BY <4>7, <5>1, <5>2 DEF use
            <4>6. CASE ~(live[key].count + 1 <= limit)
                <5>1. Fits(ws1, at, g)
                    BY <2>1, <2>3, <3>0, <3>1, <4>2, <4>3, CountFits
                <5>2. (live[key].count + 1 <= limit) = FALSE
                    BY <3>0, <4>6
                <5>3. use.allowed = FALSE
                    BY <4>7, <5>2
                <5> QED
                    BY <4>7, <5>1, <5>3 DEF use
            <4> QED
                BY <4>5, <4>6
        <3> QED
            BY <3>2, <3>3
    <2> QED
        BY <2>2, <2>3
<1> QED
    BY <1>0, <1>1, <1>2

------------------------------------------------------------------------------
(* The gateway.                                                             *)

Stages == {"idle", "body", "app", "served", "done"}
ShapeSet == Shapes \cup {None}
TokenSet == Credentials \cup {"none", "many", "malformed", "weak"}
IdentitySet == Subjects \cup {None}
CallRow ==
    [stage : Stages, shape : ShapeSet, authorization : TokenSet, principal : IdentitySet,
     frames : Nat, bytes : Nat, status : Nat]

\* Request r has been allowed a place in one of key's windows.
Charged(key, r, g) == \E w \in 0..Identifier(MaxWall) : <<key, w, r>> \in g

\* What the row of request r says of the checks behind it.
Admitted(c, r, g) ==
    /\ c.shape \in Shapes /\ c.authorization = Rewritten(c.shape) /\ Screened(c.shape) = 0
    /\ c.frames <= MaxFrames /\ c.bytes <= MaxBytes
    /\ Charged(EdgeKey(c.shape), r, g) /\ Charged(AdmissionKey(c.shape), r, g)

Identified(c, r, g) ==
    /\ c.authorization \in Credentials /\ c.principal = SubjectOf[c.authorization]
    /\ Charged(PrincipalKey(c.principal), r, g)

CallInv(c, r, g) ==
    /\ c.stage \in {"body", "app", "served"} => Admitted(c, r, g)
    /\ c.stage = "body" => c.principal = None
    /\ c.stage \in {"app", "served"} => c.principal = None \/ Identified(c, r, g)
    /\ c.stage = "served" => c.principal # None

GatewayInv ==
    /\ Fits(limiter.windows, limiter.latest, granted)
    /\ wall \in 0..MaxWall
    /\ call \in [Requests -> CallRow]
    /\ \A r \in Requests : CallInv(call[r], r, granted)

\* Every reading of the clock falls in a window of the bound.
LEMMA WindowInRange ==
    ASSUME NEW a \in 0..MaxWall
    PROVE  Identifier(a) \in 0..Identifier(MaxWall)
<1>1. MaxWall \in Nat
    BY EdgeAssumption
<1>2. Identifier(0) = 0
    BY WindowAssumption DEF Identifier
<1>3. Identifier(0) <= Identifier(a) /\ Identifier(a) <= Identifier(MaxWall)
    BY <1>1, WindowsInOrder
<1>4. Identifier(a) \in Int /\ Identifier(MaxWall) \in Int
    BY <1>1, WindowOf
<1> QED
    BY <1>2, <1>3, <1>4

\* More grants leave what a row says true.
LEMMA ChargesStay ==
    ASSUME NEW c, NEW r, NEW g, NEW h, g \subseteq h, CallInv(c, r, g)
    PROVE  CallInv(c, r, h)
<1>1. \A key : Charged(key, r, g) => Charged(key, r, h)
    BY DEF Charged
<1>2. Admitted(c, r, g) => Admitted(c, r, h)
    BY <1>1 DEF Admitted
<1>3. Identified(c, r, g) => Identified(c, r, h)
    BY <1>1 DEF Identified
<1> QED
    BY <1>2, <1>3 DEF CallInv

\* One request moves on, the others stay where they are.
LEMMA OneCall ==
    ASSUME GatewayInv, NEW r \in Requests, NEW c \in CallRow,
           call' = [call EXCEPT ![r] = c], granted \subseteq granted', CallInv(c, r, granted')
    PROVE  /\ call' \in [Requests -> CallRow]
           /\ \A q \in Requests : CallInv(call'[q], q, granted')
<1>1. call' \in [Requests -> CallRow]
    BY DEF GatewayInv
<1>2. ASSUME NEW q \in Requests PROVE CallInv(call'[q], q, granted')
    <2>1. CASE q = r
        <3>1. call'[q] = c
            BY <2>1 DEF GatewayInv
        <3> QED
            BY <2>1, <3>1
    <2>2. CASE q # r
        <3>1. call'[q] = call[q]
            BY <2>2 DEF GatewayInv
        <3>2. CallInv(call[q], q, granted')
            BY ChargesStay DEF GatewayInv
        <3> QED
            BY <3>1, <3>2
    <2> QED
        BY <2>1, <2>2
<1> QED
    BY <1>1, <1>2

\* A new row, and that of a request that is over.
LEMMA WaitingRow ==
    /\ Waiting \in CallRow
    /\ \A code \in Nat : LET c == [Waiting EXCEPT !.stage = "done", !.status = code]
                         IN  c \in CallRow /\ c.stage = "done"
    BY DEF Waiting, CallRow, Stages, ShapeSet, TokenSet, IdentitySet

\* A request that is over holds nothing the invariant speaks of.
LEMMA FinishCall ==
    ASSUME GatewayInv, NEW r \in Requests, NEW code \in Nat, Finish(r, code), granted \subseteq granted'
    PROVE  /\ call' \in [Requests -> CallRow]
           /\ \A q \in Requests : CallInv(call'[q], q, granted')
<1>1. PICK c : c = [Waiting EXCEPT !.stage = "done", !.status = code]
    OBVIOUS
<1>2. c \in CallRow /\ c.stage = "done"
    BY <1>1, WaitingRow
<1>3. call' = [call EXCEPT ![r] = c]
    BY <1>1 DEF Finish
<1>4. CallInv(c, r, granted')
    BY <1>2 DEF CallInv
<1> QED
    BY <1>2, <1>3, <1>4, OneCall

\* The limits of the three kinds of keys.
LEMMA Limits ==
    /\ PrincipalRequests \in Nat \ {0} /\ DirectPeerEdgeRequests \in Nat \ {0}
    /\ \A s : LimitOf(EdgeKey(s)) = DirectPeerEdgeRequests
    /\ \A s : LimitOf(AdmissionKey(s)) = PrincipalRequests
    /\ \A p : LimitOf(PrincipalKey(p)) = PrincipalRequests
    BY EdgeAssumption DEF LimitOf, EdgeKey, AdmissionKey, PrincipalKey

\* enforce_admission: both windows fit, and a request that passes is in both.
LEMMA AdmissionFits ==
    ASSUME GatewayInv, NEW r, NEW s
    PROVE  LET a == EnforceAdmission(s, r) IN
             /\ Fits(a.store.windows, a.store.latest, granted \cup a.granted)
             /\ a.allowed \in BOOLEAN
             /\ a.allowed => /\ Charged(EdgeKey(s), r, granted \cup a.granted)
                             /\ Charged(AdmissionKey(s), r, granted \cup a.granted)
<1> DEFINE a == EnforceAdmission(s, r)
           edge == Consume(limiter, EdgeKey(s), wall, DirectPeerEdgeRequests)
           main == Consume(edge.store, AdmissionKey(s), wall, PrincipalRequests)
           w == Identifier(wall)
           g1 == granted \cup {<<EdgeKey(s), w, r>>}
           g2 == g1 \cup {<<AdmissionKey(s), w, r>>}
<1>0. wall \in Nat /\ w \in 0..Identifier(MaxWall)
    BY EdgeAssumption, WindowInRange DEF GatewayInv
<1>1. /\ edge.allowed \in BOOLEAN
      /\ edge.allowed => Fits(edge.store.windows, edge.store.latest, g1)
      /\ ~edge.allowed => Fits(edge.store.windows, edge.store.latest, granted)
    <2>1. Fits(limiter.windows, limiter.latest, granted)
        BY DEF GatewayInv
    <2> QED
        BY <1>0, <2>1, Limits, ConsumeFits
<1>2. CASE ~edge.allowed
    <2>1. a = [store |-> edge.store, allowed |-> FALSE, granted |-> {}]
        BY <1>2 DEF EnforceAdmission
    <2>2. a.store = edge.store /\ a.allowed = FALSE /\ granted \cup a.granted = granted
        BY <2>1
    <2> HIDE DEF a, edge
    <2>3. Fits(a.store.windows, a.store.latest, granted \cup a.granted)
        BY <1>1, <1>2, <2>2
    <2> QED
        BY <2>2, <2>3 DEF a
<1>3. CASE edge.allowed
    <2>1. /\ main.allowed \in BOOLEAN
          /\ main.allowed => Fits(main.store.windows, main.store.latest, g2)
          /\ ~main.allowed => Fits(main.store.windows, main.store.latest, g1)
        <3>1. PICK st : st = edge.store
            OBVIOUS
        <3>2. Fits(st.windows, st.latest, g1)
            BY <1>1, <1>3, <3>1
        <3> HIDE DEF g1, edge
        <3>3. LET use == Consume(st, AdmissionKey(s), wall, PrincipalRequests) IN
                 /\ use.allowed \in BOOLEAN
                 /\ use.allowed => Fits(use.store.windows, use.store.latest, g1 \cup {<<AdmissionKey(s), Identifier(wall), r>>})
                 /\ ~use.allowed => Fits(use.store.windows, use.store.latest, g1)
            BY <1>0, <3>2, Limits, ConsumeFits
        <3> QED
            BY <3>1, <3>3
    <2>2. /\ a.store = main.store /\ a.allowed = main.allowed
          /\ a.granted = {<<EdgeKey(s), w, r>>}
                         \cup (IF main.allowed THEN {<<AdmissionKey(s), w, r>>} ELSE {})
        BY <1>3 DEF EnforceAdmission, Grant
    <2> HIDE DEF a, main, edge, w
    <2>3. CASE main.allowed
        <3>1. granted \cup a.granted = g2
            BY <2>2, <2>3
        <3>2. Charged(EdgeKey(s), r, g2) /\ Charged(AdmissionKey(s), r, g2)
            BY <1>0 DEF Charged
        <3>3. Fits(a.store.windows, a.store.latest, g2)
            BY <2>1, <2>2, <2>3
        <3> HIDE DEF g2, g1
        <3> QED
            BY <2>1, <2>2, <3>1, <3>2, <3>3 DEF a
    <2>4. CASE ~main.allowed
        <3>1. granted \cup a.granted = g1
            BY <2>2, <2>4
        <3>3. Fits(a.store.windows, a.store.latest, g1)
            BY <2>1, <2>2, <2>4
        <3> HIDE DEF g2, g1
        <3> QED
            BY <2>1, <2>2, <2>4, <3>1, <3>3 DEF a
    <2> QED
        BY <2>3, <2>4
<1> QED
    BY <1>1, <1>2, <1>3

\* A refusal has a status.
LEMMA ScreenedCode ==
    ASSUME NEW s PROVE Screened(s) \in Nat
    BY DEF Screened, CookieVerdict, CookieRejection

\* What the inner layers see as a token.
LEMMA RewrittenToken ==
    ASSUME NEW s \in Shapes PROVE Rewritten(s) \in TokenSet
    BY ShapeAssumption DEF Rewritten, TokenSet, Header

LEMMA ArriveKeeps ==
    ASSUME GatewayInv, NEW r \in Requests, NEW s \in Shapes, Arrive(r, s)
    PROVE  GatewayInv'
<1> DEFINE a == EnforceAdmission(s, r)
           code == IF a.allowed THEN Screened(s) ELSE 429
<1>1. /\ Fits(a.store.windows, a.store.latest, granted \cup a.granted)
      /\ a.allowed \in BOOLEAN
      /\ a.allowed => /\ Charged(EdgeKey(s), r, granted \cup a.granted)
                      /\ Charged(AdmissionKey(s), r, granted \cup a.granted)
    BY AdmissionFits
<1>2. /\ limiter' = a.store /\ granted' = granted \cup a.granted /\ wall' = wall
      /\ code # 0 => Finish(r, code)
      /\ code = 0 => call' = [call EXCEPT ![r] = [Waiting EXCEPT !.stage = "body", !.shape = s,
                                                    !.authorization = Rewritten(s)]]
    BY DEF Arrive
<1>3. code \in Nat
    BY ScreenedCode
<1>4. code = 0 => a.allowed /\ Screened(s) = 0
    BY <1>1
<1> HIDE DEF a, code
<1>6. /\ call' \in [Requests -> CallRow]
      /\ \A q \in Requests : CallInv(call'[q], q, granted')
    <2>1. CASE code # 0
        BY <1>2, <1>3, <2>1, FinishCall
    <2>2. CASE code = 0
        <3>1. PICK c : c = [Waiting EXCEPT !.stage = "body", !.shape = s, !.authorization = Rewritten(s)]
            OBVIOUS
        <3>2. PICK token \in TokenSet : token = Rewritten(s)
            BY RewrittenToken
        <3>3. c = [stage |-> "body", shape |-> s, authorization |-> token,
                   principal |-> None, frames |-> 0, bytes |-> 0, status |-> 0]
            BY <3>1, <3>2 DEF Waiting
        <3>4. c \in CallRow
            <4>1. "body" \in Stages /\ s \in ShapeSet /\ None \in IdentitySet
                BY DEF Stages, ShapeSet, IdentitySet
            <4> QED
                BY <3>3, <4>1 DEF CallRow
        <3>5. /\ c.stage = "body" /\ c.shape = s /\ c.authorization = Rewritten(s)
              /\ c.principal = None /\ c.frames = 0 /\ c.bytes = 0
            BY <3>2, <3>3
        <3>6. Admitted(c, r, granted')
            BY <1>1, <1>2, <1>4, <2>2, <3>5, EdgeAssumption DEF Admitted
        <3>7. CallInv(c, r, granted')
            BY <3>5, <3>6 DEF CallInv
        <3>8. call' = [call EXCEPT ![r] = c] /\ granted \subseteq granted'
            BY <1>2, <2>2, <3>1
        <3> QED
            BY <3>4, <3>7, <3>8, OneCall
    <2> QED
        BY <2>1, <2>2
<1> QED
    BY <1>2, <1>1, <1>6 DEF GatewayInv

\* A step of one request that leaves the limiter alone.
LEMMA BodyKeeps ==
    ASSUME GatewayInv, NEW r \in Requests, NEW c \in CallRow, granted' = granted,
           limiter' = limiter, wall' = wall, call' = [call EXCEPT ![r] = c],
           CallInv(c, r, granted)
    PROVE  GatewayInv'
<1>1. /\ call' \in [Requests -> CallRow]
      /\ \A q \in Requests : CallInv(call'[q], q, granted')
    BY OneCall
<1> QED
    BY <1>1 DEF GatewayInv

\* A request ends and leaves the limiter alone.
LEMMA DoneKeeps ==
    ASSUME GatewayInv, NEW r \in Requests, NEW code \in Nat, Finish(r, code),
           granted' = granted, limiter' = limiter, wall' = wall
    PROVE  GatewayInv'
<1>1. /\ call' \in [Requests -> CallRow]
      /\ \A q \in Requests : CallInv(call'[q], q, granted')
    BY FinishCall
<1> QED
    BY <1>1 DEF GatewayInv

LEMMA BufferKeeps ==
    ASSUME GatewayInv, NEW r \in Requests, NEW size \in 0..MaxBytes + 1, BufferFrame(r, size)
    PROVE  GatewayInv'
<1>0. MaxFrames \in Nat /\ MaxBytes \in Nat /\ size \in Nat
    BY EdgeAssumption
<1>1. call[r].stage = "body" /\ granted' = granted /\ limiter' = limiter /\ wall' = wall
    BY DEF BufferFrame
<1>2. PICK c \in CallRow : c = call[r]
    BY DEF GatewayInv
<1>3. c.frames \in Nat /\ c.bytes \in Nat
    BY DEF CallRow
<1>4. CASE c.frames >= MaxFrames \/ c.bytes + size > MaxBytes
    <2>1. Finish(r, 413)
        BY <1>2, <1>4 DEF BufferFrame
    <2> QED
        BY <1>1, <2>1, DoneKeeps
<1>5. CASE ~(c.frames >= MaxFrames \/ c.bytes + size > MaxBytes)
    <2>1. call' = [call EXCEPT ![r].frames = @ + 1, ![r].bytes = @ + size]
        BY <1>2, <1>5 DEF BufferFrame
    <2>2. PICK e : e = [c EXCEPT !.frames = @ + 1]
        OBVIOUS
    <2>3. /\ e \in CallRow /\ e.frames = c.frames + 1 /\ e.bytes = c.bytes
          /\ e.stage = c.stage /\ e.shape = c.shape /\ e.authorization = c.authorization
          /\ e.principal = c.principal
        BY <1>3, <2>2 DEF CallRow
    <2>4. PICK d : d = [e EXCEPT !.bytes = @ + size]
        OBVIOUS
    <2>5. call' = [call EXCEPT ![r] = d]
        <3>1. PICK m : m = [call EXCEPT ![r].frames = @ + 1]
            OBVIOUS
        <3>2. m = [call EXCEPT ![r] = e]
            BY <1>2, <2>2, <3>1 DEF GatewayInv
        <3>3. call' = [m EXCEPT ![r].bytes = @ + size]
            BY <2>1, <3>1
        <3> QED
            BY <2>4, <3>2, <3>3 DEF GatewayInv
    <2>6. /\ d \in CallRow /\ d.frames = c.frames + 1 /\ d.bytes = c.bytes + size
          /\ d.stage = c.stage /\ d.shape = c.shape /\ d.authorization = c.authorization
          /\ d.principal = c.principal
        BY <1>0, <1>3, <2>3, <2>4 DEF CallRow
    <2>7. CallInv(c, r, granted)
        BY <1>2 DEF GatewayInv
    <2>8. Admitted(d, r, granted)
        BY <1>0, <1>1, <1>2, <1>3, <1>5, <2>6, <2>7 DEF CallInv, Admitted
    <2>9. CallInv(d, r, granted)
        BY <1>1, <1>2, <2>6, <2>7, <2>8 DEF CallInv
    <2> QED
        BY <1>1, <2>5, <2>6, <2>9, BodyKeeps
<1> QED
    BY <1>4, <1>5

\* What one new field leaves of a row.
LEMMA RowFields ==
    ASSUME NEW c \in CallRow
    PROVE  /\ \A x \in Stages : LET d == [c EXCEPT !.stage = x] IN
                /\ d \in CallRow /\ d.stage = x /\ d.shape = c.shape
                /\ d.authorization = c.authorization /\ d.principal = c.principal
                /\ d.frames = c.frames /\ d.bytes = c.bytes
           /\ \A p \in IdentitySet : LET d == [c EXCEPT !.principal = p] IN
                /\ d \in CallRow /\ d.stage = c.stage /\ d.shape = c.shape
                /\ d.authorization = c.authorization /\ d.principal = p
                /\ d.frames = c.frames /\ d.bytes = c.bytes
           /\ \A n \in Nat : LET d == [c EXCEPT !.status = n] IN
                /\ d \in CallRow /\ d.stage = c.stage /\ d.shape = c.shape
                /\ d.authorization = c.authorization /\ d.principal = c.principal
                /\ d.frames = c.frames /\ d.bytes = c.bytes
<1>1. ASSUME NEW x \in Stages
      PROVE  LET d == [c EXCEPT !.stage = x] IN
                /\ d \in CallRow /\ d.stage = x /\ d.shape = c.shape
                /\ d.authorization = c.authorization /\ d.principal = c.principal
                /\ d.frames = c.frames /\ d.bytes = c.bytes
    BY DEF CallRow
<1>2. ASSUME NEW p \in IdentitySet
      PROVE  LET d == [c EXCEPT !.principal = p] IN
                /\ d \in CallRow /\ d.stage = c.stage /\ d.shape = c.shape
                /\ d.authorization = c.authorization /\ d.principal = p
                /\ d.frames = c.frames /\ d.bytes = c.bytes
    BY DEF CallRow
<1>3. ASSUME NEW n \in Nat
      PROVE  LET d == [c EXCEPT !.status = n] IN
                /\ d \in CallRow /\ d.stage = c.stage /\ d.shape = c.shape
                /\ d.authorization = c.authorization /\ d.principal = c.principal
                /\ d.frames = c.frames /\ d.bytes = c.bytes
    BY DEF CallRow
<1> QED
    BY <1>1, <1>2, <1>3

\* The last stages of a request.
LEMMA StageNames == "app" \in Stages /\ "served" \in Stages
    BY DEF Stages

\* A request that was admitted and keeps what was checked stays admitted.
LEMMA StaysAdmitted ==
    ASSUME NEW c, NEW d, NEW r, NEW g, Admitted(c, r, g), d.shape = c.shape,
           d.authorization = c.authorization, d.frames = c.frames, d.bytes = c.bytes
    PROVE  Admitted(d, r, g)
    BY DEF Admitted

LEMMA PrincipalKeeps ==
    ASSUME GatewayInv, NEW r \in Requests, NEW size \in 0..MaxBytes + 1, NEW up \in BOOLEAN,
           EnforcePrincipal(r, size, up)
    PROVE  GatewayInv'
<1> DEFINE c == call[r]
           p == Authenticate(c.authorization, up)
           use == Consume(limiter, PrincipalKey(p), wall, PrincipalRequests)
           refused == c.frames >= MaxFrames \/ c.bytes + size > MaxBytes
<1>1. /\ c.stage = "body" /\ wall' = wall
      /\ refused => Finish(r, 413) /\ limiter' = limiter /\ granted' = granted
      /\ ~refused /\ p = None => /\ call' = [call EXCEPT ![r].stage = "app"]
                                 /\ limiter' = limiter /\ granted' = granted
      /\ ~refused /\ p # None =>
             /\ limiter' = use.store
             /\ granted' = granted \cup (IF use.allowed THEN {<<PrincipalKey(p), Identifier(wall), r>>} ELSE {})
             /\ use.allowed => call' = [call EXCEPT ![r].stage = "app", ![r].principal = p]
             /\ ~use.allowed => Finish(r, 429)
    BY DEF EnforcePrincipal, Grant
<1>2. c \in CallRow /\ CallInv(c, r, granted)
    BY DEF GatewayInv
<1>3. p # None => /\ c.authorization \in Credentials /\ p = SubjectOf[c.authorization]
                  /\ p \in IdentitySet
    BY DEF Authenticate, IdentitySet, Subjects
<1>4. Admitted(c, r, granted) /\ c.principal = None
    BY <1>1, <1>2 DEF CallInv
<1>5. PICK m : m = [c EXCEPT !.stage = "app"]
    OBVIOUS
<1>6. /\ m \in CallRow /\ m.stage = "app" /\ m.shape = c.shape
      /\ m.authorization = c.authorization /\ m.principal = c.principal
      /\ m.frames = c.frames /\ m.bytes = c.bytes
    BY <1>2, <1>5, RowFields, StageNames
<1>7. [call EXCEPT ![r].stage = "app"] = [call EXCEPT ![r] = m]
    BY <1>5
<1>8. /\ wall \in Nat /\ Identifier(wall) \in 0..Identifier(MaxWall)
      /\ Fits(limiter.windows, limiter.latest, granted)
    BY EdgeAssumption, WindowInRange DEF GatewayInv
<1>9. PICK who : who = p
    OBVIOUS
<1> HIDE DEF c, p, refused
<1>10. CASE refused
    BY <1>1, <1>10, DoneKeeps
<1>11. CASE ~refused /\ p = None
    <2>1. call' = [call EXCEPT ![r] = m] /\ limiter' = limiter /\ granted' = granted /\ wall' = wall
        BY <1>1, <1>7, <1>11
    <2>2. CallInv(m, r, granted)
        <3>1. Admitted(m, r, granted)
            BY <1>4, <1>6, StaysAdmitted
        <3> QED
            BY <1>4, <1>6, <3>1 DEF CallInv
    <2> QED
        BY <1>6, <2>1, <2>2, BodyKeeps
<1>12. CASE ~refused /\ p # None
    <2>1. /\ use.allowed \in BOOLEAN
          /\ use.allowed => Fits(use.store.windows, use.store.latest,
                                 granted \cup {<<PrincipalKey(p), Identifier(wall), r>>})
          /\ ~use.allowed => Fits(use.store.windows, use.store.latest, granted)
        BY <1>8, Limits, ConsumeFits
    <2>2. CASE ~use.allowed
        <3>1. limiter' = use.store /\ granted' = granted /\ Finish(r, 429) /\ wall' = wall
            BY <1>1, <1>12, <2>2
        <3>2. /\ call' \in [Requests -> CallRow]
              /\ \A q \in Requests : CallInv(call'[q], q, granted')
            BY <3>1, FinishCall
        <3> HIDE DEF use
        <3> QED
            BY <2>1, <2>2, <3>1, <3>2 DEF GatewayInv
    <2>3. CASE use.allowed
        <3>1. /\ limiter' = use.store /\ wall' = wall
              /\ granted' = granted \cup {<<PrincipalKey(p), Identifier(wall), r>>}
              /\ call' = [call EXCEPT ![r].stage = "app", ![r].principal = p]
            BY <1>1, <1>12, <2>3
        <3>2. PICK d : d = [m EXCEPT !.principal = p]
            OBVIOUS
        <3>3. /\ d \in CallRow /\ d.stage = m.stage /\ d.shape = m.shape
              /\ d.authorization = m.authorization /\ d.principal = p
              /\ d.frames = m.frames /\ d.bytes = m.bytes
            BY <1>3, <1>6, <1>12, <3>2, RowFields
        <3>4. call' = [call EXCEPT ![r] = d]
            <4>1. PICK mid : mid = [call EXCEPT ![r].stage = "app"]
                OBVIOUS
            <4>2. mid = [call EXCEPT ![r] = m]
                BY <1>7, <4>1
            <4>3. call' = [mid EXCEPT ![r].principal = p]
                BY <3>1, <4>1
            <4> QED
                BY <3>2, <4>2, <4>3 DEF GatewayInv
        <3>5. Charged(PrincipalKey(p), r, granted')
            BY <1>8, <3>1 DEF Charged
        <3>6. Admitted(d, r, granted')
            <4>1. CallInv(c, r, granted')
                BY <1>2, <3>1, ChargesStay
            <4>2. Admitted(c, r, granted')
                BY <1>1, <4>1 DEF CallInv
            <4>3. /\ d.shape = c.shape /\ d.authorization = c.authorization
                  /\ d.frames = c.frames /\ d.bytes = c.bytes
                BY <1>6, <3>3
            <4> QED
                BY <4>2, <4>3, StaysAdmitted
        <3>7. Identified(d, r, granted')
            BY <1>3, <1>6, <1>12, <3>3, <3>5 DEF Identified
        <3>8. CallInv(d, r, granted')
            BY <1>6, <3>3, <3>6, <3>7 DEF CallInv
        <3>9. granted \subseteq granted'
            BY <3>1
        <3>10. /\ call' \in [Requests -> CallRow]
               /\ \A q \in Requests : CallInv(call'[q], q, granted')
            BY <3>3, <3>4, <3>8, <3>9, OneCall
        <3>11. Fits(limiter'.windows, limiter'.latest, granted')
            BY <2>1, <2>3, <3>1
        <3> QED
            BY <3>1, <3>10, <3>11 DEF GatewayInv
    <2> QED
        BY <2>1, <2>2, <2>3
<1> QED
    BY <1>10, <1>11, <1>12

LEMMA ServeKeeps ==
    ASSUME GatewayInv, NEW r \in Requests, Serve(r)
    PROVE  GatewayInv'
<1>1. /\ call[r].stage = "app" /\ limiter' = limiter /\ wall' = wall /\ granted' = granted
    BY DEF Serve
<1>2. CASE call[r].principal = None
    <2>1. Finish(r, 401)
        BY <1>2 DEF Serve
    <2> QED
        BY <1>1, <2>1, DoneKeeps
<1>3. CASE call[r].principal # None
    <2>1. PICK code \in {200, 403, 500} :
              call' = [call EXCEPT ![r].stage = "served", ![r].status = code]
        BY <1>3 DEF Serve
    <2>2. PICK c \in CallRow : c = call[r]
        BY DEF GatewayInv
    <2>3. PICK m : m = [c EXCEPT !.stage = "served"]
        OBVIOUS
    <2>4. /\ m \in CallRow /\ m.stage = "served" /\ m.shape = c.shape
          /\ m.authorization = c.authorization /\ m.principal = c.principal
          /\ m.frames = c.frames /\ m.bytes = c.bytes
        BY <2>3, RowFields, StageNames
    <2>5. PICK d : d = [m EXCEPT !.status = code]
        OBVIOUS
    <2>6. /\ d \in CallRow /\ d.stage = m.stage /\ d.shape = m.shape
          /\ d.authorization = m.authorization /\ d.principal = m.principal
          /\ d.frames = m.frames /\ d.bytes = m.bytes
        BY <2>4, <2>5, RowFields
    <2>7. call' = [call EXCEPT ![r] = d]
        <3>1. PICK mid : mid = [call EXCEPT ![r].stage = "served"]
            OBVIOUS
        <3>2. mid = [call EXCEPT ![r] = m]
            BY <2>2, <2>3, <3>1 DEF GatewayInv
        <3>3. call' = [mid EXCEPT ![r].status = code]
            BY <2>1, <3>1
        <3>4. mid[r] = m
            BY <3>2 DEF GatewayInv
        <3>5. call' = [mid EXCEPT ![r] = d]
            BY <2>5, <3>3, <3>4
        <3> QED
            BY <3>2, <3>5 DEF GatewayInv
    <2>8. CallInv(c, r, granted) /\ c.stage = "app" /\ c.principal # None
        BY <1>1, <1>3, <2>2 DEF GatewayInv
    <2>9. Admitted(d, r, granted)
        <3>1. Admitted(c, r, granted)
            BY <2>8 DEF CallInv
        <3> QED
            BY <2>4, <2>6, <3>1, StaysAdmitted
    <2>10. Identified(d, r, granted)
        <3>1. Identified(c, r, granted)
            BY <2>8 DEF CallInv
        <3> QED
            BY <2>4, <2>6, <3>1 DEF Identified
    <2>11. CallInv(d, r, granted)
        BY <2>4, <2>6, <2>8, <2>9, <2>10 DEF CallInv
    <2> QED
        BY <1>1, <2>6, <2>7, <2>11, BodyKeeps
<1> QED
    BY <1>2, <1>3

\* An empty store fits no grants.
LEMMA NothingGranted == Fits(<<>>, -1, {})
<1>1. IsFiniteSet({})
    BY FS_EmptySet
<1>2. DOMAIN <<>> = {}
    OBVIOUS
<1> QED
    BY <1>1, <1>2 DEF Fits

\* The invariant holds initially.
LEMMA GatewayStarts == GatewayInit => GatewayInv
<1> SUFFICES ASSUME GatewayInit PROVE GatewayInv
    OBVIOUS
<1>1. Fits(limiter.windows, limiter.latest, granted)
    <2>1. limiter.windows = <<>> /\ limiter.latest = -1 /\ granted = {}
        BY DEF GatewayInit, EmptyStore
    <2> QED
        BY <2>1, NothingGranted
<1>2. wall \in 0..MaxWall
    BY EdgeAssumption DEF GatewayInit
<1>3. call \in [Requests -> CallRow] /\ \A r \in Requests : call[r] = Waiting
    BY WaitingRow DEF GatewayInit
<1>4. \A r \in Requests : call[r].stage = "idle"
    BY <1>3 DEF Waiting
<1>5. \A r \in Requests : CallInv(call[r], r, granted)
    BY <1>4 DEF CallInv
<1> QED
    BY <1>1, <1>2, <1>3, <1>5 DEF GatewayInv

\* Every step keeps the invariant.
LEMMA GatewaySteps == GatewayInv /\ [GatewayNext]_gatewayVars => GatewayInv'
<1> SUFFICES ASSUME GatewayInv, [GatewayNext]_gatewayVars PROVE GatewayInv'
    OBVIOUS
<1>1. ASSUME NEW r \in Requests, NEW s \in Shapes, Arrive(r, s) PROVE GatewayInv'
    BY <1>1, ArriveKeeps
<1>2. ASSUME NEW r \in Requests, Disconnect(r) PROVE GatewayInv'
    <2>1. Finish(r, 0) /\ granted' = granted /\ limiter' = limiter /\ wall' = wall
        BY <1>2 DEF Disconnect
    <2> QED
        BY <2>1, DoneKeeps
<1>3. ASSUME NEW r \in Requests, Serve(r) PROVE GatewayInv'
    BY <1>3, ServeKeeps
<1>4. ASSUME NEW r \in Requests, NEW size \in 0..MaxBytes + 1, BufferFrame(r, size) PROVE GatewayInv'
    BY <1>4, BufferKeeps
<1>5. ASSUME NEW r \in Requests, NEW size \in 0..MaxBytes + 1, NEW up \in BOOLEAN,
             EnforcePrincipal(r, size, up)
      PROVE  GatewayInv'
    BY <1>5, PrincipalKeeps
<1>6. ASSUME PassTime \/ StepBack PROVE GatewayInv'
    <2>1. limiter' = limiter /\ call' = call /\ granted' = granted
        BY <1>6 DEF PassTime, StepBack
    <2>2. wall' \in 0..MaxWall
        BY <1>6, EdgeAssumption DEF PassTime, StepBack, GatewayInv
    <2> QED
        BY <2>1, <2>2 DEF GatewayInv
<1>7. ASSUME UNCHANGED gatewayVars PROVE GatewayInv'
    BY <1>7 DEF gatewayVars, GatewayInv
<1> QED
    BY <1>1, <1>2, <1>3, <1>4, <1>5, <1>6, <1>7 DEF GatewayNext

\* GatewayInvariant: the limiter's windows fit what was allowed, and every
\* request's row says which checks are behind it.
THEOREM GatewayInvariant == GatewaySpec => []GatewayInv
    BY GatewayStarts, GatewaySteps, PTL DEF GatewaySpec

\* WindowsAlwaysHold: no key is ever allowed more than its limit in a window, whatever
\* the requests, their keys and the steps of the wall clock.
THEOREM WindowsAlwaysHold == GatewaySpec => []WindowsHold
<1>1. GatewayInv => WindowsHold
    BY DEF GatewayInv, Fits, Of, WindowsHold
<1> QED
    BY <1>1, GatewayInvariant, PTL

\* A request that passes the screen with a cookie was sent by the public page.
LEMMA ScreenedCookie ==
    ASSUME NEW s \in Shapes, Screened(s) = 0
    PROVE  /\ s.authorization = "none" \/ s.cookie = "none"
           /\ s.cookie # "none" =>
                  /\ s.host = "public" /\ s.origin # "other"
                  /\ s.method = "POST" => s.origin = "public" /\ s.csrf
<1>1. CookieVerdict(s) = 0
    BY DEF Screened
<1>2. s.cookie # "none" => CookieRejection(s) = 0
    BY <1>1 DEF CookieVerdict
<1>3. s.origin \in {"none", "public", "other"} /\ s.csrf \in BOOLEAN
    BY ShapeAssumption DEF Header
<1>4. s.cookie # "none" =>
          /\ s.authorization = "none" /\ s.host = "public" /\ s.origin # "other"
          /\ ~(s.origin = "none" /\ s.method # "GET") /\ ~(s.method = "POST" /\ ~s.csrf)
    BY <1>2 DEF CookieRejection
<1> QED
    BY <1>3, <1>4

\* EveryAnswerHasOneIdentity: every request that is served is served for the identity its
\* own credential was signed for, after every window it must pass.
THEOREM EveryAnswerHasOneIdentity == GatewaySpec => []ServedForOneIdentity
<1>1. GatewayInv => ServedForOneIdentity
    <2> SUFFICES ASSUME GatewayInv, NEW r \in Requests, call[r].stage = "served"
                 PROVE  LET c == call[r]
                            s == c.shape
                        IN  /\ c.authorization \in Credentials /\ c.principal = SubjectOf[c.authorization]
                            /\ s.authorization = "none" \/ s.cookie = "none"
                            /\ \A key \in {EdgeKey(s), AdmissionKey(s), PrincipalKey(c.principal)} :
                                   \E w \in 0..Identifier(MaxWall) : <<key, w, r>> \in granted
                            /\ s.cookie # "none" =>
                                   /\ s.host = "public" /\ s.origin # "other"
                                   /\ s.method = "POST" => s.origin = "public" /\ s.csrf
                            /\ c.frames <= MaxFrames /\ c.bytes <= MaxBytes
        BY DEF ServedForOneIdentity
    <2>1. Admitted(call[r], r, granted) /\ Identified(call[r], r, granted)
        BY DEF GatewayInv, CallInv
    <2>2. call[r].shape \in Shapes /\ Screened(call[r].shape) = 0
        BY <2>1 DEF Admitted
    <2>3. PICK s \in Shapes : s = call[r].shape
        BY <2>2
    <2>4. /\ s.authorization = "none" \/ s.cookie = "none"
          /\ s.cookie # "none" =>
                  /\ s.host = "public" /\ s.origin # "other"
                  /\ s.method = "POST" => s.origin = "public" /\ s.csrf
        BY <2>2, <2>3, ScreenedCookie
    <2>5. /\ Charged(EdgeKey(s), r, granted) /\ Charged(AdmissionKey(s), r, granted)
          /\ Charged(PrincipalKey(call[r].principal), r, granted)
        BY <2>1, <2>3 DEF Admitted, Identified
    <2>6. \A key \in {EdgeKey(s), AdmissionKey(s), PrincipalKey(call[r].principal)} :
              \E w \in 0..Identifier(MaxWall) : <<key, w, r>> \in granted
        BY <2>5 DEF Charged
    <2> QED
        BY <2>1, <2>3, <2>4, <2>6 DEF Admitted, Identified
<1> QED
    BY <1>1, GatewayInvariant, PTL


------------------------------------------------------------------------------
(* Dispatch to a service.                                                   *)

MaybeAttempt == Attempts \cup {None}
JobSet == {JobOf[a] : a \in Attempts}
GenerationSet == {GenerationOf[a] : a \in Attempts}
MaybeRuntime == Runtimes \cup {None}
Responses ==
    [job : JobSet, generation : GenerationSet, at : Nat, runtime : MaybeRuntime, evidence : MaybeAttempt]
Answers == Responses \cup {None}
TokenRow == [receiver : Services, job : JobSet, generation : GenerationSet, expires : Int]
Tokens == TokenRow \cup {None}
SenderPc == {"new", "idle", "waiting", "raw", "parse", "result", "accepted", "failed"}
HandlerStage == {"none", "arrived", "body", "running", "computing", "answered", "lost"}
SenderRow == [pc : SenderPc, try : Tries, answer : Answers]
HandlerRow == [stage : HandlerStage, token : Tokens, paths : Nat, status : Nat]
ServiceRow == [ready : BOOLEAN, runtime : Runtimes, facade : MaybeAttempt]

DispatchShape ==
    /\ dispatchNow \in Nat
    /\ kind \in Services /\ serving \in Services
    /\ sender \in [Attempts -> SenderRow]
    /\ handler \in [Attempts -> [Tries -> HandlerRow]]
    /\ service \in ServiceRow
    /\ made \subseteq Responses

\* What the core has checked of the answer r by the time its attempt is at pc.
AnswerInv(s, a, m, stored) ==
    /\ s.pc \in {"raw", "parse", "result", "accepted"} => s.answer \in m
    /\ s.pc \in {"parse", "result", "accepted"} /\ kind = "kronos" => <<"raw", s.answer>> \in stored
    /\ s.pc \in {"result", "accepted"} /\ kind = "tradingagents" =>
           LeaseMatches(a, s.answer) /\ AgentsResultMatches(a, s.answer)
    /\ s.pc = "accepted" => <<"result", s.answer>> \in stored
    /\ s.pc = "accepted" /\ kind = "kronos" =>
           LeaseMatches(a, s.answer) /\ ArtifactMatches(a, s.answer)

Held == {"body", "running", "computing"}

\* What the service sv has checked of a request of attempt a.
WorkInv(h, a, sv) ==
    /\ h.stage = "arrived" => h.token.receiver = kind
    /\ h.stage \in Held => serving = kind
    /\ h.stage \in {"running", "computing"} /\ serving = "kronos" =>
           sv.ready /\ sv.runtime = RuntimeOf[a]
    /\ h.stage = "computing" /\ serving = "tradingagents" => sv.facade = a

OneHolds ==
    \A a, b \in Attempts : \A j, k \in Tries :
        handler[a][j].stage \in Held /\ handler[b][k].stage \in Held => a = b /\ j = k

\* A response was made by the service that was asked, and an analysis in time.
MadeInv ==
    \A r \in made :
        /\ serving = kind
        /\ kind = "tradingagents" =>
               \E a \in Attempts : r.job = JobOf[a] /\ r.generation = GenerationOf[a] /\ r.at < Deadline[a]

DispatchInv ==
    /\ DispatchShape
    /\ \A a \in Attempts : AnswerInv(sender[a], a, made, archived)
    /\ \A a \in Attempts : \A k \in Tries : WorkInv(handler[a][k], a, service)
    /\ OneHolds
    /\ MadeInv

\* One attempt's dispatch moves on.
LEMMA OneSender ==
    ASSUME DispatchInv, NEW a \in Attempts, NEW row \in SenderRow,
           sender' = [sender EXCEPT ![a] = row], kind' = kind,
           made' = made, archived \subseteq archived', AnswerInv(row, a, made, archived')
    PROVE  /\ sender' \in [Attempts -> SenderRow]
           /\ \A b \in Attempts : AnswerInv(sender[b], b, made, archived)'
<1>1. sender' \in [Attempts -> SenderRow]
    BY DEF DispatchInv, DispatchShape
<1>2. ASSUME NEW b \in Attempts PROVE AnswerInv(sender[b], b, made, archived)'
    <2>1. CASE b = a
        <3>1. sender'[b] = row
            BY <2>1 DEF DispatchInv, DispatchShape
        <3> QED
            BY <2>1, <3>1 DEF AnswerInv
    <2>2. CASE b # a
        <3>1. sender'[b] = sender[b]
            BY <2>2 DEF DispatchInv, DispatchShape
        <3>2. AnswerInv(sender[b], b, made, archived)
            BY DEF DispatchInv
        <3> QED
            BY <3>1, <3>2 DEF AnswerInv
    <2> QED
        BY <2>1, <2>2
<1> QED
    BY <1>1, <1>2

\* One request of the service moves on.
LEMMA OneRequest ==
    ASSUME NEW a \in Attempts, NEW k \in Tries, NEW row \in HandlerRow,
           handler \in [Attempts -> [Tries -> HandlerRow]],
           handler' = [handler EXCEPT ![a][k] = row]
    PROVE  /\ handler' \in [Attempts -> [Tries -> HandlerRow]]
           /\ handler'[a][k] = row
           /\ \A b \in Attempts : \A j \in Tries : ~(b = a /\ j = k) => handler'[b][j] = handler[b][j]
<1>1. PICK f \in [Tries -> HandlerRow] : f = [handler[a] EXCEPT ![k] = row]
    OBVIOUS
<1>2. handler' = [handler EXCEPT ![a] = f]
    BY <1>1
<1>3. f[k] = row /\ \A j \in Tries : j # k => f[j] = handler[a][j]
    BY <1>1
<1> HIDE DEF Tries
<1>4. handler' \in [Attempts -> [Tries -> HandlerRow]]
    BY <1>2
<1>5. handler'[a] = f /\ \A b \in Attempts : b # a => handler'[b] = handler[b]
    BY <1>2
<1> QED
    BY <1>3, <1>4, <1>5

\* A request that gets a place finds the service free; one that has none takes none.
LEMMA RequestKeeps ==
    ASSUME DispatchInv, NEW a \in Attempts, NEW k \in Tries, NEW row \in HandlerRow,
           handler' = [handler EXCEPT ![a][k] = row], kind' = kind, serving' = serving,
           service' \in ServiceRow,
           \A b \in Attempts : \A j \in Tries :
               ~(b = a /\ j = k) => WorkInv(handler[b][j], b, service'),
           WorkInv(row, a, service'),
           row.stage \in Held =>
               \A b \in Attempts : \A j \in Tries : handler[b][j].stage \in Held => b = a /\ j = k
    PROVE  /\ handler' \in [Attempts -> [Tries -> HandlerRow]]
           /\ \A b \in Attempts : \A j \in Tries : WorkInv(handler[b][j], b, service)'
           /\ OneHolds'
<1>1. /\ handler' \in [Attempts -> [Tries -> HandlerRow]]
      /\ handler'[a][k] = row
      /\ \A b \in Attempts : \A j \in Tries : ~(b = a /\ j = k) => handler'[b][j] = handler[b][j]
    <2>1. handler \in [Attempts -> [Tries -> HandlerRow]]
        BY DEF DispatchInv, DispatchShape
    <2> QED
        BY <2>1, OneRequest
<1>2. ASSUME NEW b \in Attempts, NEW j \in Tries PROVE WorkInv(handler[b][j], b, service)'
    <2>1. WorkInv(handler'[b][j], b, service')
        <3>1. CASE b = a /\ j = k
            BY <1>1, <3>1
        <3>2. CASE ~(b = a /\ j = k)
            BY <1>1, <3>2
        <3> QED
            BY <3>1, <3>2
    <2> QED
        BY <2>1 DEF WorkInv
<1>3. OneHolds'
    BY <1>1 DEF OneHolds, DispatchInv
<1> QED
    BY <1>1, <1>2, <1>3

\* Nothing changes in the service.
LEMMA ServiceKept ==
    ASSUME DispatchInv, service' = service
    PROVE  service' \in ServiceRow /\ \A b \in Attempts : \A j \in Tries : WorkInv(handler[b][j], b, service')
    BY DEF DispatchInv, DispatchShape

\* A request that is over, or that has only arrived, holds nothing.
LEMMA EndedKeeps ==
    ASSUME DispatchInv, NEW a \in Attempts, NEW k \in Tries, NEW row \in HandlerRow,
           handler' = [handler EXCEPT ![a][k] = row], kind' = kind, serving' = serving,
           service' = service, row.stage \in {"arrived", "answered", "lost"},
           row.stage = "arrived" => row.token.receiver = kind
    PROVE  /\ handler' \in [Attempts -> [Tries -> HandlerRow]]
           /\ \A b \in Attempts : \A j \in Tries : WorkInv(handler[b][j], b, service)'
           /\ OneHolds'
<1>1. WorkInv(row, a, service') /\ row.stage \notin Held
    BY DEF WorkInv, Held
<1> QED
    BY <1>1, ServiceKept, RequestKeeps

\* The row of a request that is over.
LEMMA EndedRow ==
    /\ \A code \in Nat : LET h == [NoRequest EXCEPT !.stage = "answered", !.status = code]
                         IN  h \in HandlerRow /\ h.stage = "answered"
    /\ LET h == [NoRequest EXCEPT !.stage = "lost"] IN h \in HandlerRow /\ h.stage = "lost"
    BY DEF NoRequest, HandlerRow, HandlerStage, Tokens

\* The service answers.
LEMMA ReplyKeeps ==
    ASSUME DispatchInv, NEW a \in Attempts, NEW k \in Tries, NEW code \in Nat, AnswerHttp(a, k, code),
           kind' = kind, serving' = serving, service' = service
    PROVE  /\ handler' \in [Attempts -> [Tries -> HandlerRow]]
           /\ \A b \in Attempts : \A j \in Tries : WorkInv(handler[b][j], b, service)'
           /\ OneHolds'
<1>1. PICK row : row = IF sender[a].pc = "waiting" /\ sender[a].try = k
                       THEN [NoRequest EXCEPT !.stage = "answered", !.status = code]
                       ELSE [NoRequest EXCEPT !.stage = "lost"]
    OBVIOUS
<1>2. handler' = [handler EXCEPT ![a][k] = row]
    BY <1>1 DEF AnswerHttp
<1>3. row \in HandlerRow /\ row.stage \in {"answered", "lost"}
    BY <1>1, EndedRow
<1> QED
    BY <1>2, <1>3, EndedKeeps

\* The core hangs up.
LEMMA HangUpKeeps ==
    ASSUME DispatchInv, NEW a \in Attempts, HangUp(a),
           kind' = kind, serving' = serving, service' = service
    PROVE  /\ handler' \in [Attempts -> [Tries -> HandlerRow]]
           /\ \A b \in Attempts : \A j \in Tries : WorkInv(handler[b][j], b, service)'
           /\ OneHolds'
<1>1. PICK k \in Tries : k = sender[a].try
    BY DEF DispatchInv, DispatchShape, SenderRow
<1>2. PICK h \in HandlerRow : h = handler[a][k]
    BY DEF DispatchInv, DispatchShape
<1>3. PICK row : row = IF h.stage = "answered" THEN [NoRequest EXCEPT !.stage = "lost"] ELSE h
    OBVIOUS
<1>4. handler' = [handler EXCEPT ![a][k] = row]
    BY <1>1, <1>2, <1>3 DEF HangUp, DispatchInv, DispatchShape
<1>5. CASE h.stage = "answered"
    <2>1. row \in HandlerRow /\ row.stage = "lost"
        BY <1>3, <1>5, EndedRow
    <2> QED
        BY <1>4, <2>1, EndedKeeps
<1>6. CASE h.stage # "answered"
    <2>1. row = handler[a][k] /\ row \in HandlerRow
        BY <1>2, <1>3, <1>6
    <2>2. WorkInv(row, a, service')
        BY <2>1, ServiceKept
    <2>3. row.stage \in Held =>
              \A b \in Attempts : \A j \in Tries : handler[b][j].stage \in Held => b = a /\ j = k
        BY <2>1 DEF DispatchInv, OneHolds
    <2> QED
        BY <1>4, <2>1, <2>2, <2>3, ServiceKept, RequestKeeps
<1> QED
    BY <1>5, <1>6

\* The rows of the core's side and their fields.
LEMMA SenderRows ==
    /\ 0 \in Tries
    /\ LET d == [Quiet EXCEPT !.pc = "failed"] IN d \in SenderRow /\ d.pc = "failed"
    /\ LET d == [Quiet EXCEPT !.pc = "new"] IN d \in SenderRow /\ d.pc = "new"
    /\ \A n \in Tries : LET d == [Quiet EXCEPT !.try = n] IN d \in SenderRow /\ d.pc = "idle"
    /\ \A c \in SenderRow : \A x \in SenderPc : LET d == [c EXCEPT !.pc = x] IN
           d \in SenderRow /\ d.pc = x /\ d.try = c.try /\ d.answer = c.answer
    /\ \A c \in SenderRow : \A x \in Answers : LET d == [c EXCEPT !.answer = x] IN
           d \in SenderRow /\ d.pc = c.pc /\ d.answer = x
<1>1. 0 \in Tries
    BY DispatchAssumption DEF Tries
<1>2. None \in Answers
    BY DEF Answers
<1>3. {"failed", "new", "idle"} \subseteq SenderPc
    BY DEF SenderPc
<1>4. LET d == [Quiet EXCEPT !.pc = "failed"] IN d \in SenderRow /\ d.pc = "failed"
    BY <1>1, <1>2, <1>3 DEF Quiet, SenderRow
<1>5. LET d == [Quiet EXCEPT !.pc = "new"] IN d \in SenderRow /\ d.pc = "new"
    BY <1>1, <1>2, <1>3 DEF Quiet, SenderRow
<1>6. \A n \in Tries : LET d == [Quiet EXCEPT !.try = n] IN d \in SenderRow /\ d.pc = "idle"
    BY <1>2, <1>3 DEF Quiet, SenderRow
<1>7. ASSUME NEW c \in SenderRow, NEW x \in SenderPc
      PROVE  LET d == [c EXCEPT !.pc = x] IN
               d \in SenderRow /\ d.pc = x /\ d.try = c.try /\ d.answer = c.answer
    BY DEF SenderRow
<1>8. ASSUME NEW c \in SenderRow, NEW x \in Answers
      PROVE  LET d == [c EXCEPT !.answer = x] IN d \in SenderRow /\ d.pc = c.pc /\ d.answer = x
    BY DEF SenderRow
<1> QED
    BY <1>1, <1>4, <1>5, <1>6, <1>7, <1>8

\* An attempt that has no answer in hand has nothing to show.
LEMMA QuietKeeps ==
    ASSUME DispatchInv, NEW a \in Attempts, NEW row \in SenderRow, row.pc \in {"failed", "idle", "waiting"},
           sender' = [sender EXCEPT ![a] = row], kind' = kind,
           made' = made, archived \subseteq archived'
    PROVE  /\ sender' \in [Attempts -> SenderRow]
           /\ \A b \in Attempts : AnswerInv(sender[b], b, made, archived)'
<1>1. AnswerInv(row, a, made, archived')
    BY DEF AnswerInv
<1> QED
    BY <1>1, OneSender

\* The core gives up.
LEMMA FailKeeps ==
    ASSUME DispatchInv, NEW a \in Attempts, Fail(a), kind' = kind,
           made' = made, archived \subseteq archived'
    PROVE  /\ sender' \in [Attempts -> SenderRow]
           /\ \A b \in Attempts : AnswerInv(sender[b], b, made, archived)'
<1>1. PICK row : row = [Quiet EXCEPT !.pc = "failed"]
    OBVIOUS
<1>2. row \in SenderRow /\ row.pc = "failed"
    BY <1>1, SenderRows
<1>3. sender' = [sender EXCEPT ![a] = row]
    BY <1>1 DEF Fail
<1> QED
    BY <1>2, <1>3, QuietKeeps

\* The core tries again, or gives up.
LEMMA TryAgainKeeps ==
    ASSUME DispatchInv, NEW a \in Attempts, TryAgain(a), kind' = kind,
           made' = made, archived' = archived
    PROVE  /\ sender' \in [Attempts -> SenderRow]
           /\ \A b \in Attempts : AnswerInv(sender[b], b, made, archived)'
<1>1. PICK k \in Tries : k = sender[a].try
    BY DEF DispatchInv, DispatchShape, SenderRow
<1>2. CASE k < MaxTransientRetries
    <2>1. k + 1 \in Tries
        BY <1>2, DispatchAssumption DEF Tries
    <2>2. PICK row : row = [Quiet EXCEPT !.try = k + 1]
        OBVIOUS
    <2>3. row \in SenderRow /\ row.pc = "idle"
        BY <2>1, <2>2, SenderRows
    <2>4. sender' = [sender EXCEPT ![a] = row]
        BY <1>1, <1>2, <2>2 DEF TryAgain
    <2> QED
        BY <2>3, <2>4, QuietKeeps
<1>3. CASE ~(k < MaxTransientRetries)
    <2>1. Fail(a)
        BY <1>1, <1>3 DEF TryAgain
    <2> QED
        BY <2>1, FailKeeps
<1> QED
    BY <1>2, <1>3

\* An attempt goes on to pc with the answer it has.
LEMMA GiveKeeps ==
    ASSUME DispatchInv, NEW a \in Attempts, NEW pc \in SenderPc, Give(a, pc), kind' = kind,
           made' = made, archived \subseteq archived',
           \A d \in SenderRow : d.pc = pc /\ d.answer = sender[a].answer => AnswerInv(d, a, made, archived')
    PROVE  /\ sender' \in [Attempts -> SenderRow]
           /\ \A b \in Attempts : AnswerInv(sender[b], b, made, archived)'
<1>1. PICK c \in SenderRow : c = sender[a]
    BY DEF DispatchInv, DispatchShape
<1>2. PICK d : d = [c EXCEPT !.pc = pc]
    OBVIOUS
<1>3. d \in SenderRow /\ d.pc = pc /\ d.answer = c.answer
    BY <1>2, SenderRows
<1>4. sender' = [sender EXCEPT ![a] = d]
    BY <1>1, <1>2 DEF Give
<1>5. AnswerInv(d, a, made, archived')
    BY <1>1, <1>3
<1> QED
    BY <1>3, <1>4, <1>5, OneSender

\* The stages of an attempt.
LEMMA PcNames == {"idle", "waiting", "raw", "parse", "result", "accepted"} \subseteq SenderPc
    BY DEF SenderPc

\* Steps of the core leave the service's requests alone, or one of them.
LEMMA HandlerKept ==
    ASSUME DispatchInv, handler' = handler, kind' = kind, serving' = serving, service' = service
    PROVE  /\ handler' \in [Attempts -> [Tries -> HandlerRow]]
           /\ \A b \in Attempts : \A j \in Tries : WorkInv(handler[b][j], b, service)'
           /\ OneHolds'
<1>1. ASSUME NEW b \in Attempts, NEW j \in Tries PROVE WorkInv(handler[b][j], b, service)'
    <2>1. WorkInv(handler[b][j], b, service)
        BY DEF DispatchInv
    <2> QED
        BY <2>1 DEF WorkInv
<1>2. OneHolds'
    BY DEF OneHolds, DispatchInv
<1> QED
    BY <1>1, <1>2 DEF DispatchInv, DispatchShape

\* Nothing changes for the core.
LEMMA SenderKept ==
    ASSUME DispatchInv, sender' = sender, kind' = kind, archived' = archived, made \subseteq made'
    PROVE  /\ sender' \in [Attempts -> SenderRow]
           /\ \A b \in Attempts : AnswerInv(sender[b], b, made, archived)'
<1>1. ASSUME NEW b \in Attempts PROVE AnswerInv(sender[b], b, made, archived)'
    <2>1. AnswerInv(sender[b], b, made, archived)
        BY DEF DispatchInv
    <2> QED
        BY <2>1 DEF AnswerInv
<1> QED
    BY <1>1 DEF DispatchInv, DispatchShape

\* The parts put together; made does not change.
LEMMA CoreStep ==
    ASSUME DispatchInv, dispatchNow' = dispatchNow, kind' = kind, serving' = serving, service' = service, made' = made,
           sender' \in [Attempts -> SenderRow],
           \A b \in Attempts : AnswerInv(sender[b], b, made, archived)',
           handler' \in [Attempts -> [Tries -> HandlerRow]],
           \A b \in Attempts : \A j \in Tries : WorkInv(handler[b][j], b, service)',
           OneHolds'
    PROVE  DispatchInv'
<1>1. DispatchShape'
    BY DEF DispatchInv, DispatchShape
<1>2. MadeInv'
    BY DEF DispatchInv, MadeInv
<1> QED
    BY <1>1, <1>2 DEF DispatchInv

LEMMA BeginKeeps ==
    ASSUME DispatchInv, NEW a \in Attempts, NEW bound \in BOOLEAN, Begin(a, bound)
    PROVE  DispatchInv'
<1>1. /\ dispatchNow' = dispatchNow /\ kind' = kind /\ serving' = serving /\ service' = service /\ made' = made
      /\ handler' = handler /\ archived' = archived /\ (Give(a, "idle") \/ Fail(a))
    BY DEF Begin
<1>2. /\ sender' \in [Attempts -> SenderRow]
      /\ \A b \in Attempts : AnswerInv(sender[b], b, made, archived)'
    <2>1. CASE Fail(a)
        BY <1>1, <2>1, FailKeeps
    <2>2. CASE Give(a, "idle")
        <3>1. \A d \in SenderRow : d.pc = "idle" => AnswerInv(d, a, made, archived')
            BY DEF AnswerInv
        <3> QED
            BY <1>1, <2>2, <3>1, PcNames, GiveKeeps
    <2> QED
        BY <1>1, <2>1, <2>2
<1> QED
    BY <1>1, <1>2, HandlerKept, CoreStep

LEMMA SendKeeps ==
    ASSUME DispatchInv, NEW a \in Attempts, Send(a)
    PROVE  DispatchInv'
<1>1. /\ dispatchNow' = dispatchNow /\ kind' = kind /\ serving' = serving /\ service' = service /\ made' = made
      /\ archived' = archived
    BY DEF Send
<1>2. CASE dispatchNow >= Deadline[a]
    <2>1. Fail(a) /\ handler' = handler
        BY <1>2 DEF Send
    <2> QED
        BY <1>1, <2>1, FailKeeps, HandlerKept, CoreStep
<1>3. CASE ~(dispatchNow >= Deadline[a])
    <2>1. PICK k \in Tries : k = sender[a].try
        BY DEF DispatchInv, DispatchShape, SenderRow
    <2>2. PICK row : row = [NoRequest EXCEPT !.stage = "arrived", !.token = Claims(a)]
        OBVIOUS
    <2>3. Give(a, "waiting") /\ handler' = [handler EXCEPT ![a][k] = row]
        BY <1>3, <2>1, <2>2 DEF Send
    <2>4. PICK token \in Tokens : token = Claims(a) /\ token.receiver = kind
        <3>1. ExpiryOf(a) \in Int
            BY DispatchAssumption DEF ExpiryOf, DispatchInv, DispatchShape
        <3>2. Claims(a) \in TokenRow /\ Claims(a).receiver = kind
            BY <3>1 DEF Claims, TokenRow, JobSet, GenerationSet, DispatchInv, DispatchShape
        <3> QED
            BY <3>2 DEF Tokens
    <2>5. row = [stage |-> "arrived", token |-> token, paths |-> 0, status |-> 0]
        BY <2>2, <2>4 DEF NoRequest
    <2>6. row \in HandlerRow /\ row.stage = "arrived" /\ row.token.receiver = kind
        BY <2>4, <2>5 DEF HandlerRow, HandlerStage
    <2>7. /\ handler' \in [Attempts -> [Tries -> HandlerRow]]
          /\ \A b \in Attempts : \A j \in Tries : WorkInv(handler[b][j], b, service)'
          /\ OneHolds'
        BY <1>1, <2>3, <2>6, EndedKeeps
    <2>8. \A d \in SenderRow : d.pc = "waiting" => AnswerInv(d, a, made, archived')
        BY DEF AnswerInv
    <2>9. /\ sender' \in [Attempts -> SenderRow]
          /\ \A b \in Attempts : AnswerInv(sender[b], b, made, archived)'
        BY <1>1, <2>3, <2>8, PcNames, GiveKeeps
    <2> QED
        BY <1>1, <2>7, <2>9, CoreStep
<1> QED
    BY <1>2, <1>3

LEMMA BreakKeeps ==
    ASSUME DispatchInv, NEW a \in Attempts, Break(a)
    PROVE  DispatchInv'
<1>1. /\ dispatchNow' = dispatchNow /\ kind' = kind /\ serving' = serving /\ service' = service /\ made' = made
      /\ archived' = archived /\ TryAgain(a) /\ HangUp(a)
    BY DEF Break
<1> QED
    BY <1>1, TryAgainKeeps, HangUpKeeps, CoreStep

LEMMA ReceiveKeeps ==
    ASSUME DispatchInv, NEW a \in Attempts, Receive(a)
    PROVE  DispatchInv'
<1>1. /\ dispatchNow' = dispatchNow /\ kind' = kind /\ serving' = serving /\ service' = service /\ made' = made
      /\ archived' = archived /\ HangUp(a)
    BY DEF Receive
<1>2. /\ sender' \in [Attempts -> SenderRow]
      /\ \A b \in Attempts : AnswerInv(sender[b], b, made, archived)'
    <2>1. CASE handler[a][sender[a].try].status = 200
        <3>1. PICK r \in made :
                  sender' = [sender EXCEPT ![a].pc = IF kind = "kronos" THEN "raw" ELSE "parse",
                                           ![a].answer = r]
            BY <2>1 DEF Receive
        <3>2. PICK pc \in {"raw", "parse"} : pc = IF kind = "kronos" THEN "raw" ELSE "parse"
            OBVIOUS
        <3>3. PICK c \in SenderRow : c = sender[a]
            BY DEF DispatchInv, DispatchShape
        <3>4. PICK m : m = [c EXCEPT !.pc = pc]
            OBVIOUS
        <3>5. m \in SenderRow /\ m.pc = pc
            BY <3>4, PcNames, SenderRows
        <3>6. PICK d : d = [m EXCEPT !.answer = r]
            OBVIOUS
        <3>7. d \in SenderRow /\ d.pc = pc /\ d.answer = r
            <4>1. r \in Answers
                BY DEF Answers, DispatchInv, DispatchShape
            <4> QED
                BY <3>5, <3>6, <4>1, SenderRows
        <3>8. sender' = [sender EXCEPT ![a] = d]
            <4>1. PICK mid : mid = [sender EXCEPT ![a].pc = pc]
                OBVIOUS
            <4>2. mid = [sender EXCEPT ![a] = m]
                BY <3>3, <3>4, <4>1 DEF DispatchInv, DispatchShape
            <4>3. sender' = [mid EXCEPT ![a].answer = r]
                BY <3>1, <3>2, <4>1
            <4>4. mid[a] = m
                BY <4>2 DEF DispatchInv, DispatchShape
            <4>5. sender' = [mid EXCEPT ![a] = d]
                BY <3>6, <4>3, <4>4
            <4> QED
                BY <4>2, <4>5 DEF DispatchInv, DispatchShape
        <3>9. AnswerInv(d, a, made, archived')
            BY <3>2, <3>7 DEF AnswerInv
        <3> QED
            BY <1>1, <3>7, <3>8, <3>9, OneSender
    <2>2. CASE handler[a][sender[a].try].status # 200
        <3>1. TryAgain(a) \/ Fail(a)
            BY <2>2 DEF Receive
        <3>2. CASE TryAgain(a)
            BY <1>1, <3>2, TryAgainKeeps
        <3>3. CASE Fail(a)
            BY <1>1, <3>3, FailKeeps
        <3> QED
            BY <3>1, <3>2, <3>3
    <2> QED
        BY <2>1, <2>2
<1> QED
    BY <1>1, <1>2, HangUpKeeps, CoreStep

LEMMA ArchiveRawKeeps ==
    ASSUME DispatchInv, NEW a \in Attempts, ArchiveResponse(a)
    PROVE  DispatchInv'
<1>1. /\ dispatchNow' = dispatchNow /\ kind' = kind /\ serving' = serving /\ service' = service /\ made' = made
      /\ handler' = handler /\ sender[a].pc = "raw"
    BY DEF ArchiveResponse
<1>2. /\ sender' \in [Attempts -> SenderRow]
      /\ \A b \in Attempts : AnswerInv(sender[b], b, made, archived)'
    <2>1. CASE Fail(a) /\ archived' = archived
        BY <1>1, <2>1, FailKeeps
    <2>2. CASE archived' = archived \cup {<<"raw", sender[a].answer>>} /\ Give(a, "parse")
        <3>1. AnswerInv(sender[a], a, made, archived)
            BY DEF DispatchInv
        <3>2. sender[a].answer \in made
            BY <1>1, <3>1 DEF AnswerInv
        <3>3. <<"raw", sender[a].answer>> \in archived'
            BY <2>2
        <3>4. \A d \in SenderRow : d.pc = "parse" /\ d.answer = sender[a].answer =>
                  AnswerInv(d, a, made, archived')
            BY <3>2, <3>3 DEF AnswerInv
        <3>5. archived \subseteq archived'
            BY <2>2
        <3> QED
            BY <1>1, <2>2, <3>4, <3>5, PcNames, GiveKeeps
    <2> QED
        BY <2>1, <2>2 DEF ArchiveResponse
<1> QED
    BY <1>1, <1>2, HandlerKept, CoreStep

LEMMA ParseKeeps ==
    ASSUME DispatchInv, NEW a \in Attempts, ParseResponse(a)
    PROVE  DispatchInv'
<1>1. /\ dispatchNow' = dispatchNow /\ kind' = kind /\ serving' = serving /\ service' = service /\ made' = made
      /\ handler' = handler /\ archived' = archived /\ sender[a].pc = "parse"
    BY DEF ParseResponse
<1> DEFINE checked == LeaseMatches(a, sender[a].answer) /\ AgentsResultMatches(a, sender[a].answer)
<1>2. Fail(a) \/ (Give(a, "result") /\ (kind = "tradingagents" => checked))
    BY DEF ParseResponse
<1>3. /\ sender' \in [Attempts -> SenderRow]
      /\ \A b \in Attempts : AnswerInv(sender[b], b, made, archived)'
    <2>1. CASE Fail(a)
        BY <1>1, <2>1, FailKeeps
    <2>2. CASE Give(a, "result") /\ (kind = "tradingagents" => checked)
        <3>1. AnswerInv(sender[a], a, made, archived)
            BY DEF DispatchInv
        <3>2. /\ sender[a].answer \in made
              /\ kind = "kronos" => <<"raw", sender[a].answer>> \in archived
            BY <1>1, <3>1 DEF AnswerInv
        <3>3. \A d \in SenderRow : d.pc = "result" /\ d.answer = sender[a].answer =>
                  AnswerInv(d, a, made, archived')
            BY <1>1, <2>2, <3>2 DEF AnswerInv
        <3> QED
            BY <1>1, <2>2, <3>3, PcNames, GiveKeeps
    <2> QED
        BY <1>2, <2>1, <2>2
<1> QED
    BY <1>1, <1>3, HandlerKept, CoreStep

LEMMA ArchiveResultKeeps ==
    ASSUME DispatchInv, NEW a \in Attempts, ArchiveResult(a)
    PROVE  DispatchInv'
<1> DEFINE r == sender[a].answer
<1>1. /\ dispatchNow' = dispatchNow /\ kind' = kind /\ serving' = serving /\ service' = service /\ made' = made
      /\ handler' = handler /\ sender[a].pc = "result"
    BY DEF ArchiveResult
<1>2. \/ Fail(a) /\ archived \subseteq archived'
      \/ /\ archived' = archived \cup {<<"result", r>>} /\ Give(a, "accepted")
         /\ kind = "kronos" => LeaseMatches(a, r) /\ ArtifactMatches(a, r)
    BY DEF ArchiveResult, MapForecast
<1>3. /\ sender' \in [Attempts -> SenderRow]
      /\ \A b \in Attempts : AnswerInv(sender[b], b, made, archived)'
    <2>1. CASE Fail(a) /\ archived \subseteq archived'
        BY <1>1, <2>1, FailKeeps
    <2>2. CASE /\ archived' = archived \cup {<<"result", r>>} /\ Give(a, "accepted")
               /\ kind = "kronos" => LeaseMatches(a, r) /\ ArtifactMatches(a, r)
        <3>1. AnswerInv(sender[a], a, made, archived)
            BY DEF DispatchInv
        <3>2. /\ r \in made
              /\ kind = "kronos" => <<"raw", r>> \in archived
              /\ kind = "tradingagents" => LeaseMatches(a, r) /\ AgentsResultMatches(a, r)
            BY <1>1, <3>1 DEF AnswerInv
        <3>3. <<"result", r>> \in archived' /\ archived \subseteq archived'
            BY <2>2
        <3>4. \A d \in SenderRow : d.pc = "accepted" /\ d.answer = sender[a].answer =>
                  AnswerInv(d, a, made, archived')
            BY <2>2, <3>2, <3>3 DEF AnswerInv
        <3> QED
            BY <1>1, <2>2, <3>3, <3>4, PcNames, GiveKeeps
    <2> QED
        BY <1>2, <2>1, <2>2
<1> QED
    BY <1>1, <1>3, HandlerKept, CoreStep

\* A request takes the next stage.
LEMMA StageRow ==
    ASSUME NEW c \in HandlerRow, NEW x \in HandlerStage
    PROVE  LET d == [c EXCEPT !.stage = x] IN
             d \in HandlerRow /\ d.stage = x /\ d.token = c.token /\ d.paths = c.paths
    BY DEF HandlerRow

\* The stages of a request in work.
LEMMA StageNameSet == {"body", "running", "computing"} \subseteq HandlerStage
    BY DEF HandlerStage

LEMMA AdmitKeeps ==
    ASSUME DispatchInv, NEW a \in Attempts, NEW k \in Tries, NEW admitted \in BOOLEAN,
           Admit(a, k, admitted)
    PROVE  DispatchInv'
<1>1. /\ dispatchNow' = dispatchNow /\ kind' = kind /\ serving' = serving /\ service' = service /\ made' = made
      /\ archived' = archived /\ sender' = sender /\ handler[a][k].stage = "arrived"
    BY DEF Admit
<1>2. PICK h \in HandlerRow : h = handler[a][k]
    BY DEF DispatchInv, DispatchShape
<1>3. \/ AnswerHttp(a, k, 429) \/ AnswerHttp(a, k, 401)
      \/ Authentic(h.token) /\ TryAcquire /\ handler' = [handler EXCEPT ![a][k].stage = "body"]
    BY <1>2 DEF Admit
<1>4. /\ handler' \in [Attempts -> [Tries -> HandlerRow]]
      /\ \A b \in Attempts : \A j \in Tries : WorkInv(handler[b][j], b, service)'
      /\ OneHolds'
    <2>1. CASE AnswerHttp(a, k, 429) \/ AnswerHttp(a, k, 401)
        BY <1>1, <2>1, ReplyKeeps
    <2>2. CASE Authentic(h.token) /\ TryAcquire /\ handler' = [handler EXCEPT ![a][k].stage = "body"]
        <3>1. PICK d : d = [h EXCEPT !.stage = "body"]
            OBVIOUS
        <3>2. d \in HandlerRow /\ d.stage = "body"
            BY <3>1, StageRow, StageNameSet
        <3>3. handler' = [handler EXCEPT ![a][k] = d]
            BY <1>2, <2>2, <3>1 DEF DispatchInv, DispatchShape
        <3>4. serving = kind
            <4>1. WorkInv(handler[a][k], a, service)
                BY DEF DispatchInv
            <4> QED
                BY <1>1, <1>2, <2>2, <4>1 DEF WorkInv, Authentic
        <3>5. WorkInv(d, a, service')
            BY <3>2, <3>4 DEF WorkInv
        <3>6. \A b \in Attempts : \A j \in Tries : handler[b][j].stage \notin Held
            <4> SUFFICES ASSUME NEW b \in Attempts, NEW j \in Tries, handler[b][j].stage \in Held
                         PROVE  FALSE
                OBVIOUS
            <4>1. <<b, j>> \in Holding
                BY DEF Holding, Held
            <4> QED
                BY <2>2, <4>1 DEF TryAcquire
        <3> QED
            BY <1>1, <3>2, <3>3, <3>5, <3>6, ServiceKept, RequestKeeps
    <2> QED
        BY <1>3, <2>1, <2>2
<1> QED
    BY <1>1, <1>4, SenderKept, CoreStep

\* Every refusal has a status.
LEMMA StatusCodes ==
    ASSUME NEW a
    PROVE  /\ WorkerPreflight(a) \in Nat
           /\ \A code : WorkerErrorStatus(code) \in Nat /\ StatusFor(code) \in Nat
    BY DEF WorkerPreflight, KronosPreflight, AgentsPreflight, WorkerErrorStatus, StatusFor

\* A request that has its place keeps it.
LEMMA HolderMoves ==
    ASSUME DispatchInv, NEW a \in Attempts, NEW k \in Tries, handler[a][k].stage \in Held
    PROVE  \A b \in Attempts : \A j \in Tries : handler[b][j].stage \in Held => b = a /\ j = k
    BY DEF DispatchInv, OneHolds

LEMMA ReadBodyKeeps ==
    ASSUME DispatchInv, NEW a \in Attempts, NEW k \in Tries, NEW readable \in BOOLEAN,
           ReadBody(a, k, readable)
    PROVE  DispatchInv'
<1>1. /\ dispatchNow' = dispatchNow /\ kind' = kind /\ serving' = serving /\ service' = service /\ made' = made
      /\ archived' = archived /\ sender' = sender /\ handler[a][k].stage = "body"
    BY DEF ReadBody
<1>2. PICK h \in HandlerRow : h = handler[a][k]
    BY DEF DispatchInv, DispatchShape
<1>3. \/ AnswerHttp(a, k, 400) \/ AnswerHttp(a, k, 403) \/ AnswerHttp(a, k, WorkerPreflight(a))
      \/ WorkerPreflight(a) = 0 /\ handler' = [handler EXCEPT ![a][k].stage = "running"]
    BY <1>2 DEF ReadBody
<1>4. /\ handler' \in [Attempts -> [Tries -> HandlerRow]]
      /\ \A b \in Attempts : \A j \in Tries : WorkInv(handler[b][j], b, service)'
      /\ OneHolds'
    <2>1. CASE AnswerHttp(a, k, 400) \/ AnswerHttp(a, k, 403)
        BY <1>1, <2>1, ReplyKeeps
    <2>2. CASE AnswerHttp(a, k, WorkerPreflight(a))
        BY <1>1, <2>2, StatusCodes, ReplyKeeps
    <2>3. CASE WorkerPreflight(a) = 0 /\ handler' = [handler EXCEPT ![a][k].stage = "running"]
        <3>1. PICK d : d = [h EXCEPT !.stage = "running"]
            OBVIOUS
        <3>2. d \in HandlerRow /\ d.stage = "running"
            BY <3>1, StageRow, StageNameSet
        <3>3. handler' = [handler EXCEPT ![a][k] = d]
            BY <1>2, <2>3, <3>1 DEF DispatchInv, DispatchShape
        <3>4. serving = kind
            <4>1. WorkInv(handler[a][k], a, service)
                BY DEF DispatchInv
            <4> QED
                BY <1>1, <4>1 DEF WorkInv, Held
        <3>5. serving = "kronos" => service.ready /\ service.runtime = RuntimeOf[a]
            BY <2>3 DEF WorkerPreflight, KronosPreflight, WorkerErrorStatus
        <3>6. WorkInv(d, a, service')
            BY <1>1, <3>2, <3>4, <3>5 DEF WorkInv
        <3>7. \A b \in Attempts : \A j \in Tries : handler[b][j].stage \in Held => b = a /\ j = k
            BY <1>1, HolderMoves DEF Held
        <3> QED
            BY <1>1, <3>2, <3>3, <3>6, <3>7, ServiceKept, RequestKeeps
    <2> QED
        BY <1>3, <2>1, <2>2, <2>3
<1> QED
    BY <1>1, <1>4, SenderKept, CoreStep

LEMMA BeginWorkKeeps ==
    ASSUME DispatchInv, NEW a \in Attempts, NEW k \in Tries, BeginWork(a, k)
    PROVE  DispatchInv'
<1>1. /\ dispatchNow' = dispatchNow /\ kind' = kind /\ serving' = serving /\ made' = made
      /\ archived' = archived /\ sender' = sender /\ handler[a][k].stage = "running"
      /\ \A b \in Attempts : \A j \in Tries : handler[b][j].stage # "computing"
    BY DEF BeginWork
<1>2. PICK h \in HandlerRow : h = handler[a][k]
    BY DEF DispatchInv, DispatchShape
<1>3. CASE serving = "kronos" /\ dispatchNow >= Deadline[a]
    <2>1. AnswerHttp(a, k, WorkerErrorStatus("deadline_expired")) /\ service' = service
        BY <1>3 DEF BeginWork
    <2>2. /\ handler' \in [Attempts -> [Tries -> HandlerRow]]
          /\ \A b \in Attempts : \A j \in Tries : WorkInv(handler[b][j], b, service)'
          /\ OneHolds'
        BY <1>1, <2>1, StatusCodes, ReplyKeeps
    <2> QED
        BY <1>1, <2>1, <2>2, SenderKept, CoreStep
<1>4. CASE ~(serving = "kronos" /\ dispatchNow >= Deadline[a])
    <2>1. /\ handler' = [handler EXCEPT ![a][k].stage = "computing"]
          /\ service' = IF serving = "kronos" THEN service ELSE [service EXCEPT !.facade = a]
        BY <1>4 DEF BeginWork
    <2>2. /\ service' \in ServiceRow /\ service'.ready = service.ready /\ service'.runtime = service.runtime
          /\ serving = "tradingagents" => service'.facade = a
        <3>1. service \in ServiceRow /\ a \in MaybeAttempt
            BY DEF MaybeAttempt, DispatchInv, DispatchShape
        <3> QED
            BY <2>1, <3>1 DEF ServiceRow
    <2>3. PICK d : d = [h EXCEPT !.stage = "computing"]
        OBVIOUS
    <2>4. d \in HandlerRow /\ d.stage = "computing"
        BY <2>3, StageRow, StageNameSet
    <2>5. handler' = [handler EXCEPT ![a][k] = d]
        BY <1>2, <2>1, <2>3 DEF DispatchInv, DispatchShape
    <2>6. WorkInv(d, a, service')
        <3>1. WorkInv(handler[a][k], a, service)
            BY DEF DispatchInv
        <3> QED
            BY <1>1, <2>2, <2>4, <3>1 DEF WorkInv, Held
    <2>7. \A b \in Attempts : \A j \in Tries : WorkInv(handler[b][j], b, service')
        <3> SUFFICES ASSUME NEW b \in Attempts, NEW j \in Tries
                     PROVE  WorkInv(handler[b][j], b, service')
            OBVIOUS
        <3>1. WorkInv(handler[b][j], b, service) /\ handler[b][j].stage # "computing"
            BY <1>1 DEF DispatchInv
        <3> QED
            BY <2>2, <3>1 DEF WorkInv
    <2>8. \A b \in Attempts : \A j \in Tries : handler[b][j].stage \in Held => b = a /\ j = k
        BY <1>1, HolderMoves DEF Held
    <2>9. /\ handler' \in [Attempts -> [Tries -> HandlerRow]]
          /\ \A b \in Attempts : \A j \in Tries : WorkInv(handler[b][j], b, service)'
          /\ OneHolds'
        BY <1>1, <2>2, <2>4, <2>5, <2>6, <2>7, <2>8, RequestKeeps
    <2>10. /\ sender' \in [Attempts -> SenderRow]
           /\ \A b \in Attempts : AnswerInv(sender[b], b, made, archived)'
        BY <1>1, SenderKept
    <2>11. DispatchShape'
        BY <1>1, <2>2, <2>9, <2>10 DEF DispatchInv, DispatchShape
    <2>12. MadeInv'
        BY <1>1 DEF DispatchInv, MadeInv
    <2> QED
        BY <2>9, <2>10, <2>11, <2>12 DEF DispatchInv
<1> QED
    BY <1>3, <1>4

\* A response r of attempt a is made.
LEMMA MadeKeeps ==
    ASSUME DispatchInv, NEW a \in Attempts, NEW k \in Tries, NEW r \in Responses,
           dispatchNow' = dispatchNow, kind' = kind, serving' = serving, service' = service,
           archived' = archived, sender' = sender, made' = made \cup {r},
           AnswerHttp(a, k, 200), serving = kind, r.job = JobOf[a], r.generation = GenerationOf[a],
           kind = "tradingagents" => r.at < Deadline[a]
    PROVE  DispatchInv'
<1>1. /\ handler' \in [Attempts -> [Tries -> HandlerRow]]
      /\ \A b \in Attempts : \A j \in Tries : WorkInv(handler[b][j], b, service)'
      /\ OneHolds'
    BY ReplyKeeps
<1>2. /\ sender' \in [Attempts -> SenderRow]
      /\ \A b \in Attempts : AnswerInv(sender[b], b, made, archived)'
    BY SenderKept
<1>3. DispatchShape'
    BY <1>1, <1>2 DEF DispatchInv, DispatchShape
<1>4. MadeInv'
    BY DEF DispatchInv, MadeInv
<1> QED
    BY <1>1, <1>2, <1>3, <1>4 DEF DispatchInv

\* Only the service that was asked works.
LEMMA ComputingIsAsked ==
    ASSUME DispatchInv, NEW a \in Attempts, NEW k \in Tries, handler[a][k].stage = "computing"
    PROVE  serving = kind
<1>1. WorkInv(handler[a][k], a, service)
    BY DEF DispatchInv
<1> QED
    BY <1>1 DEF WorkInv, Held

\* The service answers with an error.
LEMMA ErrorKeeps ==
    ASSUME DispatchInv, NEW a \in Attempts, NEW k \in Tries, NEW code \in Nat, AnswerHttp(a, k, code),
           dispatchNow' = dispatchNow, kind' = kind, serving' = serving, service' = service,
           archived' = archived, sender' = sender, made' = made
    PROVE  DispatchInv'
    BY ReplyKeeps, SenderKept, CoreStep

LEMMA EndPathKeeps ==
    ASSUME DispatchInv, NEW a \in Attempts, NEW k \in Tries, EndPath(a, k)
    PROVE  DispatchInv'
<1>1. /\ dispatchNow' = dispatchNow /\ kind' = kind /\ serving' = serving /\ service' = service
      /\ archived' = archived /\ sender' = sender /\ handler[a][k].stage = "computing"
      /\ serving = "kronos" /\ serving = kind
    BY ComputingIsAsked DEF EndPath
<1>2. CASE /\ handler' = [handler EXCEPT ![a][k].stage = "running", ![a][k].paths = @ + 1]
           /\ made' = made
    <2>1. PICK h \in HandlerRow : h = handler[a][k]
        BY DEF DispatchInv, DispatchShape
    <2>2. PICK m : m = [h EXCEPT !.stage = "running"]
        OBVIOUS
    <2>3. m \in HandlerRow /\ m.stage = "running"
        BY <2>2, StageRow, StageNameSet
    <2>4. PICK d : d = [m EXCEPT !.paths = @ + 1]
        OBVIOUS
    <2>5. d \in HandlerRow /\ d.stage = "running"
        BY <2>3, <2>4 DEF HandlerRow
    <2>6. handler' = [handler EXCEPT ![a][k] = d]
        <3>1. PICK mid : mid = [handler EXCEPT ![a][k].stage = "running"]
            OBVIOUS
        <3>2. mid = [handler EXCEPT ![a][k] = m]
            BY <2>1, <2>2, <3>1 DEF DispatchInv, DispatchShape
        <3>3. handler' = [mid EXCEPT ![a][k].paths = @ + 1]
            BY <1>2, <3>1
        <3>4. mid[a][k] = m
            BY <3>2 DEF DispatchInv, DispatchShape
        <3>5. handler' = [mid EXCEPT ![a][k] = d]
            BY <2>4, <3>3, <3>4
        <3> QED
            BY <3>2, <3>5 DEF DispatchInv, DispatchShape
    <2>7. WorkInv(d, a, service')
        <3>1. WorkInv(handler[a][k], a, service)
            BY DEF DispatchInv
        <3> QED
            BY <1>1, <2>5, <3>1 DEF WorkInv, Held
    <2>8. \A b \in Attempts : \A j \in Tries : handler[b][j].stage \in Held => b = a /\ j = k
        BY <1>1, HolderMoves DEF Held
    <2>9. /\ handler' \in [Attempts -> [Tries -> HandlerRow]]
          /\ \A b \in Attempts : \A j \in Tries : WorkInv(handler[b][j], b, service)'
          /\ OneHolds'
        BY <1>1, <2>5, <2>6, <2>7, <2>8, ServiceKept, RequestKeeps
    <2> QED
        BY <1>1, <1>2, <2>9, SenderKept, CoreStep
<1>3. CASE AnswerHttp(a, k, 200) /\ made' = made \cup {KronosResponse(a)}
    <2>1. /\ KronosResponse(a) \in Responses /\ KronosResponse(a).job = JobOf[a]
          /\ KronosResponse(a).generation = GenerationOf[a]
        BY DEF KronosResponse, Responses, JobSet, GenerationSet, MaybeRuntime, MaybeAttempt,
               ServiceRow, DispatchInv, DispatchShape
    <2>2. PICK r \in Responses : r = KronosResponse(a)
        BY <2>1
    <2> QED
        BY <1>1, <1>3, <2>1, <2>2, MadeKeeps
<1>4. CASE /\ \E code \in {"invalid_model_output", "inference_failed"} :
                AnswerHttp(a, k, WorkerErrorStatus(code))
           /\ made' = made
    BY <1>1, <1>4, StatusCodes, ErrorKeeps
<1> QED
    BY <1>2, <1>3, <1>4 DEF EndPath

LEMMA EndAnalysisKeeps ==
    ASSUME DispatchInv, NEW a \in Attempts, NEW k \in Tries, EndAnalysis(a, k)
    PROVE  DispatchInv'
<1>1. /\ dispatchNow' = dispatchNow /\ kind' = kind /\ serving' = serving /\ service' = service
      /\ archived' = archived /\ sender' = sender /\ handler[a][k].stage = "computing"
      /\ serving = "tradingagents" /\ serving = kind
    BY ComputingIsAsked DEF EndAnalysis
<1>2. CASE dispatchNow < Deadline[a] /\ AnswerHttp(a, k, 200) /\ made' = made \cup {AgentsResponse(a)}
    <2>1. /\ AgentsResponse(a) \in Responses /\ AgentsResponse(a).job = JobOf[a]
          /\ AgentsResponse(a).generation = GenerationOf[a] /\ AgentsResponse(a).at = dispatchNow
        BY DEF AgentsResponse, Responses, JobSet, GenerationSet, MaybeRuntime, MaybeAttempt,
               ServiceRow, DispatchInv, DispatchShape
    <2>2. PICK r \in Responses : r = AgentsResponse(a)
        BY <2>1
    <2> QED
        BY <1>1, <1>2, <2>1, <2>2, MadeKeeps
<1>3. CASE (\E code \in {"deadline_exceeded", "runtime_failed", "source_scope_exceeded"} :
                AnswerHttp(a, k, StatusFor(code))) /\ made' = made
    BY <1>1, <1>3, StatusCodes, ErrorKeeps
<1>4. dispatchNow \in Nat /\ Deadline[a] \in Nat
    BY DispatchAssumption DEF DispatchInv, DispatchShape
<1> QED
    BY <1>2, <1>3, <1>4 DEF EndAnalysis

LEMMA WarmKeeps ==
    ASSUME DispatchInv, Warm
    PROVE  DispatchInv'
<1>1. /\ dispatchNow' = dispatchNow /\ kind' = kind /\ serving' = serving /\ made' = made /\ handler' = handler
      /\ archived' = archived /\ sender' = sender /\ service' = [service EXCEPT !.ready = TRUE]
    BY DEF Warm
<1>2. /\ service' \in ServiceRow /\ service'.ready /\ service'.runtime = service.runtime
      /\ service'.facade = service.facade
    <2>1. service \in ServiceRow
        BY DEF DispatchInv, DispatchShape
    <2> QED
        BY <1>1, <2>1 DEF ServiceRow
<1>3. ASSUME NEW b \in Attempts, NEW j \in Tries PROVE WorkInv(handler[b][j], b, service)'
    <2>1. WorkInv(handler[b][j], b, service)
        BY DEF DispatchInv
    <2> QED
        BY <1>1, <1>2, <2>1 DEF WorkInv
<1>4. OneHolds' /\ MadeInv'
    BY <1>1 DEF DispatchInv, OneHolds, MadeInv
<1>5. DispatchShape'
    BY <1>1, <1>2 DEF DispatchInv, DispatchShape
<1>6. /\ sender' \in [Attempts -> SenderRow]
      /\ \A b \in Attempts : AnswerInv(sender[b], b, made, archived)'
    BY <1>1, SenderKept
<1> QED
    BY <1>3, <1>4, <1>5, <1>6 DEF DispatchInv

LEMMA RedeployKeeps ==
    ASSUME DispatchInv, Redeploy
    PROVE  DispatchInv'
<1>1. PICK runtime \in Runtimes : service' = [ready |-> FALSE, runtime |-> runtime, facade |-> None]
    BY DEF Redeploy
<1>2. /\ dispatchNow' = dispatchNow /\ kind' = kind /\ serving' = serving /\ made' = made
      /\ archived' = archived /\ sender' = sender
      /\ handler' = [a \in Attempts |-> [k \in Tries |->
             IF handler[a][k].stage \in {"none", "answered"} THEN handler[a][k]
                                                             ELSE [NoRequest EXCEPT !.stage = "lost"]]]
    BY DEF Redeploy
<1>3. service' \in ServiceRow
    BY <1>1 DEF ServiceRow, MaybeAttempt
<1>4. PICK lost \in HandlerRow : lost = [NoRequest EXCEPT !.stage = "lost"] /\ lost.stage = "lost"
    BY EndedRow
<1>5. ASSUME NEW a \in Attempts, NEW k \in Tries
      PROVE  handler'[a][k] \in HandlerRow /\ handler'[a][k].stage \in {"none", "answered", "lost"}
    <2>1. handler'[a][k] = IF handler[a][k].stage \in {"none", "answered"} THEN handler[a][k] ELSE lost
        BY <1>2, <1>4
    <2>2. handler[a][k] \in HandlerRow
        BY DEF DispatchInv, DispatchShape
    <2> QED
        BY <1>4, <2>1, <2>2
<1>6. handler' \in [Attempts -> [Tries -> HandlerRow]]
    <2> DEFINE F(a, k) == IF handler[a][k].stage \in {"none", "answered"} THEN handler[a][k] ELSE lost
    <2>1. handler' = [a \in Attempts |-> [k \in Tries |-> F(a, k)]]
        BY <1>2, <1>4
    <2>2. \A a \in Attempts : \A k \in Tries : F(a, k) \in HandlerRow
        BY DEF DispatchInv, DispatchShape
    <2> HIDE DEF F
    <2> QED
        BY <2>1, <2>2
<1>7. \A b \in Attempts : \A j \in Tries : WorkInv(handler[b][j], b, service)'
    BY <1>5 DEF WorkInv, Held
<1>8. OneHolds' /\ MadeInv'
    BY <1>2, <1>5 DEF OneHolds, Held, DispatchInv, MadeInv
<1>9. /\ sender' \in [Attempts -> SenderRow]
      /\ \A b \in Attempts : AnswerInv(sender[b], b, made, archived)'
    BY <1>2, SenderKept
<1>10. DispatchShape'
    BY <1>2, <1>3, <1>6, <1>9 DEF DispatchInv, DispatchShape
<1> QED
    BY <1>7, <1>8, <1>9, <1>10 DEF DispatchInv

\* Time passes, or nothing happens.
LEMMA StillKeeps ==
    ASSUME DispatchInv, dispatchNow' \in Nat,
           UNCHANGED <<kind, serving, sender, handler, service, archived, made>>
    PROVE  DispatchInv'
<1>1. /\ sender' \in [Attempts -> SenderRow]
      /\ \A b \in Attempts : AnswerInv(sender[b], b, made, archived)'
    BY SenderKept
<1>2. /\ handler' \in [Attempts -> [Tries -> HandlerRow]]
      /\ \A b \in Attempts : \A j \in Tries : WorkInv(handler[b][j], b, service)'
      /\ OneHolds'
    BY HandlerKept
<1>3. DispatchShape' /\ MadeInv'
    BY <1>1, <1>2 DEF DispatchInv, DispatchShape, MadeInv
<1> QED
    BY <1>1, <1>2, <1>3 DEF DispatchInv

\* The invariant holds initially.
LEMMA DispatchStarts == DispatchInit => DispatchInv
<1> SUFFICES ASSUME DispatchInit PROVE DispatchInv
    OBVIOUS
<1>1. sender \in [Attempts -> SenderRow] /\ \A a \in Attempts : sender[a].pc = "new"
    <2>1. PICK row \in SenderRow : row = [Quiet EXCEPT !.pc = "new"] /\ row.pc = "new"
        BY SenderRows
    <2>2. sender = [a \in Attempts |-> row]
        BY <2>1 DEF DispatchInit
    <2> QED
        BY <2>1, <2>2
<1>2. handler \in [Attempts -> [Tries -> HandlerRow]]
      /\ \A a \in Attempts : \A k \in Tries : handler[a][k].stage = "none"
    <2>1. NoRequest \in HandlerRow /\ NoRequest.stage = "none"
        BY DEF NoRequest, HandlerRow, HandlerStage, Tokens
    <2>2. handler = [a \in Attempts |-> [k \in Tries |-> NoRequest]]
        BY DEF DispatchInit
    <2> QED
        BY <2>1, <2>2
<1>3. service \in ServiceRow
    BY DEF DispatchInit, ServiceRow, MaybeAttempt
<1>4. DispatchShape
    BY <1>1, <1>2, <1>3 DEF DispatchInit, DispatchShape
<1>5. \A a \in Attempts : AnswerInv(sender[a], a, made, archived)
    BY <1>1 DEF AnswerInv
<1>6. \A a \in Attempts : \A k \in Tries : WorkInv(handler[a][k], a, service)
    BY <1>2 DEF WorkInv, Held
<1>7. OneHolds /\ MadeInv
    BY <1>2 DEF OneHolds, Held, MadeInv, DispatchInit
<1> QED
    BY <1>4, <1>5, <1>6, <1>7 DEF DispatchInv

\* Every step keeps the invariant.
LEMMA DispatchSteps == DispatchInv /\ [DispatchNext]_dispatchVars => DispatchInv'
<1> SUFFICES ASSUME DispatchInv, [DispatchNext]_dispatchVars PROVE DispatchInv'
    OBVIOUS
<1>1. ASSUME NEW a \in Attempts, NEW bound \in BOOLEAN, Begin(a, bound) PROVE DispatchInv'
    BY <1>1, BeginKeeps
<1>2. ASSUME NEW a \in Attempts, Send(a) \/ Break(a) \/ Receive(a) PROVE DispatchInv'
    BY <1>2, SendKeeps, BreakKeeps, ReceiveKeeps
<1>3. ASSUME NEW a \in Attempts, ArchiveResponse(a) \/ ParseResponse(a) \/ ArchiveResult(a)
      PROVE  DispatchInv'
    BY <1>3, ArchiveRawKeeps, ParseKeeps, ArchiveResultKeeps
<1>4. ASSUME NEW a \in Attempts, NEW k \in Tries, NEW yes \in BOOLEAN,
             Admit(a, k, yes) \/ ReadBody(a, k, yes)
      PROVE  DispatchInv'
    BY <1>4, AdmitKeeps, ReadBodyKeeps
<1>5. ASSUME NEW a \in Attempts, NEW k \in Tries,
             BeginWork(a, k) \/ EndPath(a, k) \/ EndAnalysis(a, k)
      PROVE  DispatchInv'
    BY <1>5, BeginWorkKeeps, EndPathKeeps, EndAnalysisKeeps
<1>6. CASE Warm
    BY <1>6, WarmKeeps
<1>7. CASE Redeploy
    BY <1>7, RedeployKeeps
<1>8. CASE DispatchTick \/ UNCHANGED dispatchVars
    <2>1. dispatchNow' \in Nat /\ UNCHANGED <<kind, serving, sender, handler, service, archived, made>>
        BY <1>8 DEF DispatchTick, dispatchVars, DispatchInv, DispatchShape
    <2> QED
        BY <2>1, StillKeeps
<1> QED
    BY <1>1, <1>2, <1>3, <1>4, <1>5, <1>6, <1>7, <1>8 DEF DispatchNext

\* DispatchInvariant: what the core and the service have checked of a request, at every
\* stage of it; the service has at most one in hand.
THEOREM DispatchInvariant == DispatchSpec => []DispatchInv
    BY DispatchStarts, DispatchSteps, PTL DEF DispatchSpec

\* AnswersAreBound: for any attempts, retries and deployments, an answer that the core
\* accepts is this attempt's own, and the service never works on two requests.
THEOREM AnswersAreBound == DispatchSpec => []AnswerIsBound
<1>1. DispatchInv => AnswerIsBound
    <2> SUFFICES ASSUME DispatchInv PROVE AnswerIsBound
        OBVIOUS
    <2>1. ASSUME NEW a \in Attempts, sender[a].pc = "accepted"
          PROVE  LET r == sender[a].answer
                 IN  /\ r.job = JobOf[a] /\ r.generation = GenerationOf[a] /\ r.at <= Deadline[a]
                     /\ kind = "kronos" => r.runtime = RuntimeOf[a] /\ <<"raw", r>> \in archived
                     /\ kind = "tradingagents" => r.evidence = a
                     /\ <<"result", r>> \in archived
        <3>1. AnswerInv(sender[a], a, made, archived)
            BY DEF DispatchInv
        <3>2. PICK r : r = sender[a].answer
            OBVIOUS
        <3>3. /\ r \in made /\ <<"result", r>> \in archived
              /\ kind = "kronos" => /\ <<"raw", r>> \in archived
                                    /\ LeaseMatches(a, r) /\ ArtifactMatches(a, r)
              /\ kind = "tradingagents" => LeaseMatches(a, r) /\ AgentsResultMatches(a, r)
            BY <2>1, <3>1, <3>2 DEF AnswerInv
        <3>4. CASE kind = "kronos"
            BY <3>2, <3>3, <3>4 DEF LeaseMatches, ArtifactMatches, KronosResultMatches
        <3>5. CASE kind = "tradingagents"
            <4>1. PICK b \in Attempts :
                      r.job = JobOf[b] /\ r.generation = GenerationOf[b] /\ r.at < Deadline[b]
                BY <3>3, <3>5 DEF DispatchInv, MadeInv
            <4>2. b = a
                BY <3>3, <3>5, <4>1, DispatchAssumption DEF LeaseMatches
            <4>3. r.at \in Nat /\ Deadline[a] \in Nat
                BY <3>3, DispatchAssumption DEF DispatchInv, DispatchShape, Responses
            <4> QED
                BY <3>2, <3>3, <3>5, <4>1, <4>2, <4>3 DEF LeaseMatches, AgentsResultMatches
        <3> QED
            BY <3>4, <3>5 DEF DispatchInv, DispatchShape, Services
    <2>2. Cardinality(Holding) <= 1
        <3>1. \A g, h \in Holding : g = h
            <4> SUFFICES ASSUME NEW g \in Holding, NEW h \in Holding PROVE g = h
                OBVIOUS
            <4>1. PICK a \in Attempts : \E k \in Tries : g = <<a, k>>
                BY DEF Holding
            <4>2. PICK k \in Tries : g = <<a, k>>
                BY <4>1
            <4>3. PICK b \in Attempts : \E j \in Tries : h = <<b, j>>
                BY DEF Holding
            <4>4. PICK j \in Tries : h = <<b, j>>
                BY <4>3
            <4>5. handler[a][k].stage \in Held /\ handler[b][j].stage \in Held
                BY <4>2, <4>4 DEF Holding, Held
            <4> QED
                BY <4>2, <4>4, <4>5 DEF DispatchInv, OneHolds
        <3>2. CASE Holding = {}
            BY <3>2, FS_EmptySet
        <3>3. CASE Holding # {}
            <4>1. PICK h : Holding = {h}
                BY <3>1, <3>3
            <4>2. Cardinality({h}) = 1
                BY FS_Singleton
            <4> QED
                BY <4>1, <4>2
        <3> QED
            BY <3>2, <3>3
    <2>3. ASSUME NEW a \in Attempts, NEW k \in Tries, handler[a][k].stage = "computing"
          PROVE  /\ serving = kind
                 /\ kind = "kronos" => service.runtime = RuntimeOf[a] /\ service.ready
                 /\ kind = "tradingagents" => service.facade = a
        <3>1. WorkInv(handler[a][k], a, service)
            BY DEF DispatchInv
        <3> QED
            BY <2>3, <3>1 DEF WorkInv, Held
    <2> QED
        BY <2>1, <2>2, <2>3 DEF AnswerIsBound
<1> QED
    BY <1>1, DispatchInvariant, PTL
=============================================================================

------------------------------ MODULE Gateway -------------------------------
(***************************************************************************)
(* One HTTP request of the API, from the peer to the route handler:        *)
(* entrypoints/api/{api_security, rate_limits, web_protection,             *)
(* request_limits, dependencies/auth}.py over adapters/auth/oidc.py.       *)
(* The middlewares run on one event loop and give it up only while they    *)
(* wait for the body: what happens between two frames is one step.  The    *)
(* limiter reads the wall clock, which may be set back.                    *)
(***************************************************************************)
EXTENDS Nothing, Integers, FiniteSets

CONSTANTS
    WindowSeconds, MaxKeys,   \* of the rate limit store
    Requests,
    Shapes,        \* the requests that peers send (a subset of Header)
    Credentials,   \* what a bearer token or an authentication cookie can hold
    SubjectOf,     \* whom the issuer signed a credential for, None: nobody
    IssuedAt, ExpiresAt, Skew,
    CookiePolicy,  \* whether a CookieAuthPolicy is configured
    PrincipalRequests, DirectPeerEdgeRequests,
    MaxBytes, MaxFrames,
    MaxWall,       \* bound: the wall clock
    MaxStepsBack   \* bound: how often it is set back

VARIABLES
    limiter,       \* the rate limit store
    wall, stepsBack,
    call,          \* how far each request has got
    granted        \* history: <<key, window, request>> of every allowed consume

gatewayVars == <<limiter, wall, stepsBack, call, granted>>

Peers == {s.peer : s \in Shapes}
Subjects == {SubjectOf[c] : c \in Credentials} \ {None}

ASSUME WindowAssumption == WindowSeconds \in Nat \ {0} /\ MaxKeys \in Nat \ {0}

\* ApiSecurityPolicy: its fields' bounds and validate_edge_limit.
ASSUME EdgeAssumption ==
    /\ PrincipalRequests \in Nat \ {0} /\ DirectPeerEdgeRequests \in Nat
    /\ DirectPeerEdgeRequests >= PrincipalRequests
    /\ {MaxBytes, MaxFrames, MaxWall, MaxStepsBack} \subseteq Nat

\* What the code reads off a request's headers.  authorization "many": more
\* than one header.  cookie "malformed": it cannot be parsed; "weak": the
\* credential has the wrong shape.  csrf: the header repeats the cookie's token.
Header ==
    [peer : STRING, authorization : Credentials \cup {"none", "many"},
     cookie : Credentials \cup {"none", "malformed", "weak"},
     method : {"GET", "POST", "OPTIONS"}, host : {"public", "other"},
     origin : {"none", "public", "other"}, csrf : BOOLEAN,
     forwarded : BOOLEAN, oversized : BOOLEAN]

ASSUME ShapeAssumption == Shapes \subseteq Header

-----------------------------------------------------------------------------
(* The counters: InMemoryRateLimitStore, and FixedWindowAdmissionStore of   *)
(* the service-auth package (admission.py): windows aligned to multiples of *)
(* WindowSeconds, one per key, in a store of bounded size that only ever    *)
(* moves forward in time.  A store is a value here.                         *)

\* An empty store: no window, and no clock reading seen yet.
EmptyStore == [windows |-> <<>>, latest |-> -1]

\* The window that a time falls in.
Identifier(at) == at \div WindowSeconds

\* _expire_windows / _expire: forget the windows that have ended.
Expire(windows, at) ==
    [k \in {j \in DOMAIN windows : (windows[j].identifier + 1) * WindowSeconds > at}
        |-> windows[k]]

\* _create_window / _create: a key's first request of a window is allowed
\* unless the store is full.
CreateWindow(windows, key, at, limit) ==
    IF Cardinality(DOMAIN windows) >= MaxKeys
    THEN [store |-> [windows |-> windows, latest |-> at], allowed |-> FALSE]
    ELSE [store |-> [windows |-> [k \in DOMAIN windows \cup {key} |->
                         IF k = key THEN [identifier |-> Identifier(at), count |-> 1, limit |-> limit]
                                    ELSE windows[k]],
                     latest |-> at],
          allowed |-> TRUE]

\* A mutant of Consume: a reading of the clock that is older than the newest
\* one is served all the same.
ConsumeInAnyOrder(store, key, at, limit) ==
    LET live == Expire(store.windows, at)
    IN  IF key \notin DOMAIN live THEN CreateWindow(live, key, at, limit)
        ELSE [store |-> [windows |-> [live EXCEPT ![key].count = @ + 1], latest |-> at],
              allowed |-> live[key].limit = limit /\ live[key].count + 1 <= limit]

\* consume: a reading older than the newest one is refused, without a trace;
\* a refused request of a known key is counted all the same.
Consume(store, key, at, limit) ==
    LET live == Expire(store.windows, at)
    IN  IF at < store.latest THEN [store |-> store, allowed |-> FALSE]
        ELSE IF key \notin DOMAIN live THEN CreateWindow(live, key, at, limit)
        ELSE IF live[key].limit # limit
             THEN [store |-> [windows |-> live, latest |-> at], allowed |-> FALSE]
        ELSE [store |-> [windows |-> [live EXCEPT ![key].count = @ + 1], latest |-> at],
              allowed |-> live[key].count + 1 <= limit]

-----------------------------------------------------------------------------
Waiting == [stage |-> "idle", shape |-> None, authorization |-> "none",
            principal |-> None, frames |-> 0, bytes |-> 0, status |-> 0]

GatewayInit ==
    /\ limiter = EmptyStore
    /\ wall = 0 /\ stepsBack = 0
    /\ call = [r \in Requests |-> Waiting]
    /\ granted = {}

\* _edge_peer_key, _admission_key, _principal_key.
EdgeKey(s) == <<"direct-peer-edge", s.peer>>
AdmissionKey(s) ==
    IF s.authorization \in Credentials THEN <<"credential-admission", s.authorization>>
                                       ELSE <<"direct-peer-main", s.peer>>
PrincipalKey(p) == <<"principal", p>>

LimitOf(key) ==
    IF key[1] = "direct-peer-edge" THEN DirectPeerEdgeRequests ELSE PrincipalRequests

Grant(key, r) == {<<key, Identifier(wall), r>>}

\* ApiRateLimitBoundary.enforce_admission: the peer's window, then the
\* credential's or the peer's own; the first that is full ends it.
EnforceAdmission(s, r) ==
    LET edge == Consume(limiter, EdgeKey(s), wall, DirectPeerEdgeRequests)
        main == Consume(edge.store, AdmissionKey(s), wall, PrincipalRequests)
    IN  IF ~edge.allowed THEN [store |-> edge.store, allowed |-> FALSE, granted |-> {}]
        ELSE [store |-> main.store, allowed |-> main.allowed,
              granted |-> Grant(EdgeKey(s), r)
                          \cup (IF main.allowed THEN Grant(AdmissionKey(s), r) ELSE {})]

\* _validate_cookie_request, with the mutant that takes a request for safe
\* by its origin alone.
CookieRejectionByOrigin(s) ==
    IF s.authorization # "none" THEN 400
    ELSE IF s.cookie = "weak" THEN 401
    ELSE IF s.host # "public" \/ s.origin = "other" THEN 403
    ELSE 0

CookieRejection(s) ==
    IF s.authorization # "none" THEN 400
    ELSE IF s.cookie = "weak" THEN 401
    ELSE IF \/ s.host # "public"
            \/ s.origin = "other"
            \/ s.origin = "none" /\ s.method # "GET"
            \/ s.method = "POST" /\ ~s.csrf
         THEN 403
    ELSE 0

\* _CookieAuthenticationMiddleware: 0 lets the request pass.
CookieVerdict(s) ==
    IF s.cookie = "malformed" THEN 400
    ELSE IF s.cookie = "none" THEN 0
    ELSE IF ~CookiePolicy THEN 401
    ELSE CookieRejection(s)

\* The authorization the inner layers see: a cookie becomes a bearer token.
Rewritten(s) == IF s.cookie = "none" THEN s.authorization ELSE s.cookie

\* ForwardedHeaderRejectMiddleware, the cookies, RequestBodyLimitMiddleware's
\* look at the declared length: the first refusal, or 0.
Screened(s) ==
    IF s.forwarded THEN 400
    ELSE IF CookieVerdict(s) # 0 THEN CookieVerdict(s)
    ELSE IF s.oversized THEN 413 ELSE 0

Finish(r, code) == call' = [call EXCEPT ![r] = [Waiting EXCEPT !.stage = "done", !.status = code]]

\* A request arrives: ApiAdmissionRateLimitMiddleware and everything up to
\* the first wait for the body.
Arrive(r, s) ==
    /\ call[r].stage = "idle"
    /\ LET admission == EnforceAdmission(s, r)
           code == IF admission.allowed THEN Screened(s) ELSE 429
       IN  /\ limiter' = admission.store
           /\ granted' = granted \cup admission.granted
           /\ IF code # 0 THEN Finish(r, code)
              ELSE call' = [call EXCEPT ![r] = [Waiting EXCEPT !.stage = "body", !.shape = s,
                                                    !.authorization = Rewritten(s)]]
    /\ UNCHANGED <<wall, stepsBack>>

\* The peer goes away while its body is read: nothing is answered.
Disconnect(r) ==
    /\ call[r].stage = "body"
    /\ Finish(r, 0)
    /\ UNCHANGED <<limiter, wall, stepsBack, granted>>

\* _buffer_request: a frame that has more to follow, within both bounds or not.
BufferFrame(r, size) ==
    LET c == call[r]
    IN  /\ c.stage = "body"
        /\ IF c.frames >= MaxFrames \/ c.bytes + size > MaxBytes
           THEN Finish(r, 413)
           ELSE call' = [call EXCEPT ![r].frames = @ + 1, ![r].bytes = @ + size]
        /\ UNCHANGED <<limiter, wall, stepsBack, granted>>

\* _validate_registered_claims: the two readings of the clock that bound a token.
ClaimsHold(c) == IssuedAt[c] <= wall + Skew /\ ExpiresAt[c] > wall - Skew

\* OIDCAuthenticator.authenticate; reachable: its key could be found.
Authenticate(authorization, reachable) ==
    IF authorization \in Credentials /\ reachable /\ ClaimsHold(authorization)
    THEN SubjectOf[authorization] ELSE None

\* The last frame arrives.  ApiPrincipalRateLimitMiddleware authenticates,
\* caches the principal and consumes its window; no principal, no window.
EnforcePrincipal(r, size, reachable) ==
    LET c == call[r]
        p == Authenticate(c.authorization, reachable)
        use == Consume(limiter, PrincipalKey(p), wall, PrincipalRequests)
    IN  /\ c.stage = "body"
        /\ IF c.frames >= MaxFrames \/ c.bytes + size > MaxBytes
           THEN Finish(r, 413) /\ UNCHANGED <<limiter, granted>>
           ELSE IF p = None
           THEN /\ call' = [call EXCEPT ![r].stage = "app"]
                /\ UNCHANGED <<limiter, granted>>
           ELSE /\ limiter' = use.store
                /\ granted' = granted \cup (IF use.allowed THEN Grant(PrincipalKey(p), r) ELSE {})
                /\ IF use.allowed
                   THEN call' = [call EXCEPT ![r].stage = "app", ![r].principal = p]
                   ELSE Finish(r, 429)
        /\ UNCHANGED <<wall, stepsBack>>

\* _permission_dependency over cached_authentication: only the principal that
\* was cached on the way in is used.  The handler answers, is refused by its
\* permission, or raises (_ExceptionBoundaryMiddleware).
Serve(r) ==
    /\ call[r].stage = "app"
    /\ IF call[r].principal = None THEN Finish(r, 401)
       ELSE \E code \in {200, 403, 500} :
                call' = [call EXCEPT ![r].stage = "served", ![r].status = code]
    /\ UNCHANGED <<limiter, wall, stepsBack, granted>>

PassTime ==
    /\ wall < MaxWall /\ wall' = wall + 1
    /\ UNCHANGED <<limiter, stepsBack, call, granted>>

\* The wall clock is corrected backwards.
StepBack ==
    /\ stepsBack < MaxStepsBack /\ wall > 0
    /\ \E t \in 0..(wall - 1) : wall' = t
    /\ stepsBack' = stepsBack + 1
    /\ UNCHANGED <<limiter, call, granted>>

GatewayNext ==
    \/ \E r \in Requests, s \in Shapes : Arrive(r, s)
    \/ \E r \in Requests : Disconnect(r) \/ Serve(r)
    \/ \E r \in Requests, size \in 0..MaxBytes + 1 : BufferFrame(r, size)
    \/ \E r \in Requests, size \in 0..MaxBytes + 1, up \in BOOLEAN : EnforcePrincipal(r, size, up)
    \/ PassTime
    \/ StepBack

GatewaySpec == GatewayInit /\ [][GatewayNext]_gatewayVars

\* WindowsHold: in every aligned window a key is allowed at most its limit, also when the
\* wall clock is set back into a window whose counter is gone already.
WindowsHold ==
    \A g \in granted :
        Cardinality({h \in granted : h[1] = g[1] /\ h[2] = g[2]}) <= LimitOf(g[1])

\* ServedForOneIdentity: a handler that answers does so for one identity: the one the issuer signed
\* the presented credential for, taken from one place, and charged to its own
\* window besides the peer's; a write that a cookie authorises shows the
\* public origin and repeats the cookie's token.
ServedForOneIdentity ==
    \A r \in Requests : call[r].stage = "served" =>
        LET c == call[r]
            s == c.shape
        IN  /\ c.authorization \in Credentials /\ c.principal = SubjectOf[c.authorization]
            /\ s.authorization = "none" \/ s.cookie = "none"
            /\ \A key \in {EdgeKey(s), AdmissionKey(s), PrincipalKey(c.principal)} :
                   \E w \in 0..Identifier(MaxWall) : <<key, w, r>> \in granted
            /\ s.cookie # "none" =>
                   /\ s.host = "public" /\ s.origin # "other"
                   /\ s.method = "POST" => s.origin = "public" /\ s.csrf
            /\ c.frames <= MaxFrames /\ c.bytes <= MaxBytes
=============================================================================

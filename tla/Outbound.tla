------------------------------ MODULE Outbound ------------------------------
(***************************************************************************)
(* The artifact store's S3 client (adapters/artifacts/s3_http.py) on the   *)
(* guarded transport (s3_network.py, security/ssrf.py).  Threads share one *)
(* guard and its connection pool.  A request is checked and signed by the  *)
(* client, checked again by the guard, which asks the DNS and pins its     *)
(* first answer, and sent over a connection of the pool or a new one to a  *)
(* pinned address.  Answers of the DNS, connections and credentials change *)
(* at any time.  Addresses are numbers in the order the backend tries them.*)
(***************************************************************************)
EXTENDS Integers, FiniteSets, Nothing

CONSTANTS
    Transfers,      \* threads
    Addresses, Permitted,   \* all addresses, and the ones the environment permits
    MaxAddresses,   \* _MAX_ADDRESSES
    Answers,        \* what the resolver may answer: sets of addresses
    PresignSafety,  \* _PRESIGN_SAFETY
    Ttl,            \* of a presigned URL
    MaxUpsets       \* bound: new DNS answers and new credentials

ASSUME OutboundAssumption ==
    /\ Addresses \subseteq Nat /\ Answers \subseteq SUBSET Addresses
    /\ PresignSafety \in Nat /\ Ttl \in Nat
    /\ None # "out of scope"

VARIABLES
    pinned,     \* _pinned_addresses; none yet is {}
    resolver,   \* the answer the DNS gives now, or None
    bundle,     \* for how long the provider's credentials last, 0: it has none
    transfer,   \* [Transfers -> what the thread does, and how its last request ended]
    idle,       \* addresses that the pool has an idle connection to
    upsets
outboundVars == <<pinned, resolver, bundle, transfer, idle, upsets>>

NoTransfer == [pc |-> "ended", op |-> None, target |-> None, resolved |-> {}, left |-> {},
               via |-> None, outcome |-> None]

OutboundInit ==
    /\ pinned = {} /\ idle = {} /\ upsets = 0
    /\ resolver \in Answers \cup {None}
    /\ bundle = PresignSafety + 1
    /\ transfer = [t \in Transfers |-> NoTransfer]

-----------------------------------------------------------------------------
(* SigV4S3Client: what it asks for, and where.  The target of a request is *)
(* a key of an object or manifest, another key below the prefix, or one    *)
(* that is elsewhere.                                                      *)

Target == {"listed", "below", "elsewhere"}
QueryOf ==
    [object |-> {}, presign |-> {},    \* put_object and get_object, presign_get
     versions |-> {"versions", "prefix", "max-keys"},
     more_versions |-> {"versions", "prefix", "max-keys", "key-marker", "version-id-marker"},
     versioning |-> {"versioning"}, object_lock |-> {"object-lock"},
     retention |-> {"retention", "versionId"}, legal_hold |-> {"legal-hold", "versionId"},
     delete |-> {"versionId"}]
Operation == DOMAIN QueryOf
Listings == {"versions", "more_versions"}
OfBucket(op) == op \in Listings \cup {"versioning", "object_lock"}

\* _validate_common, _validate_version_request, _validate_list, _validate_presign:
\* _valid_key, also for the prefix of a listing.
ClientAccepts(op, target) == op \in {"versioning", "object_lock"} \/ target \in {"listed", "below"}

\* S3EndpointGuard._matches: _valid_list_query and _valid_object_query.
GuardMatches(op, target) ==
    IF OfBucket(op)
    THEN \/ QueryOf[op] \in {{"versioning"}, {"object-lock"}}
         \/ /\ QueryOf[op] \ {"key-marker", "version-id-marker"} = {"versions", "prefix", "max-keys"}
            /\ target = "listed"
    ELSE /\ target \in {"listed", "below"}
         /\ QueryOf[op] \in {{}, {"versionId"}, {"retention", "versionId"}, {"legal-hold", "versionId"}}

Over(t, outcome) == transfer' = [transfer EXCEPT ![t] = [NoTransfer EXCEPT !.outcome = outcome]]

\* _resolve_credentials: they must outlive the request, or the presigned URL, by
\* the margin.
Usable(op) ==
    bundle > (IF op = "presign" THEN Ttl ELSE 0) + PresignSafety

Ended == {t \in Transfers : transfer[t].pc = "ended"}

\* Checked and signed, all in the thread; a presigned URL is the answer.
SendRequest(t, op, target) ==
    /\ transfer[t].pc = "ended"
    /\ IF ~ClientAccepts(op, target) THEN Over(t, "failed")
       ELSE IF ~Usable(op) THEN Over(t, "failed")
       ELSE IF op = "presign" THEN Over(t, "ok")
       ELSE transfer' = [transfer EXCEPT ![t] = [NoTransfer EXCEPT !.pc = "signed", !.op = op, !.target = target]]
    /\ UNCHANGED <<pinned, resolver, bundle, idle, upsets>>

-----------------------------------------------------------------------------
(* PinnedHTTPTransport.handle_request.                                     *)

\* authorize: the URL, then the resolver, before the lock.
AddressesAreValid(answer) ==
    answer # {} /\ Cardinality(answer) <= MaxAddresses /\ answer \subseteq Permitted
ResolveHost(t) ==
    /\ transfer[t].pc = "signed"
    /\ IF ~GuardMatches(transfer[t].op, transfer[t].target)
       THEN transfer' = [transfer EXCEPT ![t].pc = "ended", ![t].outcome = "out of scope"]
       ELSE IF resolver = None THEN Over(t, "denied")
       ELSE IF ~AddressesAreValid(resolver) THEN Over(t, "denied")
       ELSE transfer' = [transfer EXCEPT ![t] = [NoTransfer EXCEPT !.pc = "resolved", !.resolved = resolver]]
    /\ UNCHANGED <<pinned, resolver, bundle, idle, upsets>>

\* Under the lock, and its mutant that lets a new answer replace the pin.
RepinOn(answer) == TRUE
PinsOn(answer) == pinned = {} \/ pinned = answer
Pin(t) ==
    /\ transfer[t].pc = "resolved"
    /\ IF PinsOn(transfer[t].resolved)
       THEN /\ pinned' = transfer[t].resolved
            /\ transfer' = [transfer EXCEPT ![t].pc = "authorized"]
       ELSE Over(t, "denied") /\ UNCHANGED pinned
    /\ UNCHANGED <<resolver, bundle, idle, upsets>>

\* The pool has a connection, or opens one through PinnedNetworkBackend, which
\* reads the pin again (connection_addresses).
Reuse(t, a) ==
    /\ transfer[t].pc = "authorized" /\ a \in idle
    /\ transfer' = [transfer EXCEPT ![t].pc = "sent", ![t].via = a]
    /\ idle' = idle \ {a}
    /\ UNCHANGED <<pinned, resolver, bundle, upsets>>

ReadPin(t) ==
    /\ transfer[t].pc = "authorized" /\ pinned # {}
    /\ transfer' = [transfer EXCEPT ![t].pc = "connecting", ![t].left = pinned]
    /\ UNCHANGED <<pinned, resolver, bundle, idle, upsets>>

\* connect_tcp: the addresses in order, until one can be connected to.
ConnectTcp(t, a, works) ==
    /\ transfer[t].pc = "connecting"
    /\ a \in transfer[t].left /\ \A b \in transfer[t].left : a <= b
    /\ IF works THEN transfer' = [transfer EXCEPT ![t].pc = "sent", ![t].via = a]
       ELSE IF transfer[t].left = {a} THEN Over(t, "failed")
       ELSE transfer' = [transfer EXCEPT ![t].left = @ \ {a}]
    /\ UNCHANGED <<pinned, resolver, bundle, idle, upsets>>

\* authorize_response, _send_request and what reads the body: a redirect is
\* refused, an error is an error, and a body that is too long, has no length
\* or cannot be parsed is an invalid response.
OutcomeOf == [redirect |-> "denied", error |-> "failed", unreadable |-> "failed", document |-> "ok"]
Respond(t, response, keep) ==
    /\ transfer[t].pc = "sent"
    /\ Over(t, OutcomeOf[response])
    /\ idle' = IF keep /\ response # "redirect" THEN idle \cup {transfer[t].via} ELSE idle
    /\ UNCHANGED <<pinned, resolver, bundle, upsets>>

\* A timeout, a network or a protocol error.
TransportFails(t) ==
    /\ transfer[t].pc \in {"connecting", "sent"}
    /\ Over(t, "failed")
    /\ UNCHANGED <<pinned, resolver, bundle, idle, upsets>>

-----------------------------------------------------------------------------
(* The surroundings.                                                       *)

DnsChanges ==
    /\ upsets < MaxUpsets /\ upsets' = upsets + 1
    /\ resolver' \in (Answers \cup {None}) \ {resolver}
    /\ UNCHANGED <<pinned, bundle, transfer, idle>>

CredentialsChange ==
    /\ upsets < MaxUpsets /\ upsets' = upsets + 1
    /\ bundle' \in {0, PresignSafety + 1, PresignSafety + Ttl + 1}
    /\ UNCHANGED <<pinned, resolver, transfer, idle>>

IdleCloses(a) ==
    /\ a \in idle /\ idle' = idle \ {a}
    /\ UNCHANGED <<pinned, resolver, bundle, transfer, upsets>>

CredentialsAge ==
    /\ bundle > 0 /\ bundle' = bundle - 1
    /\ UNCHANGED <<pinned, resolver, transfer, idle, upsets>>

OutboundNext ==
    \/ \E t \in Ended, op \in Operation, target \in Target : SendRequest(t, op, target)
    \/ \E t \in Transfers :
          \/ ResolveHost(t) \/ Pin(t) \/ ReadPin(t) \/ TransportFails(t)
          \/ \E a \in Addresses : Reuse(t, a) \/ \E works \in BOOLEAN : ConnectTcp(t, a, works)
          \/ \E response \in DOMAIN OutcomeOf, keep \in BOOLEAN : Respond(t, response, keep)
    \/ DnsChanges \/ CredentialsChange \/ CredentialsAge
    \/ \E a \in Addresses : IdleCloses(a)

OutboundSpec == OutboundInit /\ [][OutboundNext]_outboundVars
-----------------------------------------------------------------------------
\* However the DNS answers two threads that begin at once, and whatever it
\* answers later: every connection, also a pooled one, leads to an address of
\* one answer that was permitted as a whole, a request is only sent by a
\* thread that was given that very answer, and the first answer stays
\* (OutboundEndpointGuard.authorize, connection_addresses).
SentToThePin ==
    /\ pinned # {} => AddressesAreValid(pinned)
    /\ idle \subseteq pinned
    /\ \A t \in Transfers : transfer[t].pc = "sent" =>
          transfer[t].via \in pinned /\ transfer[t].resolved = pinned

\* What the client lets through, the guard lets through, but for a listing
\* below another key of the prefix (_valid_list_prefix, _valid_list_query).
ClientAndGuardAgree ==
    \A t \in Transfers : transfer[t].outcome = "out of scope" =>
        transfer[t].op \in Listings /\ transfer[t].target = "below"

\* OutboundHolds: the two of them, and a pin that never moves.
OutboundHolds ==
    [](SentToThePin /\ ClientAndGuardAgree) /\ [][pinned # {} => pinned' = pinned]_outboundVars
=============================================================================

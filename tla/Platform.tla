----------------------------- MODULE Platform -----------------------------
(***************************************************************************)
(* The community platform: a thesis is published, replies and events are   *)
(* polled (adapters/platform/ai_trader.py), and the closed window of       *)
(* replies has one effect on the thesis                                    *)
(* (application/research/community_feedback.py).  Threads share the        *)
(* adapter, whose only state is that it was disabled, and the inbox of     *)
(* events.  A pydantic model that refuses its fields raises out of the     *)
(* adapter: the call ends and the caller learns nothing.                   *)
(***************************************************************************)
EXTENDS Integers, Sequences, FiniteSets, FiniteSetsExt, SequencesExt, Nothing

CONSTANTS
    PCallers, Authors,
    Reputation,         \* [Authors -> score or None]: the policy's trusted authors
    MinReputation, LowerAt, ResearchAt,
    PageLimits,         \* the replies a caller may ask for in one page
    ReplyIds,           \* the numbers the platform gives to replies, in any order
    EventIds,
    ObserveUntil,       \* observation_deadline of the publication
    MaxReplies, MaxPlatformTime, MaxPolls   \* bounds

\* CommunityFeedbackPolicy.validate_thresholds
ASSUME FeedbackPolicyAssumption == 0 < LowerAt /\ LowerAt < ResearchAt
ASSUME PageAssumption == 0 \notin PageLimits /\ PageLimits \subseteq Nat /\ ReplyIds \subseteq 1..99

VARIABLES
    platTime,      \* the wall clock
    feed,          \* the platform's replies, in the order in which they were posted
    posted,        \* whether the platform has the thesis
    disabled,      \* _disabled_reason is set
    publication,   \* PublishedThesis.published_at, or None
    reading,       \* the caller's cursor, the ids it was given, the last page that was not full
    accepted,      \* the inbox: [EventIds -> hash of the payload, or None]
    handed,        \* events the callers were given
    pcall,         \* [PCallers -> the call under way]
    decision       \* the last CommunityFeedbackDecision, or None
platformVars == <<platTime, feed, posted, disabled, publication, reading, accepted, handed, pcall, decision>>

Idle == [op |-> "idle"]
IdsOf(replies) == {r.id : r \in ToSet(replies)}

PlatformInit ==
    /\ platTime = 0 /\ feed = <<>> /\ posted = FALSE /\ disabled = FALSE
    /\ publication = None
    /\ reading = [cursor |-> 0, seen |-> <<>>, drained |-> None, polls |-> 0]
    /\ accepted = [e \in EventIds |-> None]
    /\ handed = <<>>
    /\ pcall = [c \in PCallers |-> Idle]
    /\ decision = None

Ends(c) == pcall' = [pcall EXCEPT ![c] = Idle]

-----------------------------------------------------------------------------
(* The platform.                                                           *)

PlatformTick ==
    /\ platTime < MaxPlatformTime
    /\ platTime' = platTime + 1
    /\ UNCHANGED <<feed, posted, disabled, publication, reading, accepted, handed, pcall, decision>>

\* A reply: its number, whom it is from, whether it agrees, whether it reads like
\* an instruction.  Nothing obliges the platform to number replies in time order.
PostReply(id, author, agrees, injected) ==
    /\ publication # None /\ Len(feed) < MaxReplies
    /\ id \notin IdsOf(feed)
    /\ feed' = Append(feed, [id |-> id, at |-> platTime, author |-> author,
                              agrees |-> agrees, injected |-> injected])
    /\ UNCHANGED <<platTime, posted, disabled, publication, reading, accepted, handed, pcall, decision>>

-----------------------------------------------------------------------------
(* _request and the failures every call shares.                            *)

MayRequest(c) == pcall[c] = Idle /\ ~disabled

\* A credential, an HTTP error, a timeout or the archive fails: the call is
\* over; whatever the platform did with it stays.
CallFails(c) ==
    /\ pcall[c] # Idle
    /\ posted' \in {posted, posted \/ pcall[c].op = "publish"}
    /\ Ends(c)
    /\ UNCHANGED <<platTime, feed, disabled, publication, reading, accepted, handed, decision>>

\* _disable: authorization, a redirect, a media type or a schema that is not the contract's.
CallDisables(c) ==
    /\ pcall[c] # Idle
    /\ disabled' = TRUE
    /\ Ends(c)
    /\ UNCHANGED <<platTime, feed, posted, publication, reading, accepted, handed, decision>>

-----------------------------------------------------------------------------
(* publish_thesis.                                                         *)

StartPublish(c) ==
    /\ MayRequest(c) /\ publication = None
    /\ platTime < ObserveUntil
    /\ pcall' = [pcall EXCEPT ![c] = [op |-> "publish"]]
    /\ UNCHANGED <<platTime, feed, posted, disabled, publication, reading, accepted, handed, decision>>

\* PublishedThesis raises when the answer comes after the window has closed.
PublishAnswered(c) ==
    /\ pcall[c].op = "publish"
    /\ posted' = TRUE
    /\ publication' = IF publication = None /\ platTime <= ObserveUntil THEN platTime ELSE publication
    /\ Ends(c)
    /\ UNCHANGED <<platTime, feed, disabled, reading, accepted, handed, decision>>

-----------------------------------------------------------------------------
(* poll_feedback.                                                          *)

\* external_event_id is text: "reply:10" comes before "reply:9".
FirstDigit(n) == IF n < 10 THEN n ELSE n \div 10
TextBefore(a, b) ==
    \/ FirstDigit(a) < FirstDigit(b)
    \/ FirstDigit(a) = FirstDigit(b) /\ a < b

\* The replies of an answer in the order of their time, then of their number.
InOrder(S) == SetToSortSeq(S, LAMBDA x, y : x.at < y.at \/ (x.at = y.at /\ x.id < y.id))
Unread == InOrder({r \in ToSet(feed) : r.id > reading.cursor})
Selected(limit) == SubSeq(Unread, 1, Min({limit, Len(Unread)}))

\* Mutant: the cursor moves past everything the platform sent.
CursorOfAnswer(limit) == IF Unread = <<>> THEN reading.cursor ELSE Last(Unread).id
\* next_cursor: the number of the last reply that is handed over.
NextCursor(limit) == IF Unread = <<>> THEN reading.cursor ELSE Last(Selected(limit)).id

\* ExternalEvidence and FeedbackPage accept the page.
PageIsValid(page, asOf) ==
    /\ \A r \in ToSet(page) : r.at <= asOf
    /\ \A k \in 1..(Len(page) - 1) :
         page[k].at < page[k + 1].at \/ TextBefore(page[k].id, page[k + 1].id)

StartFeedback(c, limit) ==
    /\ MayRequest(c) /\ publication # None
    /\ \A d \in PCallers : pcall[d].op # "feedback"
    /\ reading.polls < MaxPolls
    /\ reading' = [reading EXCEPT !.polls = @ + 1]
    /\ pcall' = [pcall EXCEPT ![c] = [op |-> "feedback", asOf |-> platTime, limit |-> limit]]
    /\ UNCHANGED <<platTime, feed, posted, disabled, publication, accepted, handed, decision>>

FeedbackAnswered(c) ==
    /\ pcall[c].op = "feedback"
    /\ LET limit == pcall[c].limit
           page == Selected(limit)
       IN  /\ PageIsValid(page, pcall[c].asOf)
           /\ reading' = [reading EXCEPT
                            !.cursor = NextCursor(limit),
                            !.seen = @ \o [k \in 1..Len(page) |-> page[k].id],
                            !.drained = IF Len(page) < limit THEN pcall[c].asOf ELSE @]
    /\ Ends(c)
    /\ UNCHANGED <<platTime, feed, posted, disabled, publication, accepted, handed, decision>>

FeedbackRaises(c) ==
    /\ pcall[c].op = "feedback"
    /\ ~PageIsValid(Selected(pcall[c].limit), pcall[c].asOf)
    /\ Ends(c)
    /\ UNCHANGED <<platTime, feed, posted, disabled, publication, reading, accepted, handed, decision>>

-----------------------------------------------------------------------------
(* poll_events: the heartbeat's events pass the inbox one by one.          *)

StartEvents(c) ==
    /\ MayRequest(c)
    /\ pcall' = [pcall EXCEPT ![c] = [op |-> "events"]]
    /\ UNCHANGED <<platTime, feed, posted, disabled, publication, reading, accepted, handed, decision>>

\* The platform sends what it likes, also an event it sent before, changed or not.
EventsAnswered(c, sent, payload) ==
    /\ pcall[c].op = "events"
    /\ pcall' = [pcall EXCEPT ![c] = [op |-> "accept", todo |-> sent, payload |-> payload, got |-> {}]]
    /\ UNCHANGED <<platTime, feed, posted, disabled, publication, reading, accepted, handed, decision>>

\* MemoryPlatformEventInbox.accept returns True.
IsNew(e, payload) == accepted[e] = None

AcceptEvent(c) ==
    /\ pcall[c].op = "accept" /\ pcall[c].todo # {}
    /\ LET e == Min(pcall[c].todo)
           call == [pcall[c] EXCEPT !.todo = @ \ {e}]
       IN  \/ /\ IsNew(e, pcall[c].payload)
              /\ accepted' = [accepted EXCEPT ![e] = pcall[c].payload]
              /\ pcall' = [pcall EXCEPT ![c] = [call EXCEPT !.got = @ \cup {e}]]
              /\ UNCHANGED disabled
           \/ /\ ~IsNew(e, pcall[c].payload) /\ accepted[e] = pcall[c].payload
              /\ pcall' = [pcall EXCEPT ![c] = call]
              /\ UNCHANGED <<accepted, disabled>>
           \/ /\ accepted[e] \notin {None, pcall[c].payload}
              /\ disabled' = TRUE
              /\ Ends(c)
              /\ UNCHANGED accepted
    /\ UNCHANGED <<platTime, feed, posted, publication, reading, handed, decision>>

FinishEvents(c) ==
    /\ pcall[c].op = "accept" /\ pcall[c].todo = {}
    /\ handed' = handed \o SetToSeq(pcall[c].got)
    /\ Ends(c)
    /\ UNCHANGED <<platTime, feed, posted, disabled, publication, reading, accepted, decision>>

-----------------------------------------------------------------------------
(* apply_community_feedback, over every reply the caller was given.        *)

ReplyOf(id) == CHOOSE r \in ToSet(feed) : r.id = id

\* _assess_feedback: replies that count against the thesis, one of an author.
Qualifies(id) ==
    /\ ReplyOf(id).at <= ObserveUntil
    /\ ~ReplyOf(id).injected /\ ~ReplyOf(id).agrees
    /\ Reputation[ReplyOf(id).author] # None
    /\ Reputation[ReplyOf(id).author] >= MinReputation

Score(ids) ==
    MapThenSumSet(LAMBDA a : Reputation[a], {ReplyOf(id).author : id \in {i \in ids : Qualifies(i)}})

SelectAction(score) ==
    IF score >= ResearchAt THEN "request_research"
    ELSE IF score >= LowerAt THEN "lower_confidence" ELSE "ignore"

\* _validate_window refuses an open window and a repeated reply.
Evaluate ==
    /\ publication # None /\ platTime >= ObserveUntil
    /\ IsInjective(reading.seen)
    /\ decision' = [action |-> SelectAction(Score(ToSet(reading.seen))),
                    complete |-> reading.drained # None /\ reading.drained > ObserveUntil]
    /\ decision' # decision
    /\ UNCHANGED <<platTime, feed, posted, disabled, publication, reading, accepted, handed, pcall>>

-----------------------------------------------------------------------------
PlatformNext ==
    \/ PlatformTick
    \/ \E id \in ReplyIds, a \in Authors, agrees \in BOOLEAN, injected \in BOOLEAN :
         PostReply(id, a, agrees, injected)
    \/ Evaluate
    \/ \E c \in PCallers :
         \/ CallFails(c) \/ CallDisables(c)
         \/ StartPublish(c) \/ PublishAnswered(c)
         \/ (\E limit \in PageLimits : StartFeedback(c, limit)) \/ FeedbackAnswered(c) \/ FeedbackRaises(c)
         \/ StartEvents(c)
         \/ \E sent \in SUBSET EventIds, payload \in {1, 2} : EventsAnswered(c, sent, payload)
         \/ AcceptEvent(c) \/ FinishEvents(c)

-----------------------------------------------------------------------------
(* Properties.                                                             *)

\* The number of a reply fits the order of posting: those before it have lower
\* numbers and those after it higher ones.
InLine(k) ==
    \A j \in 1..Len(feed) : (j < k => feed[j].id < feed[k].id) /\ (j > k => feed[j].id > feed[k].id)

\* Nothing is handed over that was not posted, and no event of the heartbeat
\* is handed to two of the threads that poll it, or twice to one.  (It may
\* reach none: the inbox takes an event before the call is sure to return.)  A
\* reply whose number fits the order of posting was handed over exactly once if
\* the cursor has passed it and not at all otherwise, whatever page sizes,
\* failures, new replies and misnumbered neighbours came between the polls.  Only
\* a reply whose number does not fit may be passed over or handed over again.
HandedOverOnce ==
    /\ ToSet(reading.seen) \subseteq IdsOf(feed)
    /\ \A k \in 1..Len(feed) : InLine(k) =>
         Cardinality({i \in 1..Len(reading.seen) : reading.seen[i] = feed[k].id})
           = IF feed[k].id <= reading.cursor THEN 1 ELSE 0
    /\ IsInjective(handed)

\* A reply that counts: within the window, against the thesis, from a trusted author.
Counts(r) ==
    /\ r.at <= ObserveUntil /\ ~r.agrees /\ ~r.injected
    /\ Reputation[r.author] # None /\ Reputation[r.author] >= MinReputation

\* A decision made after the feed was read to its end, past the closing of the
\* window, is at least what the replies within the window whose numbers fit call
\* for and at most what all of them call for; so it is the one they call for when
\* the platform numbers replies in time order.  Neither late replies nor the order
\* and the pages in which they came change it, and an author counts once.
DecisionIsOfTheWindow ==
    LET CalledFor(ks) ==
            SelectAction(MapThenSumSet(LAMBDA a : Reputation[a],
                                       {feed[k].author : k \in {j \in ks : Counts(feed[j])}}))
        Rank(action) == CHOOSE n \in 1..3 : action = <<"ignore", "lower_confidence", "request_research">>[n]
        posts == 1..Len(feed)
    IN  (decision # None /\ decision.complete) =>
          /\ Rank(CalledFor({k \in posts : InLine(k)})) <= Rank(decision.action)
          /\ Rank(decision.action) <= Rank(CalledFor(posts))

\* FeedbackHolds: no event of the platform is handed over twice, replies that are
\* numbered in time order reach the caller once, and a decision is made on the whole
\* window of them.
FeedbackHolds == HandedOverOnce /\ DecisionIsOfTheWindow
=============================================================================

----------------------------- MODULE DataProofs -----------------------------
(***************************************************************************)
(* Proofs about the data that is shown: company data behind a page cache   *)
(* (OfficialData), latest quotes behind theirs (Quotes), recorded data     *)
(* (Replay) and the page in the browser (ConsolePage), each by an          *)
(* inductive invariant of its own, and carried over to the specification   *)
(* that composes them.                                                     *)
(***************************************************************************)
EXTENDS MCData, SequenceTheorems, FiniteSetTheorems, WellFoundedInduction, TLAPS

-----------------------------------------------------------------------------
(* OfficialData: what is answered is recent.                               *)

\* The claim AnswerIsRecent makes of one answer.
RecentEnough(m, observed, answer) ==
    /\ answer.outcome = "available" =>
          \A p \in Evidence(m) : \A d \in Reports(m, observed - Slack) : Covers(p, answer.facts[p], d)
    /\ answer.outcome = "not_found" => observed - Slack < ListedAt

\* A page in the cache was written at most a timeout before it was stored.
PageIsYoung(page, row) ==
    row # None =>
        /\ row.content \in Int /\ row.expires \in Int
        /\ row.content >= row.expires - LifeOf(page) - PageTimeout

\* How far a caller has got with the pages of its market.
Stage(call) ==
    \/ call.market = "US" /\ call.todo = <<"tickers", "submissions", "facts">> /\ DOMAIN call.got = {}
    \/ call.market = "US" /\ call.todo = <<"submissions", "facts">> /\ DOMAIN call.got = {"tickers"}
    \/ call.market = "US" /\ call.todo = <<"facts">> /\ DOMAIN call.got = {"tickers", "submissions"}
    \/ /\ call.market = "TW" /\ call.todo = <<"monthly_revenue", "income_statement", "balance_sheet">>
       /\ DOMAIN call.got = {}
    \/ /\ call.market = "TW" /\ call.todo = <<"income_statement", "balance_sheet">>
       /\ DOMAIN call.got = {"monthly_revenue"}
    \/ /\ call.market = "TW" /\ call.todo = <<"balance_sheet">>
       /\ DOMAIN call.got = {"monthly_revenue", "income_statement"}

\* A page that a caller has is failed, or no older than the slack.
IsRecent(content, observed) == content = Failed \/ (content \in Int /\ content >= observed - Slack)

InFlight(call) ==
    /\ Stage(call) /\ call.observed <= call.asOf
    /\ \A p \in DOMAIN call.got : IsRecent(call.got[p], call.observed)
    /\ call.answer = NoAnswer

CallShape(call) ==
    /\ call = [pc |-> call.pc, via |-> call.via, market |-> call.market, asOf |-> call.asOf,
               observed |-> call.observed, sent |-> call.sent, todo |-> call.todo, got |-> call.got,
               answer |-> call.answer]
    /\ call.answer = [outcome |-> call.answer.outcome, facts |-> call.answer.facts, warned |-> call.answer.warned]
    /\ call.asOf \in Int /\ call.observed \in Int /\ call.sent \in Int

CallIsSound(call) ==
    /\ CallShape(call)
    /\ call.pc \in {"looking", "waiting"} => InFlight(call)
    /\ call.via = "overview" => call.asOf = call.observed
    /\ RecentEnough(call.market, call.observed, call.answer)

\* A caller's readings of the clock are not ahead of it.
CallIsTimely(call) ==
    /\ call.pc \in {"looking", "waiting"} => call.observed <= tick
    /\ call.pc = "waiting" => call.observed <= call.sent /\ call.sent <= tick

PagesAreYoung ==
    /\ \E D : pages \in [AllPages -> D]
    /\ \A p \in AllPages : PageIsYoung(p, pages[p])

\* What the console keeps was recent when it was asked for.
OverviewIsRecent(m, row) ==
    row # None =>
        /\ row.asOf \in Int /\ RecentEnough(m, row.asOf, row.answer)
        /\ row.answer = [outcome |-> row.answer.outcome, facts |-> row.answer.facts, warned |-> row.answer.warned]
OverviewsAreRecent ==
    /\ \E D : overviews \in [Markets -> D]
    /\ \A m \in Markets : OverviewIsRecent(m, overviews[m])

CallsAreSound ==
    /\ \E D : calls \in [Callers -> D]
    /\ \A c \in Callers : CallIsSound(calls[c]) /\ CallIsTimely(calls[c])

OfficialInv == tick \in Nat /\ PagesAreYoung /\ OverviewsAreRecent /\ CallsAreSound

-----------------------------------------------------------------------------
LEMMA PagesOfMarkets ==
    /\ Range(PagesOf("US")) = {"tickers", "submissions", "facts"}
    /\ Range(PagesOf("TW")) = {"monthly_revenue", "income_statement", "balance_sheet"}
    /\ Evidence("US") = {"submissions", "facts"}
    /\ Evidence("TW") = {"monthly_revenue", "income_statement", "balance_sheet"}
<1>1. Range(PagesOf("US")) = {"tickers", "submissions", "facts"}
  BY DEF Range, PagesOf
<1>2. Range(PagesOf("TW")) = {"monthly_revenue", "income_statement", "balance_sheet"}
  BY DEF Range, PagesOf
<1>3. QED  BY <1>1, <1>2 DEF Evidence

LEMMA PagesOfAll ==
    AllPages = {"tickers", "submissions", "facts", "monthly_revenue", "income_statement", "balance_sheet"}
<1>1. AllPages = Range(PagesOf("US")) \cup Range(PagesOf("TW"))
  BY DEF AllPages, Markets
<1>2. QED  BY <1>1, PagesOfMarkets

LEMMA OfficialNumbers ==
    /\ Slack \in Nat /\ ListedAt \in Nat /\ Day \in Nat \ {0} /\ TaipeiOffset \in Nat /\ PageTimeout \in Nat
    /\ \A p : LifeOf(p) \in Nat /\ LifeOf(p) + PageTimeout <= Slack
BY DayAssumption, PageLifeAssumption DEF Slack, LifeOf

LEMMA TwoNumbers ==
    ASSUME NEW a \in Int, NEW b \in Int
    PROVE  /\ Max({a, b}) = IF a <= b THEN b ELSE a
           /\ Min({a, b}) = IF a <= b THEN a ELSE b
BY DEF Max, Min

LEMMA WholeDays ==
    ASSUME NEW D \in Nat \ {0}, NEW d \in Nat, NEW m \in Int, d * D <= m
    PROVE  d <= m \div D
OBVIOUS

\* The reports of a page that is recent enough hold all that were released by
\* then, and the cutoff keeps them.
LEMMA RecentPageHasThem ==
    ASSUME NEW m \in Markets, NEW observed \in Int, NEW asOf \in Int, observed <= asOf,
           NEW content \in Int, content >= observed - Slack,
           NEW d \in Reports(m, observed - Slack)
    PROVE  d \in Reports(m, content) /\ d <= Cutoff(m, asOf, observed)
<1>0. /\ Slack \in Nat /\ ListedAt \in Nat /\ Day \in Nat \ {0} /\ TaipeiOffset \in Nat
  BY OfficialNumbers
<1>1. d \in 0 .. MaxTick /\ ListedAt <= observed - Slack /\ Released(m, d) <= observed - Slack
  BY DEF Reports
<1>2. d \in Nat
  BY <1>1, PageLifeAssumption
<1>9. PICK days \in Int : days = d * Day
  BY <1>0, <1>2
<1>3. PICK first \in Int : first = IF m = "TW" THEN d * Day - TaipeiOffset ELSE d * Day
  BY <1>0, <1>9
<1>4. Released(m, d) = IF ListedAt <= first THEN first ELSE ListedAt
  <2>1. Released(m, d) = Max({ListedAt, first})
    BY <1>3 DEF Released
  <2>2. QED  BY <2>1, <1>0, TwoNumbers
<1>5. Released(m, d) \in Int /\ first <= observed - Slack
  BY <1>0, <1>1, <1>4
<1>6. d \in Reports(m, content)
  BY <1>0, <1>1, <1>5 DEF Reports
<1>7. Min({asOf, observed}) = observed
  <2>1. Min({asOf, observed}) = IF asOf <= observed THEN asOf ELSE observed
    BY TwoNumbers
  <2>2. QED  BY <2>1
<1>8. PICK reach \in Int : reach = observed + (IF m = "TW" THEN TaipeiOffset ELSE 0)
  BY <1>0
<1>10. days <= reach
  BY <1>0, <1>3, <1>5, <1>8, <1>9
<1>11. d <= reach \div Day
  BY <1>0, <1>2, <1>9, <1>10, WholeDays
<1>12. Cutoff(m, asOf, observed) = reach \div Day
  BY <1>7, <1>8 DEF Cutoff
<1>13. QED  BY <1>6, <1>11, <1>12

\* An instrument that has been listed for the slack has a report.
LEMMA ListedHasReport ==
    ASSUME NEW m \in Markets, NEW observed \in Int, ListedAt <= observed - Slack
    PROVE  0 \in Reports(m, observed - Slack)
<1>0. /\ Slack \in Nat /\ ListedAt \in Nat /\ Day \in Nat \ {0} /\ TaipeiOffset \in Nat
  BY OfficialNumbers
<1>1. PICK first \in Int : first = IF m = "TW" THEN 0 * Day - TaipeiOffset ELSE 0 * Day
  BY <1>0
<1>2. first <= 0
  BY <1>0, <1>1
<1>3. Released(m, 0) = Max({ListedAt, first})
  BY <1>1 DEF Released
<1>4. Released(m, 0) = IF ListedAt <= first THEN first ELSE ListedAt
  BY <1>3, <1>0, TwoNumbers
<1>5. Released(m, 0) = ListedAt
  BY <1>0, <1>2, <1>4
<1>6. QED  BY <1>5, PageLifeAssumption DEF Reports

\* What an answer says, and how its call has ended.
Ends(call, end) ==
    /\ CallShape(end) /\ end.pc = "fetched" /\ end.via = call.via /\ end.market = call.market
    /\ end.asOf = call.asOf /\ end.observed = call.observed
    /\ RecentEnough(call.market, call.observed, end.answer)

LEMMA AnsweredEnds ==
    ASSUME NEW call, CallShape(call), NEW outcome, NEW facts,
           outcome = "available" =>
               \A p \in Evidence(call.market) : \A d \in Reports(call.market, call.observed - Slack) : Covers(p, facts[p], d),
           outcome = "not_found" => call.observed - Slack < ListedAt
    PROVE  Ends(call, Answered(call, outcome, facts))
<1>1. PICK w : w = (\E p \in DOMAIN call.got : call.got[p] = Failed)
  OBVIOUS
<1>2. PICK a : a = [outcome |-> outcome, facts |-> facts, warned |-> w]
  OBVIOUS
<1>3. PICK end : end = [call EXCEPT !.pc = "fetched", !.sent = 0, !.todo = <<>>, !.got = <<>>, !.answer = a]
  OBVIOUS
<1>4. end = Answered(call, outcome, facts)
  BY <1>1, <1>2, <1>3, Zenon DEF Answered
<1>5. end = [pc |-> "fetched", via |-> call.via, market |-> call.market, asOf |-> call.asOf,
             observed |-> call.observed, sent |-> 0, todo |-> <<>>, got |-> <<>>, answer |-> a]
  BY <1>3 DEF CallShape
<1>6. CallShape(end)
  BY <1>2, <1>5 DEF CallShape
<1>7. a.outcome = outcome /\ a.facts = facts
  BY <1>2
<1>8. RecentEnough(call.market, call.observed, a)
  BY <1>7 DEF RecentEnough
<1>9. Ends(call, end)
  BY <1>5, <1>6, <1>8 DEF Ends
<1>10. QED  BY <1>4, <1>9

\* A call whose pages are all there, failed or recent.
Gathered(call, m) ==
    /\ CallShape(call) /\ call.market = m /\ call.observed <= call.asOf
    /\ DOMAIN call.got = Range(PagesOf(m))
    /\ \A p \in DOMAIN call.got : IsRecent(call.got[p], call.observed)

\* The least of some numbers is one of them.
LEMMA LeastNumber ==
    ASSUME NEW S \in SUBSET Nat, S # {}
    PROVE  Min(S) \in S /\ \A x \in S : Min(S) <= x
<1>1. \E x \in S : \A y \in S : x <= y
  <2> DEFINE R == OpToRel(<, Nat)
  <2>1. IsWellFoundedOn(R, Nat)
    BY NatLessThanWellFounded DEF R
  <2>2. PICK x \in S : \A y \in S : ~(<<y, x>> \in R)
    BY <2>1, WFMin
  <2>3. \A y \in S : ~(y < x)
    BY <2>2 DEF OpToRel
  <2>5. \A y \in S : x <= y
    BY <2>3
  <2>4. QED  BY <2>2, <2>5
<1>2. QED  BY <1>1 DEF Min


-----------------------------------------------------------------------------
(* Lists: what they drop, and what they account for.                       *)

LEMMA GreatestNumber ==
    ASSUME NEW S \in SUBSET (0 .. MaxTick), S # {}
    PROVE  \E x \in S : \A y \in S : y <= x
<1> DEFINE M == {MaxTick - x : x \in S}
<1>0. MaxTick \in Nat /\ \A x \in S : x \in Nat /\ MaxTick - x \in Nat
  BY PageLifeAssumption
<1>1. M \in SUBSET Nat /\ M # {}
  BY <1>0
<1>2. PICK m \in M : \A y \in M : m <= y
  <2> HIDE DEF M
  <2> QED  BY <1>1, LeastNumber
<1>3. PICK x \in S : m = MaxTick - x
  BY <1>2
<1>4. ASSUME NEW y \in S PROVE y <= x
  <2>1. m <= MaxTick - y
    BY <1>2
  <2> QED  BY <2>1, <1>0, <1>3
<1>5. QED  BY <1>4

LEMMA LimitsAreNumbers == \A page : LimitOf(page) \in Nat /\ LimitOf(page) >= 1
BY PeriodAssumption DEF LimitOf

\* The order of a list is strict and total.
LEMMA AheadIsAnOrder ==
    ASSUME NEW page, NEW d \in 0 .. MaxTick, NEW e \in 0 .. MaxTick, NEW f \in 0 .. MaxTick
    PROVE  /\ ~Ahead(page, d, d)
           /\ d # e => Ahead(page, d, e) \/ Ahead(page, e, d)
           /\ Ahead(page, f, e) /\ Ahead(page, e, d) => Ahead(page, f, d)
<1>1. EndOf[PeriodOf[d]] \in Nat /\ EndOf[PeriodOf[e]] \in Nat /\ EndOf[PeriodOf[f]] \in Nat
  BY PeriodAssumption
<1>2. d \in Nat /\ e \in Nat /\ f \in Nat
  BY PageLifeAssumption
<1>3. QED  BY <1>1, <1>2 DEF Ahead

\* What a list keeps: all, or as many as its limit, and then the foremost.
LEMMA LeadingIsFull ==
    ASSUME NEW page, NEW C \in SUBSET (0 .. MaxTick)
    PROVE  /\ Leading(page, C) \subseteq C
           /\ C # {} => Leading(page, C) # {}
           /\ \A d \in C \ Leading(page, C) :
                 /\ Cardinality(Leading(page, C)) = LimitOf(page)
                 /\ \A e \in Leading(page, C) : Ahead(page, e, d)
<1> DEFINE Above(x) == {e \in C : Ahead(page, e, x)}
           place(x) == Cardinality(Above(x))
           n == Cardinality(C)
           L == LimitOf(page)
           list == Leading(page, C)
<1>0. MaxTick \in Nat /\ L \in Nat /\ L >= 1
  BY PageLifeAssumption, LimitsAreNumbers
<1>1. IsFiniteSet(C) /\ n \in Nat
  <2>1. IsFiniteSet(0 .. MaxTick)
    BY <1>0, FS_Interval
  <2> QED  BY <2>1, FS_Subset, FS_CardinalityType
<1>2. ASSUME NEW x \in C
      PROVE  /\ Above(x) \in SUBSET C /\ IsFiniteSet(Above(x)) /\ x \notin Above(x)
             /\ place(x) \in Nat /\ place(x) <= n - 1
  <2>1. Above(x) \in SUBSET C /\ x \notin Above(x)
    BY AheadIsAnOrder
  <2>2. IsFiniteSet(Above(x)) /\ place(x) <= n /\ (place(x) = n => Above(x) = C)
    BY <1>1, <2>1, FS_Subset
  <2>3. place(x) \in Nat
    BY <2>2, FS_CardinalityType
  <2>4. place(x) # n
    BY <2>1, <2>2
  <2> HIDE DEF Above, n
  <2> QED  BY <1>1, <2>1, <2>2, <2>3, <2>4
<1>3. ASSUME NEW x \in C, NEW y \in C, Ahead(page, x, y) PROVE place(x) < place(y)
  <2>1. x \in Above(y) /\ x \notin Above(x)
    BY <1>3, <1>2
  <2>2. Above(x) \in SUBSET Above(y)
    BY <1>3, AheadIsAnOrder
  <2>3. place(x) <= place(y) /\ place(x) # place(y)
    BY <1>2, <2>1, <2>2, FS_Subset
  <2>4. place(x) \in Nat /\ place(y) \in Nat
    BY <1>2
  <2> HIDE DEF place
  <2> QED  BY <2>3, <2>4
<1>4. ASSUME NEW x \in C, NEW y \in C, x # y PROVE place(x) # place(y)
  <2>1. place(x) \in Nat /\ place(y) \in Nat /\ (place(x) < place(y) \/ place(y) < place(x))
    BY <1>2, <1>3, <1>4, AheadIsAnOrder
  <2> HIDE DEF place
  <2> QED  BY <2>1
<1>5. \A x \in C : x \in list <=> place(x) < L
  BY DEF Leading
<1>6. list \subseteq C
  BY DEF Leading
<1> HIDE DEF Above, place, list, L
\* The places are 0, 1, ..., each taken once.
<1>7. \A k \in 0 .. n - 1 : \E x \in C : place(x) = k
  <2> DEFINE f == [x \in C |-> place(x)]
  <2>1. \A x \in C : place(x) \in 0 .. n - 1
    BY <1>1, <1>2 DEF place, Above
  <2>2. f \in Injection(C, 0 .. n - 1)
    BY <2>1, <1>4 DEF Injection, IsInjective
  <2>3. IsFiniteSet(0 .. n - 1) /\ Cardinality(0 .. n - 1) = n
    <3> HIDE DEF n
    <3>1. 0 > n - 1 => n = 0
      BY <1>1
    <3> QED  BY <1>1, <3>1, FS_Interval, FS_EmptySet
  <2>4. f \in Surjection(C, 0 .. n - 1)
    BY <2>2, <2>3, FS_Injection
  <2> QED  BY <2>4 DEF Surjection
<1>8. C # {} => list # {}
  <2> SUFFICES ASSUME C # {} PROVE list # {}
    OBVIOUS
  <2>1. n # 0
    BY <1>1, FS_EmptySet
  <2>2. 0 \in 0 .. n - 1
    <3> HIDE DEF n
    <3> QED  BY <1>1, <2>1
  <2>3. PICK x \in C : place(x) = 0
    BY <1>7, <2>2
  <2> QED  BY <2>3, <1>0, <1>5
<1>9. ASSUME NEW d \in C, d \notin list
      PROVE  Cardinality(list) = L /\ \A e \in list : Ahead(page, e, d)
  <2>1. place(d) \in Nat /\ L <= place(d) /\ place(d) <= n - 1
    <3>1. place(d) \in Nat /\ place(d) <= n - 1
      BY <1>2 DEF place, Above
    <3>2. ~(place(d) < L)
      BY <1>5, <1>9
    <3> HIDE DEF n
    <3> QED  BY <3>1, <3>2, <1>0
  <2>2. ASSUME NEW e \in list PROVE Ahead(page, e, d)
    <3>1. e \in C /\ place(e) \in Nat /\ place(e) < L /\ e # d
      BY <1>2, <1>5, <1>6, <1>9 DEF place, Above
    <3>2. ~Ahead(page, d, e)
      BY <1>0, <1>3, <2>1, <3>1
    <3> QED  BY <3>1, <3>2, AheadIsAnOrder
  <2> DEFINE g == [x \in list |-> place(x)]
  <2>3. \A x \in list : x \in C /\ place(x) \in 0 .. L - 1
    <3>1. ASSUME NEW x \in list PROVE x \in C /\ place(x) \in Nat /\ place(x) < L
      BY <1>2, <1>5, <1>6 DEF place, Above
    <3> QED  BY <3>1, <1>0
  <2>4. g \in Injection(list, 0 .. L - 1)
    BY <2>3, <1>4 DEF Injection, IsInjective
  <2>5. \A k \in 0 .. L - 1 : \E x \in list : place(x) = k
    <3> SUFFICES ASSUME NEW k \in 0 .. L - 1 PROVE \E x \in list : place(x) = k
      OBVIOUS
    <3>1. k \in 0 .. n - 1 /\ k < L
      <4> HIDE DEF n
      <4> QED  BY <1>0, <1>1, <2>1
    <3>2. PICK x \in C : place(x) = k
      BY <1>7, <3>1
    <3> QED  BY <3>1, <3>2, <1>5
  <2>6. g \in Surjection(list, 0 .. L - 1)
    BY <2>3, <2>5 DEF Surjection
  <2>7. IsFiniteSet(list)
    BY <1>1, <1>6, FS_Subset
  <2>8. Cardinality(0 .. L - 1) = L
    BY <1>0, FS_Interval
  <2>9. Cardinality(list) = L
    BY <2>4, <2>6, <2>7, <2>8, FS_Surjection
  <2> QED  BY <2>2, <2>9
<1>10. QED  BY <1>6, <1>8, <1>9 DEF list, L

\* A list accounts for every report it was made from, and is empty only if
\* there was none.
LEMMA ListAccounts ==
    ASSUME NEW page, NEW S \in SUBSET (0 .. MaxTick)
    PROVE  /\ \A d \in S : Covers(page, Listed(page, S), d)
           /\ Listed(page, S) = {} => S = {}
<1> DEFINE C == S \ Superseded(page, S)
           list == Listed(page, S)
<1>1. C \in SUBSET (0 .. MaxTick) /\ list = Leading(page, C)
  BY DEF Listed
<1>2. \A x \in S : x \in Nat
  BY PageLifeAssumption
\* The last report of a period is not superseded.
<1>3. ASSUME NEW d \in S, d \notin C
      PROVE  page # "submissions" /\ \E e \in C : PeriodOf[e] = PeriodOf[d] /\ e > d
  <2>1. page # "submissions" /\ \E e \in S : PeriodOf[e] = PeriodOf[d] /\ e > d
    BY <1>3 DEF Superseded
  <2> DEFINE T == {e \in S : PeriodOf[e] = PeriodOf[d]}
  <2>2. PICK e \in T : \A y \in T : y <= e
    <3>1. T \in SUBSET (0 .. MaxTick) /\ T # {}
      OBVIOUS
    <3> HIDE DEF T
    <3> QED  BY <3>1, GreatestNumber
  <2>3. e \in S /\ PeriodOf[e] = PeriodOf[d] /\ e > d
    BY <1>2, <2>1, <2>2
  <2>4. e \notin Superseded(page, S)
    BY <1>2, <2>2, <2>3 DEF Superseded
  <2> QED  BY <2>1, <2>3, <2>4
<1>4. S # {} => C # {}
  BY <1>3
<1> HIDE DEF C, list
<1>5. /\ list \subseteq C /\ (C # {} => list # {})
      /\ \A d \in C \ list : Cardinality(list) = LimitOf(page) /\ \A e \in list : Ahead(page, e, d)
  BY <1>1, LeadingIsFull
<1>6. ASSUME NEW d \in S PROVE Covers(page, list, d)
  <2>1. CASE d \in C
    BY <2>1, <1>5 DEF Covers
  <2>2. CASE d \notin C
    <3>1. PICK e \in C : page # "submissions" /\ PeriodOf[e] = PeriodOf[d] /\ e > d
      BY <1>3, <2>2
    <3>2. CASE e \in list
      BY <3>1, <3>2 DEF Covers
    <3>3. CASE e \notin list
      <4>1. Cardinality(list) = LimitOf(page) /\ \A x \in list : Ahead(page, x, e)
        BY <1>5, <3>1, <3>3
      <4>2. ASSUME NEW x \in list PROVE Ahead(page, x, d)
        <5>1. x \in 0 .. MaxTick /\ e \in 0 .. MaxTick /\ d \in 0 .. MaxTick /\ Ahead(page, x, e)
          BY <1>1, <1>5, <4>1
        <5>2. x \in Nat /\ e \in Nat /\ d \in Nat
          BY <5>1, PageLifeAssumption
        <5>3. EndOf[PeriodOf[x]] \in Nat /\ EndOf[PeriodOf[e]] = EndOf[PeriodOf[d]] /\ EndOf[PeriodOf[e]] \in Nat
          BY <5>1, <3>1, PeriodAssumption
        <5> QED  BY <5>1, <5>2, <5>3, <3>1 DEF Ahead
      <4> QED  BY <4>1, <4>2 DEF Covers
    <3> QED  BY <3>2, <3>3
  <2> QED  BY <2>1, <2>2
<1>7. list = {} => S = {}
  BY <1>4, <1>5
<1>8. QED  BY <1>6, <1>7 DEF list

\* What a page that is not failed contributes.
LEMMA ListIsComplete ==
    ASSUME NEW m \in Markets, NEW call, Gathered(call, m), NEW p \in DOMAIN call.got, call.got[p] # Failed
    PROVE  /\ \A d \in Reports(m, call.observed - Slack) : Covers(p, Listed(p, Within(call, p)), d)
           /\ Listed(p, Within(call, p)) = {} => call.observed - Slack < ListedAt
<1>1. PICK observed \in Int, asOf \in Int : observed = call.observed /\ asOf = call.asOf /\ observed <= asOf
  BY DEF Gathered, CallShape
<1>2. PICK content \in Int : content = call.got[p] /\ content >= observed - Slack
  BY <1>1 DEF Gathered, IsRecent
<1>3. Within(call, p) = {d \in Reports(m, content) : d <= Cutoff(m, asOf, observed)}
  BY <1>1, <1>2 DEF Within, Gathered
<1>4. ASSUME NEW d \in Reports(m, observed - Slack) PROVE d \in Within(call, p)
  BY <1>1, <1>2, <1>3, RecentPageHasThem
<1>5. Within(call, p) = {} => call.observed - Slack < ListedAt
  <2>1. ListedAt <= observed - Slack => 0 \in Reports(m, observed - Slack)
    BY <1>1, ListedHasReport
  <2>2. observed - Slack \in Int /\ ListedAt \in Int
    BY <1>1, OfficialNumbers
  <2>3. QED  BY <2>1, <2>2, <1>1, <1>4
<1>6. Within(call, p) \in SUBSET (0 .. MaxTick)
  BY <1>3 DEF Reports
<1>7. QED  BY <1>1, <1>4, <1>5, <1>6, ListAccounts

LEMMA SecConcludes ==
    ASSUME NEW call, Gathered(call, "US")
    PROVE  Ends(call, ConcludeSec(call))
<1> DEFINE facts == [p \in Evidence("US") |-> IF p = "facts" THEN SecFacts(call) ELSE SecFilings(call)]
           gone == {p \in Evidence("US") : call.got[p] = Failed}
<1>1. /\ Evidence("US") = {"submissions", "facts"} /\ Evidence("US") \subseteq DOMAIN call.got
      /\ call.market = "US" /\ CallShape(call)
  BY PagesOfMarkets DEF Gathered
<1>2. ASSUME NEW p \in Evidence("US") PROVE facts[p] = Listed(p, Within(call, p))
  BY <1>1 DEF SecFacts, SecFilings
<1>3. ASSUME NEW p \in Evidence("US") \ gone
      PROVE  /\ \A d \in Reports("US", call.observed - Slack) : Covers(p, facts[p], d)
             /\ facts[p] = {} => call.observed - Slack < ListedAt
  <2>1. "US" \in Markets /\ p \in DOMAIN call.got /\ call.got[p] # Failed /\ facts[p] = Listed(p, Within(call, p))
    BY <1>1, <1>2 DEF Markets
  <2> HIDE DEF facts
  <2>2. QED  BY <2>1, ListIsComplete
<1>4. CASE gone = Evidence("US")
  <2>1. ConcludeSec(call) = Answered(call, "failure", <<>>)
    BY <1>4 DEF ConcludeSec
  <2>2. QED  BY <2>1, <1>1, AnsweredEnds
<1>5. CASE gone # Evidence("US") /\ \A p \in Evidence("US") : facts[p] = {}
  <2>1. ConcludeSec(call) = Answered(call, "not_found", <<>>)
    BY <1>5 DEF ConcludeSec
  <2>2. PICK p \in Evidence("US") : p \notin gone
    BY <1>5
  <2>3. call.observed - Slack < ListedAt
    BY <2>2, <1>3, <1>5
  <2>4. QED  BY <2>1, <2>3, <1>1, AnsweredEnds
<1>6. CASE gone # Evidence("US") /\ ~(\A p \in Evidence("US") : facts[p] = {})
  <2>1. PICK o : o = IF gone # {} THEN "partial" ELSE "available"
    OBVIOUS
  <2>2. ConcludeSec(call) = Answered(call, o, facts)
    BY <2>1, <1>6 DEF ConcludeSec
  <2>3. o = "available" => \A p \in Evidence("US") : \A d \in Reports("US", call.observed - Slack) : Covers(p, facts[p], d)
    BY <2>1, <1>3
  <2>4. o # "not_found"
    BY <2>1
  <2> HIDE DEF facts
  <2>5. QED  BY <2>2, <2>3, <2>4, <1>1, AnsweredEnds
<1>7. QED  BY <1>4, <1>5, <1>6

LEMMA TwseConcludes ==
    ASSUME NEW call, Gathered(call, "TW")
    PROVE  Ends(call, ConcludeTwse(call))
<1> DEFINE facts == [p \in Evidence("TW") |-> TwseFacts(call, p)]
           gone == {p \in Evidence("TW") : call.got[p] = Failed}
           empty == {p \in Evidence("TW") : facts[p] = {}}
<1>1. /\ Evidence("TW") = {"monthly_revenue", "income_statement", "balance_sheet"}
      /\ Evidence("TW") \subseteq DOMAIN call.got
      /\ call.market = "TW" /\ CallShape(call)
  BY PagesOfMarkets DEF Gathered
<1>2. ASSUME NEW p \in Evidence("TW") PROVE facts[p] = Listed(p, Within(call, p))
  BY DEF TwseFacts
<1>3. ASSUME NEW p \in Evidence("TW") \ gone
      PROVE  /\ \A d \in Reports("TW", call.observed - Slack) : Covers(p, facts[p], d)
             /\ facts[p] = {} => call.observed - Slack < ListedAt
  <2>1. "TW" \in Markets /\ p \in DOMAIN call.got /\ call.got[p] # Failed /\ facts[p] = Listed(p, Within(call, p))
    BY <1>1, <1>2 DEF Markets
  <2> HIDE DEF facts
  <2>2. QED  BY <2>1, ListIsComplete
<1>4. gone \subseteq empty
  <2>1. ASSUME NEW p \in gone PROVE facts[p] = {}
    <3>1. Within(call, p) = {}
      BY DEF Within
    <3>2. facts[p] = Listed(p, {})
      BY <1>2, <3>1
    <3> QED  BY <3>2 DEF Listed, Leading
  <2> QED  BY <2>1
<1>5. CASE empty = Evidence("TW")
  <2>1. PICK o : o = IF gone # {} THEN "failure" ELSE "not_found"
    OBVIOUS
  <2>2. ConcludeTwse(call) = Answered(call, o, <<>>)
    BY <2>1, <1>5 DEF ConcludeTwse
  <2>3. o = "not_found" => call.observed - Slack < ListedAt
    <3>1. SUFFICES ASSUME gone = {} PROVE call.observed - Slack < ListedAt
      BY <2>1
    <3>2. "balance_sheet" \in Evidence("TW") \ gone /\ "balance_sheet" \in empty
      BY <1>1, <1>5, <3>1
    <3>3. facts["balance_sheet"] = {}
      BY <3>2
    <3>4. QED  BY <1>3, <3>2, <3>3
  <2>4. o # "available"
    BY <2>1
  <2>5. QED  BY <2>2, <2>3, <2>4, <1>1, AnsweredEnds
<1>6. CASE empty # Evidence("TW")
  <2>1. PICK o : o = IF empty # {} THEN "partial" ELSE "available"
    OBVIOUS
  <2>2. ConcludeTwse(call) = Answered(call, o, facts)
    BY <2>1, <1>6 DEF ConcludeTwse
  <2>3. o = "available" => \A p \in Evidence("TW") : \A d \in Reports("TW", call.observed - Slack) : Covers(p, facts[p], d)
    BY <2>1, <1>3, <1>4
  <2>4. o # "not_found"
    BY <2>1
  <2> HIDE DEF facts
  <2>5. QED  BY <2>2, <2>3, <2>4, <1>1, AnsweredEnds
<1>7. QED  BY <1>5, <1>6

\* The first page that is still to be looked for, and what is left after it.
LEMMA StagesGoOn ==
    ASSUME NEW call, Stage(call)
    PROVE  /\ Head(call.todo) \in AllPages /\ call.todo # <<>>
           /\ \/ /\ Tail(call.todo) # <<>>
                 /\ \A next : /\ next.market = call.market /\ next.todo = Tail(call.todo)
                              /\ DOMAIN next.got = DOMAIN call.got \cup {Head(call.todo)}
                              => Stage(next)
              \/ /\ Tail(call.todo) = <<>> /\ call.market \in Markets
                 /\ DOMAIN call.got \cup {Head(call.todo)} = Range(PagesOf(call.market))
<1>1. CASE call.market = "US" /\ call.todo = <<"tickers", "submissions", "facts">> /\ DOMAIN call.got = {}
  <2>1. Head(call.todo) = "tickers" /\ Tail(call.todo) = <<"submissions", "facts">>
    BY <1>1
  <2>2. QED  BY <1>1, <2>1, PagesOfAll DEF Stage
<1>2. CASE call.market = "US" /\ call.todo = <<"submissions", "facts">> /\ DOMAIN call.got = {"tickers"}
  <2>1. Head(call.todo) = "submissions" /\ Tail(call.todo) = <<"facts">>
    BY <1>2
  <2>2. DOMAIN call.got \cup {Head(call.todo)} = {"tickers", "submissions"}
    BY <1>2, <2>1
  <2>3. QED  BY <1>2, <2>1, <2>2, PagesOfAll DEF Stage
<1>3. CASE call.market = "US" /\ call.todo = <<"facts">> /\ DOMAIN call.got = {"tickers", "submissions"}
  <2>1. Head(call.todo) = "facts" /\ Tail(call.todo) = <<>> /\ call.todo # <<>>
    BY <1>3
  <2>2. DOMAIN call.got \cup {Head(call.todo)} = Range(PagesOf(call.market))
    BY <1>3, <2>1, PagesOfMarkets
  <2>3. QED  BY <1>3, <2>1, <2>2, PagesOfAll DEF Markets
<1>4. CASE /\ call.market = "TW" /\ call.todo = <<"monthly_revenue", "income_statement", "balance_sheet">>
           /\ DOMAIN call.got = {}
  <2>1. Head(call.todo) = "monthly_revenue" /\ Tail(call.todo) = <<"income_statement", "balance_sheet">>
    BY <1>4
  <2>2. QED  BY <1>4, <2>1, PagesOfAll DEF Stage
<1>5. CASE /\ call.market = "TW" /\ call.todo = <<"income_statement", "balance_sheet">>
           /\ DOMAIN call.got = {"monthly_revenue"}
  <2>1. Head(call.todo) = "income_statement" /\ Tail(call.todo) = <<"balance_sheet">>
    BY <1>5
  <2>2. DOMAIN call.got \cup {Head(call.todo)} = {"monthly_revenue", "income_statement"}
    BY <1>5, <2>1
  <2>3. QED  BY <1>5, <2>1, <2>2, PagesOfAll DEF Stage
<1>6. CASE /\ call.market = "TW" /\ call.todo = <<"balance_sheet">>
           /\ DOMAIN call.got = {"monthly_revenue", "income_statement"}
  <2>1. Head(call.todo) = "balance_sheet" /\ Tail(call.todo) = <<>> /\ call.todo # <<>>
    BY <1>6
  <2>2. DOMAIN call.got \cup {Head(call.todo)} = Range(PagesOf(call.market))
    BY <1>6, <2>1, PagesOfMarkets
  <2>3. QED  BY <1>6, <2>1, <2>2, PagesOfAll DEF Markets
<1>7. QED  BY <1>1, <1>2, <1>3, <1>4, <1>5, <1>6 DEF Stage

\* What a page brings about: the next is looked for, or the call ends.
LEMMA AfterGoesOn ==
    ASSUME NEW call, CallShape(call), InFlight(call), NEW content, IsRecent(content, call.observed)
    PROVE  \/ Ends(call, After(call, content))
           \/ /\ CallShape(After(call, content)) /\ InFlight(After(call, content))
              /\ After(call, content).pc = "looking" /\ After(call, content).via = call.via
              /\ After(call, content).market = call.market
              /\ After(call, content).asOf = call.asOf /\ After(call, content).observed = call.observed
<1> DEFINE page == Head(call.todo)
           nextGot == [p \in DOMAIN call.got \cup {page} |-> IF p = page THEN content ELSE call.got[p]]
<1>1. PICK next : next = [call EXCEPT !.pc = "looking", !.sent = 0, !.todo = Tail(call.todo), !.got = nextGot]
  OBVIOUS
<1>2. next = [pc |-> "looking", via |-> call.via, market |-> call.market, asOf |-> call.asOf,
              observed |-> call.observed, sent |-> 0, todo |-> Tail(call.todo), got |-> nextGot,
              answer |-> call.answer]
  BY <1>1 DEF CallShape
<1>3. After(call, content) =
        IF page = "tickers" /\ content = Failed THEN Answered(call, "failure", <<>>)
        ELSE IF page = "tickers" /\ ~FindCik(content) THEN Answered(call, "not_found", <<>>)
        ELSE IF next.todo # <<>> THEN next
        ELSE IF call.market = "US" THEN ConcludeSec(next) ELSE ConcludeTwse(next)
  BY <1>1 DEF After
<1>4. CallShape(next) /\ DOMAIN next.got = DOMAIN call.got \cup {page}
  BY <1>2 DEF CallShape
<1>5. \A p \in DOMAIN next.got : IsRecent(next.got[p], next.observed)
  BY <1>2, <1>4 DEF InFlight
<1>6. CASE page = "tickers" /\ content = Failed
  <2>1. Ends(call, Answered(call, "failure", <<>>))
    BY AnsweredEnds
  <2>2. QED  BY <2>1, <1>3, <1>6
<1>7. CASE page = "tickers" /\ content # Failed /\ ~FindCik(content)
  <2>1. call.observed - Slack < ListedAt
    BY <1>7, OfficialNumbers DEF FindCik, IsRecent, CallShape
  <2>2. Ends(call, Answered(call, "not_found", <<>>))
    BY <2>1, AnsweredEnds
  <2>3. QED  BY <2>2, <1>3, <1>7
<1>8. CASE ~(page = "tickers" /\ (content = Failed \/ ~FindCik(content))) /\ next.todo # <<>>
  <2>1. After(call, content) = next
    BY <1>3, <1>8
  <2>2. Stage(next)
    <3>1. next.todo = Tail(call.todo) /\ next.market = call.market /\ DOMAIN next.got = DOMAIN call.got \cup {page}
      BY <1>2, <1>4
    <3>2. QED  BY <3>1, <1>8, StagesGoOn DEF InFlight
  <2>3. next.observed <= next.asOf /\ next.answer = NoAnswer
    BY <1>2 DEF InFlight
  <2>4. InFlight(next)
    BY <2>2, <2>3, <1>5 DEF InFlight
  <2>5. QED  BY <2>1, <2>4, <1>2, <1>4
<1>9. CASE ~(page = "tickers" /\ (content = Failed \/ ~FindCik(content))) /\ next.todo = <<>>
  <2>1. next.todo = Tail(call.todo) /\ next.market = call.market /\ DOMAIN next.got = DOMAIN call.got \cup {page}
        /\ next.observed = call.observed /\ next.asOf = call.asOf /\ next.via = call.via
    BY <1>2, <1>4
  <2>3. call.market \in Markets /\ DOMAIN next.got = Range(PagesOf(call.market))
    BY <2>1, <1>9, StagesGoOn DEF InFlight
  <2>4. Gathered(next, call.market)
    BY <2>1, <2>3, <1>4, <1>5 DEF Gathered, InFlight
  <2>5. PICK end : end = After(call, content)
    OBVIOUS
  <2>6. end = IF call.market = "US" THEN ConcludeSec(next) ELSE ConcludeTwse(next)
    BY <2>5, <1>3, <1>9
  <2>7. Ends(next, end)
    BY <2>3, <2>4, <2>6, SecConcludes, TwseConcludes DEF Markets
  <2>8. Ends(call, end)
    BY <2>1, <2>7 DEF Ends
  <2>9. QED  BY <2>5, <2>8
<1>10. QED  BY <1>6, <1>7, <1>8, <1>9

LEMMA AfterIsSound ==
    ASSUME NEW call, CallIsSound(call), CallIsTimely(call), call.pc \in {"looking", "waiting"},
           NEW content, IsRecent(content, call.observed)
    PROVE  CallIsSound(After(call, content)) /\ CallIsTimely(After(call, content))
<1>1. CallShape(call) /\ InFlight(call)
  BY DEF CallIsSound
<1>2. PICK next : next = After(call, content)
  OBVIOUS
<1>3. CASE Ends(call, next)
  BY <1>2, <1>3 DEF Ends, CallIsSound, CallIsTimely
<1>4. CASE /\ CallShape(next) /\ InFlight(next) /\ next.pc = "looking" /\ next.via = call.via
           /\ next.market = call.market /\ next.asOf = call.asOf /\ next.observed = call.observed
  <2>1. RecentEnough(next.market, next.observed, next.answer)
    BY <1>4 DEF InFlight, NoAnswer, RecentEnough
  <2>2. QED  BY <2>1, <1>2, <1>4 DEF CallIsSound, CallIsTimely
<1>5. QED  BY <1>1, <1>2, <1>3, <1>4, AfterGoesOn

\* One caller gets further, and the clock stands still.
LEMMA OneCallMoves ==
    ASSUME CallsAreSound, NEW c \in Callers, NEW r, calls' = [calls EXCEPT ![c] = r], tick' = tick,
           CallIsSound(r), CallIsTimely(r)
    PROVE  CallsAreSound'
<1>1. PICK D : calls \in [Callers -> D]
  BY DEF CallsAreSound
<1>2. calls' \in [Callers -> D \cup {r}]
  BY <1>1
<1>3. ASSUME NEW u \in Callers PROVE CallIsSound(calls'[u]) /\ CallIsTimely(calls[u])'
  <2>1. PICK q : q = calls'[u]
    OBVIOUS
  <2>2. q = IF u = c THEN r ELSE calls[u]
    BY <1>1, <2>1
  <2>3. CallIsSound(q) /\ CallIsTimely(q)
    BY <2>2 DEF CallsAreSound
  <2>4. CallIsTimely(q)'
    BY <2>3 DEF CallIsTimely
  <2>5. QED  BY <2>1, <2>3, <2>4 DEF CallIsTimely
<1>4. \E E : calls' \in [Callers -> E]
  BY <1>2
<1>5. QED  BY <1>3, <1>4 DEF CallsAreSound, CallIsSound, CallShape, InFlight, Stage, RecentEnough, IsRecent

LEMMA OnePageMoves ==
    ASSUME PagesAreYoung, NEW page, NEW row, pages' = [pages EXCEPT ![page] = row], PageIsYoung(page, row)
    PROVE  PagesAreYoung'
<1>1. PICK D : pages \in [AllPages -> D]
  BY DEF PagesAreYoung
<1>2. pages' \in [AllPages -> D \cup {row}]
  BY <1>1
<1>3. ASSUME NEW p \in AllPages PROVE PageIsYoung(p, pages'[p])
  <2>1. pages'[p] = IF p = page THEN row ELSE pages[p]
    BY <1>1
  <2>2. QED  BY <2>1 DEF PagesAreYoung
<1>4. \E E : pages' \in [AllPages -> E]
  BY <1>2
<1>5. QED  BY <1>3, <1>4 DEF PagesAreYoung, PageIsYoung

\* The caller that moves is sound, and the page it looks for is one.
LEMMA CallerIs ==
    ASSUME OfficialInv, NEW c \in Callers
    PROVE  /\ CallIsSound(calls[c]) /\ CallIsTimely(calls[c])
           /\ calls[c].observed \in Int /\ calls[c].asOf \in Int /\ calls[c].sent \in Int
           /\ calls[c].pc \in {"looking", "waiting"} => Head(calls[c].todo) \in AllPages
<1>1. PICK call : call = calls[c]
  OBVIOUS
<1>2. CallIsSound(call) /\ CallIsTimely(call)
  BY <1>1 DEF OfficialInv, CallsAreSound
<1>3. call.pc \in {"looking", "waiting"} => Head(call.todo) \in AllPages
  BY <1>2, StagesGoOn DEF CallIsSound, InFlight
<1>4. QED  BY <1>1, <1>2, <1>3 DEF CallIsSound, CallShape

LEMMA GoesOnWith ==
    ASSUME OfficialInv, NEW c \in Callers, calls[c].pc \in {"looking", "waiting"},
           NEW content, IsRecent(content, calls[c].observed),
           calls' = [calls EXCEPT ![c] = After(calls[c], content)], tick' = tick
    PROVE  CallsAreSound'
<1>1. PICK call : call = calls[c]
  OBVIOUS
<1>2. PICK next : next = After(call, content)
  OBVIOUS
<1>3. CallIsSound(call) /\ CallIsTimely(call)
  BY <1>1, CallerIs
<1>4. CallIsSound(next) /\ CallIsTimely(next)
  BY <1>1, <1>2, <1>3, AfterIsSound
<1>5. calls' = [calls EXCEPT ![c] = next]
  BY <1>1, <1>2
<1>6. QED  BY <1>4, <1>5, OneCallMoves DEF OfficialInv

LEMMA UseCachedKeeps ==
    ASSUME OfficialInv, NEW c \in Callers, UseCached(c)
    PROVE  OfficialInv'
<1>1. PICK page : page = Head(calls[c].todo)
  OBVIOUS
<1>2. PICK row : row = pages[page]
  OBVIOUS
<1>3. /\ calls[c].pc = "looking" /\ row # None /\ row.expires > tick
      /\ calls' = [calls EXCEPT ![c] = After(calls[c], row.content)]
      /\ UNCHANGED <<tick, pages, overviews>>
  BY <1>1, <1>2 DEF UseCached, Current
<1>4. page \in AllPages /\ calls[c].observed \in Int /\ calls[c].observed <= tick /\ tick \in Nat
  BY <1>1, <1>3, CallerIs DEF CallIsTimely, OfficialInv
<1>5. row.content \in Int /\ row.expires \in Int /\ row.content >= row.expires - LifeOf(page) - PageTimeout
  BY <1>2, <1>3, <1>4 DEF OfficialInv, PagesAreYoung, PageIsYoung
<1>6. row.content >= calls[c].observed - Slack
  <2>1. LifeOf(page) \in Nat /\ PageTimeout \in Nat /\ Slack \in Nat /\ LifeOf(page) + PageTimeout <= Slack
    BY OfficialNumbers
  <2>2. QED  BY <2>1, <1>3, <1>4, <1>5
<1>7. IsRecent(row.content, calls[c].observed)
  BY <1>5, <1>6 DEF IsRecent
<1>8. CallsAreSound'
  BY <1>3, <1>7, GoesOnWith
<1>9. QED  BY <1>3, <1>8 DEF OfficialInv, PagesAreYoung, PageIsYoung, OverviewsAreRecent, OverviewIsRecent, RecentEnough

LEMMA AskKeeps ==
    ASSUME OfficialInv, NEW c \in Callers, Ask(c)
    PROVE  OfficialInv'
<1>1. PICK page : page = Head(calls[c].todo)
  OBVIOUS
<1>2. PICK budget : budget = ConsumeRequest(tick)
  OBVIOUS
<1>3. /\ calls[c].pc = "looking" /\ UNCHANGED <<tick, overviews>> /\ tick \in Nat
      /\ pages' = Swept(page)
      /\ calls' = [calls EXCEPT ![c] = IF budget.granted
                                       THEN [calls[c] EXCEPT !.pc = "waiting", !.sent = tick]
                                       ELSE After(calls[c], Failed)]
  BY <1>1, <1>2 DEF Ask, OfficialInv
<1>4. PagesAreYoung'
  <2>1. CASE pages' = [pages EXCEPT ![page] = None]
    <3>1. PageIsYoung(page, None)
      BY DEF PageIsYoung
    <3>2. QED  BY <2>1, <3>1, OnePageMoves DEF OfficialInv
  <2>2. CASE pages' = pages
    BY <2>2 DEF OfficialInv, PagesAreYoung, PageIsYoung
  <2>3. QED  BY <1>3, <2>1, <2>2 DEF Swept
<1>5. CallsAreSound'
  <2>1. CASE ~budget.granted
    <3>1. calls' = [calls EXCEPT ![c] = After(calls[c], Failed)]
      BY <1>3, <2>1
    <3>2. IsRecent(Failed, calls[c].observed)
      BY DEF IsRecent
    <3>3. QED  BY <1>3, <3>1, <3>2, GoesOnWith
  <2>2. CASE budget.granted
    <3>1. PICK call : call = calls[c]
      OBVIOUS
    <3>2. PICK n : n = tick
      OBVIOUS
    <3>3. PICK next : next = [call EXCEPT !.pc = "waiting", !.sent = n]
      OBVIOUS
    <3>4. calls' = [calls EXCEPT ![c] = next]
      BY <1>3, <2>2, <3>1, <3>2, <3>3
    <3>5. CallIsSound(call) /\ CallIsTimely(call) /\ call.pc = "looking" /\ n \in Int
      BY <1>3, <3>1, <3>2, CallerIs
    <3>6. next = [pc |-> "waiting", via |-> call.via, market |-> call.market, asOf |-> call.asOf,
                  observed |-> call.observed, sent |-> n, todo |-> call.todo, got |-> call.got,
                  answer |-> call.answer]
      BY <3>3, <3>5 DEF CallIsSound, CallShape
    <3>7. CallShape(next)
      BY <3>5, <3>6 DEF CallIsSound, CallShape
    <3>8. InFlight(next)
      BY <3>5, <3>6 DEF CallIsSound, InFlight, Stage
    <3>9. CallIsSound(next)
      BY <3>5, <3>6, <3>7, <3>8 DEF CallIsSound
    <3>10. CallIsTimely(next)
      BY <3>2, <3>5, <3>6, <1>3 DEF CallIsTimely
    <3>11. QED  BY <3>4, <3>9, <3>10, <1>3, OneCallMoves DEF OfficialInv
  <2>3. QED  BY <2>1, <2>2
<1>6. QED  BY <1>3, <1>4, <1>5 DEF OfficialInv, OverviewsAreRecent, OverviewIsRecent, RecentEnough

LEMMA ReceiveKeeps ==
    ASSUME OfficialInv, NEW c \in Callers, Receive(c)
    PROVE  OfficialInv'
<1>1. PICK page : page = Head(calls[c].todo)
  OBVIOUS
<1>2. PICK content \in calls[c].sent .. tick :
         /\ pages' = Store(page, content, calls[c].observed)
         /\ calls' = [calls EXCEPT ![c] = After(calls[c], content)]
  BY <1>1 DEF Receive
<1>3. /\ calls[c].pc = "waiting" /\ tick < calls[c].sent + PageTimeout /\ UNCHANGED <<tick, overviews>>
      /\ tick \in Nat
  BY DEF Receive, OfficialInv
<1>4. calls[c].observed \in Int /\ calls[c].sent \in Int /\ calls[c].observed <= calls[c].sent
  BY <1>3, CallerIs DEF CallIsTimely
<1>5. content \in Int /\ content >= calls[c].sent
  BY <1>2, <1>3, <1>4
<1>6. PICK row : row = [content |-> content, observed |-> calls[c].observed, expires |-> tick + LifeOf(page)]
  OBVIOUS
<1>7. PageIsYoung(page, row)
  <2>1. LifeOf(page) \in Nat /\ PageTimeout \in Nat
    BY OfficialNumbers
  <2>2. PICK e \in Int : e = tick + LifeOf(page)
    BY <2>1, <1>3
  <2>3. row.content = content /\ row.expires = e
    BY <1>6, <2>2
  <2>4. content >= e - LifeOf(page) - PageTimeout
    BY <2>1, <2>2, <1>3, <1>4, <1>5
  <2>5. QED  BY <2>3, <2>4, <1>5 DEF PageIsYoung
<1>8. PagesAreYoung'
  <2>1. pages' = [pages EXCEPT ![page] = row]
    BY <1>2, <1>6 DEF Store
  <2>2. QED  BY <2>1, <1>7, OnePageMoves DEF OfficialInv
<1>9. IsRecent(content, calls[c].observed)
  BY <1>4, <1>5, OfficialNumbers DEF IsRecent
<1>10. CallsAreSound'
  BY <1>2, <1>3, <1>9, GoesOnWith
<1>11. QED  BY <1>3, <1>8, <1>10 DEF OfficialInv, OverviewsAreRecent, OverviewIsRecent, RecentEnough

LEMMA GiveUpPageKeeps ==
    ASSUME OfficialInv, NEW c \in Callers, GiveUpPage(c)
    PROVE  OfficialInv'
<1>1. IsRecent(Failed, calls[c].observed)
  BY DEF IsRecent
<1>2. CallsAreSound'
  BY <1>1, GoesOnWith DEF GiveUpPage
<1>3. QED  BY <1>2 DEF GiveUpPage, OfficialInv, PagesAreYoung, PageIsYoung, OverviewsAreRecent, OverviewIsRecent, RecentEnough

\* A call that has ended says what it said, or gives its answer up.
LEMMA EndedCallIs ==
    ASSUME NEW call, CallIsSound(call), NEW outcome,
           outcome \in {"available", "not_found"} => outcome = call.answer.outcome
    PROVE  /\ CallIsSound([call EXCEPT !.pc = "done", !.answer.outcome = outcome])
           /\ [call EXCEPT !.pc = "done", !.answer.outcome = outcome].pc = "done"
<1>1. PICK next : next = [call EXCEPT !.pc = "done", !.answer.outcome = outcome]
  OBVIOUS
<1>2. PICK a : a = [outcome |-> outcome, facts |-> call.answer.facts, warned |-> call.answer.warned]
  OBVIOUS
<1>3. next = [pc |-> "done", via |-> call.via, market |-> call.market, asOf |-> call.asOf,
              observed |-> call.observed, sent |-> call.sent, todo |-> call.todo, got |-> call.got,
              answer |-> a]
  BY <1>1, <1>2 DEF CallIsSound, CallShape
<1>4. CallShape(next)
  BY <1>2, <1>3 DEF CallIsSound, CallShape
<1>5. RecentEnough(call.market, call.observed, a)
  BY <1>2 DEF CallIsSound, RecentEnough
<1>6. CallIsSound(next)
  BY <1>3, <1>4, <1>5 DEF CallIsSound
<1>7. QED  BY <1>1, <1>3, <1>6

LEMMA DoneCallIs ==
    ASSUME NEW call, CallIsSound(call)
    PROVE  CallIsSound([call EXCEPT !.pc = "done"]) /\ [call EXCEPT !.pc = "done"].pc = "done"
<1>1. PICK next : next = [call EXCEPT !.pc = "done"]
  OBVIOUS
<1>2. next = [pc |-> "done", via |-> call.via, market |-> call.market, asOf |-> call.asOf,
              observed |-> call.observed, sent |-> call.sent, todo |-> call.todo, got |-> call.got,
              answer |-> call.answer]
  BY <1>1 DEF CallIsSound, CallShape
<1>3. CallShape(next)
  BY <1>2 DEF CallIsSound, CallShape
<1>4. QED  BY <1>1, <1>2, <1>3 DEF CallIsSound

LEMMA OverviewDoneKeeps ==
    ASSUME OfficialInv, NEW c \in Callers, OverviewDone(c)
    PROVE  OfficialInv'
<1>1. PICK call : call = calls[c]
  OBVIOUS
<1>2. PICK n \in Nat : n = tick
  BY DEF OfficialInv
<1>3. PICK row : row = [storedAt |-> n, asOf |-> call.asOf, answer |-> call.answer]
  OBVIOUS
<1>4. CallIsSound(call) /\ call.via = "overview" /\ UNCHANGED <<tick, pages>>
  BY <1>1, CallerIs DEF OverviewDone
<1>5. overviews' = [overviews EXCEPT ![call.market] = row] \/ overviews' = overviews
  BY <1>1, <1>2, <1>3 DEF OverviewDone
<1>6. OverviewIsRecent(call.market, row)
  BY <1>3, <1>4 DEF OverviewIsRecent, CallIsSound, CallShape
<1>7. OverviewsAreRecent'
  <2>1. PICK D : overviews \in [Markets -> D]
    BY DEF OfficialInv, OverviewsAreRecent
  <2>2. overviews' \in [Markets -> D \cup {row}]
    BY <2>1, <1>5
  <2>3. ASSUME NEW m \in Markets PROVE OverviewIsRecent(m, overviews'[m])
    <3>1. overviews'[m] = overviews[m] \/ (m = call.market /\ overviews'[m] = row)
      BY <2>1, <1>5
    <3>2. QED  BY <3>1, <1>6 DEF OfficialInv, OverviewsAreRecent
  <2>4. \E E : overviews' \in [Markets -> E]
    BY <2>2
  <2>5. QED  BY <2>3, <2>4 DEF OverviewsAreRecent, OverviewIsRecent, RecentEnough
<1>8. CallsAreSound'
  <2>1. PICK next : next = [call EXCEPT !.pc = "done"]
    OBVIOUS
  <2>2. CallIsSound(next) /\ next.pc = "done"
    BY <1>4, <2>1, DoneCallIs
  <2>3. CallIsTimely(next)
    BY <2>2 DEF CallIsTimely
  <2>4. calls' = [calls EXCEPT ![c] = next]
    BY <1>1, <2>1 DEF OverviewDone
  <2>5. QED  BY <1>4, <2>2, <2>3, <2>4, OneCallMoves DEF OfficialInv
<1>9. QED  BY <1>4, <1>7, <1>8 DEF OfficialInv, PagesAreYoung, PageIsYoung

LEMMA BundleKeeps ==
    ASSUME OfficialInv, NEW c \in Callers, Bundle(c)
    PROVE  OfficialInv'
<1>1. PICK call : call = calls[c]
  OBVIOUS
<1>2. CallIsSound(call) /\ UNCHANGED <<tick, pages, overviews>>
  BY <1>1, CallerIs DEF Bundle
<1>3. PICK priced \in BOOLEAN :
         calls' = [calls EXCEPT ![c].pc = "done",
                                ![c].answer.outcome = IF priced THEN Materialized(calls[c]) ELSE "failure"]
  BY DEF Bundle
<1>4. PICK outcome : outcome = IF priced THEN Materialized(call) ELSE "failure"
  OBVIOUS
<1>5. outcome \in {"available", "not_found"} => outcome = call.answer.outcome
  BY <1>4 DEF Materialized
<1>6. PICK next : next = [call EXCEPT !.pc = "done", !.answer.outcome = outcome]
  OBVIOUS
<1>7. CallIsSound(next) /\ next.pc = "done"
  BY <1>2, <1>5, <1>6, EndedCallIs
<1>8. CallIsTimely(next)
  BY <1>7 DEF CallIsTimely
<1>9. calls' = [calls EXCEPT ![c] = next]
  BY <1>1, <1>3, <1>4, <1>6 DEF OfficialInv, CallsAreSound
<1>10. CallsAreSound'
  BY <1>2, <1>7, <1>8, <1>9, OneCallMoves DEF OfficialInv
<1>11. QED  BY <1>2, <1>10 DEF OfficialInv, PagesAreYoung, PageIsYoung, OverviewsAreRecent, OverviewIsRecent, RecentEnough

LEMMA OverviewCachedKeeps ==
    ASSUME OfficialInv, NEW c \in Callers, NEW m \in Markets, OverviewCached(c, m)
    PROVE  OfficialInv'
<1>1. PICK row : row = overviews[m]
  OBVIOUS
<1>2. row # None /\ UNCHANGED <<tick, pages, overviews>>
  BY <1>1 DEF OverviewCached
<1>3. PICK next : next = [Idle EXCEPT !.pc = "done", !.via = "cache", !.market = m, !.asOf = row.asOf,
                                      !.observed = row.asOf, !.answer = row.answer]
  OBVIOUS
<1>4. calls' = [calls EXCEPT ![c] = next]
  BY <1>1, <1>3 DEF OverviewCached
<1>5. next = [pc |-> "done", via |-> "cache", market |-> m, asOf |-> row.asOf, observed |-> row.asOf,
              sent |-> 0, todo |-> <<>>, got |-> <<>>, answer |-> row.answer]
  BY <1>3 DEF Idle
<1>6. OverviewIsRecent(m, row)
  BY <1>1 DEF OfficialInv, OverviewsAreRecent
<1>7. CallIsSound(next)
  BY <1>2, <1>5, <1>6 DEF CallIsSound, CallShape, OverviewIsRecent
<1>8. CallIsTimely(next)
  BY <1>5 DEF CallIsTimely
<1>9. CallsAreSound'
  BY <1>2, <1>4, <1>7, <1>8, OneCallMoves DEF OfficialInv
<1>10. QED  BY <1>2, <1>9 DEF OfficialInv, PagesAreYoung, PageIsYoung, OverviewsAreRecent, OverviewIsRecent, RecentEnough

\* A question that is asked begins with all pages of its market.
LEMMA StartFetchKeeps ==
    ASSUME OfficialInv, NEW c \in Callers, NEW via \in {"overview", "bundle"}, NEW m \in Markets, NEW asOf \in Nat,
           via = "overview" => asOf = tick, StartFetch(c, via, m, asOf), UNCHANGED <<tick, pages, overviews>>
    PROVE  OfficialInv'
<1>1. PICK n \in Nat : n = tick
  BY DEF OfficialInv
<1>2. PICK next : next = [Idle EXCEPT !.pc = "looking", !.via = via, !.market = m, !.asOf = asOf,
                                      !.observed = n, !.todo = PagesOf(m)]
  OBVIOUS
<1>3. calls' = [calls EXCEPT ![c] = next] /\ n <= asOf
  BY <1>1, <1>2 DEF StartFetch
<1>4. next = [pc |-> "looking", via |-> via, market |-> m, asOf |-> asOf, observed |-> n,
              sent |-> 0, todo |-> PagesOf(m), got |-> <<>>, answer |-> NoAnswer]
  BY <1>2 DEF Idle
<1>5. DOMAIN next.got = {}
  BY <1>4
<1>6. Stage(next)
  BY <1>4, <1>5 DEF Stage, PagesOf, Markets
<1>7. InFlight(next)
  BY <1>3, <1>4, <1>5, <1>6 DEF InFlight
<1>8. CallShape(next)
  BY <1>4 DEF CallShape, NoAnswer
<1>9. RecentEnough(next.market, next.observed, next.answer)
  BY <1>4 DEF RecentEnough, NoAnswer
<1>10. CallIsSound(next)
  BY <1>1, <1>4, <1>7, <1>8, <1>9 DEF CallIsSound
<1>11. CallIsTimely(next)
  BY <1>1, <1>4 DEF CallIsTimely
<1>12. CallsAreSound'
  BY <1>3, <1>10, <1>11, OneCallMoves DEF OfficialInv
<1>13. QED  BY <1>12 DEF OfficialInv, PagesAreYoung, PageIsYoung, OverviewsAreRecent, OverviewIsRecent, RecentEnough

LEMMA IdleIsSound ==
    ASSUME NEW pc \in {"idle", "done"}
    PROVE  CallIsSound([Idle EXCEPT !.pc = pc]) /\ CallIsTimely([Idle EXCEPT !.pc = pc])
<1>1. PICK next : next = [Idle EXCEPT !.pc = pc]
  OBVIOUS
<1>2. next = [pc |-> pc, via |-> "none", market |-> "none", asOf |-> 0, observed |-> 0, sent |-> 0,
              todo |-> <<>>, got |-> <<>>, answer |-> NoAnswer]
  BY <1>1 DEF Idle
<1>3. CallIsSound(next) /\ CallIsTimely(next)
  BY <1>2 DEF CallIsSound, CallShape, RecentEnough, CallIsTimely, NoAnswer
<1>4. QED  BY <1>1, <1>3

LEMMA OverviewKeeps ==
    ASSUME OfficialInv, NEW c \in Callers, NEW m \in Markets, Overview(c, m)
    PROVE  OfficialInv'
<1>1. UNCHANGED <<tick, pages, overviews>> /\ tick \in Nat
  BY DEF Overview, OfficialInv
<1>2. CASE StartFetch(c, "overview", m, tick)
  <2>1. PICK n \in Nat : n = tick
    BY <1>1
  <2>2. StartFetch(c, "overview", m, n)
    BY <2>1, <1>2
  <2>3. QED  BY <1>1, <2>1, <2>2, StartFetchKeeps
<1>3. CASE calls' = [calls EXCEPT ![c] = [Idle EXCEPT !.pc = "done"]]
  <2>1. PICK next : next = [Idle EXCEPT !.pc = "done"]
    OBVIOUS
  <2>2. CallIsSound(next) /\ CallIsTimely(next)
    BY <2>1, IdleIsSound
  <2>3. calls' = [calls EXCEPT ![c] = next]
    BY <2>1, <1>3
  <2>4. CallsAreSound'
    BY <1>1, <2>2, <2>3, OneCallMoves DEF OfficialInv
  <2>5. QED  BY <1>1, <2>4 DEF OfficialInv, PagesAreYoung, PageIsYoung, OverviewsAreRecent, OverviewIsRecent, RecentEnough
<1>4. QED  BY <1>2, <1>3 DEF Overview

LEMMA CachesStay ==
    ASSUME PagesAreYoung, OverviewsAreRecent, UNCHANGED <<pages, overviews>>
    PROVE  PagesAreYoung' /\ OverviewsAreRecent'
<1>1. PagesAreYoung'
  BY DEF PagesAreYoung, PageIsYoung
<1>2. OverviewsAreRecent'
  BY DEF OverviewsAreRecent, OverviewIsRecent, RecentEnough
<1>3. QED  BY <1>1, <1>2

LEMMA OfficialTickKeeps ==
    ASSUME OfficialInv, OfficialTick
    PROVE  OfficialInv'
<1>1. tick \in Nat /\ tick' = tick + 1 /\ UNCHANGED <<pages, overviews, calls>>
  BY DEF OfficialTick, OfficialInv
<1>2. ASSUME NEW c \in Callers PROVE CallIsTimely(calls[c])'
  <2>1. calls[c].observed \in Int /\ calls[c].sent \in Int /\ CallIsTimely(calls[c])
    BY CallerIs
  <2>2. QED  BY <1>1, <2>1 DEF CallIsTimely
<1>3. CallsAreSound'
  <2>1. ASSUME NEW c \in Callers PROVE CallIsSound(calls'[c])
    BY <1>1 DEF OfficialInv, CallsAreSound
  <2>2. \E D : calls' \in [Callers -> D]
    BY <1>1 DEF OfficialInv, CallsAreSound
  <2>3. \A c \in Callers : CallIsSound(calls[c])'
    BY <2>1 DEF CallIsSound, CallShape, InFlight, Stage, RecentEnough, IsRecent
  <2> QED  BY <1>2, <2>2, <2>3 DEF CallsAreSound
<1>4. PagesAreYoung' /\ OverviewsAreRecent'
  BY <1>1, CachesStay DEF OfficialInv
<1>5. QED  BY <1>1, <1>3, <1>4 DEF OfficialInv

\* The inductive invariant: what a caller already has is failed or no older
\* than the slack before its observation, and so is what is kept for others.
THEOREM OfficialInvariant == OfficialSpec => []OfficialInv
<1>1. OfficialInit => OfficialInv
  <2> SUFFICES ASSUME OfficialInit PROVE OfficialInv
    OBVIOUS
  <2>1. CallIsSound(Idle) /\ CallIsTimely(Idle)
    <3>1. Idle = [Idle EXCEPT !.pc = "idle"]
      BY DEF Idle
    <3>2. QED  BY <3>1, IdleIsSound
  <2>2. CallsAreSound
    BY <2>1 DEF OfficialInit, CallsAreSound
  <2>3. PagesAreYoung
    <3>1. pages \in [AllPages -> {None}]
      BY DEF OfficialInit
    <3>2. QED  BY <3>1 DEF PagesAreYoung, PageIsYoung
  <2>4. OverviewsAreRecent
    <3>1. overviews \in [Markets -> {None}]
      BY DEF OfficialInit
    <3>2. QED  BY <3>1 DEF OverviewsAreRecent, OverviewIsRecent
  <2>5. QED  BY <2>2, <2>3, <2>4 DEF OfficialInit, OfficialInv
<1>2. ASSUME OfficialInv, [OfficialNext]_officialVars PROVE OfficialInv'
  <2>1. ASSUME NEW c \in Callers, UseCached(c) \/ Ask(c) \/ Receive(c) \/ GiveUpPage(c) PROVE OfficialInv'
    BY <1>2, <2>1, UseCachedKeeps, AskKeeps, ReceiveKeeps, GiveUpPageKeeps
  <2>2. ASSUME NEW c \in Callers, OverviewDone(c) \/ Bundle(c) PROVE OfficialInv'
    BY <1>2, <2>2, OverviewDoneKeeps, BundleKeeps
  <2>3. ASSUME NEW c \in Callers, NEW m \in Markets, OverviewCached(c, m) \/ Overview(c, m) PROVE OfficialInv'
    BY <1>2, <2>3, OverviewCachedKeeps, OverviewKeeps
  <2>4. ASSUME NEW c \in Callers, NEW m \in Markets, NEW a \in tick .. tick + 1, StartBundle(c, m, a)
        PROVE  OfficialInv'
    <3>1. a \in Nat
      BY <1>2 DEF OfficialInv
    <3>2. QED  BY <1>2, <2>4, <3>1, StartFetchKeeps DEF StartBundle
  <2>5. CASE OfficialTick
    BY <1>2, <2>5, OfficialTickKeeps
  <2>6. CASE UNCHANGED officialVars
    <3>1. UNCHANGED <<tick, pages, overviews, calls>>
      BY <2>6 DEF officialVars
    <3>2. PagesAreYoung' /\ OverviewsAreRecent'
      BY <1>2, <3>1, CachesStay DEF OfficialInv
    <3>3. CallsAreSound'
      BY <1>2, <3>1 DEF OfficialInv, CallsAreSound, CallIsTimely
    <3>4. QED  BY <1>2, <3>1, <3>2, <3>3 DEF OfficialInv
  <2>7. QED  BY <1>2, <2>1, <2>2, <2>3, <2>4, <2>5, <2>6 DEF OfficialNext
<1>3. QED  BY <1>1, <1>2, PTL DEF OfficialSpec

\* For any number of callers, any lives of pages and any limits of the lists: an
\* answer called available accounts for every report released before its slack (it
\* has it, or a later one of its period, or its list is full), and one that finds
\* nothing is about an instrument not listed by then (official_instrument.py).
THEOREM AnswersAreRecent == OfficialSpec => []AnswerIsRecent
<1>1. OfficialInv => AnswerIsRecent
  <2>1. SUFFICES ASSUME OfficialInv, NEW c \in Callers
                 PROVE  RecentEnough(calls[c].market, calls[c].observed, calls[c].answer)
    BY DEF AnswerIsRecent, RecentEnough
  <2>2. QED  BY <2>1 DEF OfficialInv, CallsAreSound, CallIsSound
<1>2. QED  BY <1>1, OfficialInvariant, PTL

-----------------------------------------------------------------------------
(* Quotes: honest about their age, and asked for within the limits.        *)

\* _discard_expired drops a prefix, of readings a minute old.
Drops(k, s, t, now) ==
    /\ k \in 0 .. Len(s) /\ t \in Seq(Nat) /\ Len(t) = Len(s) - k
    /\ \A i \in 1 .. Len(t) : t[i] = s[k + i]
    /\ \A i \in 1 .. Len(s) : now - s[i] < Minute => i > k

LEMMA UnexpiredDrops ==
    ASSUME NEW s \in Seq(Nat), NEW now \in Nat
    PROVE  \E k \in 0 .. Len(s) : Drops(k, s, Unexpired(s, now), now)
<1> DEFINE young == {i \in DOMAIN s : now - s[i] < Minute}
<1>1. CASE young = {}
  <2>1. Unexpired(s, now) = <<>>
    BY <1>1 DEF Unexpired
  <2>2. \A i \in 1 .. Len(s) : ~(now - s[i] < Minute)
    BY <1>1, LenProperties
  <2>3. <<>> \in Seq(Nat) /\ Len(<<>>) = 0
    OBVIOUS
  <2>4. Drops(Len(s), s, Unexpired(s, now), now)
    BY <2>1, <2>2, <2>3 DEF Drops
  <2>5. QED  BY <2>4
<1>2. CASE young # {}
  <2>1. young \in SUBSET (1 .. Len(s))
    OBVIOUS
  <2>2. PICK m : m = Min(young)
    OBVIOUS
  <2>3. m \in young /\ \A i \in young : m <= i
    <3>1. young \in SUBSET Nat
      BY <2>1
    <3> HIDE DEF young
    <3>2. QED  BY <1>2, <2>2, <3>1, LeastNumber
  <2>4. m \in 1 .. Len(s) /\ Len(s) \in Nat /\ s \in [1 .. Len(s) -> Nat]
    BY <2>1, <2>3
  <2>5. PICK t : t = Unexpired(s, now)
    OBVIOUS
  <2>6. t = SubSeq(s, m, Len(s))
    BY <1>2, <2>2, <2>5 DEF Unexpired
  <2>7. /\ t \in Seq(Nat) /\ Len(t) = Len(s) - m + 1
        /\ \A i \in 1 .. Len(s) - m + 1 : t[i] = s[m + i - 1]
    BY <2>4, <2>6, SubSeqProperties
  <2>8. Drops(m - 1, s, t, now)
    <3>1. m - 1 \in 0 .. Len(s) /\ Len(t) = Len(s) - (m - 1)
      BY <2>4, <2>7
    <3>2. \A i \in 1 .. Len(t) : t[i] = s[(m - 1) + i]
      BY <2>4, <2>7
    <3>3. \A i \in 1 .. Len(s) : now - s[i] < Minute => i > m - 1
      <4>1. ASSUME NEW i \in 1 .. Len(s), now - s[i] < Minute PROVE m <= i
        BY <2>3, <4>1, LenProperties
      <4>2. QED  BY <4>1, <2>4
    <3>4. QED  BY <3>1, <3>2, <3>3, <2>7 DEF Drops
  <2>9. QED  BY <2>4, <2>5, <2>8
<1>3. QED  BY <1>1, <1>2

-----------------------------------------------------------------------------
\* Requests really let through, counted from the last, are the gate's own
\* readings, counted from the last, as far as they are of this minute: a
\* reading is no older than its thread stalled.
Matched(rs, ls, at) ==
    \A j \in Nat : j < Len(ls) /\ at - ls[Len(ls) - j] < Minute - MaxStall =>
        /\ j < Len(rs)
        /\ rs[Len(rs) - j] >= ls[Len(ls) - j] - MaxStall

GateShape == [requests : Seq(Nat), failures : Nat, blockedUntil : Nat]

GateInv ==
    /\ marketGate \in GateShape /\ Len(marketGate.requests) <= GateRequests
    /\ leaves \in Seq(Nat) /\ \A i \in 1 .. Len(leaves) : leaves[i] <= ticks
    /\ Matched(marketGate.requests, leaves, ticks)
    /\ paused # None =>
          /\ paused \in Nat /\ paused <= ticks
          /\ marketGate.blockedUntil = paused + GateCooldown
          /\ \A i \in 1 .. Len(leaves) : leaves[i] > paused => leaves[i] >= paused + GateCooldown

LEMMA FromTheEnd ==
    ASSUME NEW n \in Nat, NEW j \in Nat, j < n
    PROVE  n - j \in 1 .. n
OBVIOUS

LEMMA DropKeepsMatch ==
    ASSUME NEW rs \in Seq(Nat), NEW ls \in Seq(Nat), NEW at \in Nat, NEW now \in Nat, now <= at,
           Matched(rs, ls, at), NEW k, NEW t, Drops(k, rs, t, now)
    PROVE  Matched(t, ls, at)
<1>0. Len(rs) \in Nat /\ Len(ls) \in Nat /\ Minute \in Nat /\ MaxStall \in Nat
  BY LenProperties, GateAssumption
<1>1. ASSUME NEW j \in Nat, j < Len(ls), at - ls[Len(ls) - j] < Minute - MaxStall
      PROVE  j < Len(t) /\ t[Len(t) - j] >= ls[Len(ls) - j] - MaxStall
  <2>1. j < Len(rs) /\ rs[Len(rs) - j] >= ls[Len(ls) - j] - MaxStall
    BY <1>1 DEF Matched
  <2>2. Len(ls) - j \in 1 .. Len(ls) /\ Len(rs) - j \in 1 .. Len(rs)
    BY <1>0, <1>1, <2>1, FromTheEnd
  <2>3. PICK l \in Nat : l = ls[Len(ls) - j]
    BY <2>2, LenProperties
  <2>4. PICK r \in Nat : r = rs[Len(rs) - j]
    BY <2>2, LenProperties
  <2>5. now - r < Minute
    <3>1. at - l < Minute - MaxStall
      BY <1>1, <2>3
    <3>2. r >= l - MaxStall
      BY <2>1, <2>3, <2>4
    <3>3. QED  BY <1>0, <3>1, <3>2
  <2>6. Len(rs) - j > k
    BY <2>2, <2>4, <2>5 DEF Drops
  <2>7. k \in Nat /\ k <= Len(rs) /\ Len(t) = Len(rs) - k
    BY <1>0 DEF Drops
  <2>8. Len(t) - j \in 1 .. Len(t) /\ k + (Len(t) - j) = Len(rs) - j /\ j < Len(t)
    BY <1>0, <2>6, <2>7
  <2>9. t[Len(t) - j] = rs[Len(rs) - j]
    BY <2>8 DEF Drops
  <2>10. QED  BY <2>1, <2>8, <2>9
<1>2. QED  BY <1>1 DEF Matched

LEMMA AppendKeepsMatch ==
    ASSUME NEW rs \in Seq(Nat), NEW ls \in Seq(Nat), NEW at \in Nat, NEW now \in Nat, at - MaxStall <= now,
           Matched(rs, ls, at)
    PROVE  Matched(Append(rs, now), Append(ls, at), at)
<1>0. /\ Len(rs) \in Nat /\ Len(ls) \in Nat /\ MaxStall \in Nat /\ Minute \in Nat
  BY LenProperties, GateAssumption
<1>1. PICK t : t = Append(rs, now)
  OBVIOUS
<1>2. PICK u : u = Append(ls, at)
  OBVIOUS
<1>3. /\ Len(t) = Len(rs) + 1 /\ t[Len(rs) + 1] = now
      /\ \A i \in 1 .. Len(rs) : t[i] = rs[i]
  BY <1>1, AppendProperties
<1>4. /\ Len(u) = Len(ls) + 1 /\ u[Len(ls) + 1] = at
      /\ \A i \in 1 .. Len(ls) : u[i] = ls[i]
  BY <1>2, AppendProperties
<1>5. ASSUME NEW j \in Nat, j < Len(u), at - u[Len(u) - j] < Minute - MaxStall
      PROVE  j < Len(t) /\ t[Len(t) - j] >= u[Len(u) - j] - MaxStall
  <2>1. CASE j = 0
    <3>1. t[Len(t) - j] = now /\ u[Len(u) - j] = at /\ j < Len(t)
      BY <2>1, <1>0, <1>3, <1>4
    <3>2. QED  BY <3>1
  <2>2. CASE j # 0
    <3>1. PICK i \in Nat : i = j - 1
      BY <2>2
    <3>2. i < Len(ls) /\ Len(u) - j = Len(ls) - i /\ Len(ls) - i \in 1 .. Len(ls)
      BY <3>1, <1>5, <1>4, <1>0
    <3>3. u[Len(u) - j] = ls[Len(ls) - i]
      BY <3>2, <1>4
    <3>4. i < Len(rs) /\ rs[Len(rs) - i] >= ls[Len(ls) - i] - MaxStall
      BY <3>2, <3>3, <1>5 DEF Matched
    <3>5. Len(t) - j = Len(rs) - i /\ Len(rs) - i \in 1 .. Len(rs) /\ j < Len(t)
      BY <3>1, <3>4, <1>3, <1>0, SMTT(30)
    <3>6. t[Len(t) - j] = rs[Len(rs) - i]
      BY <3>5, <1>3
    <3>7. QED  BY <3>3, <3>4, <3>5, <3>6
  <2>3. QED  BY <2>1, <2>2
<1>6. QED  BY <1>1, <1>2, <1>5 DEF Matched

\* Time that passes drops a prefix of what was let through.
LEMMA ForgettingKeepsMatch ==
    ASSUME NEW rs \in Seq(Nat), NEW ls \in Seq(Nat), NEW at \in Nat,
           Matched(rs, ls, at), NEW k, NEW u, Drops(k, ls, u, at + 1)
    PROVE  Matched(rs, u, at + 1)
<1>0. Len(rs) \in Nat /\ Len(ls) \in Nat /\ Minute \in Nat /\ MaxStall \in Nat
  BY LenProperties, GateAssumption
<1>1. k \in Nat /\ k <= Len(ls) /\ Len(u) = Len(ls) - k
  BY <1>0 DEF Drops
<1>2. ASSUME NEW j \in Nat, j < Len(u), (at + 1) - u[Len(u) - j] < Minute - MaxStall
      PROVE  j < Len(rs) /\ rs[Len(rs) - j] >= u[Len(u) - j] - MaxStall
  <2>1. Len(u) - j \in 1 .. Len(u) /\ k + (Len(u) - j) = Len(ls) - j /\ j < Len(ls)
    BY <1>0, <1>1, <1>2
  <2>2. u[Len(u) - j] = ls[Len(ls) - j]
    BY <2>1 DEF Drops
  <2>3. Len(ls) - j \in 1 .. Len(ls)
    BY <2>1, <1>0, FromTheEnd
  <2>4. PICK l \in Nat : l = ls[Len(ls) - j]
    BY <2>3, LenProperties
  <2>5. at - l < Minute - MaxStall
    <3>1. (at + 1) - l < Minute - MaxStall
      BY <1>2, <2>2, <2>4
    <3>2. QED  BY <1>0, <3>1
  <2>6. QED  BY <2>1, <2>2, <2>4, <2>5 DEF Matched
<1>3. QED  BY <1>2 DEF Matched

LEMMA AdmitKeepsGate ==
    ASSUME GateInv, ticks \in Nat, NEW now \in Readings(ticks),
           marketGate' = Admit(marketGate, now).gate,
           leaves' = IF Admit(marketGate, now).admitted THEN Append(leaves, ticks) ELSE leaves,
           UNCHANGED <<ticks, paused>>
    PROVE  GateInv'
<1>0. /\ now \in Nat /\ now <= ticks /\ ticks - MaxStall <= now
      /\ GateRequests \in Nat \ {0} /\ MaxStall \in Nat /\ GateCooldown \in Nat
  BY GateAssumption DEF Readings
<1>1. /\ marketGate \in GateShape /\ Len(marketGate.requests) <= GateRequests
      /\ marketGate.requests \in Seq(Nat) /\ leaves \in Seq(Nat)
      /\ Matched(marketGate.requests, leaves, ticks)
  BY DEF GateInv, GateShape
<1>2. PICK g : g = marketGate
  OBVIOUS
<1>3. PICK t : t = Unexpired(g.requests, now)
  OBVIOUS
<1>4. PICK k \in 0 .. Len(g.requests) : Drops(k, g.requests, t, now)
  BY <1>0, <1>1, <1>2, <1>3, UnexpiredDrops
<1>5. t \in Seq(Nat) /\ Len(t) <= Len(g.requests)
  <2>1. Len(g.requests) \in Nat
    BY <1>1, <1>2, LenProperties
  <2>2. QED  BY <1>4, <2>1 DEF Drops
<1>6. PICK ls : ls = leaves
  OBVIOUS
<1>7. PICK at : at = ticks
  OBVIOUS
<1>8. Matched(t, ls, at)
  <2>1. g.requests \in Seq(Nat) /\ ls \in Seq(Nat) /\ at \in Nat /\ now \in Nat /\ now <= at
    BY <1>0, <1>1, <1>2, <1>6, <1>7
  <2>2. Matched(g.requests, ls, at)
    BY <1>1, <1>2, <1>6, <1>7
  <2>3. QED  BY <1>4, <2>1, <2>2, DropKeepsMatch
<1>9. CASE now < g.blockedUntil \/ Len(t) >= GateRequests
  <2>1. Admit(marketGate, now) = [gate |-> [g EXCEPT !.requests = t], admitted |-> FALSE]
    BY <1>2, <1>3, <1>9 DEF Admit
  <2>2. marketGate' = [g EXCEPT !.requests = t] /\ leaves' = leaves
    BY <2>1
  <2>3. /\ marketGate' \in GateShape /\ marketGate'.requests = t
        /\ marketGate'.blockedUntil = marketGate.blockedUntil
    BY <2>2, <1>1, <1>2, <1>5 DEF GateShape
  <2>4. Len(t) <= GateRequests
    BY <1>1, <1>2, <1>5, <1>0, LenProperties
  <2>5. Matched(marketGate'.requests, leaves', ticks')
    BY <1>8, <1>6, <1>7, <2>2, <2>3
  <2>6. QED  BY <2>2, <2>3, <2>4, <2>5 DEF GateInv
<1>10. CASE ~(now < g.blockedUntil \/ Len(t) >= GateRequests)
  <2>1. Admit(marketGate, now) = [gate |-> [g EXCEPT !.requests = Append(t, now)], admitted |-> TRUE]
    BY <1>2, <1>3, <1>10 DEF Admit
  <2>2. marketGate' = [g EXCEPT !.requests = Append(t, now)] /\ leaves' = Append(ls, at)
    BY <2>1, <1>6, <1>7
  <2>3. /\ Append(t, now) \in Seq(Nat) /\ Len(Append(t, now)) = Len(t) + 1
        /\ Append(ls, at) \in Seq(Nat) /\ Len(Append(ls, at)) = Len(ls) + 1
        /\ \A i \in 1 .. Len(ls) : Append(ls, at)[i] = ls[i]
        /\ Append(ls, at)[Len(ls) + 1] = at
    BY <1>0, <1>1, <1>5, <1>6, <1>7, AppendProperties
  <2>4. /\ marketGate' \in GateShape /\ marketGate'.requests = Append(t, now)
        /\ marketGate'.blockedUntil = marketGate.blockedUntil
    BY <2>2, <2>3, <1>1, <1>2 DEF GateShape
  <2>5. Len(marketGate'.requests) <= GateRequests
    BY <1>10, <2>3, <2>4, <1>0, <1>5, LenProperties
  <2>6. Matched(marketGate'.requests, leaves', ticks')
    <3>1. Matched(Append(t, now), Append(ls, at), at)
      BY <1>0, <1>1, <1>5, <1>6, <1>7, <1>8, AppendKeepsMatch
    <3>2. QED  BY <3>1, <2>2, <2>4, <1>7
  <2>7. ASSUME NEW i \in 1 .. Len(leaves') PROVE leaves'[i] = at \/ (i \in 1 .. Len(leaves) /\ leaves'[i] = leaves[i])
    <3>1. Len(ls) \in Nat
      BY <1>1, <1>6, LenProperties
    <3>2. i \in 1 .. Len(ls) \/ i = Len(ls) + 1
      BY <3>1, <2>2, <2>3
    <3>3. QED  BY <3>2, <2>2, <2>3, <1>6
  <2>8. \A i \in 1 .. Len(leaves') : leaves'[i] <= ticks'
    BY <2>7, <1>7, <1>0 DEF GateInv
  <2>9. marketGate.blockedUntil <= at
    <3>1. g.blockedUntil \in Nat
      BY <1>1, <1>2 DEF GateShape
    <3>2. QED  BY <3>1, <1>10, <1>0, <1>2, <1>7
  <2>10. paused' # None =>
           /\ paused' \in Nat /\ paused' <= ticks'
           /\ marketGate'.blockedUntil = paused' + GateCooldown
           /\ \A i \in 1 .. Len(leaves') : leaves'[i] > paused' => leaves'[i] >= paused' + GateCooldown
    BY <2>7, <2>9, <2>4, <1>7 DEF GateInv
  <2>11. QED  BY <2>2, <2>3, <2>4, <2>5, <2>6, <2>8, <2>10 DEF GateInv
<1>11. QED  BY <1>9, <1>10

LEMMA RecordKeepsGate ==
    ASSUME GateInv, ticks \in Nat, NEW ok \in BOOLEAN,
           marketGate' = Record(marketGate, ok, ticks),
           paused' = IF marketGate'.blockedUntil # marketGate.blockedUntil THEN ticks ELSE paused,
           UNCHANGED <<ticks, leaves>>
    PROVE  GateInv'
<1>0. GateCooldown \in Nat /\ GateFailures \in Nat
  BY GateAssumption
<1>1. /\ marketGate' \in GateShape /\ marketGate'.requests = marketGate.requests
      /\ marketGate'.blockedUntil \in {marketGate.blockedUntil, ticks + GateCooldown}
  <2>1. PICK g \in GateShape : g = marketGate
    BY DEF GateInv
  <2>2. /\ [g EXCEPT !.failures = 0] \in GateShape
        /\ [g EXCEPT !.failures = 0, !.blockedUntil = ticks + GateCooldown] \in GateShape
        /\ [g EXCEPT !.failures = @ + 1] \in GateShape
    <3>1. PICK b \in Nat : b = ticks + GateCooldown
      BY <1>0
    <3>2. PICK n \in Nat : n = g.failures + 1
      BY DEF GateShape
    <3>3. [g EXCEPT !.failures = 0, !.blockedUntil = b] \in GateShape /\ [g EXCEPT !.failures = 0] \in GateShape
      BY DEF GateShape
    <3>4. [g EXCEPT !.failures = n] \in GateShape
      BY DEF GateShape
    <3>5. QED  BY <3>1, <3>2, <3>3, <3>4
  <2>3. \/ marketGate' = [g EXCEPT !.failures = 0]
        \/ marketGate' = [g EXCEPT !.failures = 0, !.blockedUntil = ticks + GateCooldown]
        \/ marketGate' = [g EXCEPT !.failures = @ + 1]
    BY <2>1 DEF Record
  <2>4. QED  BY <2>1, <2>2, <2>3 DEF GateShape
<1>2. Matched(marketGate'.requests, leaves', ticks')
  BY <1>1 DEF GateInv
<1>3. CASE marketGate'.blockedUntil = marketGate.blockedUntil
  <2>1. paused' = paused
    BY <1>3
  <2>2. QED  BY <1>1, <1>2, <1>3, <2>1 DEF GateInv
<1>4. CASE marketGate'.blockedUntil # marketGate.blockedUntil
  <2>1. paused' = ticks /\ marketGate'.blockedUntil = ticks + GateCooldown
    BY <1>1, <1>4
  <2>2. \A i \in 1 .. Len(leaves') : ~(leaves'[i] > paused')
    <3>1. ASSUME NEW i \in 1 .. Len(leaves) PROVE leaves[i] \in Nat /\ leaves[i] <= ticks
      BY LenProperties DEF GateInv
    <3>2. QED  BY <3>1, <2>1
  <2>3. QED  BY <1>1, <1>2, <2>1, <2>2 DEF GateInv
<1>5. QED  BY <1>3, <1>4

LEMMA TimeKeepsGate ==
    ASSUME GateInv, ticks \in Nat, ticks' = ticks + 1, leaves' = Unexpired(leaves, ticks + 1),
           UNCHANGED <<marketGate, paused>>
    PROVE  GateInv'
<1>0. GateCooldown \in Nat
  BY GateAssumption
<1>1. PICK ls : ls = leaves
  OBVIOUS
<1>2. PICK at : at = ticks
  OBVIOUS
<1>3. PICK u : u = Unexpired(ls, at + 1)
  OBVIOUS
<1>4. ls \in Seq(Nat) /\ at \in Nat /\ at + 1 \in Nat /\ u = leaves' /\ ticks' = at + 1
  BY <1>1, <1>2, <1>3 DEF GateInv
<1>5. PICK k \in 0 .. Len(ls) : Drops(k, ls, u, at + 1)
  BY <1>3, <1>4, UnexpiredDrops
<1>6. PICK rs : rs = marketGate.requests
  OBVIOUS
<1>7. Matched(rs, u, at + 1)
  <2>1. rs \in Seq(Nat) /\ Matched(rs, ls, at)
    BY <1>1, <1>2, <1>6 DEF GateInv, GateShape
  <2>2. QED  BY <1>4, <1>5, <2>1, ForgettingKeepsMatch
<1>8. Matched(marketGate'.requests, leaves', ticks')
  BY <1>4, <1>6, <1>7
<1>9. ASSUME NEW i \in 1 .. Len(u) PROVE u[i] \in Nat /\ u[i] <= at + 1 /\ \E j \in 1 .. Len(ls) : u[i] = ls[j]
  <2>1. Len(ls) \in Nat
    BY <1>4, LenProperties
  <2>2. k + i \in 1 .. Len(ls) /\ u[i] = ls[k + i]
    BY <1>5, <2>1 DEF Drops
  <2>3. ls[k + i] \in Nat
    BY <2>2, <1>4, LenProperties
  <2>4. ls[k + i] <= at
    BY <2>2, <1>1, <1>2 DEF GateInv
  <2>5. QED  BY <2>2, <2>3, <2>4, <1>4
<1>10. u \in Seq(Nat)
  BY <1>5 DEF Drops
<1>11. \A i \in 1 .. Len(leaves') : leaves'[i] <= ticks'
  BY <1>4, <1>9
<1>12. paused' # None =>
           /\ paused' \in Nat /\ paused' <= ticks'
           /\ marketGate'.blockedUntil = paused' + GateCooldown
           /\ \A i \in 1 .. Len(leaves') : leaves'[i] > paused' => leaves'[i] >= paused' + GateCooldown
  <2>1. paused # None =>
           /\ paused \in Nat /\ paused <= ticks
           /\ marketGate.blockedUntil = paused + GateCooldown
           /\ \A j \in 1 .. Len(ls) : ls[j] > paused => ls[j] >= paused + GateCooldown
    BY <1>1 DEF GateInv
  <2>2. ASSUME NEW i \in 1 .. Len(u), paused # None, u[i] > paused PROVE u[i] >= paused + GateCooldown
    <3>1. PICK j \in 1 .. Len(ls) : u[i] = ls[j]
      BY <1>9
    <3>2. QED  BY <3>1, <2>1, <2>2
  <2>3. paused' = paused /\ marketGate' = marketGate
    OBVIOUS
  <2>4. paused # None => paused <= at + 1
    BY <2>1, <1>2, <1>4
  <2>5. QED  BY <2>1, <2>2, <2>3, <2>4, <1>4
<1>13. QED  BY <1>4, <1>8, <1>10, <1>11, <1>12 DEF GateInv

LEMMA GateIsSound ==
    ASSUME GateInv, ticks \in Nat
    PROVE  GateHolds
<1>0. GateRequests \in Nat
  BY GateAssumption
<1>1. PICK n : n = Len(leaves)
  OBVIOUS
<1>2. n \in Nat /\ DOMAIN leaves = 1 .. n
  BY <1>1, LenProperties DEF GateInv
<1>3. Len(marketGate.requests) \in Nat /\ Len(marketGate.requests) <= GateRequests
  BY LenProperties DEF GateInv, GateShape
<1> DEFINE recent == {i \in DOMAIN leaves : ticks - leaves[i] < Minute - MaxStall}
<1>4. recent \subseteq (n - GateRequests) + 1 .. n
  <2>1. SUFFICES ASSUME NEW i \in recent PROVE i \in (n - GateRequests) + 1 .. n
    OBVIOUS
  <2>2. i \in 1 .. n /\ ticks - leaves[i] < Minute - MaxStall
    BY <1>2
  <2>3. PICK j \in Nat : j = n - i
    BY <1>2, <2>2
  <2>4. j < Len(leaves) /\ Len(leaves) - j = i
    BY <1>1, <1>2, <2>2, <2>3
  <2>5. j < Len(marketGate.requests)
    BY <2>2, <2>4 DEF GateInv, Matched
  <2>6. QED  BY <1>0, <1>2, <1>3, <2>2, <2>3, <2>5
<1>5. Cardinality(recent) <= GateRequests
  <2> HIDE DEF recent
  <2>1. PICK S : S = (n - GateRequests) + 1 .. n
    OBVIOUS
  <2>2. IsFiniteSet(S) /\ Cardinality(S) = GateRequests
    <3>1. (n - GateRequests) + 1 \in Int /\ n \in Int
      BY <1>0, <1>2
    <3>2. /\ IsFiniteSet(S)
          /\ Cardinality(S) = IF (n - GateRequests) + 1 > n THEN 0 ELSE n - ((n - GateRequests) + 1) + 1
      BY <2>1, <3>1, FS_Interval
    <3>3. QED  BY <3>2, <1>0, <1>2
  <2>3. IsFiniteSet(recent) /\ Cardinality(recent) <= Cardinality(S)
    BY <1>4, <2>1, <2>2, FS_Subset
  <2>4. QED  BY <2>2, <2>3
<1>6. QED  BY <1>2, <1>1, <1>5 DEF GateHolds, GateInv

-----------------------------------------------------------------------------
(* What is served. *)

\* A view's label and its warning are about the time it is served.
ViewRecord ==
    [interval : {"minute", "day"}, event : Int, observed : Int, seen : Nat, warned : BOOLEAN, served : Int,
     freshness : {"unknown", "current", "delayed", "stale", "market_closed"},
     quality : {"degraded", "unknown", "available"}]
ViewIsSound(v) ==
    /\ v.freshness = "current" => v.served - v.event <= CurrentAge
    /\ v.quality = "available" => ~v.warned

LEMMA ViewIs ==
    ASSUME NEW interval \in {"minute", "day"}, NEW event \in Int, NEW observed \in Int, NEW at \in Nat,
           NEW warned \in BOOLEAN, NEW served \in Int
    PROVE  /\ View(interval, event, observed, at, warned, served) \in ViewRecord
           /\ ViewIsSound(View(interval, event, observed, at, warned, served))
           /\ View(interval, event, observed, at, warned, served).seen = at
           /\ View(interval, event, observed, at, warned, served).observed = observed
           /\ View(interval, event, observed, at, warned, served).served = served
<1>1. PICK f : f = Assess(interval, event, served)
  OBVIOUS
<1>2. PICK date : date = Max(CompletedBy(served))
  OBVIOUS
<1>3. /\ f \in {"unknown", "current", "delayed", "stale", "market_closed"}
      /\ f = "current" => served - event <= CurrentAge
  <2>1. f = IF event > served \/ DateOf(served) >= ValidThrough THEN "unknown"
            ELSE IF IsOpenAt(served) THEN OpenFreshness(interval, event, served)
            ELSE IF CompletedBy(served) = {} THEN "unknown"
            ELSE ClosedFreshness(interval, event, date)
    BY <1>1, <1>2 DEF Assess
  <2>2. /\ OpenFreshness(interval, event, served) \in {"current", "delayed", "stale"}
        /\ OpenFreshness(interval, event, served) = "current" => served - event <= CurrentAge
    BY DEF OpenFreshness
  <2>3. ClosedFreshness(interval, event, date) \in {"market_closed", "stale"}
    BY DEF ClosedFreshness
  <2>4. QED  BY <2>1, <2>2, <2>3
<1>4. PICK q : q = Quality(f, warned)
  OBVIOUS
<1>5. q \in {"degraded", "unknown", "available"} /\ (q = "available" => ~warned)
  BY <1>4 DEF Quality
<1>6. View(interval, event, observed, at, warned, served) =
        [interval |-> interval, event |-> event, observed |-> observed, seen |-> at,
         warned |-> warned, served |-> served, freshness |-> f, quality |-> q]
  BY <1>1, <1>4 DEF View
<1>7. QED  BY <1>3, <1>5, <1>6 DEF ViewRecord, ViewIsSound

ReadRecord ==
    [pc : {"idle", "openbb", "datasets", "datasets_sent", "done"}, kind : {"none", "quote", "bars", "cache"},
     interval : {"none", "minute", "day"}, observed : Int, seen : Nat, sent : Nat, view : ViewRecord \cup {None}]

\* How long ago a thread that still waits has read the clocks: a timeout for
\* each source it asked; the wall clock is only ever set back.
Waiting(r) == r.pc \in {"openbb", "datasets", "datasets_sent"}
ReadIsTimely(r) ==
    Waiting(r) =>
        /\ r.interval \in {"minute", "day"} /\ r.kind \in {"quote", "bars"}
        /\ r.seen - wallBehind <= r.observed /\ r.observed <= r.seen
        /\ r.pc = "openbb" => r.sent = r.seen
        /\ r.pc \in {"openbb", "datasets_sent"} => r.sent <= ticks /\ ticks <= r.sent + SourceTimeout
        /\ r.pc = "datasets" => r.seen <= ticks /\ ticks <= r.seen + SourceTimeout
        /\ r.pc = "datasets_sent" => r.seen <= r.sent /\ r.sent <= r.seen + SourceTimeout

\* What a read says, without the thread it is of.
SaysTruth(r) ==
    r.view # None =>
        /\ r.view.freshness = "current" =>
              r.observed - r.view.event <= CurrentAge + (IF r.kind = "cache" THEN 0 ELSE 2 * SourceTimeout)
        /\ r.view.quality = "available" => ~r.view.warned
        /\ r.seen - r.view.seen <= QuoteLife + 2 * SourceTimeout

CacheIsTimely ==
    quoteCache # None =>
        /\ quoteCache = [storedAt |-> quoteCache.storedAt, view |-> quoteCache.view]
        /\ quoteCache.storedAt \in Nat /\ quoteCache.view \in ViewRecord
        /\ quoteCache.storedAt <= ticks
        /\ quoteCache.storedAt - quoteCache.view.seen <= 2 * SourceTimeout

ReadsAreSound ==
    /\ ticks \in Nat /\ wallBehind \in Nat
    /\ reads \in [Readers -> ReadRecord]
    /\ \A t \in Readers : ReadIsTimely(reads[t]) /\ SaysTruth(reads[t])
    /\ CacheIsTimely

QuoteInv == ReadsAreSound /\ GateInv

\* One thread's read changes, and no clock.
LEMMA OneReadMoves ==
    ASSUME ReadsAreSound, NEW t \in Readers, NEW r \in ReadRecord, reads' = [reads EXCEPT ![t] = r],
           UNCHANGED <<ticks, wallBehind>>, ReadIsTimely(r), SaysTruth(r), CacheIsTimely'
    PROVE  ReadsAreSound'
<1>1. reads' \in [Readers -> ReadRecord]
  BY DEF ReadsAreSound
<1>2. ASSUME NEW u \in Readers PROVE ReadIsTimely(reads[u])' /\ SaysTruth(reads[u])'
  <2>1. reads'[u] = IF u = t THEN r ELSE reads[u]
    BY DEF ReadsAreSound
  <2>2. PICK q : q = reads'[u]
    OBVIOUS
  <2>3. ReadIsTimely(q) /\ SaysTruth(q)
    BY <2>1, <2>2 DEF ReadsAreSound
  <2>4. ReadIsTimely(q)' <=> ReadIsTimely(q)
    BY DEF ReadIsTimely, Waiting
  <2>5. QED  BY <2>2, <2>3, <2>4 DEF ReadIsTimely, Waiting, SaysTruth
<1>3. QED  BY <1>1, <1>2 DEF ReadsAreSound

LEMMA EndedIs ==
    ASSUME ticks \in Nat, wallBehind \in Nat, NEW kind \in {"quote", "bars", "cache"},
           NEW view \in ViewRecord \cup {None}
    PROVE  /\ Ended(kind, view) \in ReadRecord /\ Ended(kind, view).pc = "done"
           /\ Ended(kind, view).view = view
           /\ view # None => /\ Ended(kind, view).kind = kind /\ Ended(kind, view).seen = ticks
                             /\ Ended(kind, view).observed = Wall
<1>1. PICK w \in Int : w = Wall
  BY DEF Wall
<1>2. PICK n \in Nat : n = ticks
  OBVIOUS
<1>3. CASE view = None
  <2>1. Ended(kind, view) = [NoRead EXCEPT !.pc = "done"]
    BY <1>3 DEF Ended
  <2>2. QED  BY <2>1, <1>3 DEF NoRead, ReadRecord
<1>4. CASE view # None
  <2>1. Ended(kind, view) = [NoRead EXCEPT !.pc = "done", !.kind = kind, !.observed = w, !.seen = n, !.view = view]
    BY <1>1, <1>2, <1>4 DEF Ended
  <2>2. Ended(kind, view) = [pc |-> "done", kind |-> kind, interval |-> "none", observed |-> w, seen |-> n,
                             sent |-> 0, view |-> view]
    BY <2>1 DEF NoRead
  <2>3. QED  BY <2>2, <1>1, <1>2 DEF ReadRecord
<1>5. QED  BY <1>3, <1>4

\* A source's answer, or its failure, ends the read.
LEMMA SettleKeeps ==
    ASSUME QuoteInv, NEW t \in Readers, Waiting(reads[t]), NEW view \in ViewRecord \cup {None},
           view # None => /\ ViewIsSound(view) /\ view.served = reads[t].observed /\ view.seen = reads[t].seen,
           Settle(t, view), UNCHANGED <<ticks, wallBehind, leaves>>
    PROVE  QuoteInv'
<1>0. /\ ticks \in Nat /\ wallBehind \in Nat /\ reads[t] \in ReadRecord /\ ReadIsTimely(reads[t])
      /\ SourceTimeout \in Nat /\ QuoteLife \in Nat /\ CurrentAge \in Nat
  BY AgeAssumption DEF QuoteInv, ReadsAreSound
<1>1. PICK r : r = reads[t]
  OBVIOUS
<1>2. /\ r.kind \in {"quote", "bars"} /\ r.observed \in Int /\ r.seen \in Nat
      /\ r.seen - wallBehind <= r.observed
      /\ ticks - r.seen <= 2 * SourceTimeout
  <2>1. r.observed \in Int /\ r.seen \in Nat /\ r.sent \in Nat
    BY <1>0, <1>1 DEF ReadRecord
  <2>2. QED  BY <2>1, <1>0, <1>1 DEF ReadIsTimely, Waiting
<1>3. PICK e : e = Ended(r.kind, view)
  OBVIOUS
<1>4. /\ e \in ReadRecord /\ e.pc = "done" /\ e.view = view
      /\ view # None => e.kind = r.kind /\ e.seen = ticks /\ e.observed = Wall
  BY <1>0, <1>2, <1>3, EndedIs
<1>5. reads' = [reads EXCEPT ![t] = e]
  BY <1>1, <1>3 DEF Settle
<1>6. ReadIsTimely(e)
  BY <1>4 DEF ReadIsTimely, Waiting
<1>7. SaysTruth(e)
  <2>1. SUFFICES ASSUME view # None
                 PROVE  /\ view.freshness = "current" => Wall - view.event <= CurrentAge + 2 * SourceTimeout
                        /\ view.quality = "available" => ~view.warned
                        /\ ticks - view.seen <= QuoteLife + 2 * SourceTimeout
    BY <1>2, <1>4 DEF SaysTruth
  <2>2. view.event \in Int /\ ViewIsSound(view) /\ view.served = r.observed /\ view.seen = r.seen
    BY <2>1, <1>1 DEF ViewRecord
  <2>3. Wall - r.observed <= 2 * SourceTimeout /\ Wall \in Int
    BY <1>0, <1>2 DEF Wall
  <2>4. view.freshness = "current" => Wall - view.event <= CurrentAge + 2 * SourceTimeout
    <3>1. view.freshness = "current" => r.observed - view.event <= CurrentAge
      BY <2>2 DEF ViewIsSound
    <3>2. QED  BY <3>1, <2>2, <2>3, <1>0, <1>2
  <2>5. QED  BY <2>2, <2>4, <1>0, <1>2 DEF ViewIsSound
<1>8. CacheIsTimely'
  <2>1. CASE view # None /\ r.kind = "quote"
    <3>1. PICK c : c = [storedAt |-> ticks, view |-> view]
      OBVIOUS
    <3>2. quoteCache' = c
      BY <2>1, <3>1, <1>1 DEF Settle
    <3>3. view \in ViewRecord /\ c.storedAt = ticks /\ c.view = view
      BY <2>1, <3>1
    <3>4. view.seen = r.seen
      BY <2>1, <1>1
    <3>5. QED  BY <3>1, <3>2, <3>3, <3>4, <1>0, <1>2 DEF CacheIsTimely
  <2>2. CASE ~(view # None /\ r.kind = "quote")
    <3>1. quoteCache' = quoteCache
      BY <2>2, <1>1 DEF Settle
    <3>2. QED  BY <3>1 DEF CacheIsTimely, QuoteInv, ReadsAreSound
  <2>3. QED  BY <2>1, <2>2
<1>9. ReadsAreSound'
  BY <1>4, <1>5, <1>6, <1>7, <1>8, OneReadMoves DEF QuoteInv
<1>10. GateInv'
  <2>1. PICK ok \in BOOLEAN : ok = (view # None)
    OBVIOUS
  <2>2. marketGate' = Record(marketGate, ok, ticks)
    BY <2>1, Zenon DEF Settle
  <2>3. paused' = IF marketGate'.blockedUntil # marketGate.blockedUntil THEN ticks ELSE paused
    BY DEF Settle
  <2>4. QED  BY <2>2, <2>3, <1>0, RecordKeepsGate DEF QuoteInv
<1>11. QED  BY <1>9, <1>10 DEF QuoteInv

LEMMA ProjectedIs ==
    ASSUME ReadsAreSound, NEW t \in Readers, Waiting(reads[t]), NEW event \in Int, NEW fallback \in BOOLEAN
    PROVE  /\ Projected(t, event, fallback) \in ViewRecord /\ ViewIsSound(Projected(t, event, fallback))
           /\ Projected(t, event, fallback).served = reads[t].observed
           /\ Projected(t, event, fallback).seen = reads[t].seen
<1>1. reads[t].interval \in {"minute", "day"} /\ reads[t].observed \in Int /\ reads[t].seen \in Nat
  BY DEF ReadsAreSound, ReadRecord, ReadIsTimely, Waiting
<1>2. PICK i \in {"minute", "day"}, o \in Int, n \in Nat :
         i = reads[t].interval /\ o = reads[t].observed /\ n = reads[t].seen
  BY <1>1
<1>3. Projected(t, event, fallback) = View(i, event, o, n, fallback, o)
  BY <1>2 DEF Projected
<1>4. PICK v : v = View(i, event, o, n, fallback, o)
  OBVIOUS
<1>5. v \in ViewRecord /\ ViewIsSound(v) /\ v.seen = n /\ v.served = o
  <2>1. i \in {"minute", "day"} /\ event \in Int /\ o \in Int /\ n \in Nat /\ fallback \in BOOLEAN
    BY <1>2
  <2>2. /\ View(i, event, o, n, fallback, o) \in ViewRecord
        /\ ViewIsSound(View(i, event, o, n, fallback, o))
        /\ View(i, event, o, n, fallback, o).seen = n
        /\ View(i, event, o, n, fallback, o).served = o
    BY <2>1, ViewIs
  <2>3. QED  BY <1>4, <2>2
<1>6. QED  BY <1>2, <1>3, <1>4, <1>5

\* A bar is stamped with a time that has been.
LEMMA BarsAreNumbers ==
    ASSUME NEW interval, NEW written \in Nat
    PROVE  NewestBars(interval, written) \subseteq Nat
BY DEF NewestBars

\* The next source is tried at once, or asked.
LEMMA NextSourceKeeps ==
    ASSUME QuoteInv, NEW t \in Readers, reads[t].pc = "openbb", ticks <= reads[t].sent + SourceTimeout,
           reads' = [reads EXCEPT ![t].pc = "datasets"],
           UNCHANGED <<ticks, wallBehind, quoteCache, marketGate, leaves, paused>>
    PROVE  QuoteInv'
<1>1. PICK r \in ReadRecord : r = reads[t]
  BY DEF QuoteInv, ReadsAreSound
<1>2. PICK q : q = [r EXCEPT !.pc = "datasets"]
  OBVIOUS
<1>3. q \in ReadRecord /\ reads' = [reads EXCEPT ![t] = q]
  BY <1>1, <1>2 DEF ReadRecord, QuoteInv, ReadsAreSound
<1>4. ReadIsTimely(r) /\ SaysTruth(r)
  BY <1>1 DEF QuoteInv, ReadsAreSound
<1>5. ReadIsTimely(q)
  BY <1>1, <1>2, <1>4 DEF ReadIsTimely, Waiting, ReadRecord
<1>6. SaysTruth(q)
  BY <1>2, <1>4 DEF SaysTruth, ReadRecord
<1>7. CacheIsTimely'
  BY DEF CacheIsTimely, QuoteInv, ReadsAreSound
<1>8. ReadsAreSound'
  BY <1>3, <1>5, <1>6, <1>7, OneReadMoves DEF QuoteInv
<1>9. GateInv'
  BY DEF GateInv, QuoteInv
<1>10. QED  BY <1>8, <1>9 DEF QuoteInv

LEMMA OpenBBAnswersKeeps ==
    ASSUME QuoteInv, NEW t \in Readers, OpenBBAnswers(t)
    PROVE  QuoteInv'
<1>0. ticks \in Nat /\ Waiting(reads[t]) /\ reads[t].observed \in Int
  BY DEF OpenBBAnswers, QuoteInv, ReadsAreSound, ReadRecord, Waiting
<1>1. PICK event \in NewestBars(reads[t].interval, ticks) :
         IF event <= reads[t].observed
         THEN Settle(t, Projected(t, event, FALSE))
         ELSE reads' = [reads EXCEPT ![t].pc = "datasets"] /\ UNCHANGED <<quoteCache, marketGate, paused>>
  BY DEF OpenBBAnswers
<1>2. event \in Int
  BY <1>0, BarsAreNumbers
<1>3. UNCHANGED <<ticks, wallBehind, leaves>>
  BY DEF OpenBBAnswers
<1>4. CASE event <= reads[t].observed
  <2>1. PICK v : v = Projected(t, event, FALSE)
    OBVIOUS
  <2>2. v \in ViewRecord /\ ViewIsSound(v) /\ v.served = reads[t].observed /\ v.seen = reads[t].seen
    BY <1>0, <1>2, <2>1, ProjectedIs DEF QuoteInv
  <2>3. Settle(t, v)
    BY <1>1, <1>4, <2>1
  <2>4. QED  BY <1>0, <1>3, <2>2, <2>3, SettleKeeps
<1>5. CASE ~(event <= reads[t].observed)
  <2>1. reads[t].pc = "openbb" /\ ticks <= reads[t].sent + SourceTimeout
    BY AgeAssumption, <1>0 DEF OpenBBAnswers, QuoteInv, ReadsAreSound, ReadIsTimely, Waiting
  <2>2. QED  BY <1>1, <1>3, <1>5, <2>1, NextSourceKeeps
<1>6. QED  BY <1>4, <1>5

LEMMA OpenBBFailsKeeps ==
    ASSUME QuoteInv, NEW t \in Readers, OpenBBFails(t)
    PROVE  QuoteInv'
<1>1. reads[t].pc = "openbb" /\ ticks <= reads[t].sent + SourceTimeout
  BY DEF OpenBBFails, QuoteInv, ReadsAreSound, ReadIsTimely, Waiting
<1>2. QED  BY <1>1, NextSourceKeeps DEF OpenBBFails

\* A read that fails has nothing to say.
LEMMA FailureKeeps ==
    ASSUME QuoteInv, NEW t \in Readers, Waiting(reads[t]), AllFailed(t), UNCHANGED <<ticks, wallBehind, leaves>>
    PROVE  QuoteInv'
BY SettleKeeps DEF AllFailed

LEMMA DatasetsAskKeeps ==
    ASSUME QuoteInv, NEW t \in Readers, DatasetsAsk(t)
    PROVE  QuoteInv'
<1>0. ticks \in Nat /\ SourceTimeout \in Nat
  BY AgeAssumption DEF QuoteInv, ReadsAreSound
<1>1. PICK r \in ReadRecord : r = reads[t]
  BY DEF QuoteInv, ReadsAreSound
<1>2. PICK n \in Nat : n = ticks
  BY <1>0
<1>3. PICK q : q = [r EXCEPT !.pc = "datasets_sent", !.sent = n]
  OBVIOUS
<1>4. q \in ReadRecord
  BY <1>3 DEF ReadRecord
<1>5. reads' = [reads EXCEPT ![t] = q]
  BY <1>1, <1>2, <1>3 DEF DatasetsAsk
<1>6. ReadIsTimely(r) /\ SaysTruth(r) /\ r.pc = "datasets"
  BY <1>1 DEF QuoteInv, ReadsAreSound, DatasetsAsk
<1>7. /\ q.pc = "datasets_sent" /\ q.sent = n /\ q.kind = r.kind /\ q.interval = r.interval
      /\ q.seen = r.seen /\ q.observed = r.observed /\ q.view = r.view
  BY <1>3 DEF ReadRecord
<1>8. ReadIsTimely(q)
  BY <1>0, <1>2, <1>6, <1>7 DEF ReadIsTimely, Waiting
<1>9. SaysTruth(q)
  BY <1>6, <1>7 DEF SaysTruth
<1>10. UNCHANGED <<ticks, wallBehind, quoteCache, marketGate, leaves, paused>>
  BY DEF DatasetsAsk
<1>11. CacheIsTimely'
  BY <1>10 DEF CacheIsTimely, QuoteInv, ReadsAreSound
<1>12. ReadsAreSound'
  BY <1>4, <1>5, <1>8, <1>9, <1>10, <1>11, OneReadMoves DEF QuoteInv
<1>13. GateInv'
  BY <1>10 DEF GateInv, QuoteInv
<1>14. QED  BY <1>12, <1>13 DEF QuoteInv

LEMMA DatasetsAnswersKeeps ==
    ASSUME QuoteInv, NEW t \in Readers, DatasetsAnswers(t)
    PROVE  QuoteInv'
<1>0. ticks \in Nat /\ Waiting(reads[t])
  BY DEF DatasetsAnswers, QuoteInv, ReadsAreSound, Waiting
<1>1. PICK event \in NewestBars("day", ticks) :
         Settle(t, IF event <= reads[t].observed THEN Projected(t, event, TRUE) ELSE None)
  BY DEF DatasetsAnswers
<1>2. event \in Int
  BY <1>0, BarsAreNumbers
<1>3. PICK v : v = IF event <= reads[t].observed THEN Projected(t, event, TRUE) ELSE None
  OBVIOUS
<1>4. /\ v \in ViewRecord \cup {None}
      /\ v # None => ViewIsSound(v) /\ v.served = reads[t].observed /\ v.seen = reads[t].seen
  BY <1>0, <1>2, <1>3, ProjectedIs DEF QuoteInv
<1>5. Settle(t, v) /\ UNCHANGED <<ticks, wallBehind, leaves>>
  BY <1>1, <1>3 DEF DatasetsAnswers
<1>6. QED  BY <1>0, <1>4, <1>5, SettleKeeps

\* The gate lets a thread through, by its reading of the clock, or does not.
LEMMA AdmissionKeeps ==
    ASSUME QuoteInv, NEW t \in Readers, NEW kind \in {"quote", "bars"}, NEW interval \in {"minute", "day"},
           Admission(t, kind, interval), quoteCache' \in {quoteCache, None},
           UNCHANGED <<ticks, wallBehind, paused>>
    PROVE  QuoteInv'
<1>0. /\ ticks \in Nat /\ wallBehind \in Nat /\ Wall \in Int /\ SourceTimeout \in Nat
      /\ CurrentAge \in Nat /\ QuoteLife \in Nat
  BY AgeAssumption DEF QuoteInv, ReadsAreSound, Wall
<1>1. PICK now \in Readings(ticks) :
         /\ marketGate' = Admit(marketGate, now).gate
         /\ leaves' = IF Admit(marketGate, now).admitted THEN Append(leaves, ticks) ELSE leaves
         /\ reads' = [reads EXCEPT ![t] =
               IF Admit(marketGate, now).admitted
               THEN [NoRead EXCEPT !.pc = "openbb", !.kind = kind, !.interval = interval,
                                   !.observed = Wall, !.seen = ticks, !.sent = ticks]
               ELSE Ended(kind, None)]
  BY DEF Admission
<1>2. GateInv'
  BY <1>0, <1>1, AdmitKeepsGate DEF QuoteInv
<1>3. PICK n \in Nat : n = ticks
  BY <1>0
<1>4. PICK w \in Int : w = Wall
  BY <1>0
<1>5. PICK p : p = [NoRead EXCEPT !.pc = "openbb", !.kind = kind, !.interval = interval,
                                  !.observed = w, !.seen = n, !.sent = n]
  OBVIOUS
<1>6. p = [pc |-> "openbb", kind |-> kind, interval |-> interval, observed |-> w, seen |-> n, sent |-> n, view |-> None]
  BY <1>5 DEF NoRead
<1>7. p \in ReadRecord /\ SaysTruth(p)
  BY <1>6 DEF ReadRecord, SaysTruth
<1>8. ReadIsTimely(p)
  BY <1>0, <1>3, <1>4, <1>6 DEF ReadIsTimely, Waiting, Wall
<1>9. PICK e : e = Ended(kind, None)
  OBVIOUS
<1>10. e \in ReadRecord /\ e.pc = "done" /\ e.view = None
  BY <1>0, <1>9, EndedIs
<1>11. ReadIsTimely(e) /\ SaysTruth(e)
  BY <1>10 DEF ReadIsTimely, Waiting, SaysTruth
<1>12. PICK r : r \in {p, e} /\ reads' = [reads EXCEPT ![t] = r]
  BY <1>1, <1>3, <1>4, <1>5, <1>9
<1>13. CacheIsTimely'
  BY DEF CacheIsTimely, QuoteInv, ReadsAreSound
<1>14. r \in ReadRecord /\ ReadIsTimely(r) /\ SaysTruth(r)
  BY <1>7, <1>8, <1>10, <1>11, <1>12
<1>15. ReadsAreSound'
  BY <1>12, <1>13, <1>14, OneReadMoves DEF QuoteInv
<1>16. QED  BY <1>2, <1>15 DEF QuoteInv

LEMMA QuoteFromCacheKeeps ==
    ASSUME QuoteInv, NEW t \in Readers, QuoteFromCache(t)
    PROVE  QuoteInv'
<1>0. /\ ticks \in Nat /\ wallBehind \in Nat /\ Wall \in Int /\ SourceTimeout \in Nat
      /\ CurrentAge \in Nat /\ QuoteLife \in Nat
  BY AgeAssumption DEF QuoteInv, ReadsAreSound, Wall
<1>1. /\ quoteCache # None /\ ticks - quoteCache.storedAt <= QuoteLife
      /\ reads' = [reads EXCEPT ![t] = Ended("cache", RefreshCachedQuote(quoteCache.view, Wall))]
      /\ UNCHANGED <<ticks, wallBehind, quoteCache, marketGate, leaves, paused>>
  BY DEF QuoteFromCache, CacheLive
<1>2. PICK q \in ViewRecord : q = quoteCache.view
  BY <1>1 DEF QuoteInv, ReadsAreSound, CacheIsTimely
<1>3. ticks - q.seen <= QuoteLife + 2 * SourceTimeout /\ q.seen \in Nat
  <2>1. quoteCache.storedAt \in Nat /\ quoteCache.storedAt - q.seen <= 2 * SourceTimeout
    BY <1>1, <1>2 DEF QuoteInv, ReadsAreSound, CacheIsTimely
  <2>2. q.seen \in Nat
    BY DEF ViewRecord
  <2>3. QED  BY <2>1, <2>2, <1>0, <1>1
<1>4. PICK w \in Int : w = Wall
  BY <1>0
<1>5. PICK v : v = RefreshCachedQuote(q, w)
  OBVIOUS
<1>6. v \in ViewRecord /\ ViewIsSound(v) /\ v.seen = q.seen /\ v.served = w
  <2>1. PICK i \in {"minute", "day"}, ev \in Int, o \in Int, n \in Nat, b \in BOOLEAN :
           i = q.interval /\ ev = q.event /\ o = q.observed /\ n = q.seen /\ b = q.warned
    BY DEF ViewRecord
  <2>2. v = View(i, ev, o, n, b, w)
    BY <2>1, <1>5 DEF RefreshCachedQuote
  <2>3. v \in ViewRecord /\ ViewIsSound(v) /\ v.seen = n /\ v.served = w
    <3>1. /\ i \in {"minute", "day"} /\ ev \in Int /\ o \in Int /\ n \in Nat
          /\ b \in BOOLEAN /\ w \in Int
      BY <1>4, <2>1
    <3>2. /\ View(i, ev, o, n, b, w) \in ViewRecord /\ ViewIsSound(View(i, ev, o, n, b, w))
          /\ View(i, ev, o, n, b, w).seen = n /\ View(i, ev, o, n, b, w).served = w
      BY <3>1, ViewIs
    <3>3. QED  BY <2>2, <3>2
  <2>4. QED  BY <2>1, <2>3
<1>7. PICK e : e = Ended("cache", v)
  OBVIOUS
<1>8. /\ e \in ReadRecord /\ e.pc = "done" /\ e.view = v
      /\ v # None => e.kind = "cache" /\ e.seen = ticks /\ e.observed = w
  BY <1>0, <1>4, <1>6, <1>7, EndedIs
<1>9. ReadIsTimely(e)
  BY <1>8 DEF ReadIsTimely, Waiting
<1>10. SaysTruth(e)
  <2>1. SUFFICES ASSUME v # None
                 PROVE  /\ v.freshness = "current" => w - v.event <= CurrentAge
                        /\ v.quality = "available" => ~v.warned
                        /\ ticks - v.seen <= QuoteLife + 2 * SourceTimeout
    <3>1. v.event \in Int
      BY <1>6 DEF ViewRecord
    <3>2. QED  BY <3>1, <1>8, <1>0, <1>4 DEF SaysTruth
  <2>2. QED  BY <1>3, <1>6 DEF ViewIsSound
<1>11. reads' = [reads EXCEPT ![t] = e]
  BY <1>1, <1>2, <1>4, <1>5, <1>7
<1>12. CacheIsTimely'
  BY <1>1 DEF CacheIsTimely, QuoteInv, ReadsAreSound
<1>13. ReadsAreSound'
  BY <1>1, <1>8, <1>9, <1>10, <1>11, <1>12, OneReadMoves DEF QuoteInv
<1>14. GateInv'
  BY <1>1 DEF GateInv, QuoteInv
<1>15. QED  BY <1>13, <1>14 DEF QuoteInv

LEMMA QuoteTickKeeps ==
    ASSUME QuoteInv, QuoteTick
    PROVE  QuoteInv'
<1>0. ticks \in Nat /\ SourceTimeout \in Nat
  BY AgeAssumption DEF QuoteInv, ReadsAreSound
<1>1. GateInv'
  BY <1>0, TimeKeepsGate DEF QuoteTick, QuoteInv
<1>2. ticks' = ticks + 1 /\ UNCHANGED <<wallBehind, quoteCache, reads>>
  BY DEF QuoteTick
<1>3. ASSUME NEW t \in Readers PROVE ReadIsTimely(reads[t])' /\ SaysTruth(reads[t])'
  <2>1. PICK r \in ReadRecord : r = reads[t]
    BY DEF QuoteInv, ReadsAreSound
  <2>2. /\ r.pc \in {"idle", "openbb", "datasets_sent", "done"}
        /\ r.pc \in {"openbb", "datasets_sent"} => ticks < r.sent + SourceTimeout
        /\ ReadIsTimely(r) /\ SaysTruth(r)
    BY <2>1 DEF QuoteTick, QuoteInv, ReadsAreSound
  <2>3. r.sent \in Nat
    BY DEF ReadRecord
  <2>4. ReadIsTimely(r)'
    BY <2>2, <2>3, <1>0, <1>2 DEF ReadIsTimely, Waiting
  <2>5. QED  BY <2>1, <2>2, <2>4, <1>2 DEF ReadIsTimely, Waiting, SaysTruth
<1>4. CacheIsTimely'
  <2>1. CacheIsTimely
    BY DEF QuoteInv, ReadsAreSound
  <2>2. QED  BY <2>1, <1>0, <1>2 DEF CacheIsTimely
<1>5. ReadsAreSound'
  BY <1>0, <1>2, <1>3, <1>4 DEF ReadsAreSound, QuoteInv
<1>6. QED  BY <1>1, <1>5 DEF QuoteInv

LEMMA SetBackKeeps ==
    ASSUME QuoteInv, SetBack
    PROVE  QuoteInv'
<1>1. wallBehind = 0 /\ wallBehind' = 1 /\ UNCHANGED <<ticks, quoteCache, marketGate, reads, leaves, paused>>
  BY DEF SetBack
<1>2. ASSUME NEW t \in Readers PROVE ReadIsTimely(reads[t])' /\ SaysTruth(reads[t])'
  <2>1. PICK r \in ReadRecord : r = reads[t]
    BY DEF QuoteInv, ReadsAreSound
  <2>2. ReadIsTimely(r) /\ SaysTruth(r) /\ r.seen \in Nat /\ r.observed \in Int
    BY <2>1 DEF QuoteInv, ReadsAreSound, ReadRecord
  <2>3. ReadIsTimely(r)'
    BY <2>2, <1>1 DEF ReadIsTimely, Waiting
  <2>4. QED  BY <2>1, <2>2, <2>3, <1>1 DEF ReadIsTimely, Waiting, SaysTruth
<1>3. ReadsAreSound'
  BY <1>1, <1>2 DEF ReadsAreSound, QuoteInv, CacheIsTimely
<1>4. GateInv'
  BY <1>1 DEF GateInv, QuoteInv
<1>5. QED  BY <1>3, <1>4 DEF QuoteInv

\* The inductive invariant: a waiting thread's clock readings are at most a
\* timeout old for each source it has asked, what the service keeps is at most
\* two old, and the gate's readings match the requests really let through.
THEOREM QuoteInvariant == QuoteSpec => []QuoteInv
<1>1. QuoteInit => QuoteInv
  <2> SUFFICES ASSUME QuoteInit PROVE QuoteInv
    OBVIOUS
  <2>1. NoRead \in ReadRecord /\ ReadIsTimely(NoRead) /\ SaysTruth(NoRead)
    BY DEF NoRead, ReadRecord, ReadIsTimely, Waiting, SaysTruth
  <2>2. ReadsAreSound
    BY <2>1 DEF QuoteInit, ReadsAreSound, CacheIsTimely
  <2>3. <<>> \in Seq(Nat) /\ Len(<<>>) = 0
    OBVIOUS
  <2>4. OpenGate \in GateShape /\ OpenGate.requests = <<>>
    BY <2>3 DEF OpenGate, GateShape
  <2>5. GateRequests \in Nat
    BY GateAssumption
  <2>6. Matched(marketGate.requests, leaves, ticks)
    BY <2>3 DEF QuoteInit, Matched
  <2>7. GateInv
    BY <2>3, <2>4, <2>5, <2>6 DEF QuoteInit, GateInv
  <2>8. QED  BY <2>2, <2>7 DEF QuoteInv
<1>2. ASSUME QuoteInv, [QuoteNext]_quoteVars PROVE QuoteInv'
  <2>1. ASSUME NEW t \in Readers, QuoteFromCache(t) PROVE QuoteInv'
    BY <1>2, <2>1, QuoteFromCacheKeeps
  <2>2. ASSUME NEW t \in Readers, Quote(t) PROVE QuoteInv'
    BY <1>2, <2>2, AdmissionKeeps DEF Quote
  <2>3. ASSUME NEW t \in Readers, Bars(t) PROVE QuoteInv'
    BY <1>2, <2>3, AdmissionKeeps DEF Bars
  <2>4. ASSUME NEW t \in Readers, OpenBBAnswers(t) \/ OpenBBFails(t) PROVE QuoteInv'
    BY <1>2, <2>4, OpenBBAnswersKeeps, OpenBBFailsKeeps
  <2>5. ASSUME NEW t \in Readers, DatasetsRefuses(t) \/ DatasetsFails(t) PROVE QuoteInv'
    BY <1>2, <2>5, FailureKeeps DEF DatasetsRefuses, DatasetsFails, Waiting
  <2>6. ASSUME NEW t \in Readers, DatasetsAsk(t) \/ DatasetsAnswers(t) PROVE QuoteInv'
    BY <1>2, <2>6, DatasetsAskKeeps, DatasetsAnswersKeeps
  <2>7. CASE QuoteTick \/ SetBack
    BY <1>2, <2>7, QuoteTickKeeps, SetBackKeeps
  <2>8. CASE UNCHANGED quoteVars
    BY <1>2, <2>8 DEF quoteVars, QuoteInv, ReadsAreSound, ReadIsTimely, Waiting, SaysTruth, CacheIsTimely, GateInv
  <2>9. QED  BY <1>2, <2>1, <2>2, <2>3, <2>4, <2>5, <2>6, <2>7, <2>8 DEF QuoteNext
<1>3. QED  BY <1>1, <1>2, PTL DEF QuoteSpec

\* For any number of threads, any calendar and any limits: quotes are honest
\* about their age, and no more of them are asked for than the provider's
\* limits allow (_MarketService and _ProviderRequestGate of gui.py).
THEOREM QuotesAreHonest == QuoteSpec => []QuotesHold
<1>1. QuoteInv => QuotesHold
  <2>1. SUFFICES ASSUME QuoteInv PROVE QuotesHold
    OBVIOUS
  <2>2. QuoteIsHonest
    <3>1. \A t \in Readers : SaysTruth(reads[t])
      BY <2>1 DEF QuoteInv, ReadsAreSound
    <3>2. QED  BY <3>1 DEF QuoteIsHonest, SaysTruth
  <2>3. GateHolds
    BY <2>1, GateIsSound DEF QuoteInv, ReadsAreSound
  <2>4. QED  BY <2>2, <2>3 DEF QuotesHold
<1>2. QED  BY <1>1, QuoteInvariant, PTL

-----------------------------------------------------------------------------
(* Replay: what is served is what was recorded.                            *)

\* An adapter that was loaded holds what was recorded, whatever is on disk now.
ReplayInv ==
    /\ adapter \in {None, NoAdapter} \/ \A f \in Fixtures : adapter[f] = "recorded"
    /\ ReplayIsRecorded

LEMMA LoadAdapterKeeps ==
    ASSUME ReplayInv, LoadAdapter
    PROVE  ReplayInv'
<1>1. adapter' \in {None, NoAdapter} \/ \A f \in Fixtures : adapter'[f] = "recorded"
  BY DEF LoadAdapter, Loadable
<1>2. QED  BY <1>1 DEF LoadAdapter, ReplayInv, ReplayIsRecorded

LEMMA ReplayedKeeps ==
    ASSUME ReplayInv, NEW f \in Fixtures, NEW a \in 0 .. MaxAsOf, Replayed(f, a)
    PROVE  ReplayInv'
<1>1. adapter[f] = "recorded" /\ UNCHANGED adapter
  BY DEF Replayed, ReplayInv
<1>2. CASE FixtureAsOf[f] > a
  <2>1. replayed' = [by |-> "adapter", fixture |-> f, asOf |-> a, state |-> "fetch_failed", data |-> None]
    BY <1>2 DEF Replayed
  <2>2. replayed'.data = None
    BY <2>1
  <2>3. QED  BY <1>1, <2>2 DEF ReplayInv, ReplayIsRecorded
<1>3. CASE ~(FixtureAsOf[f] > a)
  <2>1. replayed' = [by |-> "adapter", fixture |-> f, asOf |-> a, state |-> FixtureState[f], data |-> Data(f, adapter[f])]
    BY <1>3 DEF Replayed
  <2>2. replayed'.data \in {None, "recorded"}
    BY <1>1, <2>1 DEF Data
  <2>3. FixtureAsOf[f] <= a
    BY <1>3, FixtureAssumption
  <2>4. replayed'.fixture = f /\ replayed'.asOf = a /\ replayed'.by = "adapter"
    BY <2>1
  <2>5. QED  BY <1>1, <2>2, <2>3, <2>4 DEF ReplayInv, ReplayIsRecorded
<1>4. QED  BY <1>2, <1>3

LEMMA ReplaySnapshotKeeps ==
    ASSUME ReplayInv, NEW f \in Fixtures, NEW a \in 0 .. MaxAsOf, ReplaySnapshot(f, a)
    PROVE  ReplayInv'
<1> DEFINE usable == FixtureAsOf[f] <= a /\ Verified(f) /\ StateFits(f) /\ PolicyAccepts(FixtureState[f])
<1>1. UNCHANGED adapter
  BY DEF ReplaySnapshot
<1>2. /\ replayed'.fixture = f /\ replayed'.asOf = a
      /\ replayed'.state = IF usable THEN FixtureState[f] ELSE "failure"
      /\ replayed'.data = IF usable THEN Data(f, files[f]) ELSE None
  BY DEF ReplaySnapshot
<1>3. CASE usable
  <2>1. replayed'.data \in {None, "recorded"}
    BY <1>2, <1>3 DEF Verified, Data
  <2>2. QED  BY <1>1, <1>2, <1>3, <2>1 DEF ReplayInv, ReplayIsRecorded, PolicyAccepts
<1>4. CASE ~usable
  BY <1>1, <1>2, <1>4 DEF ReplayInv, ReplayIsRecorded
<1>5. QED  BY <1>3, <1>4

\* An adapter that was loaded holds what was recorded (load of replay.py).
THEOREM ReplayInvariant == ReplaySpec => []ReplayInv
<1>1. ReplayInit => ReplayInv
  BY DEF ReplayInit, ReplayInv, ReplayIsRecorded
<1>2. ASSUME ReplayInv, [ReplayNext]_replayVars PROVE ReplayInv'
  <2>1. CASE LoadAdapter
    BY <1>2, <2>1, LoadAdapterKeeps
  <2>2. ASSUME NEW f \in Fixtures, NEW a \in 0 .. MaxAsOf, Replayed(f, a) PROVE ReplayInv'
    BY <1>2, <2>2, ReplayedKeeps
  <2>3. ASSUME NEW f \in Fixtures, NEW a \in 0 .. MaxAsOf, ReplaySnapshot(f, a) PROVE ReplayInv'
    BY <1>2, <2>3, ReplaySnapshotKeeps
  <2>4. ASSUME NEW f \in Fixtures, NEW s \in FileStates, Change(f, s) PROVE ReplayInv'
    BY <1>2, <2>4 DEF Change, ReplayInv, ReplayIsRecorded, PolicyAccepts
  <2>5. CASE UNCHANGED replayVars
    BY <1>2, <2>5 DEF replayVars, ReplayInv, ReplayIsRecorded, PolicyAccepts
  <2>6. QED  BY <1>2, <2>1, <2>2, <2>3, <2>4, <2>5 DEF ReplayNext
<1>3. QED  BY <1>1, <1>2, PTL DEF ReplaySpec

\* Whatever happens to the fixtures on disk, replayed data is what was recorded
\* (_load_fixture and fetch of replay.py; _read_verified of replay_snapshot.py).
THEOREM ReplaysAreRecorded == ReplaySpec => []ReplayIsRecorded
<1>1. ReplayInv => ReplayIsRecorded
  BY DEF ReplayInv
<1>2. QED  BY <1>1, ReplayInvariant, PTL

-----------------------------------------------------------------------------
(* ConsolePage: what is shown is about what is selected.                   *)

\* A message: a request, or its answer.
IsAsk(q) == q = [kind |-> q.kind, serial |-> q.serial, of |-> q.of, result |-> q.result]
ResearchKinds == {"post", "open", "detail", "evidence"}
BarKinds == {"bars", "quiet_bars"}

\* No message is from a later serial than the page's own, and those of the
\* current one are about what is selected now.
AskIsSound(q) ==
    /\ IsAsk(q) /\ q.serial \in Nat
    /\ q.kind \in ResearchKinds => q.serial <= research.serial
    /\ q.kind \in BarKinds => q.serial <= market.serial
    /\ q.kind \in {"open", "detail", "evidence"} /\ q.serial = research.serial => q.of = research.run
    /\ q.kind = "post" /\ q.result # None /\ q.result.ok => q.result.data \in PageRuns
    /\ q.kind = "open" => q.of \in PageRuns
    /\ q.kind = "evidence" /\ q.serial = research.serial => panel.detail \in {q.of, "failed"}
    /\ q.kind \in BarKinds /\ q.serial = market.serial => q.of = market.sel
AsksAreSound == \A q \in wire : AskIsSound(q)

\* While a run is being created, nothing else of this start is under way.
PostIsAlone ==
    \A p, q \in wire :
        /\ p.kind = "post" /\ p.serial = research.serial
        /\ q.kind \in ResearchKinds /\ q.serial = research.serial
        => p = q
SourceIsSound ==
    source # None =>
        /\ source.serial \in Nat /\ source.serial <= research.serial /\ source.run \in PageRuns
        /\ source.serial = research.serial =>
              /\ source.run = research.run
              /\ \A q \in wire : ~(q.kind = "post" /\ q.serial = research.serial)

PageShapes ==
    /\ research = [serial |-> research.serial, run |-> research.run, busy |-> research.busy,
                   ready |-> research.ready, hasResult |-> research.hasResult]
    /\ panel = [view |-> panel.view, detail |-> panel.detail, cards |-> panel.cards]
    /\ market = [sel |-> market.sel, serial |-> market.serial, loading |-> market.loading, view |-> market.view]
    /\ settings = [busy |-> settings.busy, shown |-> settings.shown]
    /\ source # None => source = [serial |-> source.serial, run |-> source.run, state |-> source.state]

PageInv ==
    /\ PageShapes /\ research.serial \in Nat /\ market.serial \in Nat
    /\ AsksAreSound /\ PostIsAlone /\ SourceIsSound /\ PageHolds

LEMMA AskIs ==
    ASSUME NEW sort, NEW serial, NEW subject
    PROVE  /\ IsAsk(PageAsks(sort, serial, subject)) /\ PageAsks(sort, serial, subject).kind = sort
           /\ PageAsks(sort, serial, subject).serial = serial /\ PageAsks(sort, serial, subject).of = subject
           /\ PageAsks(sort, serial, subject).result = None
BY DEF PageAsks, IsAsk

\* Messages that belong to no serial.
Neutral == {PageAsks("list", 0, None), PageAsks("capabilities", 0, None), PageAsks("change", 0, None)}

LEMMA NeutralIs ==
    ASSUME NEW q \in Neutral
    PROVE  IsAsk(q) /\ q.serial = 0 /\ q.kind \in {"list", "capabilities", "change"}
BY AskIs DEF Neutral

\* Messages that neither belong to the current serial nor end a busy spell go
\* and come without any consequence, and so does the view that shows no result.
LEMMA WireMay ==
    ASSUME PageInv, PageShapes', NEW more \in SUBSET Neutral, NEW gone \in SUBSET wire, wire' = (wire \ gone) \cup more,
           UNCHANGED <<source, market>>, research'.serial = research.serial, research'.run = research.run,
           research'.busy = research.busy, settings'.busy = settings.busy,
           panel'.detail = panel.detail, panel'.cards \in {panel.cards, panel.detail},
           panel'.view \in {panel.view, "empty", "progress"},
           \A q \in gone : /\ q.kind \in {"post", "open", "detail"} => q.serial # research.serial
                           /\ q.kind \in BarKinds => q.serial # market.serial \/ q.of # market.sel
                           /\ q.kind # "change"
    PROVE  PageInv'
<1>1. \A p \in wire' : p \in wire \/ (IsAsk(p) /\ p.serial = 0 /\ p.kind \in {"list", "capabilities", "change"})
  BY NeutralIs
<1>2. AsksAreSound'
  <2>1. SUFFICES ASSUME NEW p \in wire' PROVE AskIsSound(p)'
    BY DEF AsksAreSound
  <2>2. CASE p \in wire
    BY <2>2 DEF PageInv, AsksAreSound, AskIsSound
  <2>3. CASE IsAsk(p) /\ p.serial = 0 /\ p.kind \in {"list", "capabilities", "change"}
    BY <2>3 DEF AskIsSound, ResearchKinds, BarKinds
  <2>4. QED  BY <1>1, <2>2, <2>3
<1>3. PostIsAlone'
  BY <1>1 DEF PageInv, PostIsAlone, ResearchKinds
<1>4. SourceIsSound'
  BY <1>1 DEF PageInv, SourceIsSound
<1>5. \A p \in wire : p.kind \in {"post", "open", "detail"} /\ p.serial = research.serial => p \in wire'
  OBVIOUS
<1>6. \A p \in wire : p.kind \in BarKinds /\ p.serial = market.serial => p \in wire'
  BY DEF PageInv, AsksAreSound, AskIsSound
<1>7. \A p \in wire : p.kind = "change" => p \in wire'
  OBVIOUS
<1>8. ShownIsAskedFor'
  BY <1>5 DEF PageInv, PageHolds, ShownIsAskedFor
<1>9. BusyEnds'
  <2>1. research'.busy => \/ \E p \in wire' : p.serial = research'.serial /\ p.kind \in {"post", "detail", "open"}
                         \/ (source' # None /\ source'.serial = research'.serial /\ source'.run = research'.run)
    BY <1>5 DEF PageInv, PageHolds, BusyEnds
  <2>2. market.loading => \E p \in wire' : p.serial = market.serial /\ p.kind \in {"bars", "quiet_bars"}
    BY <1>6 DEF PageInv, PageHolds, BusyEnds, BarKinds
  <2>3. settings'.busy => \E p \in wire' : p.kind = "change"
    BY <1>7 DEF PageInv, PageHolds, BusyEnds
  <2>4. QED  BY <2>1, <2>2, <2>3 DEF BusyEnds
<1>10. QED  BY <1>2, <1>3, <1>4, <1>8, <1>9 DEF PageInv, PageHolds

\* Serving a request changes its result only.
LEMMA ServedIs ==
    ASSUME AsksAreSound, NEW q \in wire, PageServe(q)
    PROVE  /\ UNCHANGED <<research, panel, source, market, settings>>
           /\ \E a : /\ wire' = (wire \ {q}) \cup {a}
                     /\ IsAsk(a) /\ a.kind = q.kind /\ a.serial = q.serial /\ a.of = q.of
                     /\ q.kind = "post" /\ a.result.ok => a.result.data \in PageRuns
<1>1. UNCHANGED <<research, panel, source, market, settings>>
  BY DEF PageServe
<1>2. PICK z : /\ wire' = (wire \ {q}) \cup {[q EXCEPT !.result = z]}
               /\ q.kind = "post" /\ z.ok => z.data \in PageRuns
  <2>1. CASE q.kind = "post"
    <3>1. PageFailed(q) \/ \E r \in PageRuns : PageAnswered(q, r)
      BY <2>1 DEF PageServe, PostRun
    <3>2. CASE PageFailed(q)
      <4>1. PICK z : z = [ok |-> FALSE]
        OBVIOUS
      <4>2. ~z.ok /\ wire' = (wire \ {q}) \cup {[q EXCEPT !.result = z]}
        BY <3>2, <4>1 DEF PageFailed
      <4>3. QED  BY <4>2
    <3>3. ASSUME NEW r \in PageRuns, PageAnswered(q, r)
          PROVE  \E z : /\ wire' = (wire \ {q}) \cup {[q EXCEPT !.result = z]}
                        /\ q.kind = "post" /\ z.ok => z.data \in PageRuns
      <4>1. PICK z : z = [ok |-> TRUE, data |-> r]
        OBVIOUS
      <4>2. z.data = r /\ wire' = (wire \ {q}) \cup {[q EXCEPT !.result = z]}
        BY <3>3, <4>1 DEF PageAnswered
      <4>3. QED  BY <4>2
    <3>4. QED  BY <3>1, <3>2, <3>3
  <2>2. CASE q.kind # "post"
    <3>1. PageFailed(q) \/ \E said : PageAnswered(q, said)
      BY <2>2 DEF PageServe, ChangeModel
    <3>2. QED  BY <2>2, <3>1 DEF PageAnswered, PageFailed
  <2>3. QED  BY <2>1, <2>2
<1>3. IsAsk(q)
  BY DEF AsksAreSound, AskIsSound
<1>4. PICK a : a = [q EXCEPT !.result = z]
  OBVIOUS
<1>5. IsAsk(a) /\ a.kind = q.kind /\ a.serial = q.serial /\ a.of = q.of /\ a.result = z
  BY <1>3, <1>4 DEF IsAsk
<1>6. QED  BY <1>1, <1>2, <1>4, <1>5

LEMMA PageServeKeeps ==
    ASSUME PageInv, NEW q \in wire, PageServe(q)
    PROVE  PageInv'
<1>0. PICK a : /\ wire' = (wire \ {q}) \cup {a}
               /\ IsAsk(a) /\ a.kind = q.kind /\ a.serial = q.serial /\ a.of = q.of
               /\ q.kind = "post" /\ a.result.ok => a.result.data \in PageRuns
  BY ServedIs DEF PageInv
<1>1. UNCHANGED <<research, panel, source, market, settings>>
  BY ServedIs DEF PageInv
<1>2. AsksAreSound'
  <2>1. SUFFICES ASSUME NEW p \in wire' PROVE AskIsSound(p)'
    BY DEF AsksAreSound
  <2>2. CASE p \in wire
    BY <1>1, <2>2 DEF PageInv, AsksAreSound, AskIsSound
  <2>3. CASE p = a
    <3>1. AskIsSound(q)
      BY DEF PageInv, AsksAreSound
    <3>2. QED  BY <1>0, <1>1, <2>3, <3>1 DEF AskIsSound
  <2>4. QED  BY <1>0, <2>2, <2>3
<1>3. PostIsAlone'
  BY <1>0, <1>1 DEF PageInv, PostIsAlone
<1>4. SourceIsSound'
  BY <1>0, <1>1 DEF PageInv, SourceIsSound
<1>5. ShownIsAskedFor'
  BY <1>0, <1>1 DEF PageInv, PageHolds, ShownIsAskedFor
<1>6. BusyEnds'
  BY <1>0, <1>1 DEF PageInv, PageHolds, BusyEnds
<1>7. QED  BY <1>1, <1>2, <1>3, <1>4, <1>5, <1>6 DEF PageInv, PageHolds, PageShapes

LEMMA StartResearchKeeps ==
    ASSUME PageInv, StartResearch
    PROVE  PageInv'
<1> DEFINE a == PageAsks("post", research.serial + 1, None)
<1>0. IsAsk(a) /\ a.kind = "post" /\ a.serial = research.serial + 1 /\ a.result = None
  BY AskIs
<1>1. /\ research'.serial = research.serial + 1 /\ research.serial \in Nat
      /\ panel'.view = "progress" /\ panel'.detail = panel.detail /\ panel'.cards = panel.cards
      /\ wire' = wire \cup {a} /\ UNCHANGED <<source, market, settings>>
  BY DEF StartResearch, PageInv, PageShapes
<1>2. PageShapes'
  BY DEF StartResearch, PageInv, PageShapes
<1> HIDE DEF a
<1>3. AsksAreSound'
  <2>1. SUFFICES ASSUME NEW p \in wire' PROVE AskIsSound(p)'
    BY DEF AsksAreSound
  <2>2. CASE p \in wire
    BY <1>1, <2>2 DEF PageInv, AsksAreSound, AskIsSound, ResearchKinds
  <2>3. CASE p = a
    BY <1>0, <1>1, <2>3 DEF AskIsSound, BarKinds
  <2>4. QED  BY <1>1, <2>2, <2>3
<1>4. \A p \in wire : p.kind \in ResearchKinds => p.serial # research'.serial
  BY <1>1 DEF PageInv, AsksAreSound, AskIsSound
<1>5. PostIsAlone'
  BY <1>0, <1>1, <1>4 DEF PostIsAlone, ResearchKinds
<1>6. SourceIsSound'
  BY <1>0, <1>1 DEF PageInv, SourceIsSound
<1>7. ShownIsAskedFor'
  BY <1>0, <1>1 DEF PageInv, PageHolds, ShownIsAskedFor
<1>8. BusyEnds'
  <2>1. \E p \in wire' : p.serial = research'.serial /\ p.kind \in {"post", "detail", "open"}
    BY <1>0, <1>1
  <2>2. market.loading => \E p \in wire' : p.serial = market.serial /\ p.kind \in {"bars", "quiet_bars"}
    BY <1>1 DEF PageInv, PageHolds, BusyEnds
  <2>3. settings.busy => \E p \in wire' : p.kind = "change"
    BY <1>1 DEF PageInv, PageHolds, BusyEnds
  <2>4. QED  BY <1>1, <2>1, <2>2, <2>3 DEF BusyEnds
<1>9. QED  BY <1>1, <1>2, <1>3, <1>5, <1>6, <1>7, <1>8 DEF PageInv, PageHolds

LEMMA OpenHistoryKeeps ==
    ASSUME PageInv, NEW r \in PageRuns, NEW status, OpenHistory(r, status)
    PROVE  PageInv'
<1> DEFINE a == PageAsks("open", research.serial + 1, r)
<1>0. IsAsk(a) /\ a.kind = "open" /\ a.serial = research.serial + 1 /\ a.of = r
  BY AskIs
<1>1. /\ research'.serial = research.serial + 1 /\ research.serial \in Nat /\ research'.run = r
      /\ source' = None /\ wire' = wire \cup {a} /\ UNCHANGED <<panel, market, settings>>
  BY DEF OpenHistory, PageInv, PageShapes
<1>2. PageShapes'
  <2>1. research' = [research EXCEPT !.serial = @ + 1, !.run = r, !.busy = (status \in Active)]
    BY DEF OpenHistory
  <2>2. PICK busy : busy = (status \in Active)
    OBVIOUS
  <2>3. research' = [research EXCEPT !.serial = @ + 1, !.run = r, !.busy = busy]
    BY <2>1, <2>2
  <2>4. QED  BY <1>1, <2>3 DEF PageInv, PageShapes
<1> HIDE DEF a
<1>3. AsksAreSound'
  <2>1. SUFFICES ASSUME NEW p \in wire' PROVE AskIsSound(p)'
    BY DEF AsksAreSound
  <2>2. CASE p \in wire
    BY <1>1, <2>2 DEF PageInv, AsksAreSound, AskIsSound, ResearchKinds
  <2>3. CASE p = a
    BY <1>0, <1>1, <2>3 DEF AskIsSound, BarKinds
  <2>4. QED  BY <1>1, <2>2, <2>3
<1>4. \A p \in wire : p.kind \in ResearchKinds => p.serial # research'.serial
  BY <1>1 DEF PageInv, AsksAreSound, AskIsSound
<1>5. PostIsAlone'
  BY <1>0, <1>1, <1>4 DEF PostIsAlone, ResearchKinds
<1>6. SourceIsSound'
  BY <1>1 DEF SourceIsSound
<1>7. \E p \in wire' : p.serial = research'.serial /\ p.kind = "open"
  BY <1>0, <1>1
<1>8. ShownIsAskedFor'
  BY <1>1, <1>7 DEF PageInv, PageHolds, ShownIsAskedFor
<1>9. BusyEnds'
  <2>2. market.loading => \E p \in wire' : p.serial = market.serial /\ p.kind \in {"bars", "quiet_bars"}
    BY <1>1 DEF PageInv, PageHolds, BusyEnds
  <2>3. settings.busy => \E p \in wire' : p.kind = "change"
    BY <1>1 DEF PageInv, PageHolds, BusyEnds
  <2>4. QED  BY <1>1, <1>7, <2>2, <2>3 DEF BusyEnds
<1>10. QED  BY <1>1, <1>2, <1>3, <1>5, <1>6, <1>8, <1>9 DEF PageInv, PageHolds

\* A failure ends the research under way.
LEMMA FinishFailureKeeps ==
    ASSUME PageInv, NEW q \in wire, q.kind \in {"post", "open", "detail"}, SerialIsCurrent(q),
           FinishFailure(q), UNCHANGED <<market, settings>>
    PROVE  PageInv'
<1>1. /\ research'.serial = research.serial /\ research.serial \in Nat /\ research'.run = research.run
      /\ research'.busy = FALSE /\ panel'.detail = "failed"
      /\ wire' = (wire \ {q}) \cup Finishing /\ UNCHANGED <<source, market, settings>>
  BY DEF FinishFailure, PageInv, PageShapes
<1>2. PageShapes'
  BY DEF FinishFailure, PageInv, PageShapes
<1>3. \A p \in wire' : p \in wire \/ (IsAsk(p) /\ p.serial = 0 /\ p.kind \in {"list", "capabilities", "change"})
  BY <1>1, NeutralIs DEF Finishing, Neutral
<1>4. AsksAreSound'
  <2>1. SUFFICES ASSUME NEW p \in wire' PROVE AskIsSound(p)'
    BY DEF AsksAreSound
  <2>2. CASE p \in wire
    BY <1>1, <2>2 DEF PageInv, AsksAreSound, AskIsSound
  <2>3. CASE IsAsk(p) /\ p.serial = 0 /\ p.kind \in {"list", "capabilities", "change"}
    BY <2>3 DEF AskIsSound, ResearchKinds, BarKinds
  <2>4. QED  BY <1>3, <2>2, <2>3
<1>5. PostIsAlone'
  BY <1>1, <1>3 DEF PageInv, PostIsAlone, ResearchKinds
<1>6. SourceIsSound'
  BY <1>1, <1>3 DEF PageInv, SourceIsSound
<1>7. ShownIsAskedFor'
  BY <1>1, PageAssumption DEF PageInv, PageHolds, ShownIsAskedFor
<1>8. BusyEnds'
  <2>1. market.loading => \E p \in wire' : p.serial = market.serial /\ p.kind \in {"bars", "quiet_bars"}
    BY <1>1 DEF PageInv, PageHolds, BusyEnds
  <2>2. settings.busy => \E p \in wire' : p.kind = "change"
    BY <1>1 DEF PageInv, PageHolds, BusyEnds
  <2>3. QED  BY <1>1, <2>1, <2>2 DEF BusyEnds
<1>9. QED  BY <1>1, <1>2, <1>4, <1>5, <1>6, <1>7, <1>8 DEF PageInv, PageHolds

\* A run is followed: the one just created, or the one opened.
LEMMA FollowRunKeeps ==
    ASSUME PageInv, NEW q \in wire, NEW r \in PageRuns, q.kind = "post" \/ (q.kind = "open" /\ r = q.of),
           SerialIsCurrent(q), FollowRun(q, r), UNCHANGED <<market, settings>>
    PROVE  PageInv'
<1>1. /\ research'.serial = research.serial /\ research.serial \in Nat /\ research'.run = r
      /\ research'.busy = research.busy /\ panel'.view = "progress"
      /\ panel'.detail = panel.detail /\ panel'.cards = panel.cards
      /\ wire' = wire \ {q} /\ UNCHANGED <<market, settings>>
  BY DEF FollowRun, PageInv, PageShapes
<1>2. source' = [serial |-> research.serial, run |-> r, state |-> "open"]
  BY DEF FollowRun, SerialIsCurrent
<1>3. PageShapes'
  BY <1>2 DEF FollowRun, PageInv, PageShapes
<1>4. q.serial = research.serial
  BY DEF SerialIsCurrent
<1>5. \A p \in wire' : p.serial = research.serial => p.kind # "post"
  <2>1. CASE q.kind = "post"
    BY <1>1, <1>4, <2>1 DEF PageInv, PostIsAlone, ResearchKinds
  <2>2. CASE q.kind = "open"
    BY <1>1, <1>4, <2>2 DEF PageInv, PostIsAlone, ResearchKinds
  <2>3. QED  BY <2>1, <2>2
<1>6. \A p \in wire' : p.kind \in {"open", "detail", "evidence"} /\ p.serial = research.serial => p.of = r
  <2>1. CASE q.kind = "post"
    BY <1>1, <1>4, <2>1 DEF PageInv, PostIsAlone, ResearchKinds
  <2>2. CASE q.kind = "open"
    <3>1. r = research.run
      BY <1>4, <2>2 DEF PageInv, AsksAreSound, AskIsSound
    <3>2. QED  BY <1>1, <3>1 DEF PageInv, AsksAreSound, AskIsSound
  <2>3. QED  BY <2>1, <2>2
<1>7. AsksAreSound'
  BY <1>1, <1>6 DEF PageInv, AsksAreSound, AskIsSound
<1>8. PostIsAlone'
  BY <1>1, <1>5 DEF PostIsAlone
<1>9. SourceIsSound'
  BY <1>1, <1>2, <1>5 DEF SourceIsSound
<1>10. ShownIsAskedFor'
  BY <1>1 DEF PageInv, PageHolds, ShownIsAskedFor
<1>11. BusyEnds'
  <2>1. source'.serial = research'.serial /\ source'.run = research'.run
    BY <1>1, <1>2
  <2>2. source' # None
    BY <1>1, <1>2, PageAssumption
  <2>3. market.loading => \E p \in wire' : p.serial = market.serial /\ p.kind \in {"bars", "quiet_bars"}
    BY <1>1 DEF PageInv, PageHolds, BusyEnds
  <2>4. settings.busy => \E p \in wire' : p.kind = "change"
    BY <1>1 DEF PageInv, PageHolds, BusyEnds
  <2>5. QED  BY <1>1, <2>1, <2>2, <2>3, <2>4 DEF BusyEnds
<1>12. QED  BY <1>1, <1>3, <1>7, <1>8, <1>9, <1>10, <1>11 DEF PageInv, PageHolds

\* A result is shown, and its evidence is read.
LEMMA RenderDetailKeeps ==
    ASSUME PageInv, NEW q \in wire, q.kind \in {"open", "detail"}, SerialIsCurrent(q),
           RenderDetail(q), UNCHANGED <<market, settings>>
    PROVE  PageInv'
<1> DEFINE a == PageAsks("evidence", q.serial, q.of)
<1>0. IsAsk(a) /\ a.kind = "evidence" /\ a.serial = q.serial /\ a.of = q.of
  BY AskIs
<1>1. /\ research'.serial = research.serial /\ research.serial \in Nat /\ research'.run = research.run
      /\ research'.busy = FALSE /\ panel' = [view |-> "results", detail |-> q.of, cards |-> None]
      /\ wire' = (wire \ {q}) \cup Finishing \cup {a} /\ UNCHANGED <<source, market, settings>>
  BY DEF RenderDetail, PageInv, PageShapes
<1>2. PageShapes'
  BY DEF RenderDetail, PageInv, PageShapes
<1> HIDE DEF a
<1>3. \A p \in wire' : \/ p \in wire \/ p = a
                       \/ (IsAsk(p) /\ p.serial = 0 /\ p.kind \in {"list", "capabilities", "change"})
  BY <1>1, NeutralIs DEF Finishing, Neutral
<1>4. q.serial = research.serial /\ q.of = research.run
  BY DEF SerialIsCurrent, PageInv, AsksAreSound, AskIsSound
<1>5. AsksAreSound'
  <2>1. SUFFICES ASSUME NEW p \in wire' PROVE AskIsSound(p)'
    BY DEF AsksAreSound
  <2>2. CASE p \in wire
    <3>1. AskIsSound(p)
      BY <2>2 DEF PageInv, AsksAreSound
    <3>2. panel'.detail = research.run
      BY <1>1, <1>4
    <3>3. QED  BY <1>1, <3>1, <3>2 DEF AskIsSound
  <2>3. CASE p = a
    BY <1>0, <1>1, <1>4, <2>3 DEF AskIsSound, BarKinds
  <2>4. CASE IsAsk(p) /\ p.serial = 0 /\ p.kind \in {"list", "capabilities", "change"}
    BY <2>4 DEF AskIsSound, ResearchKinds, BarKinds
  <2>5. QED  BY <1>3, <2>2, <2>3, <2>4
<1>6. \A p \in wire : p.serial = research.serial => p.kind # "post"
  BY <1>4 DEF PageInv, PostIsAlone, ResearchKinds
<1>7. PostIsAlone'
  BY <1>0, <1>1, <1>3, <1>6 DEF PostIsAlone
<1>8. SourceIsSound'
  BY <1>0, <1>1, <1>3 DEF PageInv, SourceIsSound
<1>9. ShownIsAskedFor'
  BY <1>1, <1>4 DEF PageInv, PageHolds, ShownIsAskedFor
<1>10. BusyEnds'
  <2>1. market.loading => \E p \in wire' : p.serial = market.serial /\ p.kind \in {"bars", "quiet_bars"}
    BY <1>1 DEF PageInv, PageHolds, BusyEnds
  <2>2. settings.busy => \E p \in wire' : p.kind = "change"
    BY <1>1 DEF PageInv, PageHolds, BusyEnds
  <2>3. QED  BY <1>1, <2>1, <2>2 DEF BusyEnds
<1>11. QED  BY <1>1, <1>2, <1>5, <1>7, <1>8, <1>9, <1>10 DEF PageInv, PageHolds

\* An answer that came too late.
LEMMA DroppedKeeps ==
    ASSUME PageInv, NEW q \in wire, q.kind \in {"post", "open", "detail"}, ~SerialIsCurrent(q), Dropped(q),
           UNCHANGED <<market, settings>>
    PROVE  PageInv'
<1>1. wire' = (wire \ {q}) \cup {} /\ UNCHANGED <<research, panel, source, market, settings>>
  BY DEF Dropped
<1>2. PageShapes'
  BY <1>1 DEF PageInv, PageShapes
<1>3. q.serial # research.serial
  BY DEF SerialIsCurrent
<1>4. QED  BY <1>1, <1>2, <1>3, WireMay DEF BarKinds

LEMMA PostAnsweredKeeps ==
    ASSUME PageInv, NEW q \in wire, PostAnswered(q)
    PROVE  PageInv'
<1>1. q.kind = "post" /\ q.result # None /\ UNCHANGED <<market, settings>>
  BY DEF PostAnswered, Arrived
<1>2. CASE ~SerialIsCurrent(q)
  BY <1>1, <1>2, DroppedKeeps DEF PostAnswered
<1>3. CASE SerialIsCurrent(q) /\ q.result.ok
  <2>1. q.result.data \in PageRuns
    BY <1>1, <1>3 DEF PageInv, AsksAreSound, AskIsSound
  <2>2. FollowRun(q, q.result.data)
    BY <1>3 DEF PostAnswered
  <2>3. QED  BY <1>1, <1>3, <2>1, <2>2, FollowRunKeeps
<1>4. CASE SerialIsCurrent(q) /\ ~q.result.ok
  BY <1>1, <1>4, FinishFailureKeeps DEF PostAnswered
<1>5. QED  BY <1>2, <1>3, <1>4

LEMMA DetailAnsweredKeeps ==
    ASSUME PageInv, NEW q \in wire, DetailAnswered(q)
    PROVE  PageInv'
<1>1. q.kind \in {"detail", "open"} /\ UNCHANGED <<market, settings>>
  BY DEF DetailAnswered
<1>2. CASE ~SerialIsCurrent(q)
  BY <1>1, <1>2, DroppedKeeps DEF DetailAnswered
<1>3. CASE SerialIsCurrent(q) /\ ~q.result.ok
  BY <1>1, <1>3, FinishFailureKeeps DEF DetailAnswered
<1>4. CASE SerialIsCurrent(q) /\ q.result.ok /\ q.kind = "open" /\ q.result.data \in Active
  <2>1. q.of \in PageRuns
    BY <1>4 DEF PageInv, AsksAreSound, AskIsSound
  <2>2. FollowRun(q, q.of)
    BY <1>4 DEF DetailAnswered
  <2>3. QED  BY <1>1, <1>4, <2>1, <2>2, FollowRunKeeps
<1>5. CASE SerialIsCurrent(q) /\ q.result.ok /\ ~(q.kind = "open" /\ q.result.data \in Active)
  BY <1>1, <1>5, RenderDetailKeeps DEF DetailAnswered
<1>6. QED  BY <1>2, <1>3, <1>4, <1>5

LEMMA EvidenceAnsweredKeeps ==
    ASSUME PageInv, NEW q \in wire, EvidenceAnswered(q)
    PROVE  PageInv'
<1>1. /\ q.kind = "evidence" /\ wire' = wire \ {q} /\ UNCHANGED <<research, source, market, settings>>
      /\ panel' = IF SerialIsCurrent(q) /\ q.result.ok THEN [panel EXCEPT !.cards = q.of] ELSE panel
  BY DEF EvidenceAnswered
<1>2. panel'.view = panel.view /\ panel'.detail = panel.detail /\ PageShapes'
  BY <1>1 DEF PageInv, PageShapes
<1>3. panel'.detail \in PageRuns => panel'.cards \in {None, panel.detail}
  <2>1. CASE SerialIsCurrent(q) /\ q.result.ok
    <3>1. panel'.cards = q.of
      BY <1>1, <2>1 DEF PageInv, PageShapes
    <3>2. panel.detail \in {q.of, "failed"}
      BY <1>1, <2>1 DEF PageInv, AsksAreSound, AskIsSound, SerialIsCurrent
    <3>3. QED  BY <1>2, <3>1, <3>2, PageAssumption
  <2>2. CASE ~(SerialIsCurrent(q) /\ q.result.ok)
    BY <1>1, <1>2, <2>2 DEF PageInv, PageHolds, ShownIsAskedFor
  <2>3. QED  BY <2>1, <2>2
<1>4. AsksAreSound' /\ PostIsAlone' /\ SourceIsSound'
  BY <1>1, <1>2 DEF PageInv, AsksAreSound, AskIsSound, PostIsAlone, SourceIsSound
<1>5. ShownIsAskedFor'
  BY <1>1, <1>2, <1>3 DEF PageInv, PageHolds, ShownIsAskedFor
<1>6. BusyEnds'
  BY <1>1 DEF PageInv, PageHolds, BusyEnds
<1>7. QED  BY <1>1, <1>2, <1>4, <1>5, <1>6 DEF PageInv, PageHolds

LEMMA StreamEventKeeps ==
    ASSUME PageInv, StreamEvent
    PROVE  PageInv'
<1> DEFINE a == PageAsks("detail", source.serial, source.run)
<1>0. /\ IsAsk(a) /\ a.kind = "detail" /\ a.serial = source.serial /\ a.of = source.run
  BY AskIs
<1>1. /\ source # None /\ source.serial = research.serial /\ source.run = research.run
      /\ \A q \in wire : ~(q.kind = "post" /\ q.serial = research.serial)
      /\ research.serial \in Nat
  BY DEF StreamEvent, PageInv, SourceIsSound
<1>2. /\ panel'.view = "progress" /\ panel'.detail = panel.detail /\ panel'.cards = panel.cards
      /\ UNCHANGED <<research, market, settings>>
  BY DEF StreamEvent, PageInv, PageShapes
<1>3. CASE UNCHANGED <<source, wire>>
  <2>1. PageShapes'
    BY <1>3 DEF StreamEvent, PageInv, PageShapes
  <2>2. wire' = (wire \ {}) \cup {}
    BY <1>3
  <2>3. QED  BY <1>2, <1>3, <2>1, <2>2, WireMay
<1>4. CASE source' = None /\ wire' = wire \cup {a}
  <2>1. PageShapes'
    BY <1>4 DEF StreamEvent, PageInv, PageShapes
  <2> HIDE DEF a
  <2>2. AsksAreSound'
    <3>1. SUFFICES ASSUME NEW p \in wire' PROVE AskIsSound(p)'
      BY DEF AsksAreSound
    <3>2. CASE p \in wire
      BY <1>2, <3>2 DEF PageInv, AsksAreSound, AskIsSound
    <3>3. CASE p = a
      BY <1>0, <1>1, <1>2, <3>3 DEF AskIsSound, BarKinds
    <3>4. QED  BY <1>4, <3>2, <3>3
  <2>3. PostIsAlone'
    BY <1>0, <1>1, <1>2, <1>4 DEF PostIsAlone
  <2>4. SourceIsSound'
    BY <1>4 DEF SourceIsSound
  <2>5. ShownIsAskedFor'
    BY <1>2 DEF PageInv, PageHolds, ShownIsAskedFor
  <2>6. BusyEnds'
    <3>1. \E p \in wire' : p.serial = research'.serial /\ p.kind \in {"post", "detail", "open"}
      BY <1>0, <1>1, <1>2, <1>4
    <3>2. market.loading => \E p \in wire' : p.serial = market.serial /\ p.kind \in {"bars", "quiet_bars"}
      BY <1>4 DEF PageInv, PageHolds, BusyEnds
    <3>3. settings.busy => \E p \in wire' : p.kind = "change"
      BY <1>4 DEF PageInv, PageHolds, BusyEnds
    <3>4. QED  BY <1>2, <3>1, <3>2, <3>3 DEF BusyEnds
  <2>7. QED  BY <1>2, <2>1, <2>2, <2>3, <2>4, <2>5, <2>6 DEF PageInv, PageHolds
<1>5. QED  BY <1>3, <1>4 DEF StreamEvent

LEMMA StreamRefusedKeeps ==
    ASSUME PageInv, StreamRefused
    PROVE  PageInv'
<1>1. /\ source # None /\ source'.serial = source.serial /\ source'.run = source.run
      /\ source' = [serial |-> source.serial, run |-> source.run, state |-> "refused"]
      /\ UNCHANGED <<wire, research, panel, market, settings>>
  BY DEF StreamRefused, PageInv, PageShapes
<1>2. PageShapes'
  BY <1>1 DEF PageInv, PageShapes
<1>3. AsksAreSound' /\ PostIsAlone'
  BY <1>1 DEF PageInv, AsksAreSound, AskIsSound, PostIsAlone
<1>4. SourceIsSound'
  BY <1>1 DEF PageInv, SourceIsSound
<1>5. ShownIsAskedFor'
  BY <1>1 DEF PageInv, PageHolds, ShownIsAskedFor
<1>6. BusyEnds'
  <2>1. source.serial \in Nat /\ source.run \in PageRuns
    BY <1>1 DEF PageInv, SourceIsSound
  <2>2. source' # None
    BY <1>1, <2>1, PageAssumption
  <2>3. QED  BY <1>1, <2>2 DEF PageInv, PageHolds, BusyEnds
<1>7. QED  BY <1>1, <1>2, <1>3, <1>4, <1>5, <1>6 DEF PageInv, PageHolds

LEMMA ListAnsweredKeeps ==
    ASSUME PageInv, NEW q \in wire, ListAnswered(q)
    PROVE  PageInv'
<1>1. /\ q.kind = "list" /\ wire' = (wire \ {q}) \cup {}
      /\ UNCHANGED <<research, panel, source, market, settings>>
  BY DEF ListAnswered
<1>2. PageShapes'
  BY <1>1 DEF PageInv, PageShapes
<1>3. \A p \in {q} : p.kind \notin {"post", "open", "detail", "change"} \cup BarKinds
  BY <1>1 DEF BarKinds
<1>4. QED  BY <1>1, <1>2, <1>3, WireMay

LEMMA CapabilitiesKeep ==
    ASSUME PageInv, LoadCapabilities \/ (\E q \in wire : CapabilitiesAnswered(q))
    PROVE  PageInv'
<1>1. CASE LoadCapabilities
  <2>1. /\ wire' = (wire \ {}) \cup {PageAsks("capabilities", 0, None)}
        /\ UNCHANGED <<research, panel, source, market, settings>>
    BY <1>1 DEF LoadCapabilities
  <2>2. PageShapes'
    BY <2>1 DEF PageInv, PageShapes
  <2>3. {PageAsks("capabilities", 0, None)} \in SUBSET Neutral
    BY DEF Neutral
  <2>4. PICK gone \in SUBSET wire : gone = {}
    OBVIOUS
  <2>5. PICK more \in SUBSET Neutral : more = {PageAsks("capabilities", 0, None)}
    BY <2>3
  <2>6. wire' = (wire \ gone) \cup more
    BY <2>1, <2>4, <2>5
  <2>7. UNCHANGED <<research, panel, source, market, settings>>
    BY <2>1
  <2>8. QED  BY <2>2, <2>4, <2>6, <2>7, WireMay
<1>2. ASSUME NEW q \in wire, CapabilitiesAnswered(q) PROVE PageInv'
  <2>1. PICK more \in SUBSET Neutral : wire' = (wire \ {q}) \cup more
    BY <1>2 DEF CapabilitiesAnswered, Neutral
  <2>2. PICK ready : research' = [research EXCEPT !.ready = ready]
    BY <1>2 DEF CapabilitiesAnswered
  <2>3. panel' \in {panel, [panel EXCEPT !.view = "empty"]}
    BY <1>2 DEF CapabilitiesAnswered
  <2>4. PICK shown : settings' = [settings EXCEPT !.shown = shown]
    BY <1>2 DEF CapabilitiesAnswered
  <2>5. UNCHANGED <<source, market>> /\ q.kind = "capabilities"
    BY <1>2 DEF CapabilitiesAnswered
  <2>6. /\ PageShapes' /\ research'.serial = research.serial /\ research'.run = research.run
        /\ research'.busy = research.busy /\ settings'.busy = settings.busy
        /\ panel'.detail = panel.detail /\ panel'.cards = panel.cards /\ panel'.view \in {panel.view, "empty"}
    BY <2>2, <2>3, <2>4, <2>5 DEF PageInv, PageShapes
  <2>7. \A p \in {q} : p.kind \notin {"post", "open", "detail", "change"} \cup BarKinds
    BY <2>5 DEF BarKinds
  <2>8. PICK gone \in SUBSET wire : gone = {q}
    OBVIOUS
  <2>9. /\ wire' = (wire \ gone) \cup more
        /\ \A p \in gone : p.kind \notin {"post", "open", "detail", "change"} \cup BarKinds
    BY <2>1, <2>7, <2>8
  <2>10. QED  BY <2>5, <2>6, <2>9, WireMay
<1>3. QED  BY <1>1, <1>2

LEMMA LoadSymbolKeeps ==
    ASSUME PageInv, NEW sel, NEW quiet \in BOOLEAN, LoadSymbol(sel, quiet)
    PROVE  PageInv'
<1> DEFINE sort == IF quiet THEN "quiet_bars" ELSE "bars"
           a == PageAsks(sort, market.serial + 1, sel)
<1>0. /\ IsAsk(a) /\ a.kind \in BarKinds /\ a.serial = market.serial + 1 /\ a.of = sel
  BY AskIs DEF BarKinds
<1>1. /\ market' = [sel |-> sel, serial |-> market.serial + 1, loading |-> TRUE,
                     view |-> IF quiet THEN market.view ELSE None]
      /\ quiet => sel = market.sel
      /\ wire' = wire \cup {a} /\ UNCHANGED <<research, panel, source, settings>> /\ market.serial \in Nat
  BY DEF LoadSymbol, PageInv
<1> HIDE DEF a
<1>2. /\ PageShapes' /\ market'.serial = market.serial + 1 /\ market'.sel = sel
      /\ market'.view \in {None, sel}
  BY <1>1 DEF PageInv, PageShapes, PageHolds, ShownIsAskedFor
<1>3. AsksAreSound'
  <2>1. SUFFICES ASSUME NEW p \in wire' PROVE AskIsSound(p)'
    BY DEF AsksAreSound
  <2>2. CASE p \in wire
    BY <1>1, <1>2, <2>2 DEF PageInv, AsksAreSound, AskIsSound
  <2>3. CASE p = a
    BY <1>0, <1>1, <1>2, <2>3 DEF AskIsSound, ResearchKinds, BarKinds
  <2>4. QED  BY <1>1, <2>2, <2>3
<1>4. PostIsAlone'
  BY <1>0, <1>1 DEF PageInv, PostIsAlone, ResearchKinds, BarKinds
<1>5. SourceIsSound'
  BY <1>0, <1>1 DEF PageInv, SourceIsSound, BarKinds
<1>6. ShownIsAskedFor'
  BY <1>1, <1>2 DEF PageInv, PageHolds, ShownIsAskedFor
<1>7. BusyEnds'
  <2>1. research'.busy => \/ \E p \in wire' : p.serial = research'.serial /\ p.kind \in {"post", "detail", "open"}
                         \/ (source' # None /\ source'.serial = research'.serial /\ source'.run = research'.run)
    BY <1>1 DEF PageInv, PageHolds, BusyEnds
  <2>2. \E p \in wire' : p.serial = market'.serial /\ p.kind \in {"bars", "quiet_bars"}
    BY <1>0, <1>1, <1>2 DEF BarKinds
  <2>3. settings'.busy => \E p \in wire' : p.kind = "change"
    BY <1>1 DEF PageInv, PageHolds, BusyEnds
  <2>4. QED  BY <2>1, <2>2, <2>3 DEF BusyEnds
<1>8. QED  BY <1>1, <1>2, <1>3, <1>4, <1>5, <1>6, <1>7 DEF PageInv, PageHolds

LEMMA BarsAnsweredKeeps ==
    ASSUME PageInv, NEW q \in wire, BarsAnswered(q)
    PROVE  PageInv'
<1>1. q.kind \in BarKinds /\ wire' = (wire \ {q}) \cup {} /\ UNCHANGED <<research, panel, source, settings>>
  BY DEF BarsAnswered, BarKinds
<1>2. CASE ~IsSelected(q)
  <2>1. UNCHANGED market
    BY <1>2 DEF BarsAnswered
  <2>2. PageShapes'
    BY <1>1, <2>1 DEF PageInv, PageShapes
  <2>3. \A p \in {q} : /\ p.kind \notin {"post", "open", "detail", "change"}
                       /\ p.serial # market.serial \/ p.of # market.sel
    BY <1>1, <1>2 DEF IsSelected, BarKinds
  <2>4. QED  BY <1>1, <2>1, <2>2, <2>3, WireMay, ZenonT(30)
<1>3. CASE IsSelected(q)
  <2>1. PICK view \in {q.of, None, market.view} : market' = [market EXCEPT !.loading = FALSE, !.view = view]
    BY <1>3 DEF BarsAnswered
  <2>2. /\ PageShapes' /\ market'.serial = market.serial /\ market'.sel = market.sel
        /\ market'.loading = FALSE /\ market'.view = view
    BY <1>1, <2>1 DEF PageInv, PageShapes
  <2>3. market'.view \in {None, market.sel}
    BY <1>3, <2>2 DEF IsSelected, PageInv, PageHolds, ShownIsAskedFor
  <2>4. AsksAreSound' /\ PostIsAlone' /\ SourceIsSound'
    BY <1>1, <2>2 DEF PageInv, AsksAreSound, AskIsSound, PostIsAlone, SourceIsSound
  <2>5. ShownIsAskedFor'
    BY <1>1, <2>2, <2>3 DEF PageInv, PageHolds, ShownIsAskedFor, BarKinds
  <2>6. BusyEnds'
    BY <1>1, <2>2 DEF PageInv, PageHolds, BusyEnds, BarKinds
  <2>7. QED  BY <1>1, <2>2, <2>4, <2>5, <2>6 DEF PageInv, PageHolds
<1>4. QED  BY <1>2, <1>3

\* The form of the settings does not concern research or charts.
LEMMA FormKeeps ==
    ASSUME PageInv, PageShapes', NEW more \in SUBSET Neutral, NEW gone \in SUBSET wire,
           wire' = (wire \ gone) \cup more, \A q \in gone : q.kind = "change",
           UNCHANGED <<research, panel, source, market>>,
           settings'.busy => \E q \in wire' : q.kind = "change"
    PROVE  PageInv'
<1>1. \A p \in wire' : p \in wire \/ (IsAsk(p) /\ p.serial = 0 /\ p.kind \in {"list", "capabilities", "change"})
  BY NeutralIs
<1>2. AsksAreSound'
  <2>1. SUFFICES ASSUME NEW p \in wire' PROVE AskIsSound(p)'
    BY DEF AsksAreSound
  <2>2. CASE p \in wire
    BY <2>2 DEF PageInv, AsksAreSound, AskIsSound
  <2>3. CASE IsAsk(p) /\ p.serial = 0 /\ p.kind \in {"list", "capabilities", "change"}
    BY <2>3 DEF AskIsSound, ResearchKinds, BarKinds
  <2>4. QED  BY <1>1, <2>2, <2>3
<1>3. PostIsAlone' /\ SourceIsSound'
  BY <1>1 DEF PageInv, PostIsAlone, SourceIsSound, ResearchKinds
<1>4. \A p \in wire : p.kind # "change" => p \in wire'
  OBVIOUS
<1>5. ShownIsAskedFor'
  BY <1>4 DEF PageInv, PageHolds, ShownIsAskedFor
<1>6. BusyEnds'
  BY <1>4 DEF PageInv, PageHolds, BusyEnds
<1>7. QED  BY <1>2, <1>3, <1>5, <1>6 DEF PageInv, PageHolds

LEMMA ChangeSettingsKeeps ==
    ASSUME PageInv, ChangeSettings
    PROVE  PageInv'
<1>1. /\ wire' = (wire \ {}) \cup {PageAsks("change", 0, None)} /\ UNCHANGED <<research, panel, source, market>>
      /\ settings' = [settings EXCEPT !.busy = TRUE]
  BY DEF ChangeSettings
<1>2. PageShapes'
  BY <1>1 DEF PageInv, PageShapes
<1>3. {PageAsks("change", 0, None)} \in SUBSET Neutral /\ PageAsks("change", 0, None).kind = "change"
  BY AskIs DEF Neutral
<1>4. \E q \in wire' : q.kind = "change"
  BY <1>1, <1>3
<1>5. PICK gone \in SUBSET wire : gone = {}
  OBVIOUS
<1>6. PICK more \in SUBSET Neutral : more = {PageAsks("change", 0, None)}
  BY <1>3
<1>7. wire' = (wire \ gone) \cup more /\ \A p \in gone : p.kind = "change"
  BY <1>1, <1>5, <1>6
<1>8. UNCHANGED <<research, panel, source, market>>
  BY <1>1
<1>9. QED  BY <1>2, <1>4, <1>7, <1>8, FormKeeps

LEMMA ChangeAnsweredKeeps ==
    ASSUME PageInv, NEW q \in wire, ChangeAnswered(q)
    PROVE  PageInv'
<1>1. PICK more \in SUBSET Neutral : wire' = (wire \ {q}) \cup more
  BY DEF ChangeAnswered, Neutral
<1>2. PICK shown : settings' = [busy |-> FALSE, shown |-> shown]
  BY DEF ChangeAnswered
<1>3. UNCHANGED <<research, panel, source, market>> /\ q.kind = "change"
  BY DEF ChangeAnswered
<1>4. PageShapes' /\ ~settings'.busy
  BY <1>2, <1>3 DEF PageInv, PageShapes
<1>5. {q} \in SUBSET wire /\ \A p \in {q} : p.kind = "change"
  BY <1>3
<1>6. PICK gone \in SUBSET wire : gone = {q}
  BY <1>5
<1>7. wire' = (wire \ gone) \cup more
  BY <1>1, <1>6
<1>8. \A p \in gone : p.kind = "change"
  BY <1>5, <1>6
<1>9. QED  BY <1>3, <1>4, <1>7, <1>8, FormKeeps

\* No request, stream or post of the page is ahead of its serial, and what is not
\* outdated is about what is shown (research.js, terminal.js).
THEOREM PageInvariant == PageSpec => []PageInv
<1>1. ASSUME PageInit PROVE PageInv
  <2>1. PageShapes
    <3>1. market = [sel |-> market.sel, serial |-> market.serial, loading |-> market.loading, view |-> market.view]
      BY <1>1 DEF PageInit
    <3>2. QED  BY <1>1, <3>1 DEF PageInit, PageShapes
  <2>2. research.serial = 0 /\ market.serial = 0 /\ market.view = None /\ ~market.loading
    BY <1>1 DEF PageInit
  <2>3. \A q \in wire : IsAsk(q) /\ q.serial = 0 /\ q.kind \in {"list", "capabilities", "change"}
    BY <1>1, NeutralIs DEF PageInit, Neutral
  <2>4. AsksAreSound /\ PostIsAlone
    BY <2>3 DEF AsksAreSound, AskIsSound, PostIsAlone, ResearchKinds, BarKinds
  <2>5. SourceIsSound
    BY <1>1 DEF PageInit, SourceIsSound
  <2>6. PageHolds
    <3>1. ShownIsAskedFor
      BY <1>1, <2>2 DEF PageInit, ShownIsAskedFor
    <3>2. BusyEnds
      BY <1>1, <2>2 DEF PageInit, BusyEnds
    <3>3. QED  BY <3>1, <3>2 DEF PageHolds
  <2>7. QED  BY <2>1, <2>2, <2>4, <2>5, <2>6 DEF PageInv
<1>2. ASSUME PageInv, [PageNext]_pageVars PROVE PageInv'
  <2>1. CASE UNCHANGED <<wire, research, panel, source, market, settings>>
    BY <1>2, <2>1 DEF PageInv, PageShapes, AsksAreSound, AskIsSound, PostIsAlone, SourceIsSound,
       PageHolds, ShownIsAskedFor, BusyEnds
  <2>2. CASE ServiceFlips \/ (\E r \in PageRuns : RunMoves(r)) \/ UNCHANGED pageVars
    <3>1. UNCHANGED <<wire, research, panel, source, market, settings>>
      BY <2>2 DEF ServiceFlips, RunMoves, pageVars
    <3>2. QED  BY <2>1, <3>1
  <2>3. CASE StartResearch
    BY <1>2, <2>3, StartResearchKeeps
  <2>4. CASE StreamEvent
    BY <1>2, <2>4, StreamEventKeeps
  <2>5. CASE StreamRefused
    BY <1>2, <2>5, StreamRefusedKeeps
  <2>6. ASSUME NEW r \in PageRuns, NEW status, OpenHistory(r, status) PROVE PageInv'
    BY <1>2, <2>6, OpenHistoryKeeps
  <2>7. ASSUME NEW q \in wire, \/ PageServe(q) \/ PostAnswered(q) \/ DetailAnswered(q) \/ EvidenceAnswered(q)
                              \/ ListAnswered(q) \/ CapabilitiesAnswered(q) \/ BarsAnswered(q) \/ ChangeAnswered(q)
        PROVE  PageInv'
    BY <1>2, <2>7, PageServeKeeps, PostAnsweredKeeps, DetailAnsweredKeeps, EvidenceAnsweredKeeps,
       ListAnsweredKeeps, CapabilitiesKeep, BarsAnsweredKeeps, ChangeAnsweredKeeps
  <2>8. ASSUME NEW sel, NEW quiet \in BOOLEAN, LoadSymbol(sel, quiet) PROVE PageInv'
    BY <1>2, <2>8, LoadSymbolKeeps
  <2>9. CASE LoadCapabilities
    BY <1>2, <2>9, CapabilitiesKeep
  <2>10. CASE ChangeSettings
    BY <1>2, <2>10, ChangeSettingsKeeps
  <2>11. CASE PanelNext
    BY <2>2, <2>3, <2>4, <2>5, <2>6, <2>7, <2>11 DEF PanelNext
  <2>12. CASE ChartNext
    BY <2>7, <2>8, <2>12 DEF ChartNext
  <2>13. CASE FormNext
    BY <2>2, <2>7, <2>9, <2>10, <2>13 DEF FormNext
  <2>14. QED  BY <1>2, <2>2, <2>11, <2>12, <2>13 DEF PageNext
<1>3. QED  BY <1>1, <1>2, PTL DEF PageSpec

\* However late the answers come, the page shows what was asked for last, and is
\* busy only while something is under way that ends it (research.js,
\* terminal.js and settings.js).
THEOREM PageIsInOrder == PageSpec => []PageHolds
<1>1. PageInv => PageHolds
  BY DEF PageInv
<1>2. QED  BY <1>1, PageInvariant, PTL

-----------------------------------------------------------------------------
(* The parts together.                                                     *)

\* Every step of the composition is a step of one part, and leaves the others.
LEMMA DataParts ==
    Spec => OfficialSpec /\ QuoteSpec /\ ReplaySpec /\ PageSpec
<1>1. Init => OfficialInit /\ QuoteInit /\ ReplayInit /\ PageInit
  BY DEF Init
<1>2. [Next]_<<officialVars, quoteVars, replayVars, pageVars, part>> =>
          /\ [OfficialNext]_officialVars /\ [QuoteNext]_quoteVars
          /\ [ReplayNext]_replayVars /\ [PageNext]_pageVars
  BY DEF Next, PageNext
<1>3. QED  BY <1>1, <1>2, PTL DEF Spec, OfficialSpec, QuoteSpec, ReplaySpec, PageSpec

\* What the console shows of data is recent, honest, recorded and about what is
\* selected, in the composition that is model-checked as well
\* (official_instrument.py, gui.py, replay_sources.py, research-desk.js).
THEOREM DataIsTrue == Spec => [](AnswerIsRecent /\ QuotesHold /\ ReplayIsRecorded /\ PageHolds)
BY DataParts, AnswersAreRecent, QuotesAreHonest, ReplaysAreRecorded, PageIsInOrder, PTL
=============================================================================

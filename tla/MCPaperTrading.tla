--------------------------- MODULE MCPaperTrading ---------------------------
(* Small instances of PaperTrading: the decisions, their orders and accounts. *)
EXTENDS PaperTrading

\* Bound: one check of the ledger at a time, only the account that trades is
\* checked and observed, and the last action is a resumption.
OneCheck ==
    /\ Cardinality({k \in Checker : check[k] # None}) <= 1
    /\ \A k \in Checker : check[k] # None => check[k].account \in Fragile
    /\ observed \subseteq Fragile
    /\ Cardinality(alarm) + Cardinality(expired) <= 1
    /\ Len(actions) = MaxActions => actions[MaxActions].type = "resumed"

\* Two accounts, one of them with two decisions to buy.
TwinAccountOf == [d1 |-> "acme", d2 |-> "acme"]
TwinDecisionOf == [b1 |-> "d1", b2 |-> "d2"]
TwinInstrumentOf == [b1 |-> "i1", b2 |-> "i1"]
TwinSide == [b1 |-> "buy", b2 |-> "buy"]
TwinQty == [b1 |-> 1, b2 |-> 1]
TwinOpening == [acme |-> [cash |-> 2, i1 |-> 0], zeta |-> [cash |-> 1, i1 |-> 0]]

\* One account with two decisions to buy.
SoloOpening == [acme |-> [cash |-> 3, i1 |-> 0]]
=============================================================================

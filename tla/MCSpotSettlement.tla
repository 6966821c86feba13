-------------------------- MODULE MCSpotSettlement --------------------------
(* Two traders and three orders for the settlement of gitbitex-spot. *)
EXTENDS SpotSettlement

Alice == 1
Bob == 2

Limit(i, s, z, p) ==
  [id |-> i, side |-> s, type |-> "limit", size |-> z, price |-> p, funds |-> z * p]
MarketBuyOf(i, f) ==
  [id |-> i, side |-> "buy", type |-> "market", size |-> 0, price |-> 0, funds |-> f]

By(u, o) == [user |-> u, order |-> o]

\* A sell taken by a better buy and by a market buy, which has change left;
\* and two buys of one user that a sell takes together.
Requests ==
  {<<By(Alice, Limit(1, "sell", 2, 1)), By(Bob, Limit(2, "buy", 1, 2)),
     By(Bob, MarketBuyOf(3, 2))>>,
   <<By(Bob, Limit(1, "buy", 1, 2)), By(Bob, Limit(2, "buy", 1, 1)),
     By(Alice, Limit(3, "sell", 2, 1))>>}

MCPlans == {[i \in OrderIds |-> r[i]] : r \in Requests}

\* Bob cannot pay for both buys of the first plan until one is settled.
MCDeposits ==
  [u \in {Alice, Bob} |-> IF u = Alice THEN [base |-> 2, quote |-> 0]
                                       ELSE [base |-> 0, quote |-> 3]]
=============================================================================

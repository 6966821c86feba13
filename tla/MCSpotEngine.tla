---------------------------- MODULE MCSpotEngine ----------------------------
(* Small order topics for the engine of gitbitex-spot. *)
EXTENDS SpotEngine

Limit(i, s, z, p) ==
  [id |-> i, side |-> s, type |-> "limit", size |-> z, price |-> p, funds |-> z * p]

New(o) == [order |-> o, cancel |-> FALSE]
Cxl(o) == [order |-> o, cancel |-> TRUE]

CONSTANT FirstId
S1 == Limit(FirstId, "sell", 2, 1)
B1 == Limit(FirstId + 1, "buy", 1, 1)
B2 == Limit(FirstId + 2, "buy", 2, 1)

\* A sell that is taken in part and then cancelled, a buy that a sell takes
\* before another buy rests, and a cancel that overtakes its order.
MCTopics == {<<New(S1), New(B1), Cxl(S1)>>,
             <<New(B2), New(S1), New(B1)>>,
             <<Cxl(S1), New(S1), New(B1)>>}
=============================================================================

-------------------------- MODULE MCSpotMarketData --------------------------
(* Small matching logs for the market data workers of gitbitex-spot. *)
EXTENDS SpotMarketData

M(seq, price, size, time) ==
  [match |-> TRUE, seq |-> seq, price |-> price, size |-> size, time |-> time]
Other(seq, time) ==
  [match |-> FALSE, seq |-> seq, price |-> 0, size |-> 0, time |-> time]

\* Matches in and across candles of length 1 and 2; in the second topic the
\* engine was restarted and wrote two logs again, later than at first.
MCTopics ==
  {<<M(1, 2, 1, 0), M(2, 1, 2, 1), Other(3, 1), M(4, 3, 1, 2)>>,
   <<M(1, 2, 1, 0), M(2, 3, 1, 1), M(1, 2, 1, 2), M(2, 3, 1, 2), M(3, 1, 2, 2)>>}

MCGranularities == <<1, 2>>
=============================================================================

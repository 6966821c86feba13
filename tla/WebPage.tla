------------------------------- MODULE WebPage -------------------------------
(***************************************************************************)
(* The trade page of gitbitex-web: the order book and the open orders over *)
(* one socket, whose messages arrive in the order they were sent.          *)
(***************************************************************************)
EXTENDS WebBook, WebOrders

vars == <<linkVars, bookVars, orderVars>>

Init == LinkInit /\ BookInit /\ OrdersInit

\* The page is mounted.  Its panels come first: the one of the orders subscribes
\* and then loads them.  A subscription that throws ends this, and the page's own
\* listener is not installed.
Mount ==
  /\ started > 0 /\ ~page.mounted
  /\ page' = [page EXCEPT !.mounted = TRUE, !.listening = ~Throws]
  /\ reqs' = Sent("subscribe")
  /\ load' = IF Throws THEN load ELSE [load EXCEPT !.pc = "sent"]
  /\ UNCHANGED <<ws, older, started, subs, net, closes, slow, hides, events, bookVars,
                 status, listed, orderBuffer, cancel, missed>>

\* The server reads a request.  To a new subscriber of level2 it sends a snapshot.
Serve ==
  /\ reqs # <<>>
  /\ reqs' = Tail(reqs)
  /\ subs' = IF Head(reqs) = "subscribe" THEN Channels ELSE {}
  /\ net' = IF Head(reqs) = "subscribe" /\ "level2" \notin subs
            THEN Append(net, [type |-> "snapshot", book |-> market]) ELSE net
  /\ UNCHANGED <<ws, older, started, page, closes, slow, hides, events, bookVars, orderVars>>

\* What is lost with a socket the list of orders will not hear of.
Drop ==
  /\ Closes
  /\ missed' = missed \cup OrderMsgs(net)
  /\ UNCHANGED <<bookVars, status, listed, orderBuffer, load, cancel>>

LinkNext == Reconnect \/ Opens \/ OlderOpens \/ OlderFails \/ Hide \/ Show

Next ==
  \/ LinkNext /\ UNCHANGED <<bookVars, orderVars>>
  \/ BookNext /\ UNCHANGED orderVars
  \/ OrdersNext /\ UNCHANGED bookVars
  \/ Mount \/ Serve \/ Drop

\* The timer of WebSocketService runs, a connection attempt ends, and the server
\* reads its requests.
Fairness ==
  /\ WF_vars(Reconnect /\ UNCHANGED <<bookVars, orderVars>>)
  /\ WF_vars(Opens /\ UNCHANGED <<bookVars, orderVars>>)
  /\ WF_vars(Serve)

Spec == Init /\ [][Next]_vars /\ Fairness

-----------------------------------------------------------------------------
(* Properties. *)

TypeOK == LinkTypeOK /\ BookTypeOK /\ OrdersTypeOK

\* A page in sight, with an open socket, is subscribed.  It is not once the socket
\* was replaced: only showing the page again subscribes.
StaysSubscribed ==
  (ws = "open" /\ page.mounted /\ page.visible)
    ~> (ws # "open" \/ ~page.visible \/ "level2" \in subs)

=============================================================================

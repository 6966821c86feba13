------------------------------- MODULE WebLink -------------------------------
(***************************************************************************)
(* How gitbitex-web starts and talks to the push server: App.init          *)
(* (app.ts), WebSocketService (service/websocket.ts) and the part of       *)
(* TradePage (page/trade/trade.ts) that subscribes and unsubscribes.       *)
(*                                                                         *)
(* A timer makes a new socket every five seconds while the socket at hand  *)
(* is not open; the handlers of the sockets before it stay in place.  The  *)
(* push servers of this repository never send the message 'subscriptions', *)
(* so WebSocketService.subscribes stays empty and a reopened socket is not *)
(* subscribed to anything.                                                 *)
(***************************************************************************)
EXTENDS Integers, Sequences

CONSTANTS
  MaxCloses,  \* sockets that close or fail
  MaxSlow,    \* times the timer finds a socket still connecting
  MaxHides,   \* times the user hides the page
  MaxEvents   \* changes at the exchange, over all channels

ASSUME LinkAssumption == {MaxCloses, MaxSlow, MaxHides, MaxEvents} \subseteq Nat

VARIABLES
  ws,      \* this.ws: connecting, open or closed
  older,   \* sockets before it that may still open
  started, \* times Framework.bootstrap was called
  page,    \* the trade page: mounted, listening to visibilitychange, visible
  reqs,    \* requests on their way to the server
  subs,    \* channels the server has the socket down for
  net,     \* messages on their way to the page
  closes, slow, hides, events

linkVars == <<ws, older, started, page, reqs, subs, net, closes, slow, hides, events>>

Channels == {"level2", "order"}

LinkInit ==
  /\ ws = "connecting" /\ older = 0 /\ started = 0
  /\ page = [mounted |-> FALSE, listening |-> FALSE, visible |-> TRUE]
  /\ reqs = <<>> /\ subs = {} /\ net = <<>>
  /\ closes = 0 /\ slow = 0 /\ hides = 0 /\ events = 0

\* ws.send of a socket that is connecting throws; of a closed one it drops the
\* message.
Throws == ws = "connecting"

Sent(op) == IF ws = "open" THEN Append(reqs, op) ELSE reqs

Subscribed(c) == ws = "open" /\ reqs = <<>> /\ c \in subs

-----------------------------------------------------------------------------
(* Sockets. *)

\* The timer finds a socket still connecting, MaxSlow times at most.
NotOpenYet == ws = "connecting" /\ slow < MaxSlow

\* What the timer looks for: readyState is not 1.
NotOpen == ws = "closed" \/ NotOpenYet

\* A new socket: nothing of the old one's traffic is left.
Reconnect ==
  /\ NotOpen
  /\ ws' = "connecting"
  /\ older' = IF ws = "connecting" THEN older + 1 ELSE older
  /\ slow' = IF ws = "connecting" THEN slow + 1 ELSE slow
  /\ reqs' = <<>> /\ subs' = {} /\ net' = <<>>
  /\ UNCHANGED <<started, page, closes, hides, events>>

\* The socket closes or fails; what was on its way is lost.
Closes ==
  /\ ws \in {"connecting", "open"} /\ closes < MaxCloses
  /\ closes' = closes + 1
  /\ ws' = "closed"
  /\ reqs' = <<>> /\ subs' = {} /\ net' = <<>>
  /\ UNCHANGED <<older, started, page, slow, hides, events>>

\* Fault: onOpen is not replaced once it has run.
OnOpenAgain(s) == IF s # "connecting" THEN started + 1 ELSE started

\* onOpen, unless it has run to its end before, with this.ws in state s.  It
\* subscribes to the tickers, which throws while this.ws is connecting, and then
\* builds the application.
OnOpen(s) == IF started = 0 /\ s # "connecting" THEN 1 ELSE started

Opens ==
  /\ ws = "connecting"
  /\ ws' = "open"
  /\ started' = OnOpen("open")
  /\ UNCHANGED <<older, page, reqs, subs, net, closes, slow, hides, events>>

\* The same handler, called by a socket that was given up: this.ws is another.
OlderOpens ==
  /\ older > 0
  /\ older' = older - 1
  /\ started' = OnOpen(ws)
  /\ UNCHANGED <<ws, page, reqs, subs, net, closes, slow, hides, events>>

OlderFails ==
  /\ older > 0
  /\ older' = older - 1
  /\ UNCHANGED <<ws, started, page, reqs, subs, net, closes, slow, hides, events>>

-----------------------------------------------------------------------------
(* The page. *)

Hide ==
  /\ page.mounted /\ page.visible /\ hides < MaxHides
  /\ hides' = hides + 1
  /\ page' = [page EXCEPT !.visible = FALSE]
  /\ reqs' = IF page.listening THEN Sent("unsubscribe") ELSE reqs
  /\ UNCHANGED <<ws, older, started, subs, net, closes, slow, events>>

Show ==
  /\ page.mounted /\ ~page.visible
  /\ page' = [page EXCEPT !.visible = TRUE]
  /\ reqs' = IF page.listening THEN Sent("subscribe") ELSE reqs
  /\ UNCHANGED <<ws, older, started, subs, net, closes, slow, hides, events>>

-----------------------------------------------------------------------------
(* Properties. *)

LinkTypeOK ==
  /\ ws \in {"connecting", "open", "closed"} /\ older \in 0 .. MaxSlow
  /\ started \in Nat
  /\ page \in [mounted : BOOLEAN, listening : BOOLEAN, visible : BOOLEAN]
  /\ reqs \in Seq({"subscribe", "unsubscribe"}) /\ subs \subseteq Channels
  /\ closes \in 0 .. MaxCloses /\ slow \in 0 .. MaxSlow
  /\ hides \in 0 .. MaxHides /\ events \in 0 .. MaxEvents

\* The application is built, and built once, however slow the first sockets are,
\* whichever of several opens first and however often they are replaced: without
\* it the page stays empty, twice Vue would be mounted on the same element.
StartsOnce == [](started <= 1) /\ <>(started = 1)

=============================================================================

------------------------------ MODULE WebOrders ------------------------------
(***************************************************************************)
(* The user's open orders on the trade page of gitbitex-web: the panel     *)
(* loads them once over HTTP and then lives on messages of the channel     *)
(* order, which wait in orderBuffer for a timer (store/trade.ts,           *)
(* component/panel/order and order-list).  Cancelling marks the order on   *)
(* the page, and the answer to the request marks it as cancelled, although *)
(* the request has only been put into the queue of the matching engine.    *)
(***************************************************************************)
EXTENDS WebLink, FiniteSets

CONSTANT Orders

VARIABLES
  status,       \* status of each order in the database
  listed,       \* openOrders: the status each order is shown with, or absent
  orderBuffer,  \* messages not applied yet
  load,         \* loadOpenOrders: where the request is, and what it has read
  cancel,       \* order -> where its cancel request is
  missed        \* history: orders that changed behind the page's back

orderVars == <<status, listed, orderBuffer, load, cancel, missed>>

Statuses == {"none", "open", "filled", "cancelled"}
Shown == {"absent", "open", "filled", "cancelled", "canceling"}

\* A cancel request: not made, on its way, accepted by the server, answered.  The
\* page's part of the answer goes to the order object that was clicked, which may
\* no longer be in the list.
NoCancel == [pc |-> "none", clicked |-> FALSE]

OrdersInit ==
  /\ status \in [Orders -> {"none", "open"}]
  /\ listed = [o \in Orders |-> "absent"]
  /\ orderBuffer = <<>>
  /\ load = [pc |-> "none", open |-> {}, since |-> {}]
  /\ cancel = [o \in Orders |-> NoCancel]
  /\ missed = {}

\* The orders that messages on their way to the list are about.
OrderMsgs(s) == {s[i].order : i \in {j \in DOMAIN s : s[j].type = "order"}}
Coming == OrderMsgs(net) \cup OrderMsgs(orderBuffer)

-----------------------------------------------------------------------------
(* The exchange. *)

\* The row of an order changes; a cancelled order is one whose cancel request
\* reached the engine first.
OrderChanges ==
  /\ events < MaxEvents /\ events' = events + 1
  /\ \E o \in Orders, s \in Statuses :
       /\ \/ status[o] = "none" /\ s = "open"
          \/ status[o] = "open" /\ s = "filled"
          \/ status[o] = "open" /\ s = "cancelled" /\ cancel[o].pc \in {"accepted", "answered"}
       /\ status' = [status EXCEPT ![o] = s]
       /\ net' = IF "order" \in subs
                 THEN Append(net, [type |-> "order", order |-> o, status |-> s]) ELSE net
       /\ load' = IF load.pc = "read" THEN [load EXCEPT !.since = @ \cup {o}] ELSE load
       /\ missed' = IF "order" \in subs THEN missed \ {o} ELSE missed \cup {o}
  /\ UNCHANGED <<ws, older, started, page, reqs, subs, closes, slow, hides, listed, orderBuffer, cancel>>

-----------------------------------------------------------------------------
(* Loading the list. *)

\* getOrders with status open, at the server.  What the page had missed it now
\* reads, unless an older message is still to be applied on top.
LoadReads ==
  /\ load.pc = "sent"
  /\ load' = [pc |-> "read", open |-> {o \in Orders : status[o] = "open"}, since |-> {}]
  /\ missed' = missed \cap Coming
  /\ UNCHANGED <<linkVars, status, listed, orderBuffer, cancel>>

\* The answer replaces the list.  It is older than the messages applied since.
LoadAnswers ==
  /\ load.pc = "read"
  /\ load' = [load EXCEPT !.pc = "done"]
  /\ listed' = [o \in Orders |-> IF o \in load.open THEN "open" ELSE "absent"]
  /\ cancel' = [o \in Orders |-> [cancel[o] EXCEPT !.clicked = FALSE]]
  /\ missed' = missed \cup (load.since \ Coming)
  /\ UNCHANGED <<linkVars, status, orderBuffer>>

-----------------------------------------------------------------------------
(* Messages. *)

OnOrder ==
  /\ ws = "open" /\ net # <<>> /\ Head(net).type = "order"
  /\ orderBuffer' = Append(orderBuffer, Head(net))
  /\ net' = Tail(net)
  /\ UNCHANGED <<ws, older, started, page, reqs, subs, closes, slow, hides, events,
                 status, listed, load, cancel, missed>>

\* Fault: a message about an order that is not in the list is left out.
UpdateKnown(o, s) == IF listed[o] = "absent" THEN "absent" ELSE s

\* The order object is assigned the fields of the message, or put into the list.
Update(o, s) == s

\* The timer of orderBuffer: updateOrder.
FlushOrders ==
  /\ orderBuffer # <<>>
  /\ listed' =
       [o \in Orders |->
          LET at == {i \in DOMAIN orderBuffer : orderBuffer[i].order = o}
          IN IF at = {} THEN listed[o]
             ELSE Update(o, orderBuffer[CHOOSE i \in at : \A j \in at : j <= i].status)]
  /\ orderBuffer' = <<>>
  /\ UNCHANGED <<linkVars, status, load, cancel, missed>>

-----------------------------------------------------------------------------
(* Cancelling. *)

Cancel(o) ==
  /\ page.mounted /\ listed[o] = "open" /\ cancel[o].pc = "none"
  /\ listed' = [listed EXCEPT ![o] = "canceling"]
  /\ cancel' = [cancel EXCEPT ![o] = [pc |-> "sent", clicked |-> TRUE]]
  /\ UNCHANGED <<linkVars, status, orderBuffer, load, missed>>

\* cancelAll: the orders shown as open; nothing is done with the answer.
CancelAll ==
  /\ page.mounted
  /\ LET open == {o \in Orders : listed[o] = "open"} IN
       /\ open # {} /\ \A o \in open : cancel[o].pc = "none"
       /\ listed' = [o \in Orders |-> IF o \in open THEN "canceling" ELSE listed[o]]
       /\ cancel' = [o \in Orders |-> IF o \in open THEN [NoCancel EXCEPT !.pc = "sent"]
                                      ELSE cancel[o]]
  /\ UNCHANGED <<linkVars, status, orderBuffer, load, missed>>

\* CancelOrder of the server: it queues the request and answers.
CancelAccepted(o) ==
  /\ cancel[o].pc = "sent"
  /\ cancel' = [cancel EXCEPT ![o].pc = "accepted"]
  /\ UNCHANGED <<linkVars, status, listed, orderBuffer, load, missed>>

CancelAnswered(o) ==
  /\ cancel[o].pc = "accepted"
  /\ cancel' = [cancel EXCEPT ![o].pc = "answered"]
  /\ IF cancel[o].clicked
     THEN /\ listed' = [listed EXCEPT ![o] = "cancelled"]
          /\ missed' = IF o \in Coming THEN missed ELSE missed \cup {o}
     ELSE UNCHANGED <<listed, missed>>
  /\ UNCHANGED <<linkVars, status, orderBuffer, load>>

OrdersNext ==
  \/ OrderChanges \/ LoadReads \/ LoadAnswers \/ OnOrder \/ FlushOrders \/ CancelAll
  \/ \E o \in Orders : Cancel(o) \/ CancelAccepted(o) \/ CancelAnswered(o)

-----------------------------------------------------------------------------
(* Properties. *)

OrdersTypeOK ==
  /\ status \in [Orders -> Statuses] /\ listed \in [Orders -> Shown]
  /\ \A i \in DOMAIN orderBuffer :
       orderBuffer[i].order \in Orders /\ orderBuffer[i].status \in Statuses
  /\ load.pc \in {"none", "sent", "read", "done"}
  /\ load.open \subseteq Orders /\ load.since \subseteq Orders
  /\ cancel \in [Orders -> [pc : {"none", "sent", "accepted", "answered"}, clicked : BOOLEAN]]
  /\ missed \subseteq Orders

\* How an order may be shown when the page has heard everything.
ShownRight(o) ==
  \/ listed[o] = status[o]
  \/ listed[o] = "canceling" /\ status[o] = "open"
  \/ listed[o] = "absent" /\ status[o] # "open"

Quiet ==
  /\ Subscribed("order") /\ load.pc = "done" /\ Coming = {}
  /\ \A o \in Orders : cancel[o].pc \in {"none", "answered"}

\* An order is shown with its status once all messages are applied.  There is no
\* other way for the list to be wrong than these: the order changed while the page
\* was not subscribed, a message was lost with its socket, a message and the answer
\* of loadOpenOrders came in the wrong order, or the answer to its cancel request
\* came last.
OrdersFollow == Quiet => \A o \in Orders \ missed : ShownRight(o)

\* The list is right without exception.
OrdersFollowAll == Quiet => \A o \in Orders : ShownRight(o)

=============================================================================

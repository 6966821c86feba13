----------------------------- MODULE WebPageProofs -----------------------------
(***************************************************************************)
(* Proofs about the trade page of gitbitex-web: what the page shows, of    *)
(* the order book and of the user's orders, once it has heard everything.  *)
(***************************************************************************)
EXTENDS WebPage, WellFoundedInduction, TLAPS

-----------------------------------------------------------------------------
(* The inductive invariant. *)

Snapshots == [type : {"snapshot"}, book : [Levels -> Sizes]]
Updates == [type : {"l2update"}, level : Levels, size : Sizes]
Notices == [type : {"order"}, order : Orders, status : Statuses \ {"none"}]
Messages == Snapshots \cup Updates \cup Notices

\* The last message of s that is in A is in V.
LastIn(s, A, V) ==
  \E i \in DOMAIN s : s[i] \in V /\ s[i] \in A /\ \A j \in DOMAIN s : j > i => s[j] \notin A

NoneIn(s, A) == \A i \in DOMAIN s : s[i] \notin A

\* The messages about level l, and those that say it has size z.
BookOf(l) == Snapshots \cup {m \in Updates : m.level = l}
BookAs(l, z) == {m \in Snapshots : m.book[l] = z} \cup {m \in Updates : m.level = l /\ m.size = z}

\* The messages about order o, and those that say it has status s.
OrderOf(o) == {m \in Notices : m.order = o}
OrderAs(o, s) == {m \in Notices : m.order = o /\ m.status = s}

\* What was on its way is lost with a socket, and nothing is sent before it is open.
LinkInv ==
  /\ reqs \in Seq({"subscribe", "unsubscribe"}) /\ subs \in {{}, Channels}
  /\ net \in Seq(Messages)
  /\ ws # "open" => reqs = <<>> /\ subs = {} /\ net = <<>>

\* The book the page would show if all that is under way were applied is the one of the
\* exchange, apart from the levels that have an older update put over a snapshot.
Heard(l) ==
  \/ LastIn(net, BookOf(l), BookAs(l, market[l]))
  \/ /\ NoneIn(net, BookOf(l))
     /\ \/ l \in late
        \/ LastIn(bookBuffer, BookOf(l), BookAs(l, market[l]))
        \/ NoneIn(bookBuffer, BookOf(l)) /\ book[Raw(l)] = market[l]

BookInv ==
  /\ market \in [Levels -> Sizes] /\ book \in [Keys -> Sizes]
  /\ bookBuffer \in Seq(Updates) /\ late \subseteq Levels
  /\ "level2" \in subs => \A l \in Levels \ Odd : Heard(l)

\* An order that did not change behind the page's back: the last message about it has its
\* status, a list being loaded has it if nothing happened since, and once there is neither
\* the page shows it right.
Told(o) ==
  /\ NoneIn(net, OrderOf(o)) \/ LastIn(net, OrderOf(o), OrderAs(o, status[o]))
  /\ NoneIn(net, OrderOf(o)) =>
       NoneIn(orderBuffer, OrderOf(o)) \/ LastIn(orderBuffer, OrderOf(o), OrderAs(o, status[o]))
  /\ load.pc = "done" /\ NoneIn(net, OrderOf(o)) /\ NoneIn(orderBuffer, OrderOf(o)) => ShownRight(o)

Loads == [pc : {"none", "sent", "read", "done"}, open : SUBSET Orders, since : SUBSET Orders]

OrdersInv ==
  /\ status \in [Orders -> Statuses] /\ listed \in [Orders -> Shown]
  /\ orderBuffer \in Seq(Notices) /\ missed \subseteq Orders
  /\ cancel \in [Orders -> [pc : {"none", "sent", "accepted", "answered"}, clicked : BOOLEAN]]
  /\ load \in Loads
  /\ load.pc = "read" => \A o \in Orders \ load.since : o \in load.open <=> status[o] = "open"
  /\ \A o \in Orders \ missed : Told(o)

Inv == LinkInv /\ BookInv /\ OrdersInv

-----------------------------------------------------------------------------
(* Facts about sequences of messages. *)

\* A message that is not of the kind A changes nothing for A.
LEMMA AppendOther ==
  ASSUME NEW S, NEW s \in Seq(S), NEW m \in S, NEW A, NEW V, m \notin A
  PROVE  /\ NoneIn(s, A) <=> NoneIn(Append(s, m), A)
         /\ LastIn(s, A, V) => LastIn(Append(s, m), A, V)
<1> DEFINE t == Append(s, m)
<1>1. /\ t \in Seq(S) /\ Len(t) = Len(s) + 1 /\ t[Len(s) + 1] = m
      /\ \A i \in 1 .. Len(s) : t[i] = s[i]
  OBVIOUS
<1>2. DOMAIN s = 1 .. Len(s) /\ Len(s) \in Nat /\ DOMAIN t = 1 .. (Len(s) + 1)
  BY <1>1
<1> HIDE DEF t
<1>3. NoneIn(s, A) <=> NoneIn(t, A)
  BY <1>1, <1>2 DEF NoneIn
<1>4. LastIn(s, A, V) => LastIn(t, A, V)
  BY <1>1, <1>2 DEF LastIn
<1> QED
  BY <1>3, <1>4 DEF t

\* A message of the kind A is the last one when it is appended.
LEMMA AppendLast ==
  ASSUME NEW S, NEW s \in Seq(S), NEW m \in S, NEW A, NEW V, m \in A, m \in V
  PROVE  LastIn(Append(s, m), A, V)
<1> DEFINE t == Append(s, m)
<1>1. t \in Seq(S) /\ Len(t) = Len(s) + 1 /\ t[Len(s) + 1] = m
  OBVIOUS
<1>2. Len(s) \in Nat /\ DOMAIN t = 1 .. (Len(s) + 1)
  BY <1>1
<1> HIDE DEF t
<1>3. LastIn(t, A, V)
  BY <1>1, <1>2 DEF LastIn
<1> QED
  BY <1>3 DEF t

\* The first message is taken off.
LEMMA TailOf ==
  ASSUME NEW S, NEW s \in Seq(S), s # <<>>, NEW A, NEW V
  PROVE  /\ NoneIn(s, A) <=> (NoneIn(Tail(s), A) /\ Head(s) \notin A)
         /\ LastIn(s, A, V) =>
              \/ LastIn(Tail(s), A, V)
              \/ NoneIn(Tail(s), A) /\ Head(s) \in A /\ Head(s) \in V
<1> DEFINE t == Tail(s)
<1>1. /\ t \in Seq(S) /\ Len(t) = Len(s) - 1 /\ Head(s) = s[1]
      /\ \A i \in 1 .. Len(t) : t[i] = s[i + 1]
  OBVIOUS
<1>2. DOMAIN s = 1 .. Len(s) /\ Len(s) \in Nat \ {0} /\ DOMAIN t = 1 .. (Len(s) - 1)
  BY <1>1
<1> HIDE DEF t
<1>3. \A i \in DOMAIN s : i = 1 \/ ((i - 1) \in DOMAIN t /\ t[i - 1] = s[i])
  BY <1>1, <1>2
<1>4. \A i \in DOMAIN t : (i + 1) \in DOMAIN s /\ t[i] = s[i + 1] /\ i + 1 # 1
  BY <1>1, <1>2
<1>5. 1 \in DOMAIN s
  BY <1>2
<1>6. NoneIn(s, A) <=> (NoneIn(t, A) /\ Head(s) \notin A)
  BY <1>1, <1>3, <1>4, <1>5 DEF NoneIn
<1>7. ASSUME LastIn(s, A, V)
      PROVE  LastIn(t, A, V) \/ (NoneIn(t, A) /\ Head(s) \in A /\ Head(s) \in V)
  <2>1. PICK i \in DOMAIN s : s[i] \in V /\ s[i] \in A /\ \A j \in DOMAIN s : j > i => s[j] \notin A
    BY <1>7 DEF LastIn
  <2>2. CASE i = 1
    <3>1. \A j \in DOMAIN t : t[j] \notin A
      BY <1>1, <1>2, <2>1, <2>2
    <3> QED
      BY <1>1, <2>1, <2>2, <3>1 DEF NoneIn
  <2>3. CASE i # 1
    <3>1. (i - 1) \in DOMAIN t /\ t[i - 1] = s[i]
      BY <1>3, <2>3
    <3>2. \A j \in DOMAIN t : j > i - 1 => t[j] \notin A
      BY <1>1, <1>2, <2>1
    <3> QED
      BY <2>1, <3>1, <3>2 DEF LastIn
  <2> QED
    BY <2>2, <2>3
<1> QED
  BY <1>6, <1>7 DEF t

LEMMA EmptyHasNone ==
  ASSUME NEW A, NEW V
  PROVE  NoneIn(<<>>, A) /\ ~LastIn(<<>>, A, V)
  BY DEF NoneIn, LastIn

\* A set of positions has a last one.
LEMMA HasLast ==
  ASSUME NEW n \in Nat, NEW T, T \subseteq 1 .. n, T # {}
  PROVE  \E i \in T : \A j \in T : j <= i
<1> DEFINE R == OpToRel(<, Nat)
           U == {n - i : i \in T}
<1>1. IsWellFoundedOn(R, Nat)
  BY NatLessThanWellFounded
<1>2. U \subseteq Nat /\ U # {}
  <2>1. \A i \in T : n - i \in Nat
    OBVIOUS
  <2>2. \A x \in U : x \in Nat
    BY <2>1
  <2>3. PICK i \in T : TRUE
    OBVIOUS
  <2>4. n - i \in U
    OBVIOUS
  <2> QED
    BY <2>2, <2>4
<1>3. \A x, y \in Nat : x < y => <<x, y>> \in R
  BY DEF OpToRel
<1> HIDE DEF R, U
<1>4. PICK x \in U : \A y \in U : ~(<<y, x>> \in R)
  BY <1>1, <1>2, WFMin
<1>5. \A y \in U : ~(y < x)
  BY <1>2, <1>3, <1>4
<1>6. PICK i \in T : x = n - i
  BY <1>4 DEF U
<1>7. \A j \in T : n - j \in U
  BY DEF U
<1> QED
  BY <1>5, <1>6, <1>7

\* The kinds of messages.
LEMMA Kinds ==
  ASSUME NEW m \in Messages
  PROVE  /\ m.type = "snapshot" <=> m \in Snapshots
         /\ m.type = "l2update" <=> m \in Updates
         /\ m.type = "order" <=> m \in Notices
         /\ \A l \in Levels : m \in BookOf(l) => m.type \in {"snapshot", "l2update"}
         /\ \A o \in Orders : m \in OrderOf(o) => m.type = "order"
  BY DEF Messages, Snapshots, Updates, Notices, BookOf, OrderOf

-----------------------------------------------------------------------------
(* The link. *)

LEMMA InitInv == Init => Inv
<1> SUFFICES ASSUME Init PROVE Inv
  OBVIOUS
<1> USE BookAssumption DEF Init
<1>1. LinkInv
  BY DEF LinkInit, LinkInv
<1>2. BookInv
  BY DEF LinkInit, BookInit, BookInv, NoLevels
<1>3. OrdersInv
  <2>1. /\ status \in [Orders -> Statuses] /\ listed \in [Orders -> Shown]
        /\ orderBuffer \in Seq(Notices) /\ missed \subseteq Orders
        /\ cancel \in [Orders -> [pc : {"none", "sent", "accepted", "answered"}, clicked : BOOLEAN]]
        /\ load \in Loads /\ load.pc = "none"
    BY DEF OrdersInit, Statuses, Shown, NoCancel, Loads
  <2>2. \A o \in Orders : Told(o)
    BY <2>1, EmptyHasNone DEF LinkInit, OrdersInit, Told
  <2> QED
    BY <2>1, <2>2 DEF OrdersInv
<1> QED
  BY <1>1, <1>2, <1>3 DEF Inv

\* Messages go out only over an open socket.
LEMMA LinkStep ==
  ASSUME Inv, [Next]_vars
  PROVE  LinkInv'
<1> USE DEF LinkInv
<1>0. LinkInv /\ BookInv /\ OrdersInv
  BY DEF Inv
<1>1. CASE UNCHANGED vars
  BY <1>0, <1>1 DEF vars, linkVars
<1>2. CASE LinkNext
  <2>1. CASE Reconnect
    BY <2>1 DEF Reconnect
  <2>2. CASE Opens \/ OlderOpens \/ OlderFails
    BY <1>0, <2>2 DEF Opens, OlderOpens, OlderFails
  <2>3. CASE Hide
    BY <1>0, <2>3 DEF Hide, Sent
  <2>4. CASE Show
    BY <1>0, <2>4 DEF Show, Sent
  <2> QED
    BY <1>2, <2>1, <2>2, <2>3, <2>4 DEF LinkNext
<1>3. CASE Trade
  <2>1. PICK l \in Levels, z \in Sizes :
          net' = IF "level2" \in subs
                 THEN Append(net, [type |-> "l2update", level |-> l, size |-> z]) ELSE net
    BY <1>3 DEF Trade
  <2>2. [type |-> "l2update", level |-> l, size |-> z] \in Messages
    BY DEF Messages, Updates
  <2>3. net' \in Seq(Messages) /\ ("level2" \notin subs => net' = net)
    BY <1>0, <2>1, <2>2
  <2> QED
    BY <1>0, <1>3, <2>3 DEF Trade
<1>4. CASE OnSnapshot \/ OnL2Update \/ OnOrder
  <2>1. net # <<>> /\ net' = Tail(net) /\ ws = "open" /\ UNCHANGED <<ws, reqs, subs>>
    BY <1>4 DEF OnSnapshot, OnL2Update, OnOrder
  <2>2. net' \in Seq(Messages)
    BY <1>0, <2>1
  <2> QED
    BY <1>0, <2>1, <2>2
<1>5. CASE OrderChanges
  <2>1. PICK o \in Orders, s \in Statuses \ {"none"} :
          net' = IF "order" \in subs
                 THEN Append(net, [type |-> "order", order |-> o, status |-> s]) ELSE net
    BY <1>5 DEF OrderChanges
  <2>2. [type |-> "order", order |-> o, status |-> s] \in Messages
    BY DEF Messages, Notices
  <2>3. net' \in Seq(Messages) /\ ("order" \notin subs => net' = net)
    BY <1>0, <2>1, <2>2
  <2> QED
    BY <1>0, <1>5, <2>3 DEF OrderChanges
<1>6. CASE Mount
  BY <1>0, <1>6 DEF Mount, Sent
<1>7. CASE Serve
  <2>1. ws = "open" /\ ws' = ws
    BY <1>0, <1>7 DEF Serve
  <2>2. [type |-> "snapshot", book |-> market] \in Messages
    BY <1>0 DEF BookInv, Messages, Snapshots
  <2>3. net' \in Seq(Messages)
    BY <1>0, <1>7, <2>2 DEF Serve
  <2>4. reqs' \in Seq({"subscribe", "unsubscribe"}) /\ subs' \in {{}, Channels}
    BY <1>0, <1>7 DEF Serve
  <2> QED
    BY <2>1, <2>3, <2>4
<1>8. CASE Drop
  BY <1>0, <1>8 DEF Drop, Closes
<1>9. CASE UNCHANGED linkVars
  BY <1>0, <1>9 DEF linkVars
<1> QED
  BY <1>1, <1>2, <1>3, <1>4, <1>5, <1>6, <1>7, <1>8, <1>9
  DEF Next, BookNext, OrdersNext, FlushBook, LoadReads, LoadAnswers, FlushOrders, CancelAll, Cancel,
      CancelAccepted, CancelAnswered

-----------------------------------------------------------------------------
(* The book. *)

LEMMA RawIsKey ==
  /\ \A l \in Levels : Raw(l) \in Keys /\ Raw(l)[1] = l /\ Raw(l)[2] = "sent"
  /\ \A k, l \in Levels : Raw(k) = Raw(l) <=> k = l
  /\ \A l \in Levels \ Odd : Num(l) = Raw(l)
  BY DEF Raw, Keys, Num

\* What a flush of the buffer leaves at a level whose price has one key.
LEMMA FlushedBook ==
  ASSUME BookInv, FlushBook
  PROVE  /\ book' \in [Keys -> Sizes]
         /\ \A l \in Levels \ Odd :
              /\ NoneIn(bookBuffer, BookOf(l)) => book'[Raw(l)] = book[Raw(l)]
              /\ \A z \in Sizes : LastIn(bookBuffer, BookOf(l), BookAs(l, z)) => book'[Raw(l)] = z
<1> DEFINE at(k) == {i \in DOMAIN bookBuffer : Raw(bookBuffer[i].level) = k}
           last(k) == CHOOSE i \in at(k) : \A j \in at(k) : j <= i
<1>1. PICK b \in Rekeyed : book' = Changed(b)
  BY DEF FlushBook
<1>2. b \in [Keys -> Sizes]
  BY <1>1 DEF Rekeyed
<1>3. /\ bookBuffer \in Seq(Updates) /\ Len(bookBuffer) \in Nat
      /\ DOMAIN bookBuffer = 1 .. Len(bookBuffer)
      /\ \A i \in DOMAIN bookBuffer : bookBuffer[i] \in Updates
  BY DEF BookInv
<1>4. \A k \in Keys : at(k) # {} => last(k) \in at(k) /\ \A j \in at(k) : j <= last(k)
  <2> SUFFICES ASSUME NEW k \in Keys, at(k) # {}
               PROVE  last(k) \in at(k) /\ \A j \in at(k) : j <= last(k)
    OBVIOUS
  <2>1. at(k) \subseteq 1 .. Len(bookBuffer)
    BY <1>3
  <2>2. \E i \in at(k) : \A j \in at(k) : j <= i
    BY <1>3, <2>1, HasLast
  <2> QED
    BY <2>2
<1>5. book' = [k \in Keys |-> IF at(k) = {} THEN b[k] ELSE bookBuffer[last(k)].size]
  BY <1>1 DEF Changed
<1>6. book' \in [Keys -> Sizes]
  <2>1. \A k \in Keys : at(k) # {} => bookBuffer[last(k)].size \in Sizes
    BY <1>3, <1>4 DEF Updates, at
  <2> HIDE DEF at, last
  <2> QED
    BY <1>2, <1>5, <2>1
<1>7. ASSUME NEW l \in Levels \ Odd
      PROVE  /\ NoneIn(bookBuffer, BookOf(l)) => book'[Raw(l)] = book[Raw(l)]
             /\ \A z \in Sizes : LastIn(bookBuffer, BookOf(l), BookAs(l, z)) => book'[Raw(l)] = z
  <2>1. \A i \in DOMAIN bookBuffer : bookBuffer[i] \in BookOf(l) <=> i \in at(Raw(l))
    <3> SUFFICES ASSUME NEW i \in DOMAIN bookBuffer
                 PROVE  bookBuffer[i] \in BookOf(l) <=> i \in at(Raw(l))
      OBVIOUS
    <3>1. bookBuffer[i] \in Updates /\ bookBuffer[i].level \in Levels
      BY <1>3 DEF Updates
    <3>2. bookBuffer[i] \in BookOf(l) <=> bookBuffer[i].level = l
      BY <3>1 DEF BookOf, Snapshots, Updates
    <3> QED
      BY <3>1, <3>2, RawIsKey
  <2>2. Raw(l) \in Keys /\ at(Raw(l)) \subseteq DOMAIN bookBuffer
    BY RawIsKey
  <2>3. b[Raw(l)] = book[Raw(l)]
    <3>1. LET found == {book[Num(l)], book[Raw(l)]} \ {0} IN
            IF found = {} THEN b[Num(l)] = 0 ELSE b[Num(l)] \in found
      BY <1>1 DEF Rekeyed
    <3> QED
      BY <3>1, RawIsKey
  <2> HIDE DEF at, last
  <2>4. NoneIn(bookBuffer, BookOf(l)) => book'[Raw(l)] = book[Raw(l)]
    BY <1>5, <2>1, <2>2, <2>3 DEF NoneIn
  <2>5. ASSUME NEW z \in Sizes, LastIn(bookBuffer, BookOf(l), BookAs(l, z))
         PROVE  book'[Raw(l)] = z
    <3>1. PICK i \in DOMAIN bookBuffer :
            /\ bookBuffer[i] \in BookAs(l, z) /\ bookBuffer[i] \in BookOf(l)
            /\ \A j \in DOMAIN bookBuffer : j > i => bookBuffer[j] \notin BookOf(l)
      BY <2>5 DEF LastIn
    <3>2. last(Raw(l)) \in at(Raw(l)) /\ i \in at(Raw(l)) /\ i <= last(Raw(l))
      BY <1>4, <2>1, <2>2, <3>1
    <3>3. last(Raw(l)) = i
      BY <1>3, <2>1, <2>2, <3>1, <3>2
    <3>4. bookBuffer[i].size = z
      BY <1>3, <3>1 DEF BookAs, Snapshots, Updates
    <3> QED
      BY <1>5, <2>2, <3>2, <3>3, <3>4
  <2> QED
    BY <2>4, <2>5
<1> QED
  BY <1>6, <1>7

\* A step that leaves the book alone, and of net at most what is not about it.
LEMMA HeardStays ==
  ASSUME NEW l, UNCHANGED bookVars,
         LastIn(net, BookOf(l), BookAs(l, market[l])) => LastIn(net', BookOf(l), BookAs(l, market[l])),
         NoneIn(net, BookOf(l)) => NoneIn(net', BookOf(l)),
         Heard(l)
  PROVE  Heard(l)'
  BY DEF Heard, bookVars

LEMMA BookStep ==
  ASSUME Inv, [Next]_vars
  PROVE  BookInv'
<1> USE BookAssumption
<1>0. LinkInv /\ BookInv /\ OrdersInv
  BY DEF Inv
<1>t. /\ net \in Seq(Messages) /\ market \in [Levels -> Sizes] /\ bookBuffer \in Seq(Updates)
      /\ "level2" \in subs => \A l \in Levels \ Odd : Heard(l)
  BY <1>0 DEF LinkInv, BookInv
<1>s. ASSUME UNCHANGED bookVars, "level2" \in subs' => \A l \in Levels \ Odd : Heard(l)'
      PROVE  BookInv'
  BY <1>0, <1>s DEF BookInv, bookVars
<1>1. CASE UNCHANGED <<bookVars, net, subs>> \/ (UNCHANGED bookVars /\ subs' = {})
  <2>1. "level2" \in subs' => \A l \in Levels \ Odd : Heard(l)'
    BY <1>1, <1>t, HeardStays
  <2> QED
    BY <1>1, <1>s, <2>1
<1>2. CASE OrderChanges /\ UNCHANGED bookVars
  <2>1. PICK o \in Orders, s \in Statuses \ {"none"} :
          net' = IF "order" \in subs
                 THEN Append(net, [type |-> "order", order |-> o, status |-> s]) ELSE net
    BY <1>2 DEF OrderChanges
  <2>2. PICK m : m = [type |-> "order", order |-> o, status |-> s]
    OBVIOUS
  <2>3. m \in Messages /\ m.type = "order"
    BY <2>2 DEF Messages, Notices
  <2>4. subs' = subs
    BY <1>2 DEF OrderChanges
  <2>5. ASSUME NEW l \in Levels \ Odd, Heard(l) PROVE Heard(l)'
    <3>1. m \notin BookOf(l)
      BY <2>3, Kinds
    <3>2. net' = net \/ net' = Append(net, m)
      BY <2>1, <2>2
    <3>3. /\ LastIn(net, BookOf(l), BookAs(l, market[l])) => LastIn(net', BookOf(l), BookAs(l, market[l]))
          /\ NoneIn(net, BookOf(l)) => NoneIn(net', BookOf(l))
      <4>1. CASE net' = net
        BY <4>1
      <4>2. CASE net' = Append(net, m)
        BY <1>t, <2>3, <3>1, <4>2, AppendOther
      <4> QED
        BY <3>2, <4>1, <4>2
    <3> QED
      BY <1>2, <2>5, <3>3, HeardStays
  <2> QED
    BY <1>2, <1>s, <1>t, <2>4, <2>5
<1>3. CASE OnOrder /\ UNCHANGED bookVars
  <2>1. net # <<>> /\ net' = Tail(net) /\ Head(net).type = "order" /\ subs' = subs
    BY <1>3 DEF OnOrder
  <2>2. Head(net) \in Messages
    BY <1>t, <2>1
  <2>3. ASSUME NEW l \in Levels \ Odd, Heard(l) PROVE Heard(l)'
    <3>1. Head(net) \notin BookOf(l)
      BY <2>1, <2>2, Kinds
    <3> QED
      BY <1>t, <1>3, <2>1, <2>3, <3>1, TailOf, HeardStays
  <2> QED
    BY <1>3, <1>s, <1>t, <2>1, <2>3
<1>4. CASE Trade
  <2>1. PICK k \in Levels, z \in Sizes :
          /\ market' = [market EXCEPT ![k] = z]
          /\ net' = IF "level2" \in subs
                    THEN Append(net, [type |-> "l2update", level |-> k, size |-> z]) ELSE net
    BY <1>4 DEF Trade
  <2>2. PICK m : m = [type |-> "l2update", level |-> k, size |-> z]
    OBVIOUS
  <2>3. m \in Updates /\ m.level = k /\ m.size = z /\ m \in Messages
    BY <2>2 DEF Messages, Updates
  <2>4. UNCHANGED <<subs, book, bookBuffer, late>> /\ market' \in [Levels -> Sizes]
    BY <1>t, <1>4, <2>1 DEF Trade
  <2>5. ASSUME NEW l \in Levels \ Odd, Heard(l), "level2" \in subs PROVE Heard(l)'
    <3>1. net' = Append(net, m)
      BY <2>1, <2>2, <2>5
    <3>2. CASE l = k
      <4>1. m \in BookOf(l) /\ m \in BookAs(l, z) /\ market'[l] = z
        BY <1>t, <2>1, <2>3, <3>2 DEF BookOf, BookAs
      <4>2. LastIn(net', BookOf(l), BookAs(l, market'[l]))
        BY <1>t, <2>3, <3>1, <4>1, AppendLast
      <4> QED
        BY <4>2 DEF Heard
    <3>3. CASE l # k
      <4>1. m \notin BookOf(l) /\ market'[l] = market[l]
        BY <1>t, <2>1, <2>3, <3>3 DEF BookOf, Snapshots, Updates
      <4>2. /\ LastIn(net, BookOf(l), BookAs(l, market[l])) => LastIn(net', BookOf(l), BookAs(l, market[l]))
            /\ NoneIn(net, BookOf(l)) => NoneIn(net', BookOf(l))
        BY <1>t, <2>3, <3>1, <4>1, AppendOther
      <4> QED
        BY <2>4, <2>5, <4>1, <4>2 DEF Heard
    <3> QED
      BY <3>2, <3>3
  <2>6. "level2" \in subs' => \A l \in Levels \ Odd : Heard(l)'
    BY <1>t, <2>4, <2>5
  <2> QED
    BY <1>0, <2>4, <2>6 DEF BookInv
<1>5. CASE Serve
  <2>1. UNCHANGED bookVars
    BY <1>5 DEF Serve
  <2>2. PICK m : m = [type |-> "snapshot", book |-> market]
    OBVIOUS
  <2>3. m \in Snapshots /\ m.book = market /\ m \in Messages
    BY <1>t, <2>2 DEF Messages, Snapshots
  <2>4. ASSUME NEW l \in Levels \ Odd, "level2" \in subs' PROVE Heard(l)'
    <3>1. CASE "level2" \in subs
      <4>1. net' = net
        BY <1>5, <3>1 DEF Serve
      <4> QED
        BY <1>t, <2>1, <3>1, <4>1, HeardStays
    <3>2. CASE "level2" \notin subs
      <4>1. net' = Append(net, m)
        BY <1>5, <2>2, <2>4, <3>2 DEF Serve
      <4>2. m \in BookOf(l) /\ m \in BookAs(l, market[l])
        BY <2>3 DEF BookOf, BookAs
      <4>3. LastIn(net', BookOf(l), BookAs(l, market[l]))
        BY <1>t, <2>3, <4>1, <4>2, AppendLast
      <4> QED
        BY <2>1, <4>3 DEF Heard, bookVars
    <3> QED
      BY <3>1, <3>2
  <2> QED
    BY <1>s, <2>1, <2>4
<1>6. CASE OnSnapshot
  <2>1. PICK m : m = Head(net)
    OBVIOUS
  <2>2. /\ net # <<>> /\ net' = Tail(net) /\ m.type = "snapshot"
        /\ book' = SetOrderBook(m) /\ late' = {bookBuffer[i].level : i \in DOMAIN bookBuffer}
        /\ UNCHANGED <<subs, market, bookBuffer>>
    BY <1>6, <2>1 DEF OnSnapshot
  <2>3. m \in Snapshots /\ m.book \in [Levels -> Sizes]
    <3>1. m \in Messages
      BY <1>t, <2>1, <2>2
    <3>2. m \in Snapshots
      BY <2>2, <3>1, Kinds
    <3> QED
      BY <3>2 DEF Snapshots
  <2>4. book' \in [Keys -> Sizes] /\ late' \subseteq Levels
    <3>1. \A k \in Keys : k[2] = "sent" => k[1] \in Levels
      BY DEF Keys, Raw, Num
    <3>2. \A k \in Keys : (IF k[2] = "sent" THEN m.book[k[1]] ELSE 0) \in Sizes
      BY <2>3, <3>1
    <3>3. \A i \in DOMAIN bookBuffer : bookBuffer[i].level \in Levels
      <4>1. \A i \in DOMAIN bookBuffer : bookBuffer[i] \in Updates
        BY <1>t
      <4> QED
        BY <4>1 DEF Updates
    <3> QED
      BY <2>2, <3>2, <3>3 DEF SetOrderBook
  <2>5. ASSUME NEW l \in Levels \ Odd, Heard(l) PROVE Heard(l)'
    <3>1. Head(net) \in BookOf(l)
      BY <2>1, <2>3 DEF BookOf
    <3>2. LastIn(net, BookOf(l), BookAs(l, market[l]))
      BY <1>t, <2>2, <2>5, <3>1, TailOf DEF Heard
    <3>3. \/ LastIn(net', BookOf(l), BookAs(l, market[l]))
          \/ NoneIn(net', BookOf(l)) /\ m \in BookAs(l, market[l])
      BY <1>t, <2>1, <2>2, <3>2, TailOf
    <3>4. ASSUME m \in BookAs(l, market[l]) PROVE book'[Raw(l)] = market[l]
      <4>1. m.book[l] = market[l]
        BY <2>3, <3>4 DEF BookAs, Snapshots, Updates
      <4> QED
        BY <2>2, <4>1, RawIsKey DEF SetOrderBook
    <3>5. l \in late' \/ NoneIn(bookBuffer, BookOf(l))
      <4>1. \A i \in DOMAIN bookBuffer : bookBuffer[i] \in BookOf(l) => bookBuffer[i].level = l
        BY <1>t DEF BookOf, Snapshots, Updates
      <4> QED
        BY <2>2, <4>1 DEF NoneIn
    <3> QED
      BY <2>2, <3>3, <3>4, <3>5 DEF Heard
  <2> QED
    BY <1>0, <1>t, <2>2, <2>4, <2>5 DEF BookInv
<1>7. CASE OnL2Update
  <2>1. PICK m : m = Head(net)
    OBVIOUS
  <2>2. /\ net # <<>> /\ net' = Tail(net) /\ m.type = "l2update"
        /\ bookBuffer' = Append(bookBuffer, m) /\ late' = late \ {m.level}
        /\ UNCHANGED <<subs, market, book>>
    BY <1>7, <2>1 DEF OnL2Update
  <2>3. m \in Updates
    <3>1. m \in Messages
      BY <1>t, <2>1, <2>2
    <3> QED
      BY <2>2, <3>1, Kinds
  <2>4. bookBuffer' \in Seq(Updates)
    BY <1>t, <2>2, <2>3
  <2>5. ASSUME NEW l \in Levels \ Odd, Heard(l) PROVE Heard(l)'
    <3>1. CASE LastIn(net, BookOf(l), BookAs(l, market[l]))
      <4>1. CASE LastIn(net', BookOf(l), BookAs(l, market[l]))
        BY <2>2, <4>1 DEF Heard
      <4>2. CASE NoneIn(net', BookOf(l)) /\ m \in BookOf(l) /\ m \in BookAs(l, market[l])
        <5>1. LastIn(bookBuffer', BookOf(l), BookAs(l, market[l]))
          BY <1>t, <2>2, <2>3, <4>2, AppendLast
        <5> QED
          BY <2>2, <4>2, <5>1 DEF Heard
      <4> QED
        BY <1>t, <2>1, <2>2, <3>1, <4>1, <4>2, TailOf
    <3>2. CASE NoneIn(net, BookOf(l))
      <4>1. NoneIn(net', BookOf(l)) /\ m \notin BookOf(l)
        BY <1>t, <2>1, <2>2, <3>2, TailOf
      <4>2. m.level # l
        BY <2>3, <4>1 DEF BookOf
      <4>3. /\ NoneIn(bookBuffer, BookOf(l)) => NoneIn(bookBuffer', BookOf(l))
            /\ LastIn(bookBuffer, BookOf(l), BookAs(l, market[l]))
                 => LastIn(bookBuffer', BookOf(l), BookAs(l, market[l]))
        BY <1>t, <2>2, <2>3, <4>1, AppendOther
      <4>4. ~LastIn(net, BookOf(l), BookAs(l, market[l]))
        BY <3>2 DEF LastIn, NoneIn
      <4> QED
        BY <2>2, <2>5, <4>1, <4>2, <4>3, <4>4 DEF Heard
    <3> QED
      BY <2>5, <3>1, <3>2 DEF Heard
  <2> QED
    BY <1>0, <1>t, <2>2, <2>4, <2>5 DEF BookInv
<1>8. CASE FlushBook
  <2>1. bookBuffer' = <<>> /\ UNCHANGED <<net, subs, market, late>>
    BY <1>8 DEF FlushBook, linkVars
  <2>2. book' \in [Keys -> Sizes]
    BY <1>0, <1>8, FlushedBook
  <2>3. ASSUME NEW l \in Levels \ Odd, Heard(l) PROVE Heard(l)'
    <3>1. market[l] \in Sizes
      BY <1>t
    <3>2. /\ NoneIn(bookBuffer, BookOf(l)) => book'[Raw(l)] = book[Raw(l)]
          /\ LastIn(bookBuffer, BookOf(l), BookAs(l, market[l])) => book'[Raw(l)] = market[l]
      BY <1>0, <1>8, <3>1, FlushedBook
    <3>3. NoneIn(bookBuffer', BookOf(l))
      BY <2>1, EmptyHasNone
    <3> QED
      BY <2>1, <2>3, <3>2, <3>3 DEF Heard
  <2> QED
    BY <1>0, <1>t, <2>1, <2>2, <2>3 DEF BookInv
<1>9. CASE LinkNext /\ UNCHANGED bookVars
  <2>1. UNCHANGED <<net, subs>> \/ subs' = {}
    BY <1>9 DEF LinkNext, Reconnect, Opens, OlderOpens, OlderFails, Hide, Show
  <2> QED
    BY <1>1, <1>9, <2>1
<1>10. CASE Mount \/ Drop \/ UNCHANGED vars \/ (OrdersNext /\ ~OrderChanges /\ ~OnOrder /\ UNCHANGED bookVars)
  <2>1. UNCHANGED bookVars /\ (UNCHANGED <<net, subs>> \/ subs' = {})
    BY <1>10 DEF Mount, Drop, Closes, vars, linkVars, OrdersNext, LoadReads, LoadAnswers, FlushOrders,
      CancelAll, Cancel, CancelAccepted, CancelAnswered
  <2> QED
    BY <1>1, <2>1
<1> QED
  BY <1>2, <1>3, <1>4, <1>5, <1>6, <1>7, <1>8, <1>9, <1>10 DEF Next, BookNext

-----------------------------------------------------------------------------
(* The orders. *)

\* The orders that have a message in s.
LEMMA OrderMsgsAre ==
  ASSUME NEW s, \A i \in DOMAIN s : s[i] \in Messages, NEW o \in Orders
  PROVE  o \in OrderMsgs(s) <=> ~NoneIn(s, OrderOf(o))
<1>1. \A i \in DOMAIN s : s[i] \in OrderOf(o) <=> s[i].type = "order" /\ s[i].order = o
  <2> SUFFICES ASSUME NEW i \in DOMAIN s
               PROVE  s[i] \in OrderOf(o) <=> s[i].type = "order" /\ s[i].order = o
    OBVIOUS
  <2>1. s[i] \in Messages
    OBVIOUS
  <2>2. s[i].type = "order" <=> s[i] \in Notices
    BY <2>1, Kinds
  <2> QED
    BY <2>2 DEF OrderOf
<1> QED
  BY <1>1 DEF OrderMsgs, NoneIn

LEMMA ComingIs ==
  ASSUME Inv, NEW o \in Orders
  PROVE  o \in Coming <=> ~(NoneIn(net, OrderOf(o)) /\ NoneIn(orderBuffer, OrderOf(o)))
<1>1. \A i \in DOMAIN net : net[i] \in Messages
  BY DEF Inv, LinkInv
<1>2. \A i \in DOMAIN orderBuffer : orderBuffer[i] \in Messages
  <2>1. \A i \in DOMAIN orderBuffer : orderBuffer[i] \in Notices
    BY DEF Inv, OrdersInv
  <2> QED
    BY <2>1 DEF Messages
<1>3. o \in OrderMsgs(net) <=> ~NoneIn(net, OrderOf(o))
  BY <1>1, OrderMsgsAre
<1>4. o \in OrderMsgs(orderBuffer) <=> ~NoneIn(orderBuffer, OrderOf(o))
  BY <1>2, OrderMsgsAre
<1> QED
  BY <1>3, <1>4 DEF Coming

\* What a flush of the buffer leaves of the list.
LEMMA FlushedOrders ==
  ASSUME OrdersInv, FlushOrders
  PROVE  /\ listed' \in [Orders -> Shown]
         /\ \A o \in Orders :
              /\ NoneIn(orderBuffer, OrderOf(o)) => listed'[o] = listed[o]
              /\ \A s \in Statuses : LastIn(orderBuffer, OrderOf(o), OrderAs(o, s)) => listed'[o] = s
<1> DEFINE at(o) == {i \in DOMAIN orderBuffer : orderBuffer[i].order = o}
           last(o) == CHOOSE i \in at(o) : \A j \in at(o) : j <= i
<1>1. /\ orderBuffer \in Seq(Notices) /\ Len(orderBuffer) \in Nat
      /\ DOMAIN orderBuffer = 1 .. Len(orderBuffer)
      /\ \A i \in DOMAIN orderBuffer : orderBuffer[i] \in Notices
      /\ listed \in [Orders -> Shown]
  BY DEF OrdersInv
<1>2. \A o \in Orders : at(o) # {} => last(o) \in at(o) /\ \A j \in at(o) : j <= last(o)
  <2> SUFFICES ASSUME NEW o \in Orders, at(o) # {}
               PROVE  last(o) \in at(o) /\ \A j \in at(o) : j <= last(o)
    OBVIOUS
  <2>1. at(o) \subseteq 1 .. Len(orderBuffer)
    BY <1>1
  <2>2. \E i \in at(o) : \A j \in at(o) : j <= i
    BY <1>1, <2>1, HasLast
  <2> QED
    BY <2>2
<1>3. listed' = [o \in Orders |-> IF at(o) = {} THEN listed[o] ELSE orderBuffer[last(o)].status]
  BY DEF FlushOrders, Update
<1>4. \A o \in Orders : \A i \in DOMAIN orderBuffer : orderBuffer[i] \in OrderOf(o) <=> i \in at(o)
  BY <1>1 DEF OrderOf
<1>5. \A o \in Orders : at(o) \subseteq DOMAIN orderBuffer
  OBVIOUS
<1> HIDE DEF at, last
<1>6. listed' \in [Orders -> Shown]
  <2>1. \A o \in Orders : at(o) # {} => orderBuffer[last(o)].status \in Shown
    BY <1>1, <1>2, <1>5 DEF Notices, Statuses, Shown
  <2> QED
    BY <1>1, <1>3, <2>1
<1>7. ASSUME NEW o \in Orders, NoneIn(orderBuffer, OrderOf(o))
      PROVE  listed'[o] = listed[o]
  BY <1>3, <1>4, <1>5, <1>7 DEF NoneIn
<1>8. ASSUME NEW o \in Orders, NEW s \in Statuses, LastIn(orderBuffer, OrderOf(o), OrderAs(o, s))
      PROVE  listed'[o] = s
  <2>1. PICK i \in DOMAIN orderBuffer :
          /\ orderBuffer[i] \in OrderAs(o, s) /\ orderBuffer[i] \in OrderOf(o)
          /\ \A j \in DOMAIN orderBuffer : j > i => orderBuffer[j] \notin OrderOf(o)
    BY <1>8 DEF LastIn
  <2>2. last(o) \in at(o) /\ i \in at(o) /\ i <= last(o)
    BY <1>2, <1>4, <2>1
  <2>3. last(o) = i
    BY <1>1, <1>4, <1>5, <2>1, <2>2
  <2>4. orderBuffer[i].status = s
    BY <2>1 DEF OrderAs
  <2> QED
    BY <1>3, <2>2, <2>3, <2>4
<1> QED
  BY <1>6, <1>7, <1>8

\* A step after which net has the same to say about an order as before, and that leaves
\* the order and its place in the list alone.
LEMMA ToldStays ==
  ASSUME NEW o, Told(o), UNCHANGED orderBuffer,
         status'[o] = status[o], listed'[o] = listed[o],
         load'.pc = "done" => load.pc = "done",
         LastIn(net, OrderOf(o), OrderAs(o, status[o])) => LastIn(net', OrderOf(o), OrderAs(o, status[o])),
         NoneIn(net, OrderOf(o)) <=> NoneIn(net', OrderOf(o))
  PROVE  Told(o)'
  BY DEF Told, ShownRight

\* The messages about the book have nothing to do with the orders.
LEMMA OrdersStayUnderBook ==
  ASSUME Inv, UNCHANGED orderVars,
         \/ net' = net
         \/ \E m \in Snapshots \cup Updates : net' = Append(net, m)
         \/ net # <<>> /\ net' = Tail(net) /\ Head(net) \in Snapshots \cup Updates
  PROVE  OrdersInv'
<1>1. net \in Seq(Messages) /\ OrdersInv
  BY DEF Inv, LinkInv
<1>2. ASSUME NEW o \in Orders \ missed
      PROVE  Told(o)'
  <2>1. \A m \in Snapshots \cup Updates : m \in Messages /\ m \notin OrderOf(o)
    BY DEF OrderOf, Snapshots, Updates, Notices, Messages
  <2>2. /\ LastIn(net, OrderOf(o), OrderAs(o, status[o])) => LastIn(net', OrderOf(o), OrderAs(o, status[o]))
        /\ NoneIn(net, OrderOf(o)) <=> NoneIn(net', OrderOf(o))
    <3>1. CASE net' = net
      BY <3>1
    <3>2. ASSUME NEW m \in Snapshots \cup Updates, net' = Append(net, m) PROVE <2>2!1 /\ <2>2!2
      BY <1>1, <2>1, <3>2, AppendOther
    <3>3. CASE net # <<>> /\ net' = Tail(net) /\ Head(net) \in Snapshots \cup Updates
      BY <1>1, <2>1, <3>3, TailOf
    <3> QED
      BY <3>1, <3>2, <3>3
  <2>3. Told(o)
    BY <1>1 DEF OrdersInv
  <2> QED
    BY <2>2, <2>3, ToldStays DEF orderVars
<1> QED
  BY <1>1, <1>2 DEF OrdersInv, orderVars

\* An order changes at the exchange.
LEMMA OrdersUnderChange ==
  ASSUME Inv, OrderChanges
  PROVE  OrdersInv'
<1>1. net \in Seq(Messages) /\ OrdersInv
  BY DEF Inv, LinkInv
<1>2. PICK q \in Orders, s \in Statuses \ {"none"} :
        /\ status' = [status EXCEPT ![q] = s]
        /\ net' = IF "order" \in subs
                  THEN Append(net, [type |-> "order", order |-> q, status |-> s]) ELSE net
        /\ load' = IF load.pc = "read" THEN [load EXCEPT !.since = @ \cup {q}] ELSE load
        /\ missed' = IF "order" \in subs THEN missed \ {q} ELSE missed \cup {q}
  BY DEF OrderChanges
<1>3. PICK m : m = [type |-> "order", order |-> q, status |-> s]
  OBVIOUS
<1>4. m \in Notices /\ m \in Messages /\ m.order = q /\ m.status = s
  BY <1>3 DEF Notices, Messages
<1>5. UNCHANGED <<listed, orderBuffer, cancel>>
  BY DEF OrderChanges
<1>6. status' \in [Orders -> Statuses] /\ status'[q] = s /\ \A o \in Orders \ {q} : status'[o] = status[o]
  BY <1>1, <1>2 DEF OrdersInv
<1>7. /\ load' \in Loads /\ load'.pc = load.pc /\ load'.open = load.open
      /\ load.since \subseteq load'.since /\ (load.pc = "read" => q \in load'.since)
  BY <1>1, <1>2 DEF OrdersInv, Loads
<1>8. ASSUME NEW o \in Orders \ missed'
      PROVE  Told(o)'
  <2>1. CASE o = q
    <3>1. net' = Append(net, m)
      BY <1>2, <1>3, <1>8, <2>1
    <3>2. m \in OrderOf(o) /\ m \in OrderAs(o, status'[o])
      BY <1>4, <1>6, <2>1 DEF OrderOf, OrderAs
    <3>3. LastIn(net', OrderOf(o), OrderAs(o, status'[o]))
      BY <1>1, <1>4, <3>1, <3>2, AppendLast
    <3>4. ~NoneIn(net', OrderOf(o))
      BY <3>3 DEF LastIn, NoneIn
    <3> QED
      BY <3>3, <3>4 DEF Told
  <2>2. CASE o # q
    <3>1. Told(o) /\ status'[o] = status[o]
      BY <1>1, <1>2, <1>6, <1>8, <2>2 DEF OrdersInv
    <3>2. m \notin OrderOf(o)
      BY <1>4, <2>2 DEF OrderOf
    <3>3. net' = net \/ net' = Append(net, m)
      BY <1>2, <1>3
    <3>4. /\ LastIn(net, OrderOf(o), OrderAs(o, status[o])) => LastIn(net', OrderOf(o), OrderAs(o, status[o]))
          /\ NoneIn(net, OrderOf(o)) <=> NoneIn(net', OrderOf(o))
      BY <1>1, <1>4, <3>2, <3>3, AppendOther
    <3> QED
      BY <1>5, <1>7, <3>1, <3>4, ToldStays
  <2> QED
    BY <2>1, <2>2
<1>9. load'.pc = "read" => \A o \in Orders \ load'.since : o \in load'.open <=> status'[o] = "open"
  BY <1>1, <1>6, <1>7 DEF OrdersInv
<1>10. missed' \subseteq Orders
  BY <1>1, <1>2 DEF OrdersInv
<1> QED
  BY <1>1, <1>5, <1>6, <1>7, <1>8, <1>9, <1>10 DEF OrdersInv

\* The list is loaded: the request is made, reads the orders, and is answered.
LEMMA OrdersUnderLoad ==
  ASSUME Inv, Mount \/ LoadReads \/ LoadAnswers
  PROVE  OrdersInv'
<1>1. OrdersInv
  BY DEF Inv
<1>2. CASE Mount
  <2>1. UNCHANGED <<net, status, listed, orderBuffer, cancel, missed>>
    BY <1>2 DEF Mount
  <2>2. load' = load \/ (load' \in Loads /\ load'.pc = "sent")
    BY <1>1, <1>2 DEF Mount, OrdersInv, Loads
  <2>3. \A o \in Orders \ missed : Told(o)'
    BY <1>1, <2>1, <2>2, ToldStays DEF OrdersInv
  <2>4. load' \in Loads /\ (load'.pc = "read" => load' = load)
    BY <1>1, <2>2 DEF OrdersInv
  <2> QED
    BY <1>1, <2>1, <2>3, <2>4 DEF OrdersInv
<1>3. CASE LoadReads
  <2>1. /\ UNCHANGED <<net, status, listed, orderBuffer, cancel>> /\ missed' = missed \cap Coming
        /\ load' = [pc |-> "read", open |-> {o \in Orders : status[o] = "open"}, since |-> {}]
    BY <1>3 DEF LoadReads, linkVars
  <2>2. load' \in Loads /\ load'.pc = "read" /\ \A o \in Orders : o \in load'.open <=> status[o] = "open"
    BY <2>1 DEF Loads
  <2>3. ASSUME NEW o \in Orders \ missed'
        PROVE  Told(o)'
    <3>1. CASE o \notin missed
      BY <1>1, <2>1, <2>2, <3>1, ToldStays DEF OrdersInv
    <3>2. CASE o \notin Coming
      <4>1. NoneIn(net, OrderOf(o)) /\ NoneIn(orderBuffer, OrderOf(o))
        BY <3>2, ComingIs
      <4> QED
        BY <2>1, <2>2, <4>1 DEF Told
    <3> QED
      BY <2>1, <2>3, <3>1, <3>2
  <2> QED
    BY <1>1, <2>1, <2>2, <2>3 DEF OrdersInv
<1>4. CASE LoadAnswers
  <2>1. /\ UNCHANGED <<net, status, orderBuffer>> /\ missed' = missed \cup (load.since \ Coming)
        /\ listed' = [o \in Orders |-> IF o \in load.open THEN "open" ELSE "absent"]
        /\ load.pc = "read" /\ load' = [load EXCEPT !.pc = "done"]
        /\ cancel' = [o \in Orders |-> [cancel[o] EXCEPT !.clicked = FALSE]]
    BY <1>4 DEF LoadAnswers, linkVars
  <2>2. load' \in Loads /\ load'.pc = "done" /\ load.since \subseteq Orders
    BY <1>1, <2>1 DEF OrdersInv, Loads
  <2>3. cancel' \in [Orders -> [pc : {"none", "sent", "accepted", "answered"}, clicked : BOOLEAN]]
    BY <1>1, <2>1 DEF OrdersInv
  <2>4. listed' \in [Orders -> Shown]
    BY <2>1 DEF Shown
  <2>5. ASSUME NEW o \in Orders \ missed'
        PROVE  Told(o)'
    <3>1. Told(o)
      BY <1>1, <2>1, <2>5 DEF OrdersInv
    <3>2. ASSUME NoneIn(net, OrderOf(o)), NoneIn(orderBuffer, OrderOf(o))
          PROVE  ShownRight(o)'
      <4>1. o \notin load.since
        BY <2>1, <2>5, <3>2, ComingIs
      <4>2. o \in load.open <=> status[o] = "open"
        BY <1>1, <2>1, <4>1 DEF OrdersInv
      <4> QED
        BY <2>1, <4>2 DEF ShownRight
    <3> QED
      BY <2>1, <3>1, <3>2 DEF Told
  <2> QED
    BY <1>1, <2>1, <2>2, <2>3, <2>4, <2>5 DEF OrdersInv
<1> QED
  BY <1>2, <1>3, <1>4

\* Messages about orders come in and are applied.
LEMMA OrdersUnderMessages ==
  ASSUME Inv, OnOrder \/ FlushOrders
  PROVE  OrdersInv'
<1>1. OrdersInv /\ net \in Seq(Messages) /\ orderBuffer \in Seq(Notices)
  BY DEF Inv, LinkInv, OrdersInv
<1>2. CASE OnOrder
  <2>1. PICK m : m = Head(net)
    OBVIOUS
  <2>2. /\ net # <<>> /\ net' = Tail(net) /\ m.type = "order" /\ orderBuffer' = Append(orderBuffer, m)
        /\ UNCHANGED <<status, listed, load, cancel, missed>>
    BY <1>2, <2>1 DEF OnOrder
  <2>3. m \in Notices
    <3>1. m \in Messages
      BY <1>1, <2>1, <2>2
    <3> QED
      BY <2>2, <3>1, Kinds
  <2>4. orderBuffer' \in Seq(Notices)
    BY <1>1, <2>2, <2>3
  <2>5. ASSUME NEW o \in Orders \ missed
        PROVE  Told(o)'
    <3>1. Told(o)
      BY <1>1 DEF OrdersInv
    <3>2. CASE m \in OrderOf(o)
      <4>1. ~NoneIn(net, OrderOf(o))
        BY <1>1, <2>1, <2>2, <3>2, TailOf
      <4>2. \/ LastIn(net', OrderOf(o), OrderAs(o, status[o]))
            \/ NoneIn(net', OrderOf(o)) /\ m \in OrderAs(o, status[o])
        BY <1>1, <2>1, <2>2, <3>1, <4>1, TailOf DEF Told
      <4>3. CASE LastIn(net', OrderOf(o), OrderAs(o, status[o]))
        <5>1. ~NoneIn(net', OrderOf(o))
          BY <4>3 DEF LastIn, NoneIn
        <5> QED
          BY <2>2, <4>3, <5>1 DEF Told
      <4>4. CASE NoneIn(net', OrderOf(o)) /\ m \in OrderAs(o, status[o])
        <5>1. LastIn(orderBuffer', OrderOf(o), OrderAs(o, status[o]))
          BY <1>1, <2>2, <2>3, <3>2, <4>4, AppendLast
        <5>2. ~NoneIn(orderBuffer', OrderOf(o))
          BY <5>1 DEF LastIn, NoneIn
        <5> QED
          BY <2>2, <4>4, <5>1, <5>2 DEF Told
      <4> QED
        BY <4>2, <4>3, <4>4
    <3>3. CASE m \notin OrderOf(o)
      <4>1. /\ NoneIn(net, OrderOf(o)) <=> NoneIn(net', OrderOf(o))
            /\ LastIn(net, OrderOf(o), OrderAs(o, status[o])) => LastIn(net', OrderOf(o), OrderAs(o, status[o]))
        BY <1>1, <2>1, <2>2, <3>3, TailOf
      <4>2. /\ NoneIn(orderBuffer, OrderOf(o)) <=> NoneIn(orderBuffer', OrderOf(o))
            /\ LastIn(orderBuffer, OrderOf(o), OrderAs(o, status[o]))
                 => LastIn(orderBuffer', OrderOf(o), OrderAs(o, status[o]))
        BY <1>1, <2>2, <2>3, <3>3, AppendOther
      <4> QED
        BY <2>2, <3>1, <4>1, <4>2 DEF Told, ShownRight
    <3> QED
      BY <3>2, <3>3
  <2> QED
    BY <1>1, <2>2, <2>4, <2>5 DEF OrdersInv
<1>3. CASE FlushOrders
  <2>1. orderBuffer' = <<>> /\ UNCHANGED <<net, status, load, cancel, missed>>
    BY <1>3 DEF FlushOrders, linkVars
  <2>2. listed' \in [Orders -> Shown]
    BY <1>1, <1>3, FlushedOrders
  <2>3. ASSUME NEW o \in Orders \ missed
        PROVE  Told(o)'
    <3>1. Told(o) /\ status[o] \in Statuses
      BY <1>1 DEF OrdersInv
    <3>2. NoneIn(orderBuffer', OrderOf(o))
      BY <2>1, EmptyHasNone
    <3>3. /\ NoneIn(orderBuffer, OrderOf(o)) => listed'[o] = listed[o]
          /\ LastIn(orderBuffer, OrderOf(o), OrderAs(o, status[o])) => listed'[o] = status[o]
      BY <1>1, <1>3, <3>1, FlushedOrders
    <3> QED
      BY <2>1, <3>1, <3>2, <3>3 DEF Told, ShownRight
  <2> QED
    BY <1>1, <2>1, <2>2, <2>3 DEF OrdersInv
<1> QED
  BY <1>2, <1>3

\* Orders are cancelled from the page.
LEMMA OrdersUnderCancel ==
  ASSUME Inv, CancelAll \/ \E o \in Orders : Cancel(o) \/ CancelAccepted(o) \/ CancelAnswered(o)
  PROVE  OrdersInv'
<1> DEFINE Cancels == [pc : {"none", "sent", "accepted", "answered"}, clicked : BOOLEAN]
<1>1. OrdersInv
  BY DEF Inv
<1>2. UNCHANGED <<net, status, orderBuffer, load>>
  BY DEF CancelAll, Cancel, CancelAccepted, CancelAnswered, linkVars
<1>t. status \in [Orders -> Statuses] /\ listed \in [Orders -> Shown] /\ cancel \in [Orders -> Cancels]
  BY <1>1 DEF OrdersInv
<1>s. ASSUME listed' \in [Orders -> Shown], cancel' \in [Orders -> Cancels], missed' \subseteq Orders,
             missed \subseteq missed',
             \A o \in Orders \ missed' :
               \/ listed'[o] = listed[o]
               \/ listed[o] = "open" /\ listed'[o] = "canceling"
               \/ o \in Coming
      PROVE  OrdersInv'
  <2>1. ASSUME NEW o \in Orders \ missed'
        PROVE  Told(o)'
    <3>1. Told(o)
      BY <1>1, <1>s, <2>1 DEF OrdersInv
    <3>2. ASSUME NoneIn(net, OrderOf(o)), NoneIn(orderBuffer, OrderOf(o)), ShownRight(o)
          PROVE  ShownRight(o)'
      <4>1. o \notin Coming
        BY <3>2, ComingIs
      <4> QED
        BY <1>2, <1>s, <2>1, <3>2, <4>1 DEF ShownRight
    <3> QED
      BY <1>2, <3>1, <3>2 DEF Told
  <2> QED
    BY <1>1, <1>2, <1>s, <2>1 DEF OrdersInv
<1>3. CASE CancelAll
  <2>1. \A o \in Orders : listed'[o] = IF listed[o] = "open" THEN "canceling" ELSE listed[o]
    BY <1>3 DEF CancelAll
  <2>2. listed' \in [Orders -> Shown]
    BY <1>t, <1>3 DEF CancelAll, Shown
  <2>3. cancel' \in [Orders -> Cancels]
    <3>1. [NoCancel EXCEPT !.pc = "sent"] \in Cancels
      BY DEF NoCancel
    <3> QED
      BY <1>t, <1>3, <3>1 DEF CancelAll
  <2>4. missed' = missed
    BY <1>3 DEF CancelAll
  <2>5. missed' \subseteq Orders
    BY <1>1, <2>4 DEF OrdersInv
  <2>6. \A o \in Orders : listed'[o] = listed[o] \/ (listed[o] = "open" /\ listed'[o] = "canceling")
    BY <2>1
  <2> HIDE DEF Cancels
  <2> QED
    BY <1>s, <2>2, <2>3, <2>4, <2>5, <2>6
<1>4. ASSUME NEW q \in Orders, Cancel(q)
      PROVE  OrdersInv'
  <2>1. /\ listed[q] = "open" /\ listed' = [listed EXCEPT ![q] = "canceling"]
        /\ cancel' = [cancel EXCEPT ![q] = [pc |-> "sent", clicked |-> TRUE]] /\ missed' = missed
    BY <1>4 DEF Cancel
  <2>2. listed' \in [Orders -> Shown]
    BY <1>t, <2>1 DEF Shown
  <2>3. cancel' \in [Orders -> Cancels]
    BY <1>t, <2>1
  <2>4. \A o \in Orders : listed'[o] = listed[o] \/ (listed[o] = "open" /\ listed'[o] = "canceling")
    BY <1>t, <2>1
  <2>5. missed' \subseteq Orders
    BY <1>1, <2>1 DEF OrdersInv
  <2> HIDE DEF Cancels
  <2> QED
    BY <1>s, <2>1, <2>2, <2>3, <2>4, <2>5
<1>5. ASSUME NEW q \in Orders, CancelAccepted(q)
      PROVE  OrdersInv'
  <2>1. cancel' = [cancel EXCEPT ![q].pc = "accepted"] /\ UNCHANGED <<listed, missed>>
    BY <1>5 DEF CancelAccepted
  <2>2. cancel' \in [Orders -> Cancels]
    BY <1>t, <2>1
  <2>3. missed' \subseteq Orders
    BY <1>1, <2>1 DEF OrdersInv
  <2> HIDE DEF Cancels
  <2> QED
    BY <1>s, <1>t, <2>1, <2>2, <2>3
<1>6. ASSUME NEW q \in Orders, CancelAnswered(q)
      PROVE  OrdersInv'
  <2>1. cancel' = [cancel EXCEPT ![q].pc = "answered"]
    BY <1>6 DEF CancelAnswered
  <2>2. \/ /\ listed' = [listed EXCEPT ![q] = "cancelled"]
           /\ missed' = IF q \in Coming THEN missed ELSE missed \cup {q}
        \/ UNCHANGED <<listed, missed>>
    BY <1>6 DEF CancelAnswered
  <2>3. cancel' \in [Orders -> Cancels]
    BY <1>t, <2>1
  <2>4. listed' \in [Orders -> Shown]
    BY <1>t, <2>2 DEF Shown
  <2>5. missed' \subseteq Orders /\ missed \subseteq missed'
    BY <1>1, <2>2 DEF OrdersInv
  <2>6. \A o \in Orders \ missed' : listed'[o] = listed[o] \/ o \in Coming
    BY <1>t, <2>2
  <2> HIDE DEF Cancels
  <2> QED
    BY <1>s, <2>3, <2>4, <2>5, <2>6
<1> QED
  BY <1>3, <1>4, <1>5, <1>6

LEMMA OrdersStep ==
  ASSUME Inv, [Next]_vars
  PROVE  OrdersInv'
<1>1. LinkInv /\ BookInv /\ OrdersInv /\ net \in Seq(Messages)
  BY DEF Inv, LinkInv
<1>2. CASE Mount \/ LoadReads \/ LoadAnswers
  BY <1>2, OrdersUnderLoad
<1>3. CASE OnOrder \/ FlushOrders
  BY <1>3, OrdersUnderMessages
<1>4. CASE OrderChanges
  BY <1>4, OrdersUnderChange
<1>5. CASE CancelAll \/ \E o \in Orders : Cancel(o) \/ CancelAccepted(o) \/ CancelAnswered(o)
  BY <1>5, OrdersUnderCancel
<1>6. CASE UNCHANGED vars \/ (LinkNext /\ UNCHANGED orderVars) \/ (FlushBook /\ UNCHANGED orderVars)
  <2>1. net' = net
    BY <1>1, <1>6 DEF vars, linkVars, FlushBook, LinkNext, Reconnect, NotOpen, NotOpenYet, Opens,
      OlderOpens, OlderFails, Hide, Show, LinkInv
  <2>2. UNCHANGED orderVars
    BY <1>6 DEF vars
  <2> QED
    BY <2>1, <2>2, OrdersStayUnderBook
<1>7. CASE Trade /\ UNCHANGED orderVars
  <2>1. PICK k \in Levels, z \in Sizes :
          net' = IF "level2" \in subs
                 THEN Append(net, [type |-> "l2update", level |-> k, size |-> z]) ELSE net
    BY <1>7 DEF Trade
  <2>2. PICK m : m = [type |-> "l2update", level |-> k, size |-> z]
    OBVIOUS
  <2>3. m \in Updates
    BY <2>2 DEF Updates
  <2>4. net' = net \/ net' = Append(net, m)
    BY <2>1, <2>2
  <2> QED
    BY <1>7, <2>3, <2>4, OrdersStayUnderBook
<1>8. CASE Serve
  <2>1. PICK m : m = [type |-> "snapshot", book |-> market]
    OBVIOUS
  <2>2. m \in Snapshots
    BY <1>1, <2>1 DEF Snapshots, BookInv
  <2>3. (net' = net \/ net' = Append(net, m)) /\ UNCHANGED orderVars
    BY <1>8, <2>1 DEF Serve
  <2> QED
    BY <2>2, <2>3, OrdersStayUnderBook
<1>9. CASE (OnSnapshot \/ OnL2Update) /\ UNCHANGED orderVars
  <2>1. net # <<>> /\ net' = Tail(net) /\ Head(net).type \in {"snapshot", "l2update"}
    BY <1>9 DEF OnSnapshot, OnL2Update
  <2>2. Head(net) \in Messages
    BY <1>1, <2>1
  <2>3. Head(net) \in Snapshots \cup Updates
    BY <2>1, <2>2, Kinds
  <2> QED
    BY <1>9, <2>1, <2>3, OrdersStayUnderBook
<1>10. CASE Drop
  <2>1. /\ net' = <<>> /\ missed' = missed \cup OrderMsgs(net)
        /\ UNCHANGED <<status, listed, orderBuffer, load, cancel>>
    BY <1>10 DEF Drop, Closes
  <2>2. \A i \in DOMAIN net : net[i] \in Messages
    BY <1>1
  <2>3. OrderMsgs(net) \subseteq Orders
    <3>1. \A i \in DOMAIN net : net[i].type = "order" => net[i] \in Notices
      BY <2>2, Kinds
    <3> QED
      BY <3>1 DEF OrderMsgs, Notices
  <2>4. ASSUME NEW o \in Orders \ missed'
        PROVE  Told(o)'
    <3>1. Told(o)
      BY <1>1, <2>1, <2>4 DEF OrdersInv
    <3>2. NoneIn(net, OrderOf(o))
      BY <2>1, <2>2, <2>4, OrderMsgsAre
    <3>3. NoneIn(net', OrderOf(o)) /\ ~LastIn(net, OrderOf(o), OrderAs(o, status[o]))
      BY <2>1, <3>2, EmptyHasNone DEF LastIn, NoneIn
    <3> QED
      BY <2>1, <3>1, <3>2, <3>3, ToldStays
  <2>5. missed' \subseteq Orders
    BY <1>1, <2>1, <2>3 DEF OrdersInv
  <2> QED
    BY <1>1, <2>1, <2>4, <2>5 DEF OrdersInv
<1> QED
  BY <1>2, <1>3, <1>4, <1>5, <1>6, <1>7, <1>8, <1>9, <1>10 DEF Next, BookNext, OrdersNext

-----------------------------------------------------------------------------
(* The theorems. *)

LEMMA Invariance == Spec => []Inv
<1>1. ASSUME Inv, [Next]_vars PROVE Inv'
  BY <1>1, LinkStep, BookStep, OrdersStep DEF Inv
<1> QED
  BY <1>1, InitInv, PTL DEF Spec

\* updateOrderBook and setOrderBook (store/trade.ts): once the page has applied everything
\* the push server sent it, it shows the book of the exchange at every level, whatever was
\* hidden, shown, closed and reopened before, for any number of levels and changes; apart
\* from levels that keep a change older than the last snapshot and prices with two keys.
THEOREM ShowsTheBook == Spec => []BookFollows
<1>1. Inv => BookFollows
  <2> SUFFICES ASSUME Inv, Subscribed("level2"), BookMsgs(net) = {}, bookBuffer = <<>>,
                      NEW l \in Levels \ (late \cup Odd)
               PROVE  book[Raw(l)] = market[l]
    BY DEF BookFollows
  <2>1. "level2" \in subs /\ net \in Seq(Messages) /\ Heard(l)
    BY DEF Inv, LinkInv, BookInv, Subscribed
  <2>2. NoneIn(net, BookOf(l))
    <3>1. \A i \in DOMAIN net : net[i] \in Messages
      BY <2>1
    <3> QED
      BY <3>1, Kinds DEF NoneIn, BookMsgs
  <2>3. ~LastIn(net, BookOf(l), BookAs(l, market[l]))
    BY <2>2 DEF LastIn, NoneIn
  <2>4. ~LastIn(bookBuffer, BookOf(l), BookAs(l, market[l]))
    BY EmptyHasNone
  <2> QED
    BY <2>1, <2>3, <2>4 DEF Heard
<1> QED
  BY <1>1, Invariance, PTL

\* loadOpenOrders, updateOrder and cancelOrder (store/trade.ts): once nothing is under way
\* any more, an order that did not change behind the page's back is shown with its status,
\* however the answer of the load, the messages, the flushes of orderBuffer and the cancel
\* requests interleaved, for any number of orders.
THEOREM ShowsTheOrders == Spec => []OrdersFollow
<1>1. Inv => OrdersFollow
  <2> SUFFICES ASSUME Inv, Quiet, NEW o \in Orders \ missed
               PROVE  ShownRight(o)
    BY DEF OrdersFollow
  <2>1. Told(o) /\ load.pc = "done"
    BY DEF Inv, OrdersInv, Quiet
  <2>2. NoneIn(net, OrderOf(o)) /\ NoneIn(orderBuffer, OrderOf(o))
    BY ComingIs DEF Quiet
  <2> QED
    BY <2>1, <2>2 DEF Told
<1> QED
  BY <1>1, Invariance, PTL

=============================================================================

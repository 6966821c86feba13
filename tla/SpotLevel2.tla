----------------------------- MODULE SpotLevel2 -----------------------------
(***************************************************************************)
(* How a WebSocket client of gitbitex-spot follows the level-2 book of a   *)
(* product (pushing/client.go, subscription.go and the publishing half of  *)
(* order_book_stream.go).                                                  *)
(*                                                                         *)
(*   runApplier --publish--> writeCh --> runWriter --> connection          *)
(*      |                       ^           |                              *)
(*   last snapshot              |       l2ChangeCh <-- onSub (marker)      *)
(*      \-------------> runL2ChangeWriter <-/                              *)
(*                                                                         *)
(* The client first gets a snapshot, then numbered changes; a gap in the   *)
(* numbers makes runL2ChangeWriter send a snapshot again.  A change with   *)
(* number 0 is a marker that asks for a snapshot.  publish holds the read  *)
(* lock of the subscription while it waits for room in writeCh; subscribe  *)
(* and unsubscribe need the write lock.                                    *)
(***************************************************************************)
EXTENDS Integers, SequencesExt

CONSTANTS
  Levels,      \* price levels of both sides
  LevelSizes,  \* sizes a level may have; 0 means that it is empty
  MaxChanges,  \* changes of the book
  MaxSubs,     \* subscribe requests of the client
  MayBreak,    \* TRUE: the connection may break, a message may be malformed
  L2Gap,       \* changes the snapshot may be behind (10)
  L2Batch,     \* changes of one update message (10)
  WriteChCap,  \* capacity of writeCh (256)
  L2ChCap      \* capacity of l2ChangeCh (512)

ASSUME Level2Assumption ==
  /\ LevelSizes \subseteq Nat /\ 0 \in LevelSizes
  /\ {MaxChanges, MaxSubs, L2Gap} \subseteq Nat
  /\ {L2Batch, WriteChCap, L2ChCap} \subseteq Nat \ {0}
  /\ MayBreak \in BOOLEAN

\* What goes through writeCh: a change to forward, a snapshot, or an update
\* made of several changes, each named by its number.
Message == [type : {"change", "snapshot", "update"}, seqs : Seq(Nat)]

NoView == [seq |-> -1]

VARIABLES
  chg,         \* the changes of the book so far: [level, size], by number
  snap,        \* number of the last level-2 snapshot, -1 before the first
  pub,         \* change runApplier has to publish, or 0
  sending,     \* publish found the client and waits for writeCh, locked
  subscribed,  \* the client is among the subscribers of the channel
  joined,      \* the channel is in the client's own map
  subs,        \* subscribe requests so far
  reader,      \* runReader
  writer,      \* runWriter
  hand,        \* change runWriter forwards to l2ChangeCh, or 0
  writeCh,
  l2Ch,        \* l2ChangeCh
  l2,          \* state of runL2ChangeWriter for the product
  l2Out,       \* message it waits to write to writeCh, if any
  l2Mark,      \* it is about to send a marker to itself
  late,        \* history: levels of which it sent a change that had waited
               \* behind a snapshot with a later one
  broken,      \* the connection is broken
  view         \* the book the client has built

bookVars == <<chg, snap>>
pubVars == <<pub, sending>>
subVars == <<subscribed, joined, subs>>
l2Vars == <<l2, l2Out, l2Mark, late>>
vars == <<bookVars, pubVars, subVars, reader, writer, hand, writeCh, l2Ch,
          l2Vars, broken, view>>

\* The book after n changes.
BookAt(n) ==
  [v \in Levels |->
     LET ks == {k \in 1 .. n : chg[k].level = v}
     IN IF ks = {} THEN 0
        ELSE chg[CHOOSE k \in ks : \A j \in ks : j <= k].size]

-----------------------------------------------------------------------------
(* runApplier and publish. *)

\* A log changes a level; the snapshot is renewed when it is too far behind.
Change ==
  /\ pub = 0
  /\ Len(chg) < MaxChanges
  /\ \E v \in Levels, z \in LevelSizes :
       /\ z # BookAt(Len(chg))[v]
       /\ chg' = Append(chg, [level |-> v, size |-> z])
  /\ snap' = IF snap = -1 \/ Len(chg') - snap > L2Gap THEN Len(chg') ELSE snap
  /\ pub' = Len(chg')
  /\ UNCHANGED <<sending, subVars, reader, writer, hand, writeCh, l2Ch, l2Vars,
                 broken, view>>

\* No log for 200 milliseconds.
Refresh ==
  /\ pub = 0
  /\ snap = -1 \/ Len(chg) > snap
  /\ snap' = Len(chg)
  /\ UNCHANGED <<chg, pubVars, subVars, reader, writer, hand, writeCh, l2Ch,
                 l2Vars, broken, view>>

Room == Len(writeCh) < WriteChCap

FindSubscriber ==
  /\ pub # 0 /\ ~ sending
  /\ IF subscribed THEN sending' = TRUE /\ UNCHANGED pub
     ELSE pub' = 0 /\ UNCHANGED sending
  /\ UNCHANGED <<bookVars, subVars, reader, writer, hand, writeCh, l2Ch, l2Vars,
                 broken, view>>

Publish ==
  /\ sending
  /\ Room
  /\ writeCh' = Append(writeCh, [type |-> "change", seqs |-> <<pub>>])
  /\ sending' = FALSE /\ pub' = 0
  /\ UNCHANGED <<bookVars, subVars, reader, writer, hand, l2Ch, l2Vars, broken, view>>

Unlocked == ~ sending

-----------------------------------------------------------------------------
(* runReader: requests of the client. *)

Subscribe ==
  /\ reader = "idle" /\ ~ joined /\ Unlocked
  /\ subs < MaxSubs
  /\ subs' = subs + 1
  /\ subscribed' = TRUE /\ joined' = TRUE
  /\ reader' = "check"
  /\ UNCHANGED <<bookVars, pubVars, writer, hand, writeCh, l2Ch, l2Vars, broken, view>>

\* The marker is to be sent if l2ChangeCh is empty; until it is, runWriter may
\* forward changes.
CheckEmpty ==
  /\ reader = "check"
  /\ reader' = IF l2Ch = <<>> THEN "mark" ELSE "idle"
  /\ UNCHANGED <<bookVars, pubVars, subVars, writer, hand, writeCh, l2Ch, l2Vars,
                 broken, view>>

SendMark ==
  /\ reader = "mark"
  /\ Len(l2Ch) < L2ChCap
  /\ l2Ch' = Append(l2Ch, 0)
  /\ reader' = "idle"
  /\ UNCHANGED <<bookVars, pubVars, subVars, writer, hand, writeCh, l2Vars, broken, view>>

Unsubscribe ==
  /\ reader = "idle" /\ subscribed /\ Unlocked
  /\ subscribed' = FALSE /\ joined' = FALSE
  /\ UNCHANGED <<bookVars, pubVars, subs, reader, writer, hand, writeCh, l2Ch,
                 l2Vars, broken, view>>

Break ==
  /\ MayBreak /\ ~ broken
  /\ broken' = TRUE
  /\ UNCHANGED <<bookVars, pubVars, subVars, reader, writer, hand, writeCh, l2Ch,
                 l2Vars, view>>

ReaderFails ==
  /\ broken /\ reader = "idle"
  /\ reader' = "closing"
  /\ UNCHANGED <<bookVars, pubVars, subVars, writer, hand, writeCh, l2Ch, l2Vars,
                 broken, view>>

\* A message that is not a request: runReader ends, the connection stays open.
BadRequest ==
  /\ MayBreak /\ reader = "idle"
  /\ reader' = "closing"
  /\ UNCHANGED <<bookVars, pubVars, subVars, writer, hand, writeCh, l2Ch, l2Vars,
                 broken, view>>

\* Fault: the client is not taken out of the subscribers.
CloseNothing(who) ==
  /\ Unlocked
  /\ UNCHANGED <<subscribed, joined, subs>>

\* Client.close: it unsubscribes, the client's own map is left as it is.
Close(who) ==
  /\ Unlocked
  /\ subscribed' = FALSE
  /\ UNCHANGED <<joined, subs>>

ReaderCloses ==
  /\ reader = "closing"
  /\ Close("reader")
  /\ reader' = "dead"
  /\ UNCHANGED <<bookVars, pubVars, writer, hand, writeCh, l2Ch, l2Vars, broken, view>>

-----------------------------------------------------------------------------
(* runWriter. *)

\* The client applies changes to its book; without a book it ignores them.
Applied(v, seqs) ==
  IF v = NoView THEN v
  ELSE [seq |-> Last(seqs),
        levels |-> FoldLeft(LAMBDA b, n : [b EXCEPT ![chg[n].level] = chg[n].size],
                            v.levels, seqs)]

Write ==
  /\ writer = "run" /\ hand = 0 /\ writeCh # <<>>
  /\ LET msg == Head(writeCh)
         n == Head(msg.seqs)
     IN \/ /\ msg.type = "change"
           /\ hand' = n
           /\ UNCHANGED <<writer, view>>
        \/ /\ msg.type # "change" /\ broken
           /\ writer' = "closing"
           /\ UNCHANGED <<hand, view>>
        \/ /\ msg.type = "snapshot" /\ ~ broken
           /\ view' = [seq |-> n, levels |-> BookAt(n)]
           /\ UNCHANGED <<hand, writer>>
        \/ /\ msg.type = "update" /\ ~ broken
           /\ view' = Applied(view, msg.seqs)
           /\ UNCHANGED <<hand, writer>>
  /\ writeCh' = Tail(writeCh)
  /\ UNCHANGED <<bookVars, pubVars, subVars, reader, l2Ch, l2Vars, broken>>

Forward ==
  /\ writer = "run" /\ hand # 0
  /\ Len(l2Ch) < L2ChCap
  /\ l2Ch' = Append(l2Ch, hand)
  /\ hand' = 0
  /\ UNCHANGED <<bookVars, pubVars, subVars, reader, writer, writeCh, l2Vars,
                 broken, view>>

PingFails ==
  /\ writer = "run" /\ hand = 0 /\ broken
  /\ writer' = "closing"
  /\ UNCHANGED <<bookVars, pubVars, subVars, reader, hand, writeCh, l2Ch, l2Vars,
                 broken, view>>

WriterCloses ==
  /\ writer = "closing"
  /\ Close("writer")
  /\ writer' = "dead"
  /\ UNCHANGED <<bookVars, pubVars, reader, hand, writeCh, l2Ch, l2Vars, broken, view>>

-----------------------------------------------------------------------------
(* runL2ChangeWriter. *)

WantsSnapshot(n) == l2.resend \/ n = 0

\* Faults: a gap in the numbers goes unnoticed; an old snapshot is taken as well
\* as a new one.
FollowsAlways(n) == TRUE

OldChange(n) == n <= l2.lastSeq
Follows(n) == n = l2.lastSeq + 1
TooOld == l2.lastSeq > snap

\* Levels of which a change waits, while the snapshot has a later one.
Overtaken ==
  {chg[n].level : n \in Range(l2.changes)} \cap {chg[m].level : m \in l2.lastSeq + 1 .. snap}

\* The snapshot is sent again; changes that wait for an update stay, and go out
\* after it although it has them.
L2Snapshot ==
  /\ late' = late \cup Overtaken
  /\ l2' = [l2 EXCEPT !.lastSeq = snap, !.resend = FALSE]
  /\ l2Out' = <<[type |-> "snapshot", seqs |-> <<snap>>]>>

\* A change is missing.
L2Lost(n) == l2' = [resend |-> TRUE, changes |-> <<>>, lastSeq |-> n]

\* The change follows; it is sent unless more wait and there is room for them.
L2Follows(n) ==
  LET all == Append(l2.changes, n)
      wait == Len(l2Ch) > 1 /\ Len(all) < L2Batch
  IN /\ l2' = [l2 EXCEPT !.lastSeq = n, !.changes = IF wait THEN all ELSE <<>>]
     /\ l2Out' = IF wait THEN <<>> ELSE <<[type |-> "update", seqs |-> all]>>

L2Take ==
  /\ l2Out = <<>> /\ ~ l2Mark /\ l2Ch # <<>>
  /\ LET n == Head(l2Ch)
         rest == Tail(l2Ch)
     IN \/ /\ WantsSnapshot(n)
           /\ IF snap = -1 \/ TooOld THEN UNCHANGED <<l2, l2Out, late>> ELSE L2Snapshot
           /\ l2Ch' = rest
           /\ UNCHANGED l2Mark
        \/ /\ ~ WantsSnapshot(n) /\ OldChange(n)
           /\ l2Ch' = rest
           /\ UNCHANGED l2Vars
        \/ /\ ~ WantsSnapshot(n) /\ ~ OldChange(n) /\ ~ Follows(n)
           /\ L2Lost(n)
           /\ l2Ch' = rest
           /\ l2Mark' = (rest = <<>>)
           /\ UNCHANGED <<l2Out, late>>
        \/ /\ ~ WantsSnapshot(n) /\ ~ OldChange(n) /\ Follows(n)
           /\ L2Follows(n)
           /\ l2Ch' = rest
           /\ UNCHANGED <<l2Mark, late>>
  /\ UNCHANGED <<bookVars, pubVars, subVars, reader, writer, hand, writeCh, broken, view>>

L2SendMark ==
  /\ l2Mark
  /\ Len(l2Ch) < L2ChCap
  /\ l2Ch' = Append(l2Ch, 0)
  /\ l2Mark' = FALSE
  /\ UNCHANGED <<bookVars, pubVars, subVars, reader, writer, hand, writeCh, l2,
                 l2Out, late, broken, view>>

L2Write ==
  /\ l2Out # <<>>
  /\ Room
  /\ writeCh' = writeCh \o l2Out
  /\ l2Out' = <<>>
  /\ UNCHANGED <<bookVars, pubVars, subVars, reader, writer, hand, l2Ch, l2,
                 l2Mark, late, broken, view>>

-----------------------------------------------------------------------------
Init ==
  /\ chg = <<>> /\ snap = -1
  /\ pub = 0 /\ sending = FALSE
  /\ subscribed = FALSE /\ joined = FALSE /\ subs = 0
  /\ reader = "idle" /\ writer = "run" /\ hand = 0
  /\ writeCh = <<>> /\ l2Ch = <<>>
  /\ l2 = [resend |-> TRUE, changes |-> <<>>, lastSeq |-> 0]
  /\ l2Out = <<>> /\ l2Mark = FALSE /\ late = {}
  /\ broken = FALSE /\ view = NoView

Next ==
  \/ Change \/ Refresh \/ FindSubscriber \/ Publish
  \/ Subscribe \/ CheckEmpty \/ SendMark \/ Unsubscribe
  \/ Break \/ ReaderFails \/ BadRequest \/ ReaderCloses
  \/ Write \/ Forward \/ PingFails \/ WriterCloses
  \/ L2Take \/ L2SendMark \/ L2Write

\* Goroutines go on while they can, the refresh timer and the ping ticker fire.
\* The client need not ask for anything and the market need not move; the L2
\* writer ends with runWriter.
Fairness ==
  /\ WF_vars(Refresh) /\ WF_vars(FindSubscriber) /\ WF_vars(Publish)
  /\ WF_vars(CheckEmpty) /\ WF_vars(SendMark)
  /\ WF_vars(ReaderFails) /\ WF_vars(ReaderCloses)
  /\ WF_vars(Write) /\ WF_vars(Forward) /\ WF_vars(PingFails) /\ WF_vars(WriterCloses)
  /\ WF_vars(writer # "dead" /\ (L2Take \/ L2SendMark \/ L2Write))

Spec == Init /\ [][Next]_vars /\ Fairness

-----------------------------------------------------------------------------
\* The type of the state; what waits for the client never exceeds a channel.
Level2TypeOK ==
  /\ chg \in Seq([level : Levels, size : LevelSizes])
  /\ snap \in -1 .. Len(chg)
  /\ pub \in 0 .. Len(chg) /\ hand \in 0 .. Len(chg)
  /\ {sending, subscribed, joined, l2Mark, broken} \subseteq BOOLEAN
  /\ subs \in 0 .. MaxSubs
  /\ reader \in {"idle", "check", "mark", "closing", "dead"}
  /\ writer \in {"run", "closing", "dead"}
  /\ writeCh \in Seq(Message) /\ Len(writeCh) <= WriteChCap
  /\ l2Ch \in Seq(0 .. MaxChanges) /\ Len(l2Ch) <= L2ChCap
  /\ l2 \in [resend : BOOLEAN, changes : Seq(1 .. MaxChanges), lastSeq : 0 .. MaxChanges]
  /\ l2Out \in Seq(Message) /\ Len(l2Out) <= 1
  /\ late \subseteq Levels
  /\ view = NoView \/ view \in [seq : Nat, levels : [Levels -> LevelSizes]]

\* The book the client has built is one the product really had, the one after
\* the last change it was told of: none is left out, and no change is applied on
\* top of a snapshot that already has a later one, save those that waited for an
\* update when a marker made runL2ChangeWriter send the snapshot.
ViewIsABook ==
  view # NoView =>
    \A v \in Levels \ late : view.levels[v] = BookAt(view.seq)[v]

\* The same for every level: what client.go:196 sets out to keep, and what a
\* marker that overtakes no longer empty l2ChangeCh breaks.
ViewIsABookAlways == view # NoView => view.levels = BookAt(view.seq)


\* publish waits, with the lock of subscription.go:74, for room in a writeCh that
\* runWriter no longer empties; runReader waits at client.go:271 for room in
\* l2ChangeCh, when runWriter and runL2ChangeWriter wait for each other.
LockedForGood == [](sending /\ ~ Room)
ReaderWaitsForGood == [](reader = "mark" /\ Len(l2Ch) = L2ChCap)

\* When the connection breaks the client is taken off the subscribers for good,
\* though runReader and runWriter call close independently of each other
\* (client.go:76, 105, 130), unless a full channel keeps a goroutine waiting for ever.
CleansUp == broken ~> ([](~ subscribed) \/ LockedForGood \/ ReaderWaitsForGood)

\* The same without exception, which a full channel breaks.
CleansUpAlways == broken ~> [](~ subscribed)

\* After a gap in the changes the client is sent a snapshot, on which it can go
\* on, unless it unsubscribes.
GapHealed ==
  (subscribed /\ l2.resend /\ l2.lastSeq > 0) ~> (~ subscribed \/ ~ l2.resend)
=============================================================================

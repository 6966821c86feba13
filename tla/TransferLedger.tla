---------------------------- MODULE TransferLedger ----------------------------
(***************************************************************************)
(* What the books of blockchain-parser promise of a transfer: it is        *)
(* claimed once, and only then it is taken from its sender and afterwards  *)
(* given to its receiver, each at most once.  The service may lose         *)
(* a claimed transfer half way, it may not book one again.                 *)
(***************************************************************************)
EXTENDS Naturals

CONSTANT Transfers

VARIABLES
  claimed,  \* transfers that have a row
  debits,   \* how often each was taken from its sender
  credits   \* how often each was given to its receiver

Init ==
  /\ claimed = {}
  /\ debits = [t \in Transfers |-> 0]
  /\ credits = [t \in Transfers |-> 0]

Claim(t) ==
  /\ t \notin claimed
  /\ claimed' = claimed \cup {t}
  /\ UNCHANGED <<debits, credits>>

Debit(t) ==
  /\ t \in claimed /\ debits[t] = 0
  /\ debits' = [debits EXCEPT ![t] = 1]
  /\ UNCHANGED <<claimed, credits>>

Credit(t) ==
  /\ debits[t] = 1 /\ credits[t] = 0
  /\ credits' = [credits EXCEPT ![t] = 1]
  /\ UNCHANGED <<claimed, debits>>

Next == \E t \in Transfers : Claim(t) \/ Debit(t) \/ Credit(t)

Spec == Init /\ [][Next]_<<claimed, debits, credits>>

=============================================================================

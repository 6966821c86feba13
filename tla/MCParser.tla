------------------------------ MODULE MCParser ------------------------------
(* Instances of Parser for TLC. *)
EXTENDS Parser

CONSTANTS d1, d2

\* A user sends BNB to the project; a call of the token moves USDT twice, the
\* project on one side of each.
MCDepositInfo ==
  [d \in Deposits |->
     IF d = d1
     THEN [from |-> "user", to |-> "project", kind |-> "bnb", logs |-> <<>>]
     ELSE [from |-> "user", to |-> "usdt", kind |-> "call",
           logs |-> <<[from |-> "user", to |-> "project"], [from |-> "project", to |-> "user"]>>]]

=============================================================================

------------------------------- MODULE Parser -------------------------------
(***************************************************************************)
(* blockchain-parser as a whole (blockchain-parser/src/app.js): one        *)
(* process runs the scan of the chain and the payment of withdrawals, over *)
(* the same node, Redis and database.  What the one sends the other finds  *)
(* on the chain.  A call of the second service that fails outside of its   *)
(* try clauses is an unhandled rejection, which ends the process: a crash. *)
(***************************************************************************)
EXTENDS ParserScan, ParserPayout

vars == <<baseVars, scanVars, payVars>>

Init ==
  /\ chain = [h \in 1 .. Lookback |-> <<>>]
  /\ mempool = Deposits
  /\ final = Lookback
  /\ up = FALSE /\ crashes = 0 /\ faults = 0 /\ reorgs = 0
  /\ ScanInit /\ PayInit

\* App.start: initData, start of the scan, and the timer of the withdrawals.
Start ==
  /\ ~up
  /\ up' = TRUE
  /\ ScanStart /\ PayStart
  /\ UNCHANGED <<chainVars, crashes, faults>>

Crash ==
  /\ up /\ Trouble /\ crashes < MaxCrashes
  /\ up' = FALSE
  /\ crashes' = crashes + 1
  /\ ScanCrash /\ PayCrash
  /\ UNCHANGED <<chainVars, faults>>

Next ==
  \/ (Mine \/ Reorg) /\ UNCHANGED <<scanVars, payVars>>
  \/ ScanNext /\ UNCHANGED payVars
  \/ PayNext /\ UNCHANGED scanVars
  \/ Start
  \/ Crash

\* The chain grows, the timers fire, calls return, and whoever runs the service
\* starts it again when it is down.
Fairness ==
  /\ WF_vars(Mine /\ UNCHANGED <<scanVars, payVars>>)
  /\ WF_vars(ScanStep /\ UNCHANGED payVars)
  /\ \A k \in Ticks : WF_vars(TickStep(k) /\ UNCHANGED scanVars)
  /\ WF_vars(Start)

Spec == Init /\ [][Next]_vars /\ Fairness

=============================================================================

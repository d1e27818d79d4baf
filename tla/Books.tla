--------------------------------- MODULE Books ---------------------------------
(***************************************************************************)
(* The books of the account: its transfers (Transfers) and its profit and  *)
(* loss (Pnl).                                                             *)
(*                                                                         *)
(* A calculation takes nothing from the reconciliation but which deposits  *)
(* are the owner's own, and Pnl lets that be any of them: the two share no *)
(* variable.  A behaviour has the steps of one of them, and a property of  *)
(* either holds of both together if it holds here.                         *)
(***************************************************************************)
EXTENDS Transfers, Pnl

VARIABLE part \* whose behaviour this is

vars == <<transfersVars, pnlVars, part>>

Init == TransfersInit /\ PnlInit /\ part \in {"transfers", "pnl"}

Transferring(A) == part = "transfers" /\ A /\ UNCHANGED <<pnlVars, part>>
Calculating(A) == part = "pnl" /\ A /\ UNCHANGED <<transfersVars, part>>

Next == Transferring(TransfersNext) \/ Calculating(PnlNext)

\* The queue runs what is asked for.  The schedule's syncs are minutes apart, and
\* each asks at its end.
Fairness ==
  /\ WF_vars(Transferring(ReadLedgers \/ ReadEvents \/ MatchNext \/ ReplaceMatches))
  /\ WF_vars(Transferring(NextMinute))
  /\ \A s \in Source : /\ WF_vars(Transferring(Resync(s)))
                      /\ SF_vars(Transferring(AskReconcile(s) /\ s \notin keys))

Spec == Init /\ [][Next]_vars /\ Fairness

=============================================================================

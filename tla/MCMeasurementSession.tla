------------------------- MODULE MCMeasurementSession -------------------------
(***************************************************************************)
(* The measurement session and the mailbox its snapshots go through, which *)
(* share no variable in the models, checked side by side: a behaviour is   *)
(* one of whichever "part" names, the other stays as it began, and         *)
(* fairness is asked of the part that runs.                                *)
(***************************************************************************)
EXTENDS MeasurementSession, SnapshotMailbox

VARIABLE part

\* The block end as a payload byte, and its complement.
MCEcuPayloads == {<<3>>}

SessionTurn == part = "session" /\ UNCHANGED <<part, mailboxVars>>
MailboxTurn == part = "mailbox" /\ UNCHANGED <<part, vars>>

PathInit == part \in {"session", "mailbox"} /\ Init /\ MailboxInit
PathNext == (SessionTurn /\ Next) \/ (MailboxTurn /\ MailboxNext)
pathVars == <<part, vars, mailboxVars>>

PathFairness ==
  /\ WF_pathVars(SessionTurn /\ Runner)
  /\ WF_pathVars(SessionTurn /\ Line)
  /\ WF_pathVars(SessionTurn /\ Stall)
  /\ WF_pathVars(MailboxTurn /\ Publisher /\ publisherPc # "idle")
  /\ WF_pathVars(MailboxTurn /\ Reader)

PathSpec == PathInit /\ [][PathNext]_pathVars /\ PathFairness

-----------------------------------------------------------------------------
\* In the part that is the session, an undisturbed dialogue comes back to every
\* group again and again (run_measurement, the plan's command).
GroupsComeAgain == part = "session" => EveryGroupAgain
===============================================================================

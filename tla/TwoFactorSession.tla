-------------------------- MODULE TwoFactorSession --------------------------
(***************************************************************************)
(* A session (SshdSession) whose command may be 2fa_verify                 *)
(* (TwoFactorVerify).  The two meet where handleShell calls Execute and    *)
(* where Execute returns; the goroutines that Execute leaves behind go on  *)
(* while the session ends.  Other commands are only what they return.      *)
(***************************************************************************)
EXTENDS SshdSession, TwoFactorVerify

sessionVars == <<vars, twoFactorVars>>

SessionInit == Init /\ TwoFactorInit

(* handleShell has called Execute of 2fa_verify. *)
TwoFactorRuns == \E i \in DOMAIN ran : ran[i].cmd = "2fa_verify"

(* Execute of 2fa_verify gives no error, whatever its message is. *)
TwoFactorReturns == TwoFactorRuns /\ main = "returned" /\ ExecuteOk

(* Steps of the session alone: while 2fa_verify is executed it can only    *)
(* lose its client.                                                        *)
SessionStep ==
  /\ \/ Next /\ ~(TwoFactorRuns /\ pc = "execute")
     \/ ClientLeaves
     \/ TwoFactorReturns
  /\ UNCHANGED twoFactorVars

TwoFactorStep == TwoFactorRuns /\ TwoFactorNext /\ UNCHANGED vars

SessionNext == SessionStep \/ TwoFactorStep

SessionSpec == SessionInit /\ [][SessionNext]_sessionVars

(* What handleShell and handle do once Execute has returned: none of it    *)
(* waits for an answer of the client.                                      *)
AfterExecute == TwoFactorReturns \/ ExitCloseWrite \/ ExitSendStatus \/ CloseChannel

(* Execute is scheduled and its timer fires; nobody need ever approve or   *)
(* type anything, or answer a request.                                     *)
SessionFairness ==
  /\ WF_sessionVars(TwoFactorRuns /\ Execute /\ UNCHANGED vars)
  /\ WF_sessionVars(TwoFactorRuns /\ Timeout /\ UNCHANGED vars)
  /\ WF_sessionVars(AfterExecute /\ UNCHANGED twoFactorVars)

-----------------------------------------------------------------------------
(* Properties. *)

(* A session that runs 2fa_verify ends, with the channel closed, even if   *)
(* nobody approves, types or answers, and although the goroutines may stay *)
(* behind (the select's case for ctx.Done, and handle after Execute).      *)
TwoFactorEnds == TwoFactorRuns ~> (pc = "done" /\ main = "returned")
=============================================================================

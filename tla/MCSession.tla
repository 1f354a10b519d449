----------------------------- MODULE MCSession -----------------------------
(* Sessions and calls of the internal API in one run.  The two share no    *)
(* variable, so that each is run while the other has not begun: a call     *)
(* before the first request, a session with one configuration of no call.  *)
EXTENDS TwoFactorSession, MCInternalAPI

CallAlone == CallNext /\ requests = 0 /\ peer /\ UNCHANGED sessionVars

SessionAlone ==
  /\ callPc = "build" /\ client = "old" /\ config.url = "http" /\ config.secret
  /\ SessionNext
  /\ UNCHANGED callVars

MCInit == SessionInit /\ CallInit

MCSpec ==
  /\ MCInit
  /\ [][CallAlone \/ SessionAlone]_<<sessionVars, callVars>>
  /\ SessionFairness
=============================================================================

-------------------------- MODULE TwoFactorVerify --------------------------
(***************************************************************************)
(* The 2fa_verify command (internal/command/twofactorverify): Execute      *)
(* starts a goroutine that asks for push authentication and one that reads *)
(* an OTP and has it verified, takes the first result either of them sends *)
(* on an unbuffered channel, or the end of its context, shows it and       *)
(* returns, which cancels the context.  The goroutines are not waited for. *)
(***************************************************************************)

VARIABLES
  main,       \* Execute: "select", "show" or "returned"
  ctxDone,    \* the 30 s context is done: expired or cancelled
  message,    \* what Execute shows, "none" before
  push,       \* the push goroutine
  otp,        \* the OTP goroutine
  answer,     \* what getOTP returned: "none" when blank
  toSend,     \* what the OTP goroutine is about to send
  posted,     \* the OTPs that were sent to the internal API
  accepted    \* the checks the internal API has accepted: of {"push", "otp"}

twoFactorVars == <<main, ctxDone, message, push, otp, answer, toSend, posted, accepted>>

Success == {"validated_by_push", "validated"}

TwoFactorInit ==
  /\ main = "select"
  /\ ctxDone = FALSE
  /\ message = "none"
  /\ push = "prepare"
  /\ otp = "read"
  /\ answer = "none"
  /\ toSend = "none"
  /\ posted = {}
  /\ accepted = {}

-----------------------------------------------------------------------------
(* The push goroutine: PushAuth. *)

(* getRequestBody fails: PushAuth's error is dropped. *)
PushNotAsked ==
  /\ push = "prepare"
  /\ push' = "ended"
  /\ UNCHANGED <<main, ctxDone, message, otp, answer, toSend, posted, accepted>>

(* The request is sent: not once the context is done. *)
PushPost ==
  /\ push = "prepare" /\ ~ctxDone
  /\ push' = "posted"
  /\ UNCHANGED <<main, ctxDone, message, otp, answer, toSend, posted, accepted>>

(* The user approves, as the internal API sees it. *)
PushApproved ==
  /\ push = "posted" /\ "push" \notin accepted
  /\ accepted' = accepted \cup {"push"}
  /\ UNCHANGED <<main, ctxDone, message, push, otp, answer, toSend, posted>>

(* Mutant: Success is not looked at in the answer. *)
PushReturns_AnyAnswer ==
  /\ push = "posted"
  /\ push' = "send"
  /\ UNCHANGED <<main, ctxDone, message, otp, answer, toSend, posted, accepted>>

(* PushAuth returns nil. *)
PushReturns ==
  /\ push = "posted" /\ "push" \in accepted
  /\ push' = "send"
  /\ UNCHANGED <<main, ctxDone, message, otp, answer, toSend, posted, accepted>>

(* PushAuth returns an error: refused, unreachable, or the context is done *)
(* - whatever the internal API made of the request.                        *)
PushFails ==
  /\ push = "posted"
  /\ push' = "ended"
  /\ UNCHANGED <<main, ctxDone, message, otp, answer, toSend, posted, accepted>>

-----------------------------------------------------------------------------
(* The OTP goroutine. *)

(* getOTP: a line is read. *)
ReadOTP ==
  /\ otp = "read"
  /\ answer' = "123456"
  /\ otp' = "verify"
  /\ UNCHANGED <<main, ctxDone, message, push, toSend, posted, accepted>>

(* getOTP: an empty line, or the end of the input.  The error is sent; the *)
(* goroutine goes on from there.                                           *)
ReadBlank ==
  /\ otp = "read"
  /\ otp' = "sendBlank"
  /\ UNCHANGED <<main, ctxDone, message, push, answer, toSend, posted, accepted>>

(* VerifyOTP's getRequestBody fails, or the context is done before Post. *)
VerifyNotSent ==
  /\ otp = "verify"
  /\ toSend' = "failed" /\ otp' = "send"
  /\ UNCHANGED <<main, ctxDone, message, push, answer, posted, accepted>>

VerifyPost ==
  /\ otp = "verify" /\ ~ctxDone
  /\ posted' = posted \cup {answer}
  /\ otp' = "posted"
  /\ UNCHANGED <<main, ctxDone, message, push, answer, toSend, accepted>>

OTPAccepted ==
  /\ otp = "posted" /\ answer # "none" /\ "otp" \notin accepted
  /\ accepted' = accepted \cup {"otp"}
  /\ UNCHANGED <<main, ctxDone, message, push, otp, answer, toSend, posted>>

VerifyReturns ==
  /\ otp = "posted" /\ "otp" \in accepted
  /\ toSend' = "validated" /\ otp' = "send"
  /\ UNCHANGED <<main, ctxDone, message, push, answer, posted, accepted>>

VerifyFails ==
  /\ otp = "posted"
  /\ toSend' = "failed" /\ otp' = "send"
  /\ UNCHANGED <<main, ctxDone, message, push, answer, posted, accepted>>

-----------------------------------------------------------------------------
(* Execute. *)

(* The select takes a result.  A goroutine that is not taken stays where   *)
(* it is for good: nobody receives any more.                               *)
ReceivePush ==
  /\ main = "select" /\ push = "send"
  /\ message' = "validated_by_push"
  /\ main' = "show" /\ push' = "ended"
  /\ UNCHANGED <<ctxDone, otp, answer, toSend, posted, accepted>>

ReceiveBlank ==
  /\ main = "select" /\ otp = "sendBlank"
  /\ message' = "blank"
  /\ main' = "show" /\ otp' = "verify"
  /\ UNCHANGED <<ctxDone, push, answer, toSend, posted, accepted>>

ReceiveOTP ==
  /\ main = "select" /\ otp = "send"
  /\ message' = toSend
  /\ main' = "show" /\ otp' = "ended"
  /\ UNCHANGED <<ctxDone, push, answer, toSend, posted, accepted>>

(* Mutant: the select has no case for the context. *)
SelectDone_Missing == FALSE /\ UNCHANGED twoFactorVars

SelectDone ==
  /\ main = "select" /\ ctxDone
  /\ message' = "timeout"
  /\ main' = "show"
  /\ UNCHANGED <<ctxDone, push, otp, answer, toSend, posted, accepted>>

(* Mutant: the context is not cancelled. *)
Return_NoCancel ==
  /\ main = "show"
  /\ main' = "returned"
  /\ UNCHANGED <<ctxDone, message, push, otp, answer, toSend, posted, accepted>>

(* The message is shown; the deferred cancel(). *)
Return ==
  /\ main = "show"
  /\ main' = "returned"
  /\ ctxDone' = TRUE
  /\ UNCHANGED <<message, push, otp, answer, toSend, posted, accepted>>

(* 30 s have passed, or the connection's context is cancelled. *)
Timeout ==
  /\ ~ctxDone
  /\ ctxDone' = TRUE
  /\ UNCHANGED <<main, message, push, otp, answer, toSend, posted, accepted>>

-----------------------------------------------------------------------------
Execute == ReceivePush \/ ReceiveBlank \/ ReceiveOTP \/ SelectDone \/ Return

PushStep == PushNotAsked \/ PushPost \/ PushApproved \/ PushReturns \/ PushFails

OTPStep ==
  \/ ReadOTP \/ ReadBlank
  \/ VerifyNotSent \/ VerifyPost \/ OTPAccepted \/ VerifyReturns \/ VerifyFails

(* The command is over; its goroutines may be left behind. *)
Returned == main = "returned" /\ UNCHANGED twoFactorVars

TwoFactorNext == Execute \/ PushStep \/ OTPStep \/ Timeout \/ Returned

TwoFactorSpec == TwoFactorInit /\ [][TwoFactorNext]_twoFactorVars

-----------------------------------------------------------------------------
(* Properties. *)

(* The command is well typed; what it shows comes from one result. *)
TwoFactorTypeOK ==
  /\ main \in {"select", "show", "returned"}
  /\ ctxDone \in BOOLEAN
  /\ message \in Success \cup {"none", "blank", "failed", "timeout"}
  /\ message = "none" <=> main = "select"
  /\ push \in {"prepare", "posted", "send", "ended"}
  /\ otp \in {"read", "sendBlank", "verify", "posted", "send", "ended"}
  /\ answer \in {"none", "123456"} /\ posted \subseteq {"none", "123456"}
  /\ toSend \in {"none", "failed", "validated"}
  /\ accepted \subseteq {"push", "otp"}

(* Git operations are said to be allowed only if the internal API has      *)
(* accepted the check that is named: not because of an answer that came    *)
(* late, was refused, or was the other goroutine's (parse and the two      *)
(* sends on resultCh).                                                     *)
SuccessIsTrue ==
  /\ message = "validated_by_push" => "push" \in accepted
  /\ message = "validated" => "otp" \in accepted /\ answer \in posted

(* Once Execute has returned neither goroutine sends a request any more:   *)
(* the deferred cancel reaches whatever they were about to do.             *)
NothingSentAfterReturn ==
  [][main = "returned" => posted' = posted /\ ~(push = "prepare" /\ push' = "posted")]_twoFactorVars
=============================================================================

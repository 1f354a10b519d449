---------------------------- MODULE InternalAPI ----------------------------
(***************************************************************************)
(* One call of GitLab's internal API: GitlabNetClient.DoRequest with       *)
(* go-retryablehttp ("old", package client), and the client meant to       *)
(* replace it ("new", package internal/clients/gitlab).  A call has its    *)
(* client built from the configuration, once per process, signs one token, *)
(* makes up to CallAttempts attempts and turns what it got into a response *)
(* or an error; the error's class is what trackError and observeAuth       *)
(* (SshdConnection) decide the SLIs by.  A server's answer is its HTTP     *)
(* status; the caller's context may be cancelled or run out during an      *)
(* attempt or the wait before the next one.                                *)
(***************************************************************************)
EXTENDS Naturals, Sequences, SequencesExt

CONSTANTS
  CallAttempts,  \* RetryMax + 1, and defaultRetryConfig.MaxAttempts
  Statuses       \* the HTTP statuses the API may answer

ASSUME APIAssumption == CallAttempts \in Nat \ {0} /\ Statuses \subseteq 100..599

(* What an attempt may come to besides a status: numbers that are none. *)
NetworkError == 0
Canceled == 1
DeadlineExceeded == 2
Failures == {NetworkError, Canceled, DeadlineExceeded}

(* What a configuration may say, as far as building a client tells apart:  *)
(* the URL's scheme, for https what is wrong with the certificates or the  *)
(* client's own key pair, and whether there is a secret.                   *)
Configs ==
  [url : {"http+unix", "http", "other"}, tls : {"ok"}, secret : BOOLEAN] \cup
  [url : {"https"}, tls : {"ok", "noSystemPool", "noCaFile", "badCa", "badKeyPair"}, secret : BOOLEAN]

VARIABLES
  client,        \* "old" or "new"
  config,        \* the configuration, a member of Configs
  callPc,        \* where the call is
  outcomes,      \* what each attempt came to, a cancelled wait included
  result         \* what the call returned

callVars == <<client, config, callPc, outcomes, result>>

(* Results: a response whose body decoded, an *APIError, or another error. *)
Pending == [kind |-> "pending", status |-> 0, system |-> FALSE]
Decoded == [kind |-> "ok", status |-> 0, system |-> FALSE]
PlainError == [kind |-> "plain", status |-> 0, system |-> FALSE]
APIError(status, system) == [kind |-> "api", status |-> status, system |-> system]

CallInit ==
  /\ client \in {"old", "new"}
  /\ config \in Configs
  /\ callPc = "build"
  /\ outcomes = <<>>
  /\ result = Pending

Attempts == Len(outcomes)
Outcome == Last(outcomes)

-----------------------------------------------------------------------------
(* NewHTTPClientWithOpts: it gives back the error of SystemCertPool        *)
(* although it goes on with an empty pool, and reads past certificates     *)
(* that cannot be read or parsed, a missing file excepted.                 *)
oldBuilds == config.url # "other" /\ config.tls \notin {"noSystemPool", "noCaFile", "badKeyPair"}

(* New wants a secret.  buildTransport: any CA file that is not there,     *)
(* cannot be read or holds no certificate is an error; a system without a  *)
(* pool of its own is not, and there is no key pair.                       *)
newBuilds == config.secret /\ config.url # "other" /\ config.tls \notin {"noCaFile", "badCa"}

Builds == IF client = "old" THEN oldBuilds ELSE newBuilds

(* GetClient gets a client: this call's, or the one an earlier call built. *)
GetClient ==
  /\ callPc = "build" /\ Builds
  /\ callPc' = "start"
  /\ UNCHANGED <<client, config, outcomes, result>>

(* The client cannot be built.  Config.HTTPClient keeps the error: every   *)
(* later call of the process has it too.                                   *)
GetClientFails ==
  /\ callPc = "build" /\ ~Builds
  /\ result' = PlainError
  /\ callPc' = "done"
  /\ UNCHANGED <<client, config, outcomes>>

(* The request cannot be built: its path or its body is not acceptable. *)
Unsendable ==
  /\ callPc = "start"
  /\ result' = PlainError
  /\ callPc' = "done"
  /\ UNCHANGED <<client, config, outcomes>>

(* The token cannot be signed, so there are no headers. *)
NoToken ==
  /\ callPc = "start"
  /\ result' = PlainError
  /\ callPc' = "done"
  /\ UNCHANGED <<client, config, outcomes>>

(* The token is signed, once for all attempts. *)
Sign ==
  /\ callPc = "start"
  /\ callPc' = "send"
  /\ UNCHANGED <<client, config, outcomes, result>>

Send ==
  /\ callPc = "send"
  /\ callPc' = "attempt"
  /\ UNCHANGED <<client, config, outcomes, result>>

-----------------------------------------------------------------------------
IsFollowedRedirect(code) == code \in {301, 302, 303, 307, 308}

(* Mutant: bad requests are taken for the API's policy. *)
IsSystemErrorStatus_Not400(code) == IsFollowedRedirect(code) \/ code >= 500

IsSystemErrorStatus(code) == IsFollowedRedirect(code) \/ code = 400 \/ code >= 500

(* Mutant: every failure is worth a retry. *)
Retryable_Any4xx(o) == o = NetworkError \/ (o \notin Failures /\ o >= 400)

(* buildRetryableStatuses, and retryablehttp's policy, which it mirrors; a *)
(* context that is done ends the loop.                                     *)
Retryable(o) == \/ o = NetworkError
                \/ o \notin Failures /\ (o = 429 \/ (o >= 500 /\ o # 501))

(* An attempt ends.  The old client hands a redirect to the caller, the    *)
(* new one follows it and sees what the target answers.  Some network      *)
(* errors, a certificate that is not trusted say, are not retried.         *)
AttemptEnds(o) ==
  /\ callPc = "attempt"
  /\ o \in Failures \/ client = "old" \/ ~IsFollowedRedirect(o)
  /\ outcomes' = Append(outcomes, o)
  /\ \/ /\ Retryable(o) /\ Attempts + 1 < CallAttempts
        /\ callPc' = "backoff"
     \/ /\ o = NetworkError \/ ~(Retryable(o) /\ Attempts + 1 < CallAttempts)
        /\ callPc' = "finish"
  /\ UNCHANGED <<client, config, result>>

WaitEnds ==
  /\ callPc = "backoff"
  /\ callPc' = "send"
  /\ UNCHANGED <<client, config, outcomes, result>>

(* The context is done during the wait. *)
WaitInterrupted(o) ==
  /\ callPc = "backoff"
  /\ callPc' = "finish"
  /\ outcomes' = Append(outcomes, o)
  /\ UNCHANGED <<client, config, result>>

-----------------------------------------------------------------------------
(* Mutant: every failed request is the system's fault. *)
NewTransportAPIError_All(o) == APIError(0, TRUE)

NewTransportAPIError(o) == APIError(0, o # Canceled)

(* client.parseError; Decoded stands for no error. *)
parseError(code) ==
  IF IsFollowedRedirect(code) THEN APIError(code, TRUE)
  ELSE IF code \in 200..399 THEN Decoded
  ELSE APIError(code, IsSystemErrorStatus(code))

(* retryablehttp keeps no response of a retryable status: when it gives up *)
(* the call has an error and no answer.  checkResponse.                    *)
OldError(o) == IF o \in Failures \/ Retryable(o) THEN NewTransportAPIError(o) ELSE parseError(o)

(* DoWithRetry gives the last response, whatever its status; ParseJSON     *)
(* looks at 4xx and 5xx only, and its *APIError has a message only.        *)
NewError(o) ==
  IF o \in Failures THEN NewTransportAPIError(o)
  ELSE IF o >= 400 THEN APIError(0, FALSE)
  ELSE Decoded

(* The call returns.  A body that does not decode is "parsing failed". *)
Finish ==
  /\ callPc = "finish"
  /\ LET r == IF client = "old" THEN OldError(Outcome) ELSE NewError(Outcome)
     IN  result' \in (IF r = Decoded THEN {Decoded, PlainError} ELSE {r})
  /\ callPc' = "done"
  /\ UNCHANGED <<client, config, outcomes>>

Done == callPc = "done" /\ UNCHANGED callVars

CallNext ==
  \/ GetClient \/ GetClientFails
  \/ Unsendable \/ NoToken \/ Sign \/ Send
  \/ \E o \in Statuses \cup Failures : AttemptEnds(o)
  \/ WaitEnds \/ (\E o \in {Canceled, DeadlineExceeded} : WaitInterrupted(o))
  \/ Finish
  \/ Done

CallSpec == CallInit /\ [][CallNext]_callVars

-----------------------------------------------------------------------------
(* Properties. *)

(* An answer the API meant is never asked for again: only a network        *)
(* failure, 429 or a 5xx other than 501 is followed by another attempt, so *)
(* a POST the API has decided on is not sent twice; and no call makes more *)
(* than CallAttempts attempts.                                             *)
OnlyTransientRetried ==
  /\ Len(outcomes) <= CallAttempts
  /\ \A i \in 1..Len(outcomes) - 1 :
       \/ outcomes[i] = NetworkError \/ outcomes[i] = 429
       \/ outcomes[i] \in 500..599 \ {501}

(* What the comments of IsSystemErrorStatus, APIError.System and           *)
(* NewTransportAPIError call a failure of the infrastructure, and what a   *)
(* policy response.                                                        *)
Infrastructure ==
  {NetworkError, DeadlineExceeded, 301, 302, 303, 307, 308, 400} \cup (500..599)
PolicyResponses == {401, 403, 404, 422, 429}

(* The old client reports every infrastructure failure as one: a call that *)
(* ends in no answer, a redirect, a 400 or a 5xx is a system error, and    *)
(* none of them is mistaken for success.                                   *)
OutageIsSystemError ==
  (/\ callPc = "done" /\ client = "old" /\ outcomes # <<>>
   /\ Outcome \in Infrastructure)
     => result.kind = "api" /\ result.system

(* The call ended throttled: 429 at the last attempt there was, after      *)
(* which retryablehttp keeps no response.                                  *)
GaveUpThrottled ==
  client = "old" /\ Attempts = CallAttempts /\ outcomes # <<>> /\ Outcome = 429

(* No false alarm but one: a system error means that the last attempt met  *)
(* a failure of the infrastructure, or that the old client gave up on a    *)
(* 429 (PolicyIsNoSystemError is about that one).  A caller that went      *)
(* away, during an attempt or a wait and however the earlier attempts      *)
(* failed, and what the API refuses for a reason of its own, also when it  *)
(* is the answer to a retry, count toward no error SLI; nor does a 429     *)
(* before the last attempt or through the new client                       *)
(* (NewTransportAPIError, IsSystemErrorStatus).                            *)
SystemErrorJustified ==
  result.system /\ ~GaveUpThrottled => outcomes # <<>> /\ Outcome \in Infrastructure

(* httpclient.go: "Other 4xx responses (401/403/404/422/429) are expected  *)
(* policy responses"; gitlabnet.go: policy responses should not count      *)
(* toward error SLIs.  So the error of a call that ends in one is not a    *)
(* system error.  The code breaks this for 429, in OldError.               *)
PolicyIsNoSystemError ==
  callPc = "done" /\ outcomes # <<>> /\ Outcome \in PolicyResponses => ~result.system
=============================================================================

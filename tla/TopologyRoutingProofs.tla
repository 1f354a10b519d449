----------------------- MODULE TopologyRoutingProofs -----------------------
(***************************************************************************)
(* TopologyRouting's invariants, for any number of requests and cells and  *)
(* any bound on the attempts; at the end those of InternalAPI, for the     *)
(* call that is made to the host a request was routed to.                  *)
(***************************************************************************)
EXTENDS TopologyRouting, InternalAPI, TLAPS

(* Where a request may still be classified. *)
Resolving == {"resolve", "getClient", "classify", "backoff"}

(* A request in resolve has attempts left and no cell. *)
ResolveInv ==
  \A r \in Requests : pc[r] \in Resolving =>
    attempts[r] < MaxAttempts /\ answer[r] \notin Cells

(* A request's address is its own last answer, if that names a cell, and   *)
(* the shared client keeps its host.                                       *)
AddressInv ==
  /\ sharedHost = DefaultHost
  /\ \A r \in Requests : address[r] = buildCellURL(answer[r])

IInv == TypeOK /\ ResolveInv /\ AddressInv /\ SentWhereAnswered /\ OneOpenConnection

-----------------------------------------------------------------------------
(* The numbers of a well-typed state. *)
LEMMA Numbers ==
  ASSUME TypeOK
  PROVE  /\ MaxAttempts \in Nat \ {0}
         /\ dialled \in Nat /\ conn \in 0..dialled /\ closed \subseteq 1..dialled
         /\ using \in [Requests -> 0..dialled]
         /\ attempts \in [Requests -> 0..MaxAttempts]
  BY RoutingAssumption DEF TypeOK

(* A failed attempt is the last one, or leaves another one; no code is a   *)
(* cell.                                                                   *)
LEMMA AttemptFailsInv ==
  ASSUME IInv, NEW r \in Requests, pc[r] \in Resolving,
         NEW code \in RetryableCodes \cup PermanentCodes, AttemptFails(r, code),
         UNCHANGED <<enabled, classifiable, cacheVars, using, sharedHost, address, sentTo>>
  PROVE  IInv'
  <1> USE DEF IInv, cacheVars
  <1>0. attempts[r] < MaxAttempts
    BY DEF ResolveInv
  <1>1. TypeOK'
    <2>1. attempts' \in [Requests -> 0..MaxAttempts]
      BY <1>0, Numbers DEF AttemptFails
    <2>3. pc' \in [Requests -> {"resolve", "getClient", "classify", "backoff", "attach",
                               "post", "done"}]
      BY DEF TypeOK, AttemptFails
    <2>2. answer' \in [Requests -> Answers \cup RetryableCodes \cup PermanentCodes \cup {"none"}]
      BY DEF TypeOK, AttemptFails
    <2> QED BY <2>1, <2>2, <2>3 DEF TypeOK
  <1>2. code \notin Cells /\ answer'[r] = code
    BY AddressAssumption DEF AttemptFails, TypeOK
  <1>3. ResolveInv'
    BY <1>2 DEF ResolveInv, TypeOK, AttemptFails, Resolving
  <1>4. AddressInv'
    BY <1>2 DEF AddressInv, TypeOK, AttemptFails, buildCellURL, ResolveInv
  <1>5. SentWhereAnswered'
    BY DEF SentWhereAnswered, TypeOK, AttemptFails
  <1>6. OneOpenConnection'
    BY DEF OneOpenConnection
  <1> QED BY <1>1, <1>3, <1>4, <1>5, <1>6

(* A request's step keeps the invariant: one case per action. *)
LEMMA StepInv == ASSUME IInv, NEW r \in Requests, Step(r) PROVE IInv'
  <1> USE DEF cacheVars
  <1>1. CASE SkipResolve(r)
    BY <1>1 DEF IInv, SkipResolve, TypeOK, ResolveInv, AddressInv, SentWhereAnswered,
       OneOpenConnection, Resolving
  <1>2. CASE StartResolve(r)
    BY <1>2 DEF IInv, StartResolve, TypeOK, ResolveInv, AddressInv, SentWhereAnswered,
       OneOpenConnection, Resolving
  <1>3. CASE getClient(r)
    <2>1. /\ dialled' \in Nat /\ dialled <= dialled' /\ conn' \in 0..dialled'
          /\ closed' = closed
      BY <1>3, Numbers DEF IInv, getClient
    <2>2. OneOpenConnection'
      BY <1>3, Numbers DEF IInv, getClient, OneOpenConnection
    <2>4. TypeOK'
      <3>1. using' \in [Requests -> 0..dialled'] /\ closed' \subseteq 1..dialled'
        BY <1>3, <2>1, Numbers DEF IInv, getClient
      <3> QED BY <1>3, <2>1, <3>1 DEF IInv, getClient, TypeOK
    <2>3. ResolveInv' /\ AddressInv' /\ SentWhereAnswered'
      BY <1>3 DEF IInv, getClient, TypeOK, ResolveInv, AddressInv, SentWhereAnswered, Resolving
    <2> QED BY <2>2, <2>3, <2>4 DEF IInv
  <1>4. CASE getClientFails(r)
    BY <1>4, AttemptFailsInv DEF getClientFails, Resolving, RetryableCodes
  <1>5. ASSUME NEW code \in RetryableCodes \cup PermanentCodes, ClassifyFails(r, code)
        PROVE  IInv'
    BY <1>5, AttemptFailsInv DEF ClassifyFails, Resolving
  <1>6. ASSUME NEW a \in Answers, ClassifyAnswers(r, a) PROVE IInv'
    <2>1. TypeOK'
      <3>1. attempts[r] < MaxAttempts /\ attempts[r] \in Nat
        BY <1>6, Numbers DEF IInv, ClassifyAnswers, ResolveInv, Resolving
      <3>2. attempts' \in [Requests -> 0..MaxAttempts]
        BY <1>6, <3>1, Numbers DEF IInv, ClassifyAnswers
      <3>3. address' \in [Requests -> Cells \cup {"none"}]
        BY <1>6 DEF IInv, ClassifyAnswers, TypeOK, buildCellURL
      <3> QED BY <1>6, <3>2, <3>3 DEF IInv, ClassifyAnswers, TypeOK
    <2>2. ResolveInv'
      BY <1>6 DEF IInv, ClassifyAnswers, TypeOK, ResolveInv, Resolving
    <2>3. AddressInv'
      BY <1>6 DEF IInv, ClassifyAnswers, TypeOK, AddressInv
    <2>4. SentWhereAnswered' /\ OneOpenConnection'
      BY <1>6 DEF IInv, ClassifyAnswers, TypeOK, SentWhereAnswered, OneOpenConnection
    <2> QED BY <2>1, <2>2, <2>3, <2>4 DEF IInv
  <1>7. CASE BackoffEnds(r)
    BY <1>7 DEF IInv, BackoffEnds, TypeOK, ResolveInv, AddressInv, SentWhereAnswered,
       OneOpenConnection, Resolving
  <1>8. CASE BackoffInterrupted(r)
    BY <1>8 DEF IInv, BackoffInterrupted, TypeOK, ResolveInv, AddressInv, SentWhereAnswered,
       OneOpenConnection, Resolving
  <1>9. CASE attachHost(r)
    BY <1>9 DEF IInv, attachHost, TypeOK, ResolveInv, AddressInv, SentWhereAnswered,
       OneOpenConnection, Resolving
  <1>10. CASE Post(r)
    <2>1. sentTo'[r] = IF answer[r] \in Cells THEN answer[r] ELSE DefaultHost
      BY <1>10, AddressAssumption DEF IInv, Post, TypeOK, AddressInv, buildCellURL
    <2>2. TypeOK'
      BY <1>10 DEF IInv, Post, TypeOK
    <2>3. SentWhereAnswered'
      BY <1>10, <2>1 DEF IInv, Post, TypeOK, SentWhereAnswered
    <2>4. ResolveInv' /\ AddressInv' /\ OneOpenConnection'
      BY <1>10 DEF IInv, Post, TypeOK, ResolveInv, AddressInv, OneOpenConnection, Resolving
    <2> QED BY <2>2, <2>3, <2>4 DEF IInv
  <1> QED
    BY <1>1, <1>2, <1>3, <1>4, <1>5, <1>6, <1>7, <1>8, <1>9, <1>10 DEF Step

(* Close leaves no connection behind. *)
LEMMA CloseInv == ASSUME IInv, Close PROVE IInv'
  <1>1. conn' \in 0..dialled' /\ closed' \subseteq 1..dialled' /\ OneOpenConnection'
    BY Numbers DEF IInv, Close, OneOpenConnection
  <1>2. TypeOK'
    BY <1>1 DEF IInv, Close, TypeOK
  <1>3. ResolveInv' /\ AddressInv' /\ SentWhereAnswered'
    BY DEF IInv, Close, ResolveInv, AddressInv, SentWhereAnswered
  <1> QED BY <1>1, <1>2, <1>3 DEF IInv

(* The inductive invariant holds of every behaviour. *)
THEOREM Invariance == Spec => []IInv
  <1>1. Init => IInv
    BY RoutingAssumption, AddressAssumption DEF Init, IInv, TypeOK, ResolveInv, AddressInv,
       SentWhereAnswered, OneOpenConnection, Resolving, buildCellURL
  <1>2. ASSUME IInv, UNCHANGED vars PROVE IInv'
    BY <1>2 DEF vars, cacheVars, IInv, TypeOK, ResolveInv, AddressInv, SentWhereAnswered,
       OneOpenConnection
  <1>3. IInv /\ [Next]_vars => IInv'
    BY <1>2, StepInv, CloseInv DEF Next, AllDone
  <1> QED
    BY <1>1, <1>3, PTL DEF Spec

(* The routing state is well typed, and no request makes more than         *)
(* MaxAttempts calls of Classify (Client.Classify's retry loop).           *)
THEOREM Typed == Spec => []TypeOK
  BY Invariance, PTL DEF IInv

(* A request goes to the cell its own last Classify named, and to the      *)
(* default host in every other case (resolve, attachHost, WithHost).       *)
THEOREM Routed == Spec => []SentWhereAnswered
  BY Invariance, PTL DEF IInv

(* At most one connection to the Topology Service is open, and it is the   *)
(* one the client holds (getClient, Close).                                *)
THEOREM OneConnection == Spec => []OneOpenConnection
  BY Invariance, PTL DEF IInv

-----------------------------------------------------------------------------
(* One call of the internal API. *)
Outcomes == Statuses \cup Failures

(* What the client makes of the last attempt. *)
Verdict(o) == IF client = "old" THEN OldError(o) ELSE NewError(o)

(* Every attempt but the last one was worth another, the last one too      *)
(* while another is to come, for which there is room; a call stops at one  *)
(* that is worth another only when there is no room.                       *)
AttemptsInv ==
  /\ outcomes \in Seq(Outcomes) /\ Len(outcomes) <= CallAttempts
  /\ callPc \in {"build", "start", "send", "attempt", "backoff", "finish", "done"}
  /\ callPc \in {"build", "start"} => outcomes = <<>>
  /\ callPc \in {"send", "attempt", "backoff"} =>
       /\ Len(outcomes) < CallAttempts
       /\ \A i \in 1..Len(outcomes) : Retryable(outcomes[i])
  /\ callPc = "finish" => outcomes # <<>>
  /\ callPc \in {"finish", "done"} /\ outcomes # <<>> =>
       \/ ~Retryable(outcomes[Len(outcomes)]) \/ outcomes[Len(outcomes)] = NetworkError
       \/ Len(outcomes) = CallAttempts
  /\ \A i \in 1..(Len(outcomes) - 1) : Retryable(outcomes[i])

(* A call that is over has the verdict on its last attempt, if it made     *)
(* one, but for a body that does not decode.                               *)
ResultInv ==
  /\ callPc # "done" => result = Pending
  /\ callPc = "done" =>
       IF outcomes = <<>> THEN result = PlainError
       ELSE \/ result = Verdict(outcomes[Len(outcomes)])
            \/ result = PlainError /\ Verdict(outcomes[Len(outcomes)]) = Decoded

CallInv == AttemptsInv /\ ResultInv

(* The steps that make an attempt, or give up during a wait. *)
LEMMA AttemptStep ==
  ASSUME CallInv, NEW o \in Outcomes,
         AttemptEnds(o) \/ (o \in {Canceled, DeadlineExceeded} /\ WaitInterrupted(o))
  PROVE  CallInv'
  <1>1. /\ callPc \in {"attempt", "backoff"} /\ callPc' \in {"backoff", "finish"}
        /\ outcomes' = Append(outcomes, o)
        /\ callPc' = "backoff" => Retryable(o) /\ Len(outcomes) + 1 < CallAttempts
        /\ callPc' = "finish" => \/ ~Retryable(o) \/ o = NetworkError
                                 \/ ~(Len(outcomes) + 1 < CallAttempts)
        /\ UNCHANGED <<client, result>>
    BY DEF AttemptEnds, WaitInterrupted, Attempts, Retryable, Failures, NetworkError, Canceled,
           DeadlineExceeded
  <1>2. /\ outcomes \in Seq(Outcomes) /\ Len(outcomes) \in Nat /\ Len(outcomes) < CallAttempts
        /\ \A i \in 1..Len(outcomes) : Retryable(outcomes[i])
        /\ CallAttempts \in Nat
    BY <1>1, APIAssumption DEF CallInv, AttemptsInv
  <1>3. /\ outcomes' \in Seq(Outcomes) /\ Len(outcomes') = Len(outcomes) + 1
        /\ outcomes' # <<>> /\ outcomes'[Len(outcomes) + 1] = o
        /\ \A i \in 1..Len(outcomes) : outcomes'[i] = outcomes[i]
    BY <1>1, <1>2
  <1>4. AttemptsInv'
    BY <1>1, <1>2, <1>3 DEF AttemptsInv, Retryable
  <1>5. ResultInv'
    BY <1>1 DEF CallInv, ResultInv
  <1> QED BY <1>4, <1>5 DEF CallInv

(* A call keeps the invariant, with either client, whatever the answers    *)
(* are and however many attempts it may make.                              *)
THEOREM CallInvariance == CallSpec => []CallInv
  <1>1. CallInit => CallInv
    <2> SUFFICES ASSUME CallInit PROVE CallInv
      OBVIOUS
    <2>1. /\ outcomes = <<>> /\ callPc = "build" /\ result = Pending
          /\ CallAttempts \in Nat \ {0}
      BY APIAssumption DEF CallInit
    <2>2. outcomes \in Seq(Outcomes) /\ Len(outcomes) = 0
      BY <2>1
    <2> QED BY <2>1, <2>2 DEF CallInv, AttemptsInv, ResultInv
  <1>2. CallInv /\ [CallNext]_callVars => CallInv'
    <2> SUFFICES ASSUME CallInv, [CallNext]_callVars PROVE CallInv'
      OBVIOUS
    <2>1. CASE UNCHANGED callVars
      BY <2>1 DEF callVars, CallInv, AttemptsInv, ResultInv, Verdict, Retryable
    <2>2. CASE GetClient \/ Sign \/ Send \/ WaitEnds
      <3>1. /\ UNCHANGED <<client, outcomes, result>>
            /\ callPc' # "done" /\ callPc # "done"
            /\ \/ callPc = "build" /\ callPc' = "start"
               \/ callPc = "start" /\ callPc' = "send"
               \/ callPc \in {"send", "backoff"} /\ callPc' \in {"attempt", "send"}
        BY <2>2 DEF GetClient, Sign, Send, WaitEnds
      <3>2. AttemptsInv'
        <4>1. CallAttempts \in Nat \ {0}
          BY APIAssumption
        <4>2. outcomes = <<>> => Len(outcomes) = 0
          OBVIOUS
        <4> QED BY <3>1, <4>1, <4>2 DEF CallInv, AttemptsInv
      <3>3. ResultInv'
        BY <3>1 DEF CallInv, ResultInv
      <3> QED BY <3>2, <3>3 DEF CallInv
    <2>3. CASE GetClientFails \/ Unsendable \/ NoToken
      <3>1. /\ UNCHANGED <<client, outcomes>> /\ callPc \in {"build", "start"} /\ callPc' = "done"
            /\ result' = PlainError
        BY <2>3 DEF GetClientFails, Unsendable, NoToken
      <3> QED BY <3>1 DEF CallInv, AttemptsInv, ResultInv
    <2>4. CASE \/ \E o \in Statuses \cup Failures : AttemptEnds(o)
               \/ \E o \in {Canceled, DeadlineExceeded} : WaitInterrupted(o)
      BY <2>4, AttemptStep DEF Outcomes, Failures
    <2>5. CASE Finish
      <3>1. /\ UNCHANGED <<client, outcomes>> /\ callPc = "finish" /\ callPc' = "done"
            /\ outcomes # <<>>
        BY <2>5 DEF Finish, CallInv, AttemptsInv
      <3>2. \/ result' = Verdict(outcomes[Len(outcomes)])
            \/ result' = PlainError /\ Verdict(outcomes[Len(outcomes)]) = Decoded
        BY <2>5 DEF Finish, Outcome, Last, Verdict
      <3>3. AttemptsInv'
        BY <3>1 DEF CallInv, AttemptsInv
      <3>4. ResultInv'
        BY <3>1, <3>2 DEF ResultInv, Verdict
      <3> QED BY <3>3, <3>4 DEF CallInv
    <2> QED BY <2>1, <2>2, <2>3, <2>4, <2>5 DEF CallNext, Done
  <1> QED BY <1>1, <1>2, PTL DEF CallSpec

(* The last attempt of a call that made one. *)
LEMMA LastOutcome ==
  ASSUME CallInv, outcomes # <<>>
  PROVE  /\ Outcome = outcomes[Len(outcomes)] /\ Outcome \in Outcomes
         /\ Outcome \in 0..599
  <1>1. outcomes \in Seq(Outcomes) /\ Len(outcomes) \in 1..Len(outcomes)
    BY DEF CallInv, AttemptsInv
  <1>2. Outcome = outcomes[Len(outcomes)] /\ Outcome \in Outcomes
    BY <1>1 DEF Outcome, Last
  <1>3. \A o \in Outcomes : o \in 0..599
    BY APIAssumption DEF Outcomes, Failures, NetworkError, Canceled, DeadlineExceeded
  <1> QED BY <1>2, <1>3

(* An answer the API meant is never asked for again, and no call makes     *)
(* more attempts than it may.                                              *)
THEOREM RetriedOnlyTransient == CallSpec => []OnlyTransientRetried
  <1>1. CallInv => OnlyTransientRetried
    <2> SUFFICES ASSUME CallInv PROVE OnlyTransientRetried
      OBVIOUS
    <2>1. /\ outcomes \in Seq(Outcomes) /\ Len(outcomes) <= CallAttempts
          /\ \A i \in 1..(Len(outcomes) - 1) : outcomes[i] \in Outcomes /\ Retryable(outcomes[i])
      BY DEF CallInv, AttemptsInv
    <2>2. \A o \in Outcomes : Retryable(o) =>
            o = NetworkError \/ o = 429 \/ o \in 500..599 \ {501}
      BY APIAssumption DEF Outcomes, Retryable, Failures
    <2> QED BY <2>1, <2>2 DEF OnlyTransientRetried
  <1> QED BY <1>1, CallInvariance, PTL

(* The old client reports every infrastructure failure as a system error. *)
THEOREM OutagesReported == CallSpec => []OutageIsSystemError
  <1>1. CallInv => OutageIsSystemError
    <2> SUFFICES ASSUME CallInv, callPc = "done", client = "old", outcomes # <<>>,
                        Outcome \in Infrastructure
                 PROVE  result.kind = "api" /\ result.system
      BY DEF OutageIsSystemError
    <2>1. PICK o : o = Outcome
      OBVIOUS
    <2>2. OldError(o).kind = "api" /\ OldError(o).system
      <3>1. CASE o \in {NetworkError, DeadlineExceeded} \/ Retryable(o)
        <4>1. (o \in Failures \/ Retryable(o)) /\ o # Canceled
          BY <3>1 DEF Failures, NetworkError, Canceled, DeadlineExceeded, Retryable
        <4>2. OldError(o) = NewTransportAPIError(o)
          BY <4>1 DEF OldError
        <4>3. /\ NewTransportAPIError(o).kind = "api"
              /\ NewTransportAPIError(o).system = (o # Canceled)
          BY DEF NewTransportAPIError, APIError
        <4> QED BY <4>1, <4>2, <4>3
      <3>2. CASE o \notin {NetworkError, DeadlineExceeded} /\ ~Retryable(o)
        <4>1. /\ o \in Nat /\ o \notin Failures
              /\ IsFollowedRedirect(o) \/ o = 400 \/ o = 501
          BY <2>1, <3>2 DEF Infrastructure, Failures, NetworkError, Canceled, DeadlineExceeded,
                            Retryable, IsFollowedRedirect
        <4>2. OldError(o) = parseError(o)
          BY <3>2, <4>1 DEF OldError
        <4>3. CASE IsFollowedRedirect(o)
          BY <4>2, <4>3 DEF parseError, APIError
        <4>4. CASE ~IsFollowedRedirect(o)
          <5>1. o \notin 200..399 /\ IsSystemErrorStatus(o)
            BY <4>1, <4>4 DEF IsSystemErrorStatus
          <5>2. parseError(o) = APIError(o, IsSystemErrorStatus(o))
            BY <4>4, <5>1 DEF parseError
          <5> QED BY <4>2, <5>1, <5>2 DEF APIError
        <4> QED BY <4>3, <4>4
      <3> QED BY <3>1, <3>2
    <2>3. Verdict(o) = OldError(o) /\ o = outcomes[Len(outcomes)]
      BY <2>1, LastOutcome DEF Verdict
    <2>4. OldError(o) # Decoded
      BY <2>2 DEF Decoded
    <2>5. result = OldError(o)
      BY <2>3, <2>4 DEF CallInv, ResultInv
    <2> QED BY <2>2, <2>5
  <1> QED BY <1>1, CallInvariance, PTL

(* No false alarm but one: a system error, of either client, means that    *)
(* the last attempt met a failure of the infrastructure, unless the old    *)
(* client gave up on a 429 at the last attempt there was.                  *)
THEOREM AlarmsJustified == CallSpec => []SystemErrorJustified
  <1>1. CallInv => SystemErrorJustified
    <2> SUFFICES ASSUME CallInv, result.system, ~GaveUpThrottled PROVE SystemErrorJustified
      BY DEF SystemErrorJustified
    <2>1. result # Pending /\ result # PlainError
      BY DEF Pending, PlainError
    <2>2. callPc = "done" /\ outcomes # <<>> /\ result = Verdict(outcomes[Len(outcomes)])
      BY <2>1 DEF CallInv, ResultInv
    <2>3. PICK o : o = Outcome
      OBVIOUS
    <2>4. o \in Outcomes /\ o \in 0..599 /\ result = Verdict(o)
      BY <2>2, <2>3, LastOutcome
    <2>5. o \in Infrastructure
      <3>1. CASE o \in Failures
        <4>1. result = NewTransportAPIError(o)
          BY <2>4, <3>1 DEF Verdict, OldError, NewError
        <4>2. o # Canceled
          BY <4>1 DEF NewTransportAPIError, APIError
        <4> QED BY <3>1, <4>2 DEF Failures, Infrastructure
      <3>2. CASE o \notin Failures /\ client = "old" /\ Retryable(o)
        <4>1. Len(outcomes) = CallAttempts
          BY <2>2, <2>3, <3>2, LastOutcome DEF CallInv, AttemptsInv, Failures
        <4>2. o # 429
          BY <2>2, <2>3, <3>2, <4>1 DEF GaveUpThrottled, Attempts
        <4> QED BY <2>4, <3>2, <4>2 DEF Retryable, Failures, Infrastructure
      <3>3. CASE o \notin Failures /\ client = "old" /\ ~Retryable(o)
        <4>1. result = parseError(o)
          BY <2>4, <3>3 DEF Verdict, OldError
        <4>2. IsFollowedRedirect(o) \/ IsSystemErrorStatus(o)
          BY <4>1 DEF parseError, APIError, Decoded
        <4> QED BY <2>4, <4>2 DEF IsFollowedRedirect, IsSystemErrorStatus, Infrastructure
      <3>4. CASE o \notin Failures /\ client # "old"
        BY <2>4, <3>4 DEF Verdict, NewError, APIError, Decoded
      <3> QED BY <3>1, <3>2, <3>3, <3>4
    <2> QED BY <2>2, <2>3, <2>5 DEF SystemErrorJustified
  <1> QED BY <1>1, CallInvariance, PTL
=============================================================================

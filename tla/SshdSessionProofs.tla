------------------------- MODULE SshdSessionProofs -------------------------
(***************************************************************************)
(* SshdSession's invariants, for any commands, protocols and number of     *)
(* requests; then those of TwoFactorVerify, a command of a session; at the *)
(* end, that the session that runs this command keeps both.                *)
(***************************************************************************)
EXTENDS TwoFactorSession, FiniteSetTheorems, SequenceTheorems, TLAPS

EarlyKinds == {"reply", "stderr"}
Kinds == EarlyKinds \cup {"eof", "exit-status", "close"}
Messages == [kind: Kinds, n: Nat]

(* What ends the session, as far as it has got. *)
Ending ==
  IF pc = "exitStatus" THEN <<EofMsg>>
  ELSE IF pc = "close" /\ err # "unmarshal" THEN <<EofMsg, ExitStatusMsg(status)>>
  ELSE IF pc = "done" /\ err # "unmarshal" THEN <<EofMsg, ExitStatusMsg(status), CloseMsg>>
  ELSE IF pc = "done" THEN <<CloseMsg>>
  ELSE <<>>

(* To a client that is there: replies and errors, then the ending. *)
SentInv ==
  /\ sent \in Seq(Messages)
  /\ peer => \E body \in Seq([kind: EarlyKinds, n: Nat]) : sent = body \o Ending

ReplyInv == asked \in Nat /\ EveryRequestAnswered

(* An error of the loop does not outlive a command, and the error of a     *)
(* command fits its status.                                                *)
ErrInv ==
  /\ pc \in {"receive", "command", "execute", "closeWrite", "exitStatus", "close", "done",
             "panicked"}
  /\ status \in {0, 1, 128}
  /\ pc \in {"receive", "command"} => ran = <<>>
  /\ err = "unmarshal" => pc \in {"close", "done"} /\ ran = <<>>
  /\ err = "reply" => ~peer /\ pc \notin {"closeWrite", "exitStatus", "close"}
  /\ err = "reply" /\ pc = "done" => ran = <<>>
  /\ pc \in {"closeWrite", "exitStatus", "close"} \/ (pc = "done" /\ peer) =>
       err = "unmarshal" \/ (err = "nil" <=> status = 0)

IInv == SentInv /\ ReplyInv /\ ErrInv

-----------------------------------------------------------------------------
(* Where in a sequence the messages of a kind are. *)
Indices(s, kind) == {i \in DOMAIN s : s[i].kind = kind}

(* A message that is sent counts once, among its own kind. *)
LEMMA CountOne ==
  ASSUME NEW s \in Seq(Messages), NEW m \in Messages, NEW kind
  PROVE  /\ s \o <<m>> \in Seq(Messages)
         /\ IsFiniteSet(Indices(s, kind)) /\ Cardinality(Indices(s, kind)) \in Nat
         /\ Cardinality(Indices(s \o <<m>>, kind)) =
              IF m.kind = kind THEN Cardinality(Indices(s, kind)) + 1
                               ELSE Cardinality(Indices(s, kind))
  <1>1. PICK t : t = s \o <<m>>
    OBVIOUS
  <1>2. /\ t \in Seq(Messages) /\ Len(t) = Len(s) + 1 /\ t[Len(s) + 1] = m
        /\ \A i \in 1..Len(s) : t[i] = s[i]
    BY <1>1
  <1>3. DOMAIN s = 1..Len(s) /\ DOMAIN t = 1..(Len(s) + 1) /\ Len(s) \in Nat
    BY <1>2
  <1>4. IsFiniteSet(Indices(s, kind)) /\ Cardinality(Indices(s, kind)) \in Nat
    <2>1. IsFiniteSet(1..Len(s)) /\ Indices(s, kind) \subseteq 1..Len(s)
      BY <1>3, FS_Interval DEF Indices
    <2> QED BY <2>1, FS_Subset, FS_CardinalityType
  <1>5. CASE m.kind = kind
    <2>1. Indices(t, kind) = Indices(s, kind) \cup {Len(s) + 1} /\ Len(s) + 1 \notin Indices(s, kind)
      BY <1>2, <1>3, <1>5 DEF Indices
    <2>2. Cardinality(Indices(t, kind)) = Cardinality(Indices(s, kind)) + 1
      BY <1>4, <2>1, FS_AddElement
    <2> QED BY <1>1, <1>2, <1>4, <1>5, <2>2
  <1>6. CASE m.kind # kind
    <2>1. Indices(t, kind) = Indices(s, kind)
      BY <1>2, <1>3, <1>6 DEF Indices
    <2> QED BY <1>1, <1>2, <1>4, <1>6, <2>1
  <1> QED BY <1>5, <1>6

(* What is delivered. *)
LEMMA DeliveredOne ==
  ASSUME IInv, NEW m \in Messages, sent' = Delivered(<<m>>), peer' = peer,
         asked' = IF m.kind = "reply" THEN asked + 1 ELSE asked
  PROVE  sent' \in Seq(Messages) /\ ReplyInv'
  <1>1. asked' \in Nat
    BY DEF IInv, ReplyInv
  <1>2. CASE peer
    <2>1. sent' = sent \o <<m>> /\ Cardinality(Indices(sent, "reply")) = asked
      BY <1>2 DEF Delivered, IInv, ReplyInv, EveryRequestAnswered, Sent, Indices
    <2>2. /\ sent \o <<m>> \in Seq(Messages) /\ Cardinality(Indices(sent, "reply")) \in Nat
          /\ Cardinality(Indices(sent \o <<m>>, "reply")) =
               IF m.kind = "reply" THEN Cardinality(Indices(sent, "reply")) + 1
                                   ELSE Cardinality(Indices(sent, "reply"))
      BY CountOne DEF IInv, SentInv
    <2>3. Cardinality(Indices(sent \o <<m>>, "reply")) = asked'
      BY <2>1, <2>2
    <2>4. Cardinality(Sent("reply")') = asked'
      BY <2>1, <2>3 DEF Sent, Indices
    <2> QED BY <1>1, <2>1, <2>2, <2>4 DEF ReplyInv, EveryRequestAnswered
  <1>3. CASE ~peer
    BY <1>1, <1>3 DEF Delivered, IInv, SentInv, ReplyInv, EveryRequestAnswered
  <1> QED BY <1>2, <1>3

(* A reply or an error, before the session ends. *)
LEMMA SentEarly ==
  ASSUME IInv, NEW m \in [kind: EarlyKinds, n: Nat], sent' = Delivered(<<m>>), peer' = peer,
         sent' \in Seq(Messages), Ending = <<>>, Ending' = <<>>
  PROVE  SentInv'
  <1>1. CASE peer
    <2>1. PICK body \in Seq([kind: EarlyKinds, n: Nat]) : sent = body \o Ending
      BY <1>1 DEF IInv, SentInv
    <2>2. sent = body /\ sent' = body \o <<m>>
      BY <1>1, <2>1 DEF Delivered
    <2>3. body \o <<m>> \in Seq([kind: EarlyKinds, n: Nat])
      OBVIOUS
    <2>4. sent' = (body \o <<m>>) \o Ending'
      BY <2>2, <2>3
    <2> QED BY <2>3, <2>4 DEF SentInv
  <1>2. CASE ~peer
    BY <1>2 DEF SentInv
  <1> QED BY <1>1, <1>2

(* The ending gets one message longer. *)
LEMMA SentEnding ==
  ASSUME IInv, NEW m \in Messages, sent' = Delivered(<<m>>), peer' = peer,
         sent' \in Seq(Messages), Ending \in Seq(Messages), Ending' = Ending \o <<m>>
  PROVE  SentInv'
  <1>1. CASE peer
    <2>1. PICK body \in Seq([kind: EarlyKinds, n: Nat]) : sent = body \o Ending
      BY <1>1 DEF IInv, SentInv
    <2>2. body \in Seq(Messages)
      BY SeqMonotonic DEF Messages, Kinds
    <2>3. sent' = body \o (Ending \o <<m>>)
      BY <1>1, <2>1, <2>2, ConcatAssociative DEF Delivered
    <2> QED BY <2>3 DEF SentInv
  <1>2. CASE ~peer
    BY <1>2 DEF SentInv
  <1> QED BY <1>1, <1>2

(* Nothing is sent, or nobody is there. *)
LEMMA SentNothing ==
  ASSUME IInv, sent' = sent, peer' => peer, peer' => Ending' = Ending
  PROVE  SentInv'
  BY DEF IInv, SentInv

-----------------------------------------------------------------------------
(* A request that decodes is answered, if it wants to be. *)
LEMMA ReplyStep ==
  ASSUME IInv, NEW r \in Requests, NEW ok, Take(r), Reply(r, ok),
         r.type \notin {"env_bad", "exec_bad"}, peer' = peer, Ending = <<>>, Ending' = <<>>
  PROVE  SentInv' /\ ReplyInv'
  <1>1. r.wantReply \in BOOLEAN
    BY DEF Requests
  <1>2. CASE r.wantReply
    <2>1. PICK m : m = [kind |-> "reply", n |-> IF ok THEN 1 ELSE 0]
      OBVIOUS
    <2>2. m \in [kind: EarlyKinds, n: Nat] /\ m \in Messages /\ m.kind = "reply"
      BY <2>1 DEF EarlyKinds, Messages, Kinds
    <2>3. sent' = Delivered(<<m>>) /\ asked' = asked + 1
      BY <1>2, <2>1 DEF Reply, ReplyMsg, Take
    <2>4. sent' \in Seq(Messages) /\ ReplyInv'
      BY <2>2, <2>3, DeliveredOne
    <2> QED BY <2>2, <2>3, <2>4, SentEarly
  <1>3. CASE ~r.wantReply
    <2>1. sent' = sent /\ asked' = asked
      BY <1>3 DEF Reply, ReplyMsg, Take, Delivered, IInv, SentInv
    <2>2. SentInv'
      BY <2>1, SentNothing
    <2> QED BY <2>1, <2>2 DEF IInv, ReplyInv, EveryRequestAnswered, Sent
  <1> QED BY <1>1, <1>2, <1>3

(* The loop over the requests. *)
LEMMA RequestInv ==
  ASSUME IInv, NEW r \in Requests,
         handleEnv(r) \/ Undecodable(r) \/ handleUnknown(r) \/ handleExecOrShell(r)
  PROVE  IInv'
  <1>1. pc = "receive" /\ Ending = <<>>
    BY DEF handleEnv, Undecodable, handleUnknown, handleExecOrShell, Take, Ending
  <1>2. CASE handleEnv(r)
    <2>1. Ending' = <<>> /\ peer' = peer
      BY <1>1, <1>2 DEF handleEnv, Ending
    <2>2. SentInv' /\ ReplyInv'
      BY <1>1, <1>2, <2>1, ReplyStep DEF handleEnv
    <2> QED BY <1>1, <1>2, <2>2 DEF handleEnv, IInv, ErrInv
  <1>3. CASE Undecodable(r)
    <2>1. Ending' = Ending
      BY <1>1, <1>3 DEF Undecodable, Ending
    <2>2. SentInv'
      BY <1>3, <2>1, SentNothing DEF Undecodable
    <2>3. asked' = asked
      BY <1>3 DEF Undecodable, Take
    <2>4. ReplyInv'
      BY <1>3, <2>3 DEF Undecodable, IInv, ReplyInv, EveryRequestAnswered, Sent
    <2>5. ErrInv'
      BY <1>1, <1>3 DEF Undecodable, IInv, ErrInv
    <2> QED BY <2>2, <2>4, <2>5 DEF IInv
  <1>4. CASE handleUnknown(r)
    <2>1. Ending' = <<>> /\ peer' = peer
      BY <1>1, <1>4 DEF handleUnknown, Ending
    <2>2. SentInv' /\ ReplyInv'
      BY <1>1, <1>4, <2>1, ReplyStep DEF handleUnknown
    <2> QED BY <1>1, <1>4, <2>2 DEF handleUnknown, IInv, ErrInv
  <1>5. CASE handleExecOrShell(r)
    <2>1. Ending' = <<>> /\ peer' = peer
      BY <1>1, <1>5 DEF handleExecOrShell, Ending
    <2>2. SentInv' /\ ReplyInv'
      BY <1>1, <1>5, <2>1, ReplyStep DEF handleExecOrShell
    <2> QED BY <1>1, <1>5, <2>2 DEF handleExecOrShell, IInv, ErrInv
  <1> QED BY <1>2, <1>3, <1>4, <1>5

(* A step that sends nothing and asks for nothing. *)
LEMMA QuietStep ==
  ASSUME IInv, UNCHANGED <<sent, asked>>, peer' => peer, peer' => Ending' = Ending, ErrInv'
  PROVE  IInv'
  <1>1. SentInv'
    BY SentNothing
  <1>2. ReplyInv'
    BY DEF IInv, ReplyInv, EveryRequestAnswered, Sent
  <1> QED BY <1>1, <1>2 DEF IInv

(* A message to standard error. *)
LEMMA StderrStep ==
  ASSUME IInv, sent' = Delivered(<<Stderr>>), UNCHANGED <<peer, asked>>, Ending = <<>>,
         Ending' = <<>>, ErrInv'
  PROVE  IInv'
  <1>1. Stderr \in [kind: EarlyKinds, n: Nat] /\ Stderr \in Messages /\ Stderr.kind # "reply"
    BY DEF Stderr, EarlyKinds, Messages, Kinds
  <1>2. sent' \in Seq(Messages) /\ ReplyInv'
    BY <1>1, DeliveredOne
  <1>3. SentInv'
    BY <1>1, <1>2, SentEarly
  <1> QED BY <1>2, <1>3 DEF IInv

(* A message of the ending. *)
LEMMA EndingStep ==
  ASSUME IInv, NEW m \in Messages, m.kind # "reply", sent' = Delivered(<<m>>),
         UNCHANGED <<peer, asked>>, Ending \in Seq(Messages), Ending' = Ending \o <<m>>, ErrInv'
  PROVE  IInv'
  <1>1. sent' \in Seq(Messages) /\ ReplyInv'
    BY DeliveredOne
  <1>2. SentInv'
    BY <1>1, SentEnding
  <1> QED BY <1>1, <1>2 DEF IInv

(* handleShell, and the end of the loop. *)
LEMMA CommandInv ==
  ASSUME IInv, RequestsClosed \/ CommandError \/ CommandBuilt \/ ExecuteOk \/ ExecuteFails
               \/ ExecutePanics \/ ClientLeaves
  PROVE  IInv'
  <1>1. ErrInv'
    <2>1. CASE RequestsClosed
      BY <2>1 DEF RequestsClosed, IInv, ErrInv
    <2>2. CASE CommandError
      BY <2>2 DEF CommandError, IInv, ErrInv
    <2>3. CASE CommandBuilt
      BY <2>3 DEF CommandBuilt, IInv, ErrInv
    <2>4. CASE ExecuteOk
      BY <2>4 DEF ExecuteOk, IInv, ErrInv
    <2>5. CASE ExecuteFails
      BY <2>5 DEF ExecuteFails, IInv, ErrInv
    <2>6. CASE ExecutePanics
      BY <2>6 DEF ExecutePanics, IInv, ErrInv
    <2>7. CASE ClientLeaves
      BY <2>7 DEF ClientLeaves, IInv, ErrInv
    <2> QED BY <2>1, <2>2, <2>3, <2>4, <2>5, <2>6, <2>7
  <1>2. CASE RequestsClosed
    BY <1>1, <1>2, QuietStep DEF RequestsClosed
  <1>3. CASE CommandError
    <2>1. Ending = <<>> /\ Ending' = <<>>
      BY <1>3 DEF CommandError, Ending
    <2> QED BY <1>1, <1>3, <2>1, StderrStep DEF CommandError
  <1>4. CASE CommandBuilt
    <2>1. Ending' = Ending
      BY <1>4 DEF CommandBuilt, Ending
    <2> QED BY <1>1, <1>4, <2>1, QuietStep DEF CommandBuilt
  <1>5. CASE ExecuteOk
    <2>1. Ending' = Ending
      BY <1>5 DEF ExecuteOk, Ending
    <2> QED BY <1>1, <1>5, <2>1, QuietStep DEF ExecuteOk
  <1>6. CASE ExecuteFails
    <2>1. Ending = <<>> /\ Ending' = <<>> /\ UNCHANGED <<peer, asked>>
      BY <1>6 DEF ExecuteFails, Ending
    <2>2. CASE sent' = sent
      BY <1>1, <2>1, <2>2, QuietStep
    <2>3. CASE sent' = Delivered(<<Stderr>>)
      BY <1>1, <2>1, <2>3, StderrStep
    <2> QED BY <1>6, <2>2, <2>3 DEF ExecuteFails
  <1>7. CASE ExecutePanics
    <2>1. Ending' = Ending
      BY <1>7 DEF ExecutePanics, Ending
    <2> QED BY <1>1, <1>7, <2>1, QuietStep DEF ExecutePanics
  <1>8. CASE ClientLeaves
    BY <1>1, <1>8, QuietStep DEF ClientLeaves
  <1> QED BY <1>2, <1>3, <1>4, <1>5, <1>6, <1>7, <1>8

(* exit, and the close of the channel. *)
LEMMA ExitInv ==
  ASSUME IInv, ExitCloseWrite \/ ExitSendStatus \/ CloseChannel
  PROVE  IInv'
  <1>1. ErrInv'
    BY DEF ExitCloseWrite, ExitSendStatus, CloseChannel, IInv, ErrInv
  <1>2. UNCHANGED <<peer, asked, status, err>>
    BY DEF ExitCloseWrite, ExitSendStatus, CloseChannel
  <1>3. /\ EofMsg \in Messages /\ EofMsg.kind # "reply"
        /\ ExitStatusMsg(status) \in Messages /\ ExitStatusMsg(status).kind # "reply"
        /\ CloseMsg \in Messages /\ CloseMsg.kind # "reply"
    BY DEF EofMsg, ExitStatusMsg, CloseMsg, Messages, Kinds, IInv, ErrInv
  <1>4. CASE ExitCloseWrite
    <2>1. /\ sent' = Delivered(<<EofMsg>>)
          /\ Ending \in Seq(Messages) /\ Ending' = Ending \o <<EofMsg>>
      BY <1>4, <1>3 DEF ExitCloseWrite, Ending
    <2> QED BY <1>1, <1>2, <1>3, <2>1, EndingStep
  <1>5. CASE ExitSendStatus
    <2>1. PICK m : m = ExitStatusMsg(status)
      OBVIOUS
    <2>2. err # "unmarshal"
      BY <1>5 DEF ExitSendStatus, IInv, ErrInv
    <2>3. Ending = <<EofMsg>> /\ Ending' = <<EofMsg, ExitStatusMsg(status')>>
      BY <1>5, <1>2, <2>2 DEF ExitSendStatus, Ending
    <2>4. /\ sent' = Delivered(<<m>>)
          /\ Ending \in Seq(Messages) /\ Ending' = Ending \o <<m>>
      BY <1>2, <1>5, <1>3, <2>1, <2>3 DEF ExitSendStatus
    <2> QED BY <1>1, <1>2, <1>3, <2>1, <2>4, EndingStep
  <1>6. CASE CloseChannel
    <2>1. /\ sent' = Delivered(<<CloseMsg>>)
          /\ Ending \in Seq(Messages) /\ Ending' = Ending \o <<CloseMsg>>
      <3>1. pc = "close" /\ pc' = "done" /\ sent' = Delivered(<<CloseMsg>>)
        BY <1>6 DEF CloseChannel
      <3>2. CASE err = "unmarshal"
        <4>1. Ending = <<>> /\ Ending' = <<CloseMsg>>
          BY <1>2, <3>1, <3>2 DEF Ending
        <4> QED BY <1>3, <3>1, <4>1
      <3>3. CASE err # "unmarshal"
        <4>1. /\ Ending = <<EofMsg, ExitStatusMsg(status)>>
              /\ Ending' = <<EofMsg, ExitStatusMsg(status'), CloseMsg>>
          BY <1>2, <3>1, <3>3 DEF Ending
        <4> QED BY <1>2, <1>3, <3>1, <4>1
      <3> QED BY <3>2, <3>3
    <2> QED BY <1>1, <1>2, <1>3, <2>1, EndingStep
  <1> QED BY <1>4, <1>5, <1>6

-----------------------------------------------------------------------------
(* The session keeps the invariant: what a client that stayed has received *)
(* is replies and errors followed by as much of the ending as handle() has *)
(* got to, with one reply for every request that wants one.                *)
THEOREM Invariance == Spec => []IInv
  <1>1. Init => IInv
    <2> SUFFICES ASSUME Init PROVE IInv
      OBVIOUS
    <2>1. ErrInv
      BY DEF Init, ErrInv
    <2>2. Ending = <<>> /\ sent = <<>> /\ asked = 0
      BY DEF Init, Ending
    <2>3. SentInv
      <3>1. <<>> \in Seq([kind: EarlyKinds, n: Nat]) /\ sent = <<>> \o Ending
        BY <2>2
      <3>2. sent \in Seq(Messages)
        BY <2>2
      <3> QED BY <3>1, <3>2 DEF SentInv
    <2>4. ReplyInv
      <3>1. Sent("reply") = {}
        BY <2>2 DEF Sent
      <3> QED BY <2>2, <3>1, FS_EmptySet DEF ReplyInv, EveryRequestAnswered
    <2> QED BY <2>1, <2>3, <2>4 DEF IInv
  <1>2. IInv /\ [Next]_vars => IInv'
    <2> SUFFICES ASSUME IInv, [Next]_vars PROVE IInv'
      OBVIOUS
    <2>1. CASE UNCHANGED vars
      BY <2>1 DEF vars, IInv, SentInv, Ending, ReplyInv, EveryRequestAnswered, Sent, ErrInv
    <2>2. CASE Next
      BY <2>1, <2>2, RequestInv, CommandInv, ExitInv DEF Next, Finished
    <2> QED BY <2>1, <2>2
  <1> QED BY <1>1, <1>2, PTL DEF Spec

(* The session's state is well typed; its exit status is one of three. *)
THEOREM TypeCorrect == Spec => []TypeOK
  <1>1. Init => TypeOK
    BY SessionAssumption DEF Init, TypeOK
  <1>2. TypeOK /\ IInv /\ IInv' /\ [Next]_vars => TypeOK'
    <2> SUFFICES ASSUME TypeOK, IInv, IInv', [Next]_vars PROVE TypeOK'
      OBVIOUS
    <2>1. \A i \in DOMAIN sent' : sent'[i].kind \in {"reply", "stderr", "eof", "exit-status", "close"}
      <3>1. sent' \in Seq(Messages)
        BY DEF IInv, SentInv
      <3>2. \A i \in DOMAIN sent' : sent'[i] \in Messages
        BY <3>1
      <3> QED BY <3>2 DEF Messages, Kinds, EarlyKinds
    <2>2. /\ pc' \in {"receive", "command", "execute", "closeWrite", "exitStatus", "close", "done",
                       "panicked"}
          /\ status' \in {0, 1, 128}
      BY DEF IInv, ErrInv
    <2>3. requests' \in 0..MaxRequests /\ asked' \in 0..requests'
      <3>1. UNCHANGED <<requests, asked>> \/ \E r \in Requests : Take(r)
        BY DEF Next, vars, handleEnv, Undecodable, handleUnknown, handleExecOrShell,
               RequestsClosed, CommandError, CommandBuilt, ExecuteOk, ExecuteFails, ExecutePanics,
               ExitCloseWrite, ExitSendStatus, CloseChannel, ClientLeaves, Finished
      <3>2. requests \in 0..MaxRequests /\ asked \in 0..requests /\ MaxRequests \in Nat
        BY SessionAssumption DEF TypeOK
      <3> QED BY <3>1, <3>2 DEF Take
    <2>4. /\ perms' \in Permissions /\ peer' \in BOOLEAN
          /\ execCmd' \in Commands \cup {"none"} /\ gitProtocol' \in Protocols \cup {"none"}
          /\ err' \in {"nil", "unmarshal", "reply", "command", "execute"}
      <3>1. CASE \E r \in Requests : handleEnv(r) \/ Undecodable(r) \/ handleUnknown(r)
                                     \/ handleExecOrShell(r)
        <4>1. PICK r \in Requests : handleEnv(r) \/ Undecodable(r) \/ handleUnknown(r)
                                   \/ handleExecOrShell(r)
          BY <3>1
        <4>2. (r.type = "env" => r.value \in Protocols) /\ (r.type = "exec" => r.value \in Commands)
          BY DEF Requests
        <4>3. perms' = perms /\ peer' = peer
          BY <4>1 DEF handleEnv, Undecodable, handleUnknown, handleExecOrShell
        <4>4. err' \in {err, "nil", "unmarshal", "reply"}
          BY <4>1 DEF handleEnv, Undecodable, handleUnknown, handleExecOrShell
        <4>5. gitProtocol' = gitProtocol \/ gitProtocol' \in Protocols
          BY <4>1, <4>2 DEF handleEnv, Undecodable, handleUnknown, handleExecOrShell
        <4>6. execCmd' = execCmd \/ execCmd' \in Commands
          BY <4>1, <4>2 DEF handleEnv, Undecodable, handleUnknown, handleExecOrShell
        <4> QED BY <4>3, <4>4, <4>5, <4>6 DEF TypeOK
      <3>2. CASE ~ \E r \in Requests : handleEnv(r) \/ Undecodable(r) \/ handleUnknown(r)
                                       \/ handleExecOrShell(r)
        BY <3>2 DEF TypeOK, Next, vars, RequestsClosed, CommandError, CommandBuilt, ExecuteOk,
                    ExecuteFails, ExecutePanics, ExitCloseWrite, ExitSendStatus, CloseChannel,
                    ClientLeaves, Finished
      <3> QED BY <3>1, <3>2
    <2> QED BY <2>1, <2>2, <2>3, <2>4 DEF TypeOK, Permissions
  <1> QED BY <1>1, <1>2, Invariance, PTL DEF Spec

(* The messages before the ending are replies and errors. *)
LEMMA EarlyMessages ==
  ASSUME NEW body \in Seq([kind: EarlyKinds, n: Nat])
  PROVE  Len(body) \in Nat /\ \A i \in 1..Len(body) : body[i].kind \in EarlyKinds
  <1>1. PICK E : E = [kind: EarlyKinds, n: Nat]
    OBVIOUS
  <1>2. body \in Seq(E)
    BY <1>1
  <1>3. Len(body) \in Nat /\ \A i \in 1..Len(body) : body[i] \in E
    BY <1>2
  <1> QED BY <1>1, <1>3

(* The session's status and error agree with what its client was sent, and *)
(* its ending is complete: the facts the theorems below take from IInv.    *)
LEMMA StayedToTheEnd ==
  ASSUME IInv, pc = "done", peer, err # "unmarshal"
  PROVE  \E body \in Seq([kind: EarlyKinds, n: Nat]) :
           /\ sent = body \o <<EofMsg, ExitStatusMsg(status), CloseMsg>>
           /\ Len(sent) = Len(body) + 3 /\ Len(body) \in Nat
           /\ \A i \in 1..Len(body) : sent[i].kind \in EarlyKinds
           /\ sent[Len(body) + 1] = EofMsg
           /\ sent[Len(body) + 2] = ExitStatusMsg(status)
           /\ sent[Len(body) + 3] = CloseMsg
  <1>1. PICK body \in Seq([kind: EarlyKinds, n: Nat]) : sent = body \o Ending
    BY DEF IInv, SentInv
  <1>2. Ending = <<EofMsg, ExitStatusMsg(status), CloseMsg>>
    BY DEF Ending
  <1>3. PICK e : e = <<EofMsg, ExitStatusMsg(status), CloseMsg>>
    OBVIOUS
  <1>4. /\ e \in Seq(Messages) /\ Len(e) = 3
        /\ e[1] = EofMsg /\ e[2] = ExitStatusMsg(status) /\ e[3] = CloseMsg
    BY <1>3 DEF EofMsg, ExitStatusMsg, CloseMsg, Messages, Kinds, IInv, ErrInv
  <1>5. body \in Seq(Messages) /\ Len(body) \in Nat
    <2>1. body \in Seq(Messages)
      BY SeqMonotonic DEF Messages, Kinds
    <2> QED BY <2>1
  <1>6. /\ Len(sent) = Len(body) + 3
        /\ \A i \in 1..Len(body) : sent[i] = body[i]
        /\ sent[Len(body) + 1] = e[1] /\ sent[Len(body) + 2] = e[2] /\ sent[Len(body) + 3] = e[3]
    BY <1>1, <1>2, <1>3, <1>4, <1>5
  <1>7. \A i \in 1..Len(body) : sent[i].kind \in EarlyKinds
    BY <1>6, EarlyMessages
  <1> QED BY <1>1, <1>2, <1>4, <1>5, <1>6, <1>7

(* A client that stayed to the end of a command has seen the end of        *)
(* output, the exit status and the close, in this order, once and last.    *)
THEOREM Ordered == Spec => []EndsInOrder
  <1>1. IInv => EndsInOrder
    <2> SUFFICES ASSUME IInv, pc = "done", peer, err # "unmarshal" PROVE EndsInOrder
      BY DEF EndsInOrder
    <2>1. PICK body \in Seq([kind: EarlyKinds, n: Nat]) :
             /\ sent = body \o <<EofMsg, ExitStatusMsg(status), CloseMsg>>
             /\ Len(sent) = Len(body) + 3 /\ Len(body) \in Nat
             /\ \A i \in 1..Len(body) : sent[i].kind \in EarlyKinds
             /\ sent[Len(body) + 1] = EofMsg
             /\ sent[Len(body) + 2] = ExitStatusMsg(status)
             /\ sent[Len(body) + 3] = CloseMsg
      BY StayedToTheEnd
    <2>2. PICK b : b = Len(body)
      OBVIOUS
    <2>3. /\ b \in Nat /\ Len(sent) = b + 3 /\ DOMAIN sent = 1..(b + 3)
          /\ \A i \in 1..b : sent[i].kind \in EarlyKinds
          /\ sent[b + 1].kind = "eof" /\ sent[b + 2].kind = "exit-status" /\ sent[b + 3].kind = "close"
      <3>1. sent \in Seq(Messages)
        BY DEF IInv, SentInv
      <3> QED BY <2>1, <2>2, <3>1 DEF EofMsg, ExitStatusMsg, CloseMsg
    <2>4. /\ Sent("eof") = {b + 1}
          /\ Sent("exit-status") = {b + 2}
          /\ Sent("close") = {b + 3}
      <3>1. {b + 1, b + 2, b + 3} \subseteq DOMAIN sent
        BY <2>3
      <3>2. \A i \in DOMAIN sent : i \in 1..b \/ i \in {b + 1, b + 2, b + 3}
        BY <2>3
      <3>3. \A i \in 1..b : sent[i].kind \notin {"eof", "exit-status", "close"}
        BY <2>3 DEF EarlyKinds
      <3>4. \A i \in DOMAIN sent : /\ sent[i].kind = "eof" <=> i = b + 1
                                   /\ sent[i].kind = "exit-status" <=> i = b + 2
                                   /\ sent[i].kind = "close" <=> i = b + 3
        BY <2>3, <3>2, <3>3
      <3> QED BY <3>1, <3>4 DEF Sent
    <2>5. \A kind \in {"eof", "exit-status", "close"} : Cardinality(Sent(kind)) = 1
      BY <2>4, FS_Singleton
    <2>6. [i \in 1..3 |-> sent[Len(sent) - 3 + i].kind] = <<"eof", "exit-status", "close">>
      BY <2>3
    <2> QED BY <2>3, <2>5, <2>6 DEF EndsInOrder
  <1> QED BY <1>1, Invariance, PTL

(* The exit status a client was given is 0 exactly when handle() returns   *)
(* no error.                                                               *)
THEOREM StatusAgrees == Spec => []StatusMatchesError
  <1>1. IInv => StatusMatchesError
    <2> SUFFICES ASSUME IInv, pc = "done", peer
                 PROVE  (err = "nil") <=> (ExitStatusMsg(0) \in ToSet(sent))
      BY DEF StatusMatchesError
    <2>1. sent \in Seq(Messages) /\ DOMAIN sent = 1..Len(sent)
      BY DEF IInv, SentInv
    <2>2. CASE err # "unmarshal"
      <3>1. PICK body \in Seq([kind: EarlyKinds, n: Nat]) :
               /\ sent = body \o <<EofMsg, ExitStatusMsg(status), CloseMsg>>
               /\ Len(sent) = Len(body) + 3 /\ Len(body) \in Nat
               /\ \A i \in 1..Len(body) : sent[i].kind \in EarlyKinds
               /\ sent[Len(body) + 1] = EofMsg
               /\ sent[Len(body) + 2] = ExitStatusMsg(status)
               /\ sent[Len(body) + 3] = CloseMsg
        BY <2>2, StayedToTheEnd
      <3>2. \A i \in DOMAIN sent : sent[i] = ExitStatusMsg(0) => i = Len(body) + 2 /\ status = 0
        <4> SUFFICES ASSUME NEW i \in DOMAIN sent, sent[i] = ExitStatusMsg(0)
                     PROVE  i = Len(body) + 2 /\ status = 0
          OBVIOUS
        <4>1. sent[i].kind = "exit-status" /\ sent[i].n = 0
          BY DEF ExitStatusMsg
        <4>2. /\ sent[Len(body) + 1].kind = "eof" /\ sent[Len(body) + 3].kind = "close"
              /\ sent[Len(body) + 2].n = status
          BY <3>1 DEF EofMsg, ExitStatusMsg, CloseMsg
        <4>3. i = Len(body) + 2
          <5>1. i \in 1..(Len(body) + 3) /\ Len(body) \in Nat
            BY <2>1, <3>1
          <5>2. i \notin 1..Len(body)
            BY <3>1, <4>1 DEF EarlyKinds
          <5>3. i # Len(body) + 1 /\ i # Len(body) + 3
            BY <4>1, <4>2
          <5> QED BY <5>1, <5>2, <5>3
        <4> QED BY <4>1, <4>2, <4>3
      <3>3. status = 0 => sent[Len(body) + 2] = ExitStatusMsg(0) /\ Len(body) + 2 \in DOMAIN sent
        BY <2>1, <3>1
      <3>4. ExitStatusMsg(0) \in ToSet(sent) <=> status = 0
        BY <3>2, <3>3 DEF ToSet
      <3>5. err = "nil" <=> status = 0
        BY <2>2 DEF IInv, ErrInv
      <3> QED BY <3>4, <3>5
    <2>3. CASE err = "unmarshal"
      <3>1. PICK body \in Seq([kind: EarlyKinds, n: Nat]) : sent = body \o <<CloseMsg>>
        BY <2>3 DEF IInv, SentInv, Ending
      <3>2. /\ Len(sent) = Len(body) + 1 /\ sent[Len(body) + 1].kind = "close"
            /\ \A i \in 1..Len(body) : sent[i].kind \in EarlyKinds
        <4>1. Len(body) \in Nat /\ \A i \in 1..Len(body) : body[i].kind \in EarlyKinds
          BY EarlyMessages
        <4>2. /\ Len(sent) = Len(body) + 1 /\ sent[Len(body) + 1] = CloseMsg
              /\ \A i \in 1..Len(body) : sent[i] = body[i]
          BY <3>1, <4>1
        <4> QED BY <4>1, <4>2 DEF CloseMsg
      <3>3. \A i \in DOMAIN sent : sent[i] # ExitStatusMsg(0)
        BY <2>1, <3>2 DEF ExitStatusMsg, EarlyKinds
      <3> QED BY <2>3, <3>3 DEF ToSet
    <2> QED BY <2>2, <2>3
  <1> QED BY <1>1, Invariance, PTL

(* A refused request is no error, and no earlier error outlives a command. *)
THEOREM Caused == Spec => []ErrorHasCause
  <1>1. IInv => ErrorHasCause
    BY DEF IInv, ErrInv, ErrorHasCause
  <1> QED BY <1>1, Invariance, PTL

(* Every decodable request that wants a reply has had exactly one. *)
THEOREM Answered == Spec => []EveryRequestAnswered
  <1>1. IInv => EveryRequestAnswered
    BY DEF IInv, ReplyInv
  <1> QED BY <1>1, Invariance, PTL

-----------------------------------------------------------------------------
(* The 2fa_verify command. *)
(* What is accepted was asked for, what is about to be sent was accepted,  *)
(* and the context of a command that returned is done.                     *)
TwoFactorInv ==
  /\ toSend \in {"none", "failed", "validated"}
  /\ otp = "read" => "otp" \notin accepted /\ toSend = "none"
  /\ otp = "send" => toSend # "none"
  /\ otp = "posted" => answer \in posted
  /\ "otp" \in accepted => answer \in posted
  /\ toSend = "validated" => "otp" \in accepted
  /\ push = "send" => "push" \in accepted
  /\ message = "validated" => "otp" \in accepted
  /\ message = "validated_by_push" => "push" \in accepted
  /\ main = "returned" => ctxDone

(* The three parts of 2fa_verify keep the invariant, in any interleaving. *)
THEOREM TwoFactorInvariance == TwoFactorSpec => []TwoFactorInv
  <1>1. TwoFactorInit => TwoFactorInv
    BY DEF TwoFactorInit, TwoFactorInv
  <1>2. TwoFactorInv /\ [TwoFactorNext]_twoFactorVars => TwoFactorInv'
    <2> SUFFICES ASSUME TwoFactorInv, [TwoFactorNext]_twoFactorVars PROVE TwoFactorInv'
      OBVIOUS
    <2>1. CASE UNCHANGED twoFactorVars
      BY <2>1 DEF twoFactorVars, TwoFactorInv
    <2>2. CASE Execute
      BY <2>2 DEF Execute, ReceivePush, ReceiveBlank,
                  ReceiveOTP, SelectDone, Return, TwoFactorInv
    <2>3. CASE PushStep
      BY <2>3 DEF PushStep, PushNotAsked, PushPost,
                  PushApproved, PushReturns, PushFails, TwoFactorInv
    <2>4. CASE OTPStep
      BY <2>4 DEF OTPStep, ReadOTP, ReadBlank,
                  VerifyNotSent, VerifyPost, OTPAccepted,
                  VerifyReturns, VerifyFails, TwoFactorInv
    <2>5. CASE Timeout
      BY <2>5 DEF Timeout, TwoFactorInv
    <2> QED BY <2>1, <2>2, <2>3, <2>4, <2>5 DEF TwoFactorNext, Returned
  <1> QED BY <1>1, <1>2, PTL DEF TwoFactorSpec

(* Success is shown only for the check the internal API has accepted. *)
THEOREM SuccessTrue == TwoFactorSpec => []SuccessIsTrue
  <1>1. TwoFactorInv => SuccessIsTrue
    BY DEF TwoFactorInv, SuccessIsTrue
  <1> QED BY <1>1, TwoFactorInvariance, PTL

(* Once Execute has returned neither goroutine sends a request any more. *)
THEOREM SilentAfterReturn == TwoFactorSpec => NothingSentAfterReturn
  <1>1. TwoFactorInv /\ [TwoFactorNext]_twoFactorVars =>
          [main = "returned" => posted' = posted /\ ~(push = "prepare" /\ push' = "posted")]_twoFactorVars
    BY DEF TwoFactorInv, twoFactorVars, TwoFactorNext, Execute,
           ReceivePush, ReceiveBlank, ReceiveOTP,
           SelectDone, Return, PushStep, PushNotAsked,
           PushPost, PushApproved, PushReturns, PushFails,
           OTPStep, ReadOTP, ReadBlank, VerifyNotSent,
           VerifyPost, OTPAccepted, VerifyReturns,
           VerifyFails, Timeout, Returned
  <1> QED BY <1>1, TwoFactorInvariance, PTL DEF TwoFactorSpec, NothingSentAfterReturn

(* The command is well typed: it shows one result, of those it knows. *)
THEOREM TwoFactorTypeCorrect == TwoFactorSpec => []TwoFactorTypeOK
  <1>1. TwoFactorInit => TwoFactorTypeOK
    BY DEF TwoFactorInit, TwoFactorTypeOK, Success
  <1>2. TwoFactorTypeOK /\ TwoFactorInv /\ [TwoFactorNext]_twoFactorVars => TwoFactorTypeOK'
    <2> SUFFICES ASSUME TwoFactorTypeOK, TwoFactorInv, [TwoFactorNext]_twoFactorVars
                 PROVE  TwoFactorTypeOK'
      OBVIOUS
    <2>1. CASE UNCHANGED twoFactorVars
      BY <2>1 DEF twoFactorVars, TwoFactorTypeOK, Success
    <2>2. CASE Execute
      <3>1. CASE Return
        BY <3>1 DEF Return, TwoFactorTypeOK, Success
      <3>2. CASE ~Return
        <4>1. /\ UNCHANGED <<ctxDone, answer, toSend, posted, accepted>>
              /\ main' = "show"
              /\ message' \in {"validated_by_push", "blank", "timeout", "failed", "validated"}
              /\ push' \in {push, "ended"} /\ otp' \in {otp, "verify", "ended"}
          BY <2>2, <3>2
             DEF Execute, ReceivePush, ReceiveBlank,
                 ReceiveOTP, SelectDone, TwoFactorInv
        <4> QED BY <4>1 DEF TwoFactorTypeOK, Success
      <3> QED BY <3>1, <3>2
    <2>3. CASE PushStep
      <3>1. /\ UNCHANGED <<main, ctxDone, message, otp, answer, toSend, posted>>
            /\ push' = push \/ push' \in {"posted", "send", "ended"}
            /\ accepted' = accepted \/ accepted' = accepted \cup {"push"}
        BY <2>3 DEF PushStep, PushNotAsked, PushPost,
                    PushApproved, PushReturns, PushFails
      <3>2. accepted' \subseteq {"push", "otp"} /\ posted' \subseteq {"none", "123456"}
        BY <3>1 DEF TwoFactorTypeOK
      <3>3. /\ push' \in {"prepare", "posted", "send", "ended"}
            /\ otp' \in {"read", "sendBlank", "verify", "posted", "send", "ended"}
            /\ answer' \in {"none", "123456"} /\ toSend' \in {"none", "failed", "validated"}
        BY <3>1 DEF TwoFactorTypeOK
      <3> QED BY <3>1, <3>2, <3>3 DEF TwoFactorTypeOK, Success
    <2>4. CASE OTPStep
      <3>1. /\ UNCHANGED <<main, ctxDone, message, push>>
            /\ otp' = otp \/ otp' \in {"sendBlank", "verify", "posted", "send"}
            /\ answer' = answer \/ answer' = "123456"
            /\ toSend' = toSend \/ toSend' \in {"failed", "validated"}
            /\ posted' = posted \/ posted' = posted \cup {answer}
            /\ accepted' = accepted \/ accepted' = accepted \cup {"otp"}
        BY <2>4 DEF OTPStep, ReadOTP, ReadBlank,
                    VerifyNotSent, VerifyPost, OTPAccepted,
                    VerifyReturns, VerifyFails
      <3>2. accepted' \subseteq {"push", "otp"} /\ posted' \subseteq {"none", "123456"}
        BY <3>1 DEF TwoFactorTypeOK
      <3>3. /\ push' \in {"prepare", "posted", "send", "ended"}
            /\ otp' \in {"read", "sendBlank", "verify", "posted", "send", "ended"}
            /\ answer' \in {"none", "123456"} /\ toSend' \in {"none", "failed", "validated"}
        BY <3>1 DEF TwoFactorTypeOK
      <3> QED BY <3>1, <3>2, <3>3 DEF TwoFactorTypeOK, Success
    <2>5. CASE Timeout
      BY <2>5 DEF Timeout, TwoFactorTypeOK, Success
    <2> QED BY <2>1, <2>2, <2>3, <2>4, <2>5 DEF TwoFactorNext, Returned
  <1> QED BY <1>1, <1>2, TwoFactorInvariance, PTL DEF TwoFactorSpec

(* A session that may run 2fa_verify is a session: each of its steps is    *)
(* one of SshdSession or leaves its variables alone, so that Ordered,      *)
(* StatusAgrees, Caused and Answered hold of it.                           *)
THEOREM SessionIsSession == SessionSpec => Spec
  <1>1. SessionInit => Init
    BY DEF SessionInit
  <1>2. [SessionNext]_sessionVars => [Next]_vars
    BY DEF SessionNext, SessionStep, TwoFactorStep, TwoFactorReturns, Next, sessionVars
  <1> QED BY <1>1, <1>2, PTL DEF SessionSpec, Spec

(* And what it does with 2fa_verify is what TwoFactorVerify does, while    *)
(* the client leaves and the session ends: SuccessTrue and                 *)
(* SilentAfterReturn hold of it.                                           *)
THEOREM CommandIsTwoFactor == SessionSpec => TwoFactorSpec
  <1>1. SessionInit => TwoFactorInit
    BY DEF SessionInit
  <1>2. [SessionNext]_sessionVars => [TwoFactorNext]_twoFactorVars
    BY DEF SessionNext, SessionStep, TwoFactorStep, sessionVars
  <1> QED BY <1>1, <1>2, PTL DEF SessionSpec, TwoFactorSpec
=============================================================================

---------------------------- MODULE SshdSession ----------------------------
(***************************************************************************)
(* One session channel, internal/sshd/session.go: the loop over the        *)
(* client's requests, the command a session runs, and how it ends: replies,*)
(* standard error, end of output, exit status, close.  The client may      *)
(* leave at any time; what is written to it after that is lost, silently   *)
(* or with an error.  Commands themselves are only what Execute returns.   *)
(***************************************************************************)
EXTENDS Naturals, Sequences, SequencesExt, FiniteSets

CONSTANTS
  Commands,      \* the command lines of exec requests
  Protocols,     \* the values of GIT_PROTOCOL
  MaxRequests    \* bound: the requests a client sends on one channel

ASSUME SessionAssumption == MaxRequests \in Nat

(* The requests: env with an accepted or a forbidden name, exec, shell and *)
(* the types session.handle does not know; those with an undecodable       *)
(* payload are "env_bad" and "exec_bad".                                   *)
Requests ==
  [type: {"env"}, value: Protocols, wantReply: BOOLEAN]
    \cup [type: {"exec"}, value: Commands, wantReply: BOOLEAN]
    \cup [type: {"env_forbidden", "env_bad", "exec_bad", "shell", "other"},
          value: {"none"}, wantReply: BOOLEAN]

(* What authentication left in sconn.Permissions.Extensions. *)
Permissions ==
  { [krb5 |-> FALSE, username |-> FALSE, namespace |-> FALSE],   \* a key: key-id
    [krb5 |-> TRUE,  username |-> FALSE, namespace |-> FALSE],   \* GSSAPI
    [krb5 |-> FALSE, username |-> TRUE,  namespace |-> FALSE],   \* an instance CA
    [krb5 |-> FALSE, username |-> TRUE,  namespace |-> TRUE] }   \* a group's CA

VARIABLES
  perms,         \* the session's identity, constant
  pc,            \* where handle() is
  execCmd,       \* session.execCmd, "none" while it is empty
  gitProtocol,   \* session.gitProtocolVersion, "none" while it is empty
  peer,          \* the client: TRUE while it is there
  sent,          \* what the client has received on the channel
  status,        \* the exit status to be sent
  err,           \* the error handle() will return
  ran,           \* the commands that were executed: who, namespace, cmd, protocol
  requests,      \* the number of requests received
  asked          \* of those, the ones that decoded and wanted a reply

vars == <<perms, pc, execCmd, gitProtocol, peer, sent, status, err, ran, requests, asked>>

Init ==
  /\ perms \in Permissions
  /\ pc = "receive"
  /\ execCmd = "none"
  /\ gitProtocol = "none"
  /\ peer = TRUE
  /\ sent = <<>>
  /\ status = 0
  /\ err = "nil"
  /\ ran = <<>>
  /\ requests = 0
  /\ asked = 0

-----------------------------------------------------------------------------
(* What reaches the client. *)
Delivered(msgs) == IF peer THEN sent \o msgs ELSE sent

ReplyMsg(r, ok) == IF r.wantReply THEN <<[kind |-> "reply", n |-> IF ok THEN 1 ELSE 0]>> ELSE <<>>
Stderr == [kind |-> "stderr", n |-> 0]
EofMsg == [kind |-> "eof", n |-> 0]
ExitStatusMsg(n) == [kind |-> "exit-status", n |-> n]
CloseMsg == [kind |-> "close", n |-> 0]

(* req.Reply(ok) for a request that wants one. *)
Reply(r, ok) == sent' = Delivered(ReplyMsg(r, ok))

(* The next request is taken from the channel's queue, where it may have   *)
(* been when the client left.                                              *)
Take(r) ==
  /\ pc = "receive" /\ requests < MaxRequests
  /\ requests' = requests + 1
  /\ asked' = IF r.wantReply /\ r.type \notin {"env_bad", "exec_bad"} THEN asked + 1 ELSE asked

(* Mutant: handleEnv replies only to what it accepts. *)
handleEnv_SilentRefusal(r) ==
  /\ Take(r)
  /\ \/ /\ r.type = "env"
        /\ gitProtocol' = r.value
        /\ Reply(r, TRUE)
     \/ /\ r.type = "env_forbidden"
        /\ UNCHANGED <<gitProtocol, sent>>
  /\ err' = "nil"
  /\ UNCHANGED <<perms, pc, execCmd, peer, status, ran>>

(* handleEnv: GIT_PROTOCOL is kept, other names are refused.  A reply that *)
(* fails is not an error.                                                  *)
handleEnv(r) ==
  /\ Take(r)
  /\ \/ /\ r.type = "env"
        /\ gitProtocol' = r.value
        /\ Reply(r, TRUE)
     \/ /\ r.type = "env_forbidden"
        /\ Reply(r, FALSE)
        /\ UNCHANGED gitProtocol
  /\ err' = "nil"
  /\ UNCHANGED <<perms, pc, execCmd, peer, status, ran>>

(* An env or exec request that does not decode: no reply, the loop ends. *)
Undecodable(r) ==
  /\ Take(r)
  /\ r.type \in {"env_bad", "exec_bad"}
  /\ err' = "unmarshal"
  /\ pc' = "close"
  /\ UNCHANGED <<perms, execCmd, gitProtocol, peer, sent, status, ran>>

(* Mutant: a refusal is an error. *)
handleUnknown_RefusalIsError(r) ==
  /\ Take(r)
  /\ r.type = "other"
  /\ Reply(r, FALSE)
  /\ err' = "reply"
  /\ UNCHANGED <<perms, pc, execCmd, gitProtocol, peer, status, ran>>

(* Another type: refused, and the loop goes on.  A reply that fails        *)
(* becomes err, and stays until another request sets it.                   *)
handleUnknown(r) ==
  /\ Take(r)
  /\ r.type = "other"
  /\ Reply(r, FALSE)
  /\ err' \in (IF ~r.wantReply THEN {err} ELSE IF peer THEN {"nil"} ELSE {"nil", "reply"})
  /\ UNCHANGED <<perms, pc, execCmd, gitProtocol, peer, status, ran>>

(* exec keeps the command line; exec and shell then enter handleShell,     *)
(* which replies first.  No reply error is looked at.                      *)
handleExecOrShell(r) ==
  /\ Take(r)
  /\ r.type \in {"exec", "shell"}
  /\ execCmd' = IF r.type = "exec" THEN r.value ELSE execCmd
  /\ Reply(r, TRUE)
  /\ pc' = "command"
  /\ UNCHANGED <<perms, gitProtocol, peer, status, err, ran>>

(* The requests channel is closed: the loop ends, handle() returns. *)
RequestsClosed ==
  /\ pc = "receive" /\ ~peer
  /\ pc' = "done"
  /\ UNCHANGED <<perms, execCmd, gitProtocol, peer, sent, status, err, ran, requests, asked>>

-----------------------------------------------------------------------------
(* handleShell. *)

(* getCommand: for whom the command is built. *)
getCommandIdentity ==
  CASE perms.krb5     -> "krb5"
    [] perms.username -> "username"
    [] OTHER          -> "key"

(* getCommand fails: handleCommandError. *)
CommandError ==
  /\ pc = "command"
  /\ sent' = Delivered(<<Stderr>>)
  /\ status' = 128
  /\ err' = "command"
  /\ pc' = "closeWrite"
  /\ UNCHANGED <<perms, execCmd, gitProtocol, peer, ran, requests, asked>>

(* getCommand succeeds: Execute is called with the session's environment. *)
CommandBuilt ==
  /\ pc = "command"
  /\ ran' = Append(ran, [who |-> getCommandIdentity, namespace |-> perms.namespace,
                         cmd |-> execCmd, protocol |-> gitProtocol])
  /\ pc' = "execute"
  /\ UNCHANGED <<perms, execCmd, gitProtocol, peer, sent, status, err, requests, asked>>

ExecuteOk ==
  /\ pc = "execute"
  /\ status' = 0
  /\ err' = "nil"
  /\ pc' = "closeWrite"
  /\ UNCHANGED <<perms, execCmd, gitProtocol, peer, sent, ran, requests, asked>>

(* Mutant: a failed command exits with status 0. *)
ExecuteFails_StatusZero ==
  /\ pc = "execute"
  /\ status' = 0
  /\ err' = "execute"
  /\ pc' = "closeWrite"
  /\ sent' = Delivered(<<Stderr>>)
  /\ UNCHANGED <<perms, execCmd, gitProtocol, peer, ran, requests, asked>>

(* Execute fails: the message goes to standard error unless its gRPC code  *)
(* is Internal.                                                            *)
ExecuteFails ==
  /\ pc = "execute"
  /\ status' = 1
  /\ err' = "execute"
  /\ pc' = "closeWrite"
  /\ sent' \in {sent, Delivered(<<Stderr>>)}
  /\ UNCHANGED <<perms, execCmd, gitProtocol, peer, ran, requests, asked>>

(* Execute panics: connection.go recovers; the channel is left as it is. *)
ExecutePanics ==
  /\ pc = "execute"
  /\ pc' = "panicked"
  /\ UNCHANGED <<perms, execCmd, gitProtocol, peer, sent, status, err, ran, requests, asked>>

-----------------------------------------------------------------------------
(* exit: CloseWrite... *)
ExitCloseWrite ==
  /\ pc = "closeWrite"
  /\ sent' = Delivered(<<EofMsg>>)
  /\ pc' = "exitStatus"
  /\ UNCHANGED <<perms, execCmd, gitProtocol, peer, status, err, ran, requests, asked>>

(* Mutant: the channel is closed without an exit status. *)
ExitSendStatus_Skipped ==
  /\ pc = "exitStatus"
  /\ pc' = "close"
  /\ UNCHANGED <<perms, execCmd, gitProtocol, peer, sent, status, err, ran, requests, asked>>

(* ...then the exit-status request. *)
ExitSendStatus ==
  /\ pc = "exitStatus"
  /\ sent' = Delivered(<<ExitStatusMsg(status)>>)
  /\ pc' = "close"
  /\ UNCHANGED <<perms, execCmd, gitProtocol, peer, status, err, ran, requests, asked>>

(* !shouldContinue: channel.Close(), break. *)
CloseChannel ==
  /\ pc = "close"
  /\ sent' = Delivered(<<CloseMsg>>)
  /\ pc' = "done"
  /\ UNCHANGED <<perms, execCmd, gitProtocol, peer, status, err, ran, requests, asked>>

(* The client disconnects. *)
ClientLeaves ==
  /\ peer /\ pc # "done"
  /\ peer' = FALSE
  /\ UNCHANGED <<perms, pc, execCmd, gitProtocol, sent, status, err, ran, requests, asked>>

Finished == pc \in {"done", "panicked"} /\ UNCHANGED vars

Next ==
  \/ \E r \in Requests : \/ handleEnv(r) \/ Undecodable(r)
                         \/ handleUnknown(r) \/ handleExecOrShell(r)
  \/ RequestsClosed
  \/ CommandError \/ CommandBuilt
  \/ ExecuteOk \/ ExecuteFails \/ ExecutePanics
  \/ ExitCloseWrite \/ ExitSendStatus \/ CloseChannel
  \/ ClientLeaves \/ Finished

Spec == Init /\ [][Next]_vars

-----------------------------------------------------------------------------
(* Properties. *)

(* Where in what the client received the messages of a kind are. *)
Sent(kind) == {i \in DOMAIN sent : sent[i].kind = kind}

(* The session's state is well typed; the exit status is one of the three  *)
(* that handleShell and handleCommandError return.                         *)
TypeOK ==
  /\ perms \in Permissions
  /\ pc \in {"receive", "command", "execute", "closeWrite", "exitStatus", "close",
            "done", "panicked"}
  /\ execCmd \in Commands \cup {"none"}
  /\ gitProtocol \in Protocols \cup {"none"}
  /\ peer \in BOOLEAN
  /\ \A i \in DOMAIN sent : sent[i].kind \in {"reply", "stderr", "eof", "exit-status", "close"}
  /\ status \in {0, 1, 128}
  /\ err \in {"nil", "unmarshal", "reply", "command", "execute"}
  /\ requests \in 0..MaxRequests /\ asked \in 0..requests

(* A client that stayed to the end of a command sees, in this order and    *)
(* once, the end of output, the exit status and the close; nothing follows *)
(* the close (handleExec/handleShell, exit, and handle's channel.Close).   *)
EndsInOrder ==
  (pc = "done" /\ peer /\ err # "unmarshal") =>
     LET n == Len(sent) IN
     /\ n >= 3
     /\ [i \in 1..3 |-> sent[n - 3 + i].kind] = <<"eof", "exit-status", "close">>
     /\ \A kind \in {"eof", "exit-status", "close"} : Cardinality(Sent(kind)) = 1

(* The exit status the client is given and the error the SLI is given      *)
(* agree: status 0 exactly when handle() returns no error (handleShell's   *)
(* three ways out, and no err left over from an earlier request).          *)
StatusMatchesError ==
  (pc = "done" /\ peer) => ((err = "nil") <=> (ExitStatusMsg(0) \in ToSet(sent)))

(* handle() returns an error without having failed to build or run a       *)
(* command only for an undecodable request or a client that left: a        *)
(* refused request is no error, and no earlier error outlives a command.   *)
ErrorHasCause ==
  /\ err = "reply" => ~peer
  /\ (pc = "done" /\ err \in {"reply", "unmarshal"}) => ran = <<>>

(* Every decodable request that wants a reply has had exactly one, in the  *)
(* loop as in handleShell.                                                 *)
EveryRequestAnswered == peer => Cardinality(Sent("reply")) = asked
=============================================================================

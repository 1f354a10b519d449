---------------------------- MODULE GitTransport ----------------------------
(***************************************************************************)
(* A Git command together with the HTTP conversation it becomes when the   *)
(* repository is another cell's or the Geo primary's: GitCommand decides,  *)
(* GitHTTP moves the data, and the two meet where the conversation starts, *)
(* where the refs have been asked for, and where Execute gets its result.  *)
(* With Gitaly the conversation never starts.                              *)
(***************************************************************************)
EXTENDS Naturals, Sequences

CONSTANTS
  Cell, DefaultHost,    \* the hosts of the internal API
  Pushes, Pulls         \* what clients may send

VARIABLES
  command, argsOk, cell, pc, response, asked, transport, served, audit, err,
  service, input, arrived, eof, taken, buf, line, needsPackData, reader, pipe, body, bodyEnd,
  exec, httpErr

Cmd == INSTANCE GitCommand
Http == INSTANCE GitHTTP

cmdVars == <<command, argsOk, cell, pc, response, asked, transport, served, audit, err>>
httpVars == <<service, input, arrived, eof, taken, buf, line, needsPackData, reader, pipe, body,
              bodyEnd, exec, httpErr>>
vars == <<cmdVars, httpVars>>

Idle == Http!Idle

ASSUME HostAssumption == Cell # DefaultHost /\ "none" \notin {Cell, DefaultHost}
ASSUME ConversationAssumption == Pushes \cup Pulls \subseteq Seq(Http!Packets)

Init == Cmd!Init /\ Http!Init

-----------------------------------------------------------------------------
(* Steps of the command alone: those before the conversation and Gitaly's. *)
CmdStep ==
  /\ \/ Cmd!CheckArgs \/ Cmd!VerifyFails \/ Cmd!AuditSent \/ Cmd!AuditFails
     \/ (\E r \in Cmd!Responses : Cmd!Verify(r))
     \/ (\E ok \in BOOLEAN : Cmd!StartGitaly(ok))
     \/ transport = "gitaly" /\ (Cmd!MoveEnds \/ \E e \in Cmd!GitalyErrors : Cmd!MoveFails(e))
  /\ UNCHANGED httpVars

(* PushCommand or PullCommand in Git's own HTTP protocol, or in SSH's. *)
ServiceFor ==
  IF transport' = "geo" /\ ~response.sshDirect
    THEN IF command = "git-receive-pack" THEN "push" ELSE "pull"
    ELSE "ssh"

(* The conversation starts, unless the command fails before it. *)
Start ==
  /\ Cmd!StartCells \/ Cmd!StartGeo
  /\ IF transport' = "none" THEN UNCHANGED httpVars
                            ELSE Http!Start(ServiceFor)

InfoRefs ==
  \/ Cmd!InfoRefs(TRUE) /\ Http!InfoRefsCopied
  \/ Cmd!InfoRefs(FALSE) /\ Http!InfoRefsFails

(* Mutant: the result of the copy to the client is not returned. *)
Returns_Always ==
  /\ Http!Refused \/ Http!CopyOut
  /\ Cmd!MoveEnds

(* What the conversation's Execute returns is what the command's returns. *)
Returns ==
  /\ Http!Refused \/ Http!CopyOut
  /\ IF httpErr' = "nil" THEN Cmd!MoveEnds ELSE \E e \in Cmd!GitalyErrors : Cmd!MoveFails(e)

(* Steps of the conversation alone. *)
HttpStep ==
  /\ ~Idle
  /\ \/ Http!ClientSends \/ Http!ClientCloses \/ Http!ClientLeaves \/ Http!SessionCloses
     \/ Http!Answered \/ Http!TransportCloses \/ Http!ReaderStep
  /\ UNCHANGED cmdVars

Finished == pc = "done" /\ (Idle \/ Http!Finished) /\ UNCHANGED vars

Next == CmdStep \/ Start \/ InfoRefs \/ Returns \/ HttpStep \/ Finished

Spec == Init /\ [][Next]_vars

(* The fairness of GitHTTP, and the command's own step into it. *)
Fairness ==
  /\ WF_vars(HttpStep /\ Http!ReaderStep)
  /\ WF_vars(HttpStep /\ Http!ClientCloses) /\ WF_vars(HttpStep /\ Http!SessionCloses)
  /\ WF_vars(InfoRefs)
  /\ WF_vars(Http!Owed /\ ((HttpStep /\ Http!Answered) \/ (Returns /\ Http!Refused)))
  /\ WF_vars(Returns /\ Http!CopyOut) /\ WF_vars(HttpStep /\ Http!TransportCloses)

FairSpec == Spec /\ Fairness

-----------------------------------------------------------------------------
(* Properties. *)

(* Of what the client sends nothing is read, or leaves, unless the host    *)
(* that owns the repository was asked and granted access (verifyAccess     *)
(* before every transport); and a push or fetch of another cell's          *)
(* repository takes the transport to that cell or none, whatever else the  *)
(* answer says (IsCellRouted before IsCustomAction).                       *)
GitOnlyWhenAllowed ==
  /\ transport # "none" \/ taken > 0 \/ body # <<>> =>
       argsOk /\ response # Cmd!NoResponse /\ response.success /\ asked = Cmd!HostFor(cell)
  /\ cell # "none" /\ command \in Cmd!PackCommands => transport \in {"none", "cells"}

(* accessverifier/client.go, of a request that was routed to another cell: *)
(* "In this case, Gitaly is not directly reachable and SSH-over-HTTP must  *)
(* be used."  git-upload-archive does not ask whether it was.              *)
CellRoutedOverHTTP == cell # "none" => transport \in {"none", "cells"}

(* Execute returns nil only if the transport ended without an error, and,  *)
(* over HTTP, only after the remote end's answer was copied to the client: *)
(* no failing step of either part is reported as success.                  *)
NilMeansServed ==
  pc = "done" /\ err = "nil" =>
    served /\ (~Idle => exec = "returned" /\ httpErr = "nil")

(* An audit event is sent only for an operation that Gitaly completed and  *)
(* that was to be audited, and to the host that granted the access (Audit  *)
(* after performGitalyCall).                                               *)
AuditedOnlyWhenServed ==
  audit # "none" => served /\ transport = "gitaly" /\ response.needAudit /\ audit = asked

(* What the remote end receives is what the client sent, in order and      *)
(* without repetition, but for what the scanner of a push had read beyond  *)
(* its end (GitHTTP).                                                      *)
BodyInOrder == Http!BodyInOrder

(* No circular wait: a client that has said all it has to say, and may be  *)
(* waiting for the answer with stdin open, or that has left, gets the      *)
(* command's result.  A push of removals must not wait for a pack, a fetch *)
(* not for the end of stdin (needsPackData, IsDone).                       *)
ConversationEnds == (~Idle /\ (arrived = Len(input) \/ eof)) ~> (pc = "done")

(* No goroutine is left behind by a command that returned, however its     *)
(* request ended (the writes to a pipe nobody reads fail).                 *)
ReaderEnds == (pc = "done") ~> (reader \in {"off", "ended"})

(* push.go: "Read the send-pack data provided by user via SSH" and         *)
(* "Perform /git-receive-pack request and send this data"; push_test.go    *)
(* expects the body to be all that was sent (GitHTTP).                     *)
AllDataSent == Http!AllDataSent
=============================================================================

----------------------------- MODULE GitCommand -----------------------------
(***************************************************************************)
(* One Git command of a session: git-receive-pack, git-upload-pack or      *)
(* git-upload-archive (internal/command), from its arguments through the   *)
(* access check (/allowed, on the host the Topology Service names) to the  *)
(* transport that moves the repository's data: Gitaly, the owning cell by  *)
(* SSH-over-HTTP, or the Geo primary by HTTP; then the audit event.  Every *)
(* step may fail.                                                          *)
(***************************************************************************)

CONSTANTS Cell, DefaultHost    \* the hosts of the internal API

PackCommands == {"git-receive-pack", "git-upload-pack"}
Commands == PackCommands \cup {"git-upload-archive"}

(* The /allowed answer: Success, 300 Multiple Choices, NeedAudit, whether  *)
(* gl_project_path is there, and of the custom payload whether SSH goes    *)
(* directly to the primary and whether there are request headers.          *)
Responses == [success: BOOLEAN, custom: BOOLEAN, needAudit: BOOLEAN, projectPath: BOOLEAN,
              sshDirect: BOOLEAN, headers: BOOLEAN]
NoResponse == [none |-> TRUE]

VARIABLES
  command,     \* CommandType
  argsOk,      \* len(SSHArgs) = 2
  cell,        \* CellAddress: what the resolver named, "none" if nothing
  pc,          \* where Execute is
  response,    \* the /allowed answer, or NoResponse
  asked,       \* the host /allowed was sent to
  transport,   \* the transport that was started
  served,      \* the transport reported no error
  audit,       \* the host the audit event was sent to, or "none"
  err          \* what Execute returns

vars == <<command, argsOk, cell, pc, response, asked, transport, served, audit, err>>
inputs == <<command, argsOk, cell>>

Init ==
  /\ command \in Commands
  /\ argsOk \in BOOLEAN
  /\ cell \in {"none", Cell}
  /\ pc = "args"
  /\ response = NoResponse
  /\ asked = "none"
  /\ transport = "none"
  /\ served = FALSE
  /\ audit = "none"
  /\ err = "nil"

-----------------------------------------------------------------------------
(* Execute returns. *)
Return(e) == pc' = "done" /\ err' = e

(* WithHost, or the default client. *)
HostFor(address) == IF address = "none" THEN DefaultHost ELSE address

CheckArgs ==
  /\ pc = "args"
  /\ IF argsOk THEN pc' = "verify" /\ UNCHANGED err ELSE Return("disallowed")
  /\ UNCHANGED <<inputs, response, asked, transport, served, audit>>

(* The request fails, or its answer cannot be decoded. *)
VerifyFails ==
  /\ pc = "verify"
  /\ asked' = HostFor(cell)
  /\ Return("api")
  /\ UNCHANGED <<inputs, response, transport, served, audit>>

(* Mutant: the answer's status is not looked at. *)
Verify_IgnoresStatus(r) ==
  /\ pc = "verify"
  /\ asked' = HostFor(cell)
  /\ response' = r
  /\ pc' = "dispatch" /\ UNCHANGED err
  /\ UNCHANGED <<inputs, transport, served, audit>>

(* Verify: an answer without success is its message as an error. *)
Verify(r) ==
  /\ pc = "verify"
  /\ asked' = HostFor(cell)
  /\ response' = r
  /\ IF r.success THEN pc' = "dispatch" /\ UNCHANGED err ELSE Return("denied")
  /\ UNCHANGED <<inputs, transport, served, audit>>

-----------------------------------------------------------------------------
(* Where the data is moved. *)

IsCellRouted == cell # "none"
IsCustomAction == response.custom

(* receive-pack and upload-pack. *)
RoutePack ==
  IF IsCellRouted THEN "cells" ELSE IF IsCustomAction THEN "geo" ELSE "gitaly"

(* upload-archive asks neither question. *)
Route == IF command \in PackCommands THEN RoutePack ELSE "gitaly"

(* buildCellsGitClient fails without gl_project_path. *)
StartCells ==
  /\ pc = "dispatch" /\ Route = "cells"
  /\ IF response.projectPath
       THEN transport' = "cells" /\ pc' = "move" /\ UNCHANGED err
       ELSE Return("no_project_path") /\ UNCHANGED transport
  /\ UNCHANGED <<inputs, response, asked, served, audit>>

(* PushCommand and PullCommand: SSH directly to the primary, where writing *)
(* the Git-Protocol header to a nil map panics, or /info/refs first.       *)
StartGeo ==
  /\ pc = "dispatch" /\ Route = "geo"
  /\ IF response.sshDirect /\ ~response.headers
       THEN Return("panic") /\ UNCHANGED transport
       ELSE /\ transport' = "geo"
            /\ pc' = IF response.sshDirect THEN "move" ELSE "infoRefs"
            /\ UNCHANGED err
  /\ UNCHANGED <<inputs, response, asked, served, audit>>

(* requestInfoRefs: the request fails or the prefix is not the service's. *)
InfoRefs(ok) ==
  /\ pc = "infoRefs"
  /\ IF ok THEN pc' = "move" /\ UNCHANGED err ELSE Return("http")
  /\ UNCHANGED <<inputs, response, asked, transport, served, audit>>

(* performGitalyCall: GetConnection, then the handler. *)
StartGitaly(ok) ==
  /\ pc = "dispatch" /\ Route = "gitaly"
  /\ IF ok THEN transport' = "gitaly" /\ pc' = "move" /\ UNCHANGED err
           ELSE Return("gitaly") /\ UNCHANGED transport
  /\ UNCHANGED <<inputs, response, asked, served, audit>>

(* RunGitalyCommand: an Unavailable error is replaced by one with the same *)
(* code and a message for the user, another one if Gitaly is at its limit. *)
GitalyError(e) ==
  IF e.code # "Unavailable" THEN e.code
  ELSE IF e.limit THEN "overloaded" ELSE "unavailable"

(* Mutant: the event is sent before the transport's result is known. *)
MoveFails_AuditsFirst(e) ==
  /\ pc = "move"
  /\ audit' = IF response.needAudit THEN HostFor(cell) ELSE audit
  /\ Return(IF transport = "gitaly" THEN GitalyError(e) ELSE "http")
  /\ UNCHANGED <<inputs, response, asked, transport, served>>

(* The transport ends with an error, possibly after moving some data. *)
MoveFails(e) ==
  /\ pc = "move"
  /\ Return(IF transport = "gitaly" THEN GitalyError(e) ELSE "http")
  /\ UNCHANGED <<inputs, response, asked, transport, served, audit>>

(* The pack commands send an audit event if the answer asked for one. *)
Audited == command \in PackCommands /\ response.needAudit

(* The transport ends without an error.  Gitaly's exit status is not used. *)
MoveEnds ==
  /\ pc = "move"
  /\ served' = TRUE
  /\ IF transport = "gitaly" /\ Audited THEN pc' = "audit" /\ UNCHANGED err
                                        ELSE Return("nil")
  /\ UNCHANGED <<inputs, response, asked, transport, audit>>

AuditSent ==
  /\ pc = "audit"
  /\ audit' = HostFor(cell)
  /\ Return("nil")
  /\ UNCHANGED <<inputs, response, asked, transport, served>>

(* No client, or the request fails: that is logged, not returned. *)
AuditFails ==
  /\ pc = "audit"
  /\ Return("nil")
  /\ UNCHANGED <<inputs, response, asked, transport, served, audit>>

-----------------------------------------------------------------------------
Done == pc = "done" /\ UNCHANGED vars

GitalyErrors == [code: {"Unavailable", "Canceled", "Internal"}, limit: BOOLEAN]

Next ==
  \/ CheckArgs \/ VerifyFails \/ (\E r \in Responses : Verify(r))
  \/ StartCells \/ StartGeo
  \/ (\E ok \in BOOLEAN : InfoRefs(ok) \/ StartGitaly(ok))
  \/ (\E e \in GitalyErrors : MoveFails(e)) \/ MoveEnds
  \/ AuditSent \/ AuditFails
  \/ Done

Spec == Init /\ [][Next]_vars
=============================================================================

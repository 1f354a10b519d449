---------------------------- MODULE LFSTransfer ----------------------------
(***************************************************************************)
(* Git LFS over SSH: git-lfs-authenticate, which prints credentials, and   *)
(* git-lfs-transfer, which serves a client's commands by requests to the   *)
(* LFS API of the repository (internal/command/lfsauthenticate and         *)
(* lfstransfer, internal/gitlabnet/lfsauthenticate and lfstransfer).       *)
(*                                                                         *)
(* Several sessions work on one repository.  Nothing is kept between two   *)
(* commands: what a batch grants travels through the client, as an id and  *)
(* a token that authenticates it, and may come back in another session.    *)
(* Every request to the LFS API is retried when no answer arrives.  The    *)
(* client, the pkt-line processor and the API are the environment.         *)
(***************************************************************************)
EXTENDS Naturals

CONSTANTS
  Sessions,    \* one user each
  Oids,        \* the objects
  LockIds,     \* the ids the API gives to the locks of one path
  RetryMax,    \* newHTTPClient: 3
  None,        \* no value
  Garbled      \* what base64 cannot decode

ASSUME RetryAssumption == RetryMax \in Nat
ASSUME NoneAssumption == {None, Garbled} \cap (LockIds \cup Oids) = {}

Operations == {"download", "upload"}

(* Where the API says an object is to be had or put; the headers that are  *)
(* issued with it carry the right of the session that asked.               *)
Hrefs == [op: Operations, oid: Oids, to: Sessions]

(* The signed part of a batch's answer. *)
IdData == [op: Operations, oid: Oids, href: Hrefs]

NoCall == [req |-> "none"]
NoReply == [cmd |-> "none"]

Ended == {"failed", "silent", "printed", "quit"}

VARIABLES
  about,     \* a bound: the clients work on "objects" or on "locks", not on both
  op,        \* [Sessions -> the operation, None before the arguments are read]
  level,     \* what /allowed would grant: "none", "pull" or "push"
  pc,        \* where Execute is
  call,      \* the request to the LFS API, and the retries it has left
  reply,     \* the answer to the client's last command
  issued,    \* the IdData that a token was made for
  stored,    \* of the API: the objects it has
  lock,      \* of the API: the lock of the path, or None
  created    \* of the API: the locks it ever made

inputs == <<about, level>>
server == <<stored, lock, created>>
vars == <<inputs, op, pc, call, reply, issued, server>>

Init ==
  /\ about \in {"objects", "locks"}
  /\ level \in [Sessions -> {"none", "pull", "push"}]
  /\ op = [s \in Sessions |-> None]
  /\ pc = [s \in Sessions |-> "args"]
  /\ call = [s \in Sessions |-> NoCall]
  /\ reply = [s \in Sessions |-> NoReply]
  /\ issued = {}
  /\ stored = {}
  /\ lock = None /\ created = {}

-----------------------------------------------------------------------------
(* Execute, up to the first command. *)

Goto(s, label) == pc' = [pc EXCEPT ![s] = label]

(* Mutant: an upload asks for the right to download. *)
NeededFor_PullOnly(operation) == {"pull", "push"}

(* actionFromOperation: the action whose permission is asked for, and the  *)
(* levels that have it.                                                    *)
NeededFor(operation) == IF operation = "upload" THEN {"push"} ELSE {"pull", "push"}

(* The arguments are a path and an operation, or are disallowed. *)
CheckArgs(s) ==
  /\ pc[s] = "args"
  /\ \/ op' \in {[op EXCEPT ![s] = o] : o \in Operations} /\ Goto(s, "verify")
     \/ Goto(s, "failed") /\ UNCHANGED op
  /\ UNCHANGED <<inputs, call, reply, issued, server>>

(* The question may also go unanswered. *)
VerifyAccess(s) ==
  /\ pc[s] = "verify"
  /\ (level[s] \in NeededFor(op[s]) /\ Goto(s, "auth")) \/ Goto(s, "failed")
  /\ UNCHANGED <<inputs, op, call, reply, issued, server>>

(* POST /lfs_authenticate fails: git-lfs-transfer returns the error, the   *)
(* other command returns nil and says nothing, "just like Ruby's".         *)
AuthenticateFails(s) ==
  /\ pc[s] = "auth"
  /\ Goto(s, "failed") \/ Goto(s, "silent")
  /\ UNCHANGED <<inputs, op, call, reply, issued, server>>

(* git-lfs-authenticate prints the credentials, or cannot write them. *)
PrintCredentials(s) ==
  /\ pc[s] = "auth"
  /\ Goto(s, "printed") \/ Goto(s, "failed")
  /\ UNCHANGED <<inputs, op, call, reply, issued, server>>

(* git-lfs-transfer sends its capabilities, whose flush may fail. *)
StartTransfer(s) ==
  /\ pc[s] = "auth"
  /\ Goto(s, "cmd") \/ Goto(s, "failed")
  /\ UNCHANGED <<inputs, op, call, reply, issued, server>>

-----------------------------------------------------------------------------
(* The client's commands, as ProcessCommands hands them to the backend. *)

Ask(s, request) ==
  /\ pc[s] = "cmd"
  /\ Goto(s, "http")
  /\ call' = [call EXCEPT ![s] = request]
  /\ reply' = [reply EXCEPT ![s] = NoReply]

Say(s, r) == reply' = [reply EXCEPT ![s] = r]

Batch(s, oids) ==
  /\ Ask(s, [req |-> "batch", oids |-> oids, left |-> RetryMax])
  /\ UNCHANGED <<inputs, op, issued, server>>

(* What a client can present: an id it was given, as it is or altered, and *)
(* a token it was given.  A token is the MAC of an IdData.                 *)
Ids == issued \cup {[d EXCEPT !.oid = o] : d \in issued, o \in Oids} \cup {None, Garbled}
Tokens == issued \cup {None, Garbled}

(* Mutant: the operation is not compared. *)
Check_AnyOperation(operation, oid, id, token) ==
  IF id = None THEN "parse_error"
  ELSE IF token = None THEN "unauthorized"
  ELSE IF Garbled \in {id, token} THEN "parse_error"
  ELSE IF token # id \/ id.oid # oid THEN "forbidden"
  ELSE "ok"

(* parseAndCheckBatchArgs. *)
Check(operation, oid, id, token) ==
  IF id = None THEN "parse_error"
  ELSE IF token = None THEN "unauthorized"
  ELSE IF Garbled \in {id, token} THEN "parse_error"
  ELSE IF token # id \/ id.op # operation \/ id.oid # oid THEN "forbidden"
  ELSE "ok"

(* Upload and Download, in a session of either operation.  A refused       *)
(* upload's data is read to its end.                                       *)
Object(s, operation, oid, id, token) ==
  LET c == Check(operation, oid, id, token) IN
  /\ pc[s] = "cmd"
  /\ IF c = "ok"
       THEN Ask(s, [req |-> operation, oid |-> oid, href |-> id.href, left |-> RetryMax])
       ELSE /\ Say(s, [cmd |-> operation, status |-> c])
            /\ UNCHANGED <<pc, call>>
  /\ UNCHANGED <<inputs, op, issued, server>>

Verify(s) ==
  /\ pc[s] = "cmd"
  /\ Say(s, [cmd |-> "verify", status |-> "ok"])
  /\ UNCHANGED <<inputs, op, pc, call, issued, server>>

(* Create; FromID and Unlock; FromPath; Range. *)
Lock(s) ==
  /\ Ask(s, [req |-> "lock", left |-> RetryMax])
  /\ UNCHANGED <<inputs, op, issued, server>>

Unlock(s, id, force) ==
  /\ Ask(s, [req |-> "unlock", id |-> id, force |-> force, left |-> RetryMax])
  /\ UNCHANGED <<inputs, op, issued, server>>

ListLocks(s) ==
  /\ Ask(s, [req |-> "list", left |-> RetryMax])
  /\ UNCHANGED <<inputs, op, issued, server>>

(* ProcessCommands ends, with or without an error. *)
Quit(s) ==
  /\ pc[s] = "cmd"
  /\ Goto(s, "quit")
  /\ Say(s, NoReply)
  /\ UNCHANGED <<inputs, op, call, issued, server>>

-----------------------------------------------------------------------------
(* The LFS API: what it may answer, and what it does.  It may refuse any   *)
(* request; it offers an upload of what it does not have, and a download   *)
(* of what it has; it does not find a lock that is not there.  That every  *)
(* object that it lacks is offered is assumed: BatchObject has no field    *)
(* for an error of a single object, which could not be told from present.  *)

Refusals(r) ==
  [status: {"forbidden", "other"} \cup
           (IF r.req = "unlock" /\ lock # None /\ lock.id = r.id THEN {} ELSE {"not_found"})]

Unused == {id \in LockIds : \A l \in created : l.id # id}

ApiAnswers(s) ==
  LET r == call[s]
      locks == {lock} \ {None} IN
  Refusals(r) \cup
  CASE r.req = "batch" ->
         {[status |-> "ok", offered |-> IF op[s] = "upload" THEN r.oids \ stored
                                                            ELSE r.oids \cap stored]}
    [] r.req = "upload" -> {[status |-> "ok"]}
    [] r.req = "download" -> {[status |-> "ok"] : o \in {r.href.oid} \cap stored}
    [] r.req = "lock" ->
         IF lock # None THEN {[status |-> "conflict", lock |-> lock]}
         ELSE {[status |-> "ok", lock |-> [id |-> id, owner |-> s]] : id \in Unused}
    [] r.req = "unlock" ->
         {[status |-> "ok"] : l \in {l \in locks : l.id = r.id /\ (l.owner = s \/ r.force)}}
    [] r.req = "list" ->
         {[status |-> "ok", ours |-> {l.id : l \in {m \in locks : m.owner = s}},
                            theirs |-> {l.id : l \in {m \in locks : m.owner # s}}]}

ApiDoes(s, a) ==
  LET done == a.status = "ok"
      r == call[s] IN
  /\ stored' = IF done /\ r.req = "upload" THEN stored \cup {r.href.oid} ELSE stored
  /\ lock' = IF done /\ r.req = "lock" THEN a.lock
              ELSE IF done /\ r.req = "unlock" THEN None ELSE lock
  /\ created' = IF done /\ r.req = "lock" THEN created \cup {a.lock} ELSE created

-----------------------------------------------------------------------------
(* The client of the LFS API. *)

Finish(s, r) ==
  /\ Goto(s, "cmd")
  /\ call' = [call EXCEPT ![s] = NoCall]
  /\ Say(s, r)

(* retryablehttp: the request is sent again, whatever it is, or the call   *)
(* gives up.                                                               *)
Retry(s) ==
  IF call[s].left > 0
    THEN /\ call' = [call EXCEPT ![s].left = @ - 1]
         /\ UNCHANGED <<pc, reply>>
    ELSE Finish(s, [cmd |-> call[s].req, status |-> "internal_error"])

(* No connection, or an answer that is the server's own failure. *)
AttemptFails(s) ==
  /\ pc[s] = "http"
  /\ Retry(s)
  /\ UNCHANGED <<inputs, op, issued, server>>

(* The request was served and its answer is lost. *)
AnswerLost(s) ==
  /\ pc[s] = "http"
  /\ \E a \in ApiAnswers(s) : ApiDoes(s, a)
  /\ Retry(s)
  /\ UNCHANGED <<inputs, op, issued>>

(* Mutant: an offer to upload is taken for the object. *)
Present_NotNegated(operation, oids, offered) == offered

(* Batch: present is what can be had, or what need not be uploaded. *)
Present(operation, oids, offered) ==
  IF operation = "upload" THEN oids \ offered ELSE offered

(* issueBatchArgs for every object an action is offered for. *)
BatchAnswered(s, a) ==
  IF a.status = "ok"
    THEN /\ issued' = issued \cup
              {[op |-> op[s], oid |-> o, href |-> [op |-> op[s], oid |-> o, to |-> s]] :
                 o \in a.offered}
         /\ Finish(s, [cmd |-> "batch", status |-> "ok",
                       present |-> Present(op[s], call[s].oids, a.offered)])
    ELSE Finish(s, [cmd |-> "batch", status |-> "internal_error"]) /\ UNCHANGED issued

(* PutObject knows one refusal, GetObject takes every one for absence. *)
ObjectStatus(request, status) ==
  IF status = "ok" THEN "ok"
  ELSE IF request = "download" \/ status = "not_found" THEN "not_found" ELSE "internal_error"

ObjectReply(r, a) == [cmd |-> r.req, status |-> ObjectStatus(r.req, a.status)]

Status(a) == IF a.status = "other" THEN "internal_error" ELSE a.status

(* Mutant: a lock in the answer is taken for the one that was asked for. *)
LockReply_AnyLock(a) ==
  IF a.status \in {"ok", "conflict"} THEN [cmd |-> "lock", status |-> "ok", id |-> a.lock.id]
                                     ELSE [cmd |-> "lock", status |-> Status(a)]

(* Create: a conflict comes with the lock that is in the way. *)
LockReply(a) ==
  IF a.status \in {"ok", "conflict"} THEN [cmd |-> "lock", status |-> a.status, id |-> a.lock.id]
                                     ELSE [cmd |-> "lock", status |-> Status(a)]

UnlockReply(r, a) == [cmd |-> "unlock", id |-> r.id, status |-> Status(a)]

(* Range and FromPath.  The status is not looked at: in a refusal that is  *)
(* JSON there are no locks, another cannot be read.                        *)
ListReplies(a) ==
  IF a.status = "ok"
    THEN {[cmd |-> "list", status |-> "ok", ours |-> a.ours, theirs |-> a.theirs]}
    ELSE {[cmd |-> "list", status |-> "ok", ours |-> {}, theirs |-> {}],
          [cmd |-> "list", status |-> "internal_error"]}

Answered(s) ==
  LET r == call[s] IN
  /\ pc[s] = "http"
  /\ \E a \in ApiAnswers(s) :
       /\ ApiDoes(s, a)
       /\ \/ r.req = "batch" /\ BatchAnswered(s, a)
          \/ /\ \/ r.req \in Operations /\ Finish(s, ObjectReply(r, a))
                \/ r.req = "lock" /\ Finish(s, LockReply(a))
                \/ r.req = "unlock" /\ Finish(s, UnlockReply(r, a))
                \/ r.req = "list" /\ \E l \in ListReplies(a) : Finish(s, l)
             /\ UNCHANGED issued
  /\ UNCHANGED <<inputs, op>>

(* ParseJSON fails: the API has done what it was asked, the client is told *)
(* of an error, and the request is not sent again.                         *)
AnswerUnparsable(s) ==
  /\ pc[s] = "http" /\ call[s].req \notin Operations
  /\ \E a \in ApiAnswers(s) : a.status \in {"ok", "conflict"} /\ ApiDoes(s, a)
  /\ Finish(s, [cmd |-> call[s].req, status |-> "internal_error"])
  /\ UNCHANGED <<inputs, op, issued>>

-----------------------------------------------------------------------------
Command(s) ==
  \/ /\ about = "objects"
     /\ \/ (\E oids \in SUBSET Oids \ {{}} : Batch(s, oids))
        \/ (\E o \in Operations, oid \in Oids, id \in Ids, token \in Tokens :
               Object(s, o, oid, id, token))
        \/ Verify(s)
  \/ /\ about = "locks"
     /\ \/ Lock(s) \/ ListLocks(s)
        \/ (\E l \in created, force \in BOOLEAN : Unlock(s, l.id, force))
  \/ Quit(s)

Begin(s) ==
  \/ CheckArgs(s) \/ VerifyAccess(s)
  \/ AuthenticateFails(s) \/ PrintCredentials(s) \/ StartTransfer(s)

Done == (\A s \in Sessions : pc[s] \in Ended) /\ UNCHANGED vars

Next ==
  \/ (\E s \in Sessions :
         \/ Begin(s) \/ Command(s)
         \/ Answered(s) \/ AnswerUnparsable(s) \/ AnswerLost(s) \/ AttemptFails(s))
  \/ Done

Spec == Init /\ [][Next]_vars

-----------------------------------------------------------------------------
(* Properties. *)

(* Every object is fetched from, or put to, the place that the API named   *)
(* for that operation on that object, to a session whose user was allowed  *)
(* it: whatever id and token are presented, in whatever session            *)
(* (parseAndCheckBatchArgs, verifyAccess).                                 *)
TransferAuthorized ==
  \A s \in Sessions : LET r == call[s] IN
    r.req \in Operations =>
      /\ r.href.op = r.req /\ r.href.oid = r.oid
      /\ level[r.href.to] \in (IF r.req = "upload" THEN {"push"} ELSE {"pull", "push"})

(* Nobody has credentials for an operation, or a session of it, without    *)
(* the access that it needs (verifyAccess before authenticate).            *)
CredentialsNeedAccess ==
  \A s \in Sessions : pc[s] \in {"printed", "cmd", "http", "quit"} =>
    level[s] \in (IF op[s] = "upload" THEN {"push"} ELSE {"pull", "push"})

(* An object that a batch calls present is stored: the client that skips   *)
(* its upload, or downloads it, is right to (Batch).                       *)
PresentIsTrue ==
  \A s \in Sessions :
    reply[s].cmd = "batch" /\ reply[s].status = "ok" => reply[s].present \subseteq stored

(* What the client is told of locks is so, however often the request was   *)
(* repeated: a lock it got was made for it, the lock in its way exists or  *)
(* existed, a lock that it removed or that was not found is gone for good, *)
(* and locks are listed under their owners (Lock, Unlock, ListLocksVerify).*)
LockRepliesTrue ==
  \A s \in Sessions : LET r == reply[s] IN
    /\ r.cmd = "lock" /\ r.status = "ok" => [id |-> r.id, owner |-> s] \in created
    /\ r.cmd = "lock" /\ r.status = "conflict" => \E l \in created : l.id = r.id
    /\ r.cmd = "unlock" /\ r.status \in {"ok", "not_found"} => lock = None \/ lock.id # r.id
    /\ r.cmd = "list" /\ r.status = "ok" =>
         /\ \A id \in r.ours : [id |-> id, owner |-> s] \in created
         /\ \A id \in r.theirs : \E l \in created : l.id = id /\ l.owner # s
=============================================================================

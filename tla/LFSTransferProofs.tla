------------------------- MODULE LFSTransferProofs -------------------------
(***************************************************************************)
(* LFSTransfer's invariants, for any number of sessions, objects and locks *)
(* and any number of retries.                                              *)
(***************************************************************************)
EXTENDS LFSTransfer, TLAPS

Locks == [id: LockIds, owner: Sessions]

ObjectCalls == [req: Operations, oid: Oids, href: Hrefs, left: Nat]
LockCalls == [req: {"unlock"}, id: LockIds, force: BOOLEAN, left: Nat]
OtherCalls == [req: {"lock", "list"}, left: Nat]
BatchCalls == [req: {"batch"}, oids: SUBSET Oids, left: Nat]

TypeInv ==
  /\ level \in [Sessions -> {"none", "pull", "push"}]
  /\ op \in [Sessions -> Operations \cup {None}]
  /\ pc \in [Sessions -> Ended \cup {"args", "verify", "auth", "cmd", "http"}]
  /\ call \in [Sessions -> {NoCall} \cup ObjectCalls \cup LockCalls \cup OtherCalls \cup BatchCalls]
  /\ reply = [s \in Sessions |-> reply[s]]
  /\ issued \subseteq IdData
  /\ created \subseteq Locks /\ lock \in created \cup {None}

(* Past verifyAccess, a session has the access its operation needs. *)
AccessInv ==
  \A s \in Sessions :
    /\ pc[s] \notin {"args", "failed"} => op[s] \in Operations
    /\ pc[s] \in {"auth", "printed", "cmd", "http", "quit"} => level[s] \in NeededFor(op[s])

(* What is signed is an offer to a session that had the access. *)
IssuedInv ==
  \A d \in issued : d.href.op = d.op /\ d.href.oid = d.oid /\ level[d.href.to] \in NeededFor(d.op)

(* A request under way is what the commands let through. *)
CallTrue(r) ==
  /\ r.req \in Operations => /\ r.href.op = r.req /\ r.href.oid = r.oid
                             /\ level[r.href.to] \in NeededFor(r.req)
  /\ r.req = "unlock" => \E l \in created : l.id = r.id

CallInv ==
  \A s \in Sessions : CallTrue(call[s]) /\ (pc[s] = "http" <=> call[s] # NoCall)

(* A reply says what is so. *)
LockGone(id) == lock = None \/ lock.id # id

ReplyTrue(s, r) ==
  /\ r.cmd = "batch" /\ r.status = "ok" => r.present \subseteq stored
  /\ r.cmd = "lock" /\ r.status = "ok" => [id |-> r.id, owner |-> s] \in created
  /\ r.cmd = "lock" /\ r.status = "conflict" => \E l \in created : l.id = r.id
  /\ r.cmd = "unlock" /\ r.status \in {"ok", "not_found"} =>
       LockGone(r.id) /\ \E l \in created : l.id = r.id
  /\ r.cmd = "list" /\ r.status = "ok" =>
       /\ \A id \in r.ours : [id |-> id, owner |-> s] \in created
       /\ \A id \in r.theirs : \E l \in created : l.id = id /\ l.owner # s

ReplyInv == \A s \in Sessions : ReplyTrue(s, reply[s])

IInv == TypeInv /\ AccessInv /\ IssuedInv /\ CallInv /\ ReplyInv

-----------------------------------------------------------------------------
(* What may happen to the API's state: objects are stored and locks made,  *)
(* a lock that is gone stays so.                                           *)
ServerStep ==
  /\ stored \subseteq stored' /\ created \subseteq created'
  /\ created' \subseteq Locks /\ lock' \in created' \cup {None}
  /\ \A l \in created : LockGone(l.id) => LockGone(l.id)'

(* What an answer of the API tells. *)
LEMMA AnswerTells ==
  ASSUME NEW s \in Sessions, NEW a \in ApiAnswers(s),
         call[s].req \in Operations \cup {"batch", "lock", "unlock", "list"}
  PROVE  /\ a.status \in {"ok", "conflict", "forbidden", "other", "not_found"}
         /\ call[s].req = "batch" /\ a.status = "ok" =>
              a.offered = IF op[s] = "upload" THEN call[s].oids \ stored
                                              ELSE call[s].oids \cap stored
         /\ call[s].req = "lock" /\ a.status = "ok" =>
              \E id \in Unused : a.lock = [id |-> id, owner |-> s]
         /\ a.status = "conflict" => call[s].req = "lock" /\ lock # None /\ a.lock = lock
         /\ call[s].req = "unlock" /\ a.status = "not_found" => LockGone(call[s].id)
         /\ call[s].req = "list" /\ a.status = "ok" =>
              /\ \A id \in a.ours : lock # None /\ lock.owner = s /\ lock.id = id
              /\ \A id \in a.theirs : lock # None /\ lock.owner # s /\ lock.id = id
  <1>1. CASE a \in Refusals(call[s])
    BY <1>1 DEF Refusals, LockGone
  <1>2. CASE a \notin Refusals(call[s]) /\ call[s].req = "batch"
    BY <1>2 DEF ApiAnswers
  <1>3. CASE a \notin Refusals(call[s]) /\ call[s].req \in Operations
    BY <1>3 DEF ApiAnswers, Operations
  <1>4. CASE a \notin Refusals(call[s]) /\ call[s].req = "lock"
    BY <1>4 DEF ApiAnswers
  <1>5. CASE a \notin Refusals(call[s]) /\ call[s].req = "unlock"
    BY <1>5 DEF ApiAnswers
  <1>6. CASE a \notin Refusals(call[s]) /\ call[s].req = "list"
    BY <1>6 DEF ApiAnswers
  <1> QED BY <1>1, <1>2, <1>3, <1>4, <1>5, <1>6

(* A session in an HTTP request has one. *)
LEMMA CallTyped ==
  ASSUME IInv, NEW s \in Sessions, pc[s] = "http"
  PROVE  /\ call[s] \in ObjectCalls \cup LockCalls \cup OtherCalls \cup BatchCalls
         /\ call[s].req \in Operations \cup {"batch", "lock", "unlock", "list"}
         /\ CallTrue(call[s])
  <1>1. call[s] \in ObjectCalls \cup LockCalls \cup OtherCalls \cup BatchCalls
    BY DEF IInv, TypeInv, CallInv
  <1> QED BY <1>1 DEF IInv, CallInv, ObjectCalls, LockCalls, OtherCalls, BatchCalls

(* Serving a request is a step of the server. *)
LEMMA ServedIsStep ==
  ASSUME IInv, NEW s \in Sessions, pc[s] = "http", NEW a \in ApiAnswers(s), ApiDoes(s, a)
  PROVE  ServerStep
  <1>1. CASE a.status = "ok" /\ call[s].req = "lock"
    <2>1. PICK id \in Unused : a.lock = [id |-> id, owner |-> s]
      BY <1>1, AnswerTells
    <2>2. lock' = a.lock /\ created' = created \cup {a.lock} /\ stored' = stored
      BY <1>1 DEF ApiDoes
    <2>3. a.lock \in Locks /\ a.lock.id = id /\ \A l \in created : l.id # id
      BY <2>1 DEF Unused, Locks
    <2> QED BY <2>2, <2>3 DEF ServerStep, LockGone, IInv, TypeInv
  <1>2. CASE a.status = "ok" /\ call[s].req = "unlock"
    BY <1>2 DEF ApiDoes, ServerStep, LockGone, IInv, TypeInv
  <1>3. CASE ~(a.status = "ok" /\ call[s].req \in {"lock", "unlock"})
    BY <1>3 DEF ApiDoes, ServerStep, LockGone, IInv, TypeInv
  <1> QED BY <1>1, <1>2, <1>3

(* What is so of a reply, or of a request, stays so. *)
LEMMA ReplyStays ==
  ASSUME ServerStep, NEW s, NEW r, ReplyTrue(s, r)
  PROVE  ReplyTrue(s, r)'
  BY DEF ServerStep, ReplyTrue

LEMMA CallStays ==
  ASSUME ServerStep, UNCHANGED level, NEW r, CallTrue(r)
  PROVE  CallTrue(r)'
  BY DEF ServerStep, CallTrue

(* One attempt less leaves the request as it is. *)
LEMMA OneAttemptLess ==
  ASSUME NEW c \in ObjectCalls \cup LockCalls \cup OtherCalls \cup BatchCalls,
         c.left > 0, CallTrue(c), NEW d, d = [c EXCEPT !.left = @ - 1]
  PROVE  /\ d \in ObjectCalls \cup LockCalls \cup OtherCalls \cup BatchCalls
         /\ d # NoCall /\ CallTrue(d)
  <1>1. CASE c \in ObjectCalls
    BY <1>1 DEF ObjectCalls, CallTrue, NoCall, Operations
  <1>2. CASE c \in LockCalls
    BY <1>2 DEF LockCalls, CallTrue, NoCall, Operations
  <1>3. CASE c \in OtherCalls
    BY <1>3 DEF OtherCalls, CallTrue, NoCall, Operations
  <1>4. CASE c \in BatchCalls
    BY <1>4 DEF BatchCalls, CallTrue, NoCall, Operations
  <1> QED BY <1>1, <1>2, <1>3, <1>4

-----------------------------------------------------------------------------
(* The steps before the first command. *)
LEMMA BeginInv == ASSUME IInv, NEW s \in Sessions, Begin(s) PROVE IInv'
  <1>1. /\ UNCHANGED <<level, call, reply, issued, stored, lock, created>>
        /\ op' \in [Sessions -> Operations \cup {None}]
        /\ pc' \in [Sessions -> Ended \cup {"args", "verify", "auth", "cmd", "http"}]
        /\ \A u \in Sessions \ {s} : pc'[u] = pc[u] /\ op'[u] = op[u]
        /\ pc[s] # "http" /\ pc'[s] # "http"
    BY DEF Begin, CheckArgs, VerifyAccess, AuthenticateFails, PrintCredentials, StartTransfer,
       IInv, TypeInv, Goto, inputs, server, Ended
  <1>2. AccessInv'
    <2>1. CASE CheckArgs(s)
      BY <1>1, <2>1 DEF CheckArgs, Goto, IInv, TypeInv, AccessInv
    <2>2. CASE VerifyAccess(s)
      BY <1>1, <2>2 DEF VerifyAccess, Goto, IInv, TypeInv, AccessInv
    <2>3. CASE AuthenticateFails(s) \/ PrintCredentials(s) \/ StartTransfer(s)
      BY <1>1, <2>3 DEF AuthenticateFails, PrintCredentials, StartTransfer, Goto, IInv, TypeInv,
         AccessInv
    <2> QED BY <2>1, <2>2, <2>3 DEF Begin
  <1>3. TypeInv' /\ IssuedInv' /\ CallInv' /\ ReplyInv'
    BY <1>1 DEF IInv, TypeInv, IssuedInv, CallInv, CallTrue, ReplyInv, ReplyTrue, LockGone
  <1> QED BY <1>2, <1>3 DEF IInv

(* A command that is answered at once. *)
LEMMA SayInv ==
  ASSUME IInv, NEW s \in Sessions, NEW r, Say(s, r), r.cmd \in {"none", "verify"} \cup Operations,
         UNCHANGED <<inputs, op, pc, call, issued, server>>
  PROVE  IInv'
  <1>1. /\ reply' = [reply EXCEPT ![s] = r]
        /\ UNCHANGED <<level, op, pc, call, issued, stored, lock, created>>
    BY DEF Say, inputs, server
  <1>2. ReplyInv'
    <2>1. ReplyTrue(s, r)'
      BY DEF ReplyTrue, Operations
    <2>2. ASSUME NEW u \in Sessions PROVE ReplyTrue(u, reply[u])'
      BY <1>1, <2>1 DEF IInv, TypeInv, ReplyInv, ReplyTrue, LockGone
    <2> QED BY <2>2 DEF ReplyInv
  <1>3. TypeInv'
    BY <1>1 DEF IInv, TypeInv
  <1>4. AccessInv' /\ IssuedInv' /\ CallInv'
    BY <1>1 DEF IInv, AccessInv, IssuedInv, CallInv, CallTrue
  <1> QED BY <1>2, <1>3, <1>4 DEF IInv

(* A command that becomes a request. *)
LEMMA AskInv ==
  ASSUME IInv, NEW s \in Sessions, NEW c, Ask(s, c), CallTrue(c), c # NoCall,
         c \in ObjectCalls \cup LockCalls \cup OtherCalls \cup BatchCalls,
         UNCHANGED <<inputs, op, issued, server>>
  PROVE  IInv'
  <1>1. /\ reply' = [reply EXCEPT ![s] = NoReply] /\ call' = [call EXCEPT ![s] = c]
        /\ pc[s] = "cmd" /\ pc' = [pc EXCEPT ![s] = "http"]
        /\ UNCHANGED <<level, op, issued, stored, lock, created>>
    BY DEF Ask, Goto, inputs, server
  <1>2. TypeInv' /\ IssuedInv'
    BY <1>1 DEF IInv, TypeInv, IssuedInv
  <1>3. AccessInv'
    BY <1>1 DEF IInv, TypeInv, AccessInv
  <1>4. CallInv'
    BY <1>1 DEF IInv, TypeInv, CallInv, CallTrue
  <1>5. ReplyInv'
    BY <1>1 DEF IInv, TypeInv, ReplyInv, ReplyTrue, LockGone, NoReply
  <1> QED BY <1>2, <1>3, <1>4, <1>5 DEF IInv

(* The client's commands. *)
LEMMA CommandInv == ASSUME IInv, NEW s \in Sessions, Command(s) PROVE IInv'
  <1> USE RetryAssumption
  <1>1. ASSUME NEW oids \in SUBSET Oids, Batch(s, oids) PROVE IInv'
    <2>1. PICK c : c = [req |-> "batch", oids |-> oids, left |-> RetryMax]
      OBVIOUS
    <2>2. c \in BatchCalls /\ c # NoCall /\ CallTrue(c)
      BY <2>1 DEF BatchCalls, NoCall, CallTrue, Operations
    <2> QED BY <1>1, <2>1, <2>2, AskInv DEF Batch
  <1>2. ASSUME NEW o \in Operations, NEW oid \in Oids, NEW id \in Ids, NEW token \in Tokens,
               Object(s, o, oid, id, token)
        PROVE  IInv'
    <2>1. CASE Check(o, oid, id, token) = "ok"
      <3>1. id \in issued /\ id.op = o /\ id.oid = oid
        BY <2>1 DEF Check, Tokens
      <3>2. PICK c : c = [req |-> o, oid |-> oid, href |-> id.href, left |-> RetryMax]
        OBVIOUS
      <3>3. c \in ObjectCalls /\ c # NoCall /\ CallTrue(c)
        BY <3>1, <3>2 DEF ObjectCalls, NoCall, CallTrue, Operations, IInv, TypeInv, IssuedInv,
           IdData
      <3> QED BY <1>2, <2>1, <3>2, <3>3, AskInv DEF Object
    <2>2. CASE Check(o, oid, id, token) # "ok"
      BY <1>2, <2>2, SayInv DEF Object
    <2> QED BY <2>1, <2>2
  <1>3. CASE Verify(s)
    BY <1>3, SayInv DEF Verify
  <1>4. CASE Lock(s)
    <2>1. PICK c : c = [req |-> "lock", left |-> RetryMax]
      OBVIOUS
    <2>2. c \in OtherCalls /\ c # NoCall /\ CallTrue(c)
      BY <2>1 DEF OtherCalls, NoCall, CallTrue, Operations
    <2> QED BY <1>4, <2>1, <2>2, AskInv DEF Lock
  <1>5. CASE ListLocks(s)
    <2>1. PICK c : c = [req |-> "list", left |-> RetryMax]
      OBVIOUS
    <2>2. c \in OtherCalls /\ c # NoCall /\ CallTrue(c)
      BY <2>1 DEF OtherCalls, NoCall, CallTrue, Operations
    <2> QED BY <1>5, <2>1, <2>2, AskInv DEF ListLocks
  <1>6. ASSUME NEW l \in created, NEW force \in BOOLEAN, Unlock(s, l.id, force) PROVE IInv'
    <2>1. PICK c : c = [req |-> "unlock", id |-> l.id, force |-> force, left |-> RetryMax]
      OBVIOUS
    <2>2. c \in LockCalls /\ c # NoCall /\ CallTrue(c)
      BY <2>1 DEF LockCalls, NoCall, CallTrue, Operations, IInv, TypeInv, Locks
    <2> QED BY <1>6, <2>1, <2>2, AskInv DEF Unlock
  <1>7. CASE Quit(s)
    <2>1. /\ reply' = [reply EXCEPT ![s] = NoReply] /\ pc' = [pc EXCEPT ![s] = "quit"]
          /\ pc[s] = "cmd" /\ UNCHANGED <<level, op, call, issued, stored, lock, created>>
      BY <1>7 DEF Quit, Goto, Say, inputs, server
    <2>2. TypeInv' /\ IssuedInv' /\ AccessInv'
      BY <2>1 DEF IInv, TypeInv, IssuedInv, AccessInv, Ended
    <2>3. CallInv' /\ ReplyInv'
      BY <2>1 DEF IInv, TypeInv, CallInv, CallTrue, ReplyInv, ReplyTrue, LockGone, NoReply
    <2> QED BY <2>2, <2>3 DEF IInv
  <1> QED
    BY <1>1, <1>2, <1>3, <1>4, <1>5, <1>6, <1>7 DEF Command

-----------------------------------------------------------------------------
(* A request ends with a reply that is so. *)
LEMMA FinishInv ==
  ASSUME IInv, NEW s \in Sessions, pc[s] = "http", ServerStep, UNCHANGED <<inputs, op>>,
         issued' \subseteq IdData, IssuedInv',
         NEW r, Finish(s, r), ReplyTrue(s, r)'
  PROVE  IInv'
  <1>1. /\ reply' = [reply EXCEPT ![s] = r] /\ call' = [call EXCEPT ![s] = NoCall]
        /\ pc' = [pc EXCEPT ![s] = "cmd"] /\ UNCHANGED <<level, op>>
    BY DEF Finish, Goto, Say, inputs
  <1>2. TypeInv' /\ AccessInv'
    BY <1>1 DEF IInv, TypeInv, AccessInv, ServerStep
  <1>3. CallInv'
    <2>1. ASSUME NEW u \in Sessions, u # s
          PROVE  CallTrue(call[u])' /\ (pc'[u] = "http" <=> call'[u] # NoCall)
      <3>1. PICK c : c = call[u]
        OBVIOUS
      <3>2. CallTrue(c)' /\ call'[u] = c /\ pc'[u] = pc[u]
        BY <1>1, <2>1, <3>1, CallStays DEF IInv, TypeInv, CallInv
      <3> QED BY <3>1, <3>2 DEF IInv, CallInv, CallTrue
    <2>2. CallTrue(call[s])' /\ pc'[s] # "http" /\ call'[s] = NoCall
      BY <1>1 DEF IInv, TypeInv, CallTrue, NoCall, Operations
    <2> QED BY <2>1, <2>2 DEF CallInv
  <1>4. ReplyInv'
    <2>1. ASSUME NEW u \in Sessions, u # s PROVE ReplyTrue(u, reply[u])'
      <3>1. PICK q : q = reply[u]
        OBVIOUS
      <3>2. ReplyTrue(u, q)' /\ reply'[u] = q
        BY <1>1, <2>1, <3>1, ReplyStays DEF IInv, TypeInv, ReplyInv
      <3> QED BY <3>2 DEF ReplyTrue
    <2>2. ReplyTrue(s, reply[s])'
      BY <1>1 DEF IInv, TypeInv, ReplyTrue
    <2> QED BY <2>1, <2>2 DEF ReplyInv
  <1> QED BY <1>2, <1>3, <1>4 DEF IInv

(* A request is sent again, or given up. *)
LEMMA RetryInv ==
  ASSUME IInv, NEW s \in Sessions, pc[s] = "http", ServerStep, UNCHANGED <<inputs, op, issued>>,
         Retry(s)
  PROVE  IInv'
  <1>1. issued' \subseteq IdData /\ IssuedInv'
    BY DEF IInv, TypeInv, IssuedInv, inputs
  <1>2. CASE call[s].left > 0
    <2>1. PICK d : d = [call[s] EXCEPT !.left = @ - 1]
      OBVIOUS
    <2>2. /\ d \in ObjectCalls \cup LockCalls \cup OtherCalls \cup BatchCalls
          /\ d # NoCall /\ CallTrue(d)
      BY <1>2, <2>1, CallTyped, OneAttemptLess
    <2>3. call' = [call EXCEPT ![s] = d] /\ UNCHANGED <<pc, reply, level, op>>
      BY <1>2, <2>1 DEF Retry, inputs
    <2>4. TypeInv' /\ AccessInv'
      BY <1>1, <2>2, <2>3 DEF IInv, TypeInv, AccessInv, ServerStep
    <2>5. CallInv'
      <3>1. ASSUME NEW u \in Sessions, u # s
            PROVE  CallTrue(call[u])' /\ (pc'[u] = "http" <=> call'[u] # NoCall)
        <4>1. PICK c : c = call[u]
          OBVIOUS
        <4>2. CallTrue(c)' /\ call'[u] = c /\ pc'[u] = pc[u]
          BY <2>3, <3>1, <4>1, CallStays DEF IInv, TypeInv, CallInv
        <4> QED BY <4>1, <4>2 DEF IInv, CallInv, CallTrue
      <3>2. CallTrue(d)' /\ call'[s] = d
        BY <2>2, <2>3, CallStays DEF IInv, TypeInv
      <3>3. CallTrue(call[s])' /\ (pc'[s] = "http" <=> call'[s] # NoCall)
        BY <2>2, <2>3, <3>2 DEF CallTrue
      <3> QED BY <3>1, <3>3 DEF CallInv
    <2>6. ReplyInv'
      <3>1. ASSUME NEW u \in Sessions PROVE ReplyTrue(u, reply[u])'
        <4>1. PICK q : q = reply[u]
          OBVIOUS
        <4>2. ReplyTrue(u, q)' /\ reply'[u] = q
          BY <2>3, <4>1, ReplyStays DEF IInv, ReplyInv
        <4> QED BY <4>2 DEF ReplyTrue
      <3> QED BY <3>1 DEF ReplyInv
    <2> QED BY <1>1, <2>4, <2>5, <2>6 DEF IInv
  <1>3. CASE ~(call[s].left > 0)
    <2>1. PICK r : r = [cmd |-> call[s].req, status |-> "internal_error"]
      OBVIOUS
    <2>2. Finish(s, r) /\ ReplyTrue(s, r)'
      BY <1>3, <2>1 DEF Retry, ReplyTrue
    <2> QED BY <1>1, <2>2, FinishInv
  <1> QED BY <1>2, <1>3

(* An answer arrives: what the client is told of it is so. *)
LEMMA AnsweredInv == ASSUME IInv, NEW s \in Sessions, Answered(s) PROVE IInv'
  <1>1. PICK a \in ApiAnswers(s) :
          /\ ApiDoes(s, a)
          /\ \/ call[s].req = "batch" /\ BatchAnswered(s, a)
             \/ /\ \/ call[s].req \in Operations /\ Finish(s, ObjectReply(call[s], a))
                   \/ call[s].req = "lock" /\ Finish(s, LockReply(a))
                   \/ call[s].req = "unlock" /\ Finish(s, UnlockReply(call[s], a))
                   \/ call[s].req = "list" /\ \E l \in ListReplies(a) : Finish(s, l)
                /\ UNCHANGED issued
    BY DEF Answered
  <1>2. pc[s] = "http" /\ UNCHANGED <<inputs, op>> /\ level' = level
    BY DEF Answered, inputs
  <1>3. ServerStep
    BY <1>1, <1>2, ServedIsStep
  <1>4. call[s].req \in Operations \cup {"batch", "lock", "unlock", "list"}
    BY <1>2, CallTyped
  <1>5. UNCHANGED issued => issued' \subseteq IdData /\ IssuedInv'
    BY <1>2 DEF IInv, TypeInv, IssuedInv
  <1>6. CASE call[s].req = "batch" /\ BatchAnswered(s, a) /\ a.status = "ok"
    <2>1. call[s] \in BatchCalls
      BY <1>2, <1>6, CallTyped DEF ObjectCalls, LockCalls, OtherCalls, Operations
    <2>2. a.offered = IF op[s] = "upload" THEN call[s].oids \ stored ELSE call[s].oids \cap stored
      BY <1>4, <1>6, AnswerTells
    <2>3. op[s] \in Operations /\ level[s] \in NeededFor(op[s])
      BY <1>2 DEF IInv, AccessInv
    <2>4. ASSUME NEW d \in issued' \ issued
          PROVE  /\ d \in IdData /\ d.href.op = d.op /\ d.href.oid = d.oid
                 /\ level[d.href.to] \in NeededFor(d.op)
      <3>1. PICK o \in a.offered :
              d = [op |-> op[s], oid |-> o, href |-> [op |-> op[s], oid |-> o, to |-> s]]
        BY <1>6 DEF BatchAnswered
      <3>2. o \in Oids
        BY <2>1, <2>2, <3>1 DEF BatchCalls
      <3> QED BY <2>3, <3>1, <3>2 DEF IdData, Hrefs
    <2>5. issued' \subseteq IdData /\ IssuedInv'
      BY <1>2, <2>4 DEF IInv, TypeInv, IssuedInv
    <2>6. PICK r : r = [cmd |-> "batch", status |-> "ok",
                        present |-> Present(op[s], call[s].oids, a.offered)]
      OBVIOUS
    <2>7. r.present \subseteq stored
      BY <2>2, <2>6 DEF Present
    <2>8. Finish(s, r) /\ ReplyTrue(s, r)'
      BY <1>3, <1>6, <2>6, <2>7 DEF BatchAnswered, ReplyTrue, ServerStep
    <2> QED BY <1>2, <1>3, <2>5, <2>8, FinishInv
  <1>7. CASE call[s].req = "batch" /\ BatchAnswered(s, a) /\ a.status # "ok"
    <2>1. PICK r : r = [cmd |-> "batch", status |-> "internal_error"]
      OBVIOUS
    <2>2. Finish(s, r) /\ ReplyTrue(s, r)' /\ UNCHANGED issued
      BY <1>7, <2>1 DEF BatchAnswered, ReplyTrue
    <2> QED BY <1>2, <1>3, <1>5, <2>2, FinishInv
  <1>8. CASE call[s].req \in Operations /\ Finish(s, ObjectReply(call[s], a)) /\ UNCHANGED issued
    <2>1. PICK r : r = ObjectReply(call[s], a)
      OBVIOUS
    <2>2. ReplyTrue(s, r)'
      BY <1>8, <2>1 DEF ObjectReply, ReplyTrue, Operations
    <2> QED BY <1>2, <1>3, <1>5, <1>8, <2>1, <2>2, FinishInv
  <1>9. CASE call[s].req = "lock" /\ Finish(s, LockReply(a)) /\ UNCHANGED issued
    <2>1. PICK r : r = LockReply(a)
      OBVIOUS
    <2>2. CASE a.status = "ok"
      <3>1. PICK id \in Unused : a.lock = [id |-> id, owner |-> s]
        BY <1>9, <1>4, <2>2, AnswerTells
      <3>2. a.lock \in created'
        BY <1>1, <1>9, <2>2 DEF ApiDoes
      <3>3. r = [cmd |-> "lock", status |-> "ok", id |-> id]
        BY <2>1, <2>2, <3>1 DEF LockReply
      <3>4. ReplyTrue(s, r)'
        BY <3>1, <3>2, <3>3 DEF ReplyTrue
      <3> QED BY <1>2, <1>3, <1>5, <1>9, <2>1, <3>4, FinishInv
    <2>3. CASE a.status = "conflict"
      <3>1. a.lock \in created /\ created \subseteq created'
        BY <1>3, <1>4, <2>3, AnswerTells DEF IInv, TypeInv, ServerStep
      <3>2. r = [cmd |-> "lock", status |-> "conflict", id |-> a.lock.id]
        BY <2>1, <2>3 DEF LockReply
      <3>3. ReplyTrue(s, r)'
        BY <3>1, <3>2 DEF ReplyTrue
      <3> QED BY <1>2, <1>3, <1>5, <1>9, <2>1, <3>3, FinishInv
    <2>4. CASE a.status \notin {"ok", "conflict"}
      <3>1. r.cmd = "lock" /\ r.status \notin {"ok", "conflict"}
        BY <2>1, <2>4 DEF LockReply, Status
      <3>2. ReplyTrue(s, r)'
        BY <3>1 DEF ReplyTrue
      <3> QED BY <1>2, <1>3, <1>5, <1>9, <2>1, <3>2, FinishInv
    <2> QED BY <2>2, <2>3, <2>4
  <1>10. CASE call[s].req = "unlock" /\ Finish(s, UnlockReply(call[s], a)) /\ UNCHANGED issued
    <2>1. PICK r : r = UnlockReply(call[s], a)
      OBVIOUS
    <2>2. r.cmd = "unlock" /\ r.id = call[s].id /\ r.status = Status(a)
      BY <2>1 DEF UnlockReply
    <2>3. PICK l \in created : l.id = r.id
      BY <1>2, <1>10, <2>2, CallTyped DEF CallTrue
    <2>4. r.status \in {"ok", "not_found"} => LockGone(r.id)'
      <3>1. CASE a.status = "ok"
        BY <1>1, <1>10, <3>1 DEF ApiDoes, LockGone
      <3>2. CASE a.status = "not_found"
        <4>1. LockGone(l.id)
          BY <1>4, <1>10, <2>2, <2>3, <3>2, AnswerTells DEF LockGone
        <4>2. LockGone(l.id)'
          BY <1>3, <4>1 DEF ServerStep
        <4> QED BY <2>3, <4>2 DEF LockGone
      <3> QED BY <2>2, <3>1, <3>2 DEF Status
    <2>5. ReplyTrue(s, r)'
      BY <1>3, <2>2, <2>3, <2>4 DEF ReplyTrue, ServerStep
    <2> QED BY <1>2, <1>3, <1>5, <1>10, <2>1, <2>5, FinishInv
  <1>11. ASSUME call[s].req = "list", NEW l \in ListReplies(a), Finish(s, l), UNCHANGED issued
         PROVE  IInv'
    <2>1. lock # None => lock \in created /\ lock = [id |-> lock.id, owner |-> lock.owner]
      BY DEF IInv, TypeInv, Locks
    <2>2. CASE a.status = "ok"
      <3>1. l = [cmd |-> "list", status |-> "ok", ours |-> a.ours, theirs |-> a.theirs]
        BY <1>11, <2>2 DEF ListReplies
      <3>2. /\ \A id \in a.ours : lock # None /\ lock.owner = s /\ lock.id = id
            /\ \A id \in a.theirs : lock # None /\ lock.owner # s /\ lock.id = id
        BY <1>4, <1>11, <2>2, AnswerTells
      <3>3. created \subseteq created'
        BY <1>3 DEF ServerStep
      <3>4. ReplyTrue(s, l)'
        BY <2>1, <3>1, <3>2, <3>3 DEF ReplyTrue
      <3> QED BY <1>2, <1>3, <1>5, <1>11, <3>4, FinishInv
    <2>3. CASE a.status # "ok"
      <3>1. ReplyTrue(s, l)'
        BY <1>11, <2>3 DEF ListReplies, ReplyTrue
      <3> QED BY <1>2, <1>3, <1>5, <1>11, <3>1, FinishInv
    <2> QED BY <2>2, <2>3
  <1> QED
    BY <1>1, <1>6, <1>7, <1>8, <1>9, <1>10, <1>11

(* An answer that cannot be read is reported as an error. *)
LEMMA UnparsableInv == ASSUME IInv, NEW s \in Sessions, AnswerUnparsable(s) PROVE IInv'
  <1>1. ServerStep
    BY ServedIsStep DEF AnswerUnparsable
  <1>2. PICK r : r = [cmd |-> call[s].req, status |-> "internal_error"]
    OBVIOUS
  <1>3. ReplyTrue(s, r)'
    BY <1>2 DEF ReplyTrue
  <1>4. issued' \subseteq IdData /\ IssuedInv'
    BY DEF IInv, TypeInv, IssuedInv, AnswerUnparsable, inputs
  <1> QED BY <1>1, <1>2, <1>3, <1>4, FinishInv DEF AnswerUnparsable

-----------------------------------------------------------------------------
(* The inductive invariant holds of every behaviour. *)
THEOREM Invariance == Spec => []IInv
  <1>1. Init => IInv
    BY DEF Init, IInv, TypeInv, AccessInv, IssuedInv, CallInv, CallTrue, ReplyInv, ReplyTrue,
       NoCall, NoReply, Operations, Ended
  <1>2. ASSUME IInv, UNCHANGED vars PROVE IInv'
    BY <1>2 DEF vars, inputs, server, IInv, TypeInv, AccessInv, IssuedInv, CallInv, CallTrue,
       ReplyInv, ReplyTrue, LockGone
  <1>3. ASSUME IInv, NEW s \in Sessions, AnswerLost(s) \/ AttemptFails(s) PROVE IInv'
    <2>1. CASE AnswerLost(s)
      BY <1>3, <2>1, ServedIsStep, RetryInv DEF AnswerLost
    <2>2. CASE AttemptFails(s)
      <3>1. ServerStep
        BY <1>3, <2>2 DEF AttemptFails, server, ServerStep, LockGone, IInv, TypeInv
      <3> QED BY <1>3, <2>2, <3>1, RetryInv DEF AttemptFails
    <2> QED BY <1>3, <2>1, <2>2
  <1>4. IInv /\ [Next]_vars => IInv'
    BY <1>2, <1>3, BeginInv, CommandInv, AnsweredInv, UnparsableInv DEF Next, Done
  <1> QED
    BY <1>1, <1>4, PTL DEF Spec

(* Whatever id and token a client presents, and in whatever session, an    *)
(* object goes where the API said it may, for a user who was allowed it    *)
(* (parseAndCheckBatchArgs, verifyAccess).                                 *)
THEOREM Authorized == Spec => []TransferAuthorized
  <1>1. IInv => TransferAuthorized
    BY DEF IInv, CallInv, CallTrue, TransferAuthorized, NeededFor
  <1> QED BY <1>1, Invariance, PTL

(* Credentials and transfer sessions are only for users with the access    *)
(* they need (verifyAccess before authenticate).                           *)
THEOREM AccessNeeded == Spec => []CredentialsNeedAccess
  <1>1. IInv => CredentialsNeedAccess
    BY DEF IInv, AccessInv, NeededFor, CredentialsNeedAccess
  <1> QED BY <1>1, Invariance, PTL

(* An object that a batch calls present is stored (Batch). *)
THEOREM PresentStored == Spec => []PresentIsTrue
  <1>1. IInv => PresentIsTrue
    BY DEF IInv, ReplyInv, ReplyTrue, PresentIsTrue
  <1> QED BY <1>1, Invariance, PTL

(* What the client is told of locks is so, however often the request was   *)
(* repeated (Lock, Unlock, ListLocksVerify).                               *)
THEOREM LocksTrue == Spec => []LockRepliesTrue
  <1>1. IInv => LockRepliesTrue
    BY DEF IInv, ReplyInv, ReplyTrue, LockGone, LockRepliesTrue
  <1> QED BY <1>1, Invariance, PTL
=============================================================================

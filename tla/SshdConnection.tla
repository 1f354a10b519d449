--------------------------- MODULE SshdConnection ---------------------------
(***************************************************************************)
(* One SSH connection, internal/sshd/connection.go: handle() with its      *)
(* handshake, the loop over new channels, a goroutine per session, the     *)
(* semaphore that bounds them, the wait for them when the connection ends, *)
(* the keepalive goroutine, and the two service level indicators (SLIs):   *)
(* sessions and connections.  What a session does is module SshdSession;   *)
(* here it ends with no error, with an error of some class, or panics.     *)
(***************************************************************************)
EXTENDS Naturals, FiniteSets

CONSTANTS
  Channels,       \* the channels the client may ask for
  MaxSessions,    \* Server.ConcurrentSessionsLimit
  SessionErrors   \* the errors a session may end with: records of ErrorClass

(* What trackError looks at in an error: whether it wraps an *APIError and *)
(* of which kind, whether it is disallowedcommand.Error, its gRPC code     *)
(* ("Unknown" when it carries none) and what its message contains.         *)
ErrorClass ==
  [api: {"none", "policy", "system"},
   disallowed: BOOLEAN,
   code: {"Canceled", "Unavailable", "Internal", "Unknown"},
   text: {"not our ref", "broken pipe", "copy response EOF", "other"}]

ASSUME ConnectionAssumption ==
  /\ IsFiniteSet(Channels)
  /\ MaxSessions \in Nat
  /\ SessionErrors \subseteq ErrorClass

VARIABLES
  pc,             \* where handle() is
  ctxDone,        \* the connection's context has been cancelled
  muxOpen,        \* the SSH transport: false once chans is closed
  lastAuth,       \* the auth callback's result the library goes by
  authAttempted,  \* outcome.authAttempted
  serverError,    \* outcome.serverError
  sess,           \* per channel, where it or its session goroutine is
  errOf,          \* per channel, the set of errors its session has returned
  sem,            \* the weight acquired from concurrentSessions
  drain,          \* how the final Acquire ended
  ka,             \* the keepalive goroutine
  sessionsTotal, sessionsErrors,  \* SliSshdSessionsTotal, ...ErrorsTotal
  connsTotal, connsErrors,        \* SliSshdConnectionsTotal, ...ErrorsTotal
  hitMax                          \* SshdHitMaxSessions

authVars == <<lastAuth, authAttempted>>
sliVars == <<sessionsTotal, sessionsErrors, connsTotal, connsErrors, hitMax>>
vars == <<pc, ctxDone, muxOpen, authVars, serverError, sess, errOf, sem, drain,
          ka, sliVars>>

(* Channels whose session holds a unit of the semaphore. *)
Holding == {c \in Channels :
              sess[c] \in {"acquired", "spawned", "running", "tracking", "marking", "releasing"}}

Init ==
  /\ pc = "handshake"
  /\ ctxDone = FALSE
  /\ muxOpen = TRUE
  /\ lastAuth = "none"
  /\ authAttempted = FALSE
  /\ serverError = FALSE
  /\ sess = [c \in Channels |-> "none"]
  /\ errOf = [c \in Channels |-> {}]
  /\ sem = 0
  /\ drain = "none"
  /\ ka = "off"
  /\ sessionsTotal = 0 /\ sessionsErrors = 0
  /\ connsTotal = 0 /\ connsErrors = 0
  /\ hitMax = 0

-----------------------------------------------------------------------------
(* The handshake: ssh.NewServerConn calls the auth callbacks inline. *)

(* Mutant: a successful attempt does not clear an earlier server error. *)
observeAuth_NoClear(result) ==
  /\ authAttempted' = TRUE
  /\ serverError' = (serverError \/ result = "system")

(* connOutcome.observeAuth: nil, a system *APIError, or any other error. *)
observeAuth(result) ==
  /\ authAttempted' = TRUE
  /\ serverError' = CASE result = "ok"     -> FALSE
                      [] result = "system" -> TRUE
                      [] result = "other"  -> serverError

(* The client tries a key, a certificate or GSSAPI.  The library also      *)
(* calls the callback for a query, which proves nothing about the client.  *)
(* A key it has accepted stays in its cache while a GSSAPI login fails.    *)
AuthAttempt(result) ==
  /\ pc = "handshake"
  /\ \/ lastAuth' = result
     \/ result = "other" /\ lastAuth = "ok" /\ UNCHANGED lastAuth
  /\ observeAuth(result)
  /\ UNCHANGED <<pc, ctxDone, muxOpen, sess, errOf, sem, drain, ka, sliVars>>

(* NewServerConn fails (the client left, LoginGraceTime, too many          *)
(* failures, a protocol mismatch) or a callback panics: handle() leaves    *)
(* through the deferred trackConnection.                                   *)
HandshakeFails ==
  /\ pc = "handshake"
  /\ pc' = "track"
  /\ muxOpen' = FALSE
  /\ UNCHANGED <<ctxDone, authVars, serverError, sess, errOf, sem, drain, ka, sliVars>>

(* NewServerConn succeeds: the login is accepted, or the key that the      *)
(* library has in its cache of one key.  With a ClientAliveInterval a      *)
(* keepalive goroutine starts.                                             *)
HandshakeSucceeds ==
  /\ pc = "handshake"
  /\ lastAuth = "ok"
  /\ pc' = "loop"
  /\ ka' \in {"off", "select"}
  /\ UNCHANGED <<ctxDone, muxOpen, authVars, serverError, sess, errOf, sem, drain, sliVars>>

-----------------------------------------------------------------------------
(* handleRequests: the loop over new channels. *)

(* A channel of another type: rejected. *)
RejectType(c) ==
  /\ pc = "loop" /\ sess[c] = "none"
  /\ sess' = [sess EXCEPT ![c] = "rejected"]
  /\ UNCHANGED <<pc, ctxDone, muxOpen, authVars, serverError, errOf, sem, drain, ka, sliVars>>

(* TryAcquire(1) fails: rejected, and counted. *)
RejectFull(c) ==
  /\ pc = "loop" /\ sess[c] = "none"
  /\ sem + 1 > MaxSessions
  /\ sess' = [sess EXCEPT ![c] = "rejected"]
  /\ hitMax' = hitMax + 1
  /\ UNCHANGED <<pc, ctxDone, muxOpen, authVars, serverError, errOf, sem, drain, ka,
                 sessionsTotal, sessionsErrors, connsTotal, connsErrors>>

TryAcquire(c) ==
  /\ pc = "loop" /\ sess[c] = "none"
  /\ sem + 1 <= MaxSessions
  /\ sem' = sem + 1
  /\ sess' = [sess EXCEPT ![c] = "acquired"]
  /\ pc' = "accept"
  /\ UNCHANGED <<ctxDone, muxOpen, authVars, serverError, errOf, drain, ka, sliVars>>

(* newChannel.Accept succeeds: the session's goroutine starts. *)
AcceptChannel(c) ==
  /\ pc = "accept" /\ sess[c] = "acquired"
  /\ sess' = [sess EXCEPT ![c] = "spawned"]
  /\ pc' = "loop"
  /\ UNCHANGED <<ctxDone, muxOpen, authVars, serverError, errOf, sem, drain, ka, sliVars>>

(* Mutant: a failed Accept keeps its unit of the semaphore. *)
AcceptChannelFails_Leaks(c) ==
  /\ pc = "accept" /\ sess[c] = "acquired"
  /\ sess' = [sess EXCEPT ![c] = "rejected"]
  /\ pc' = "loop"
  /\ UNCHANGED <<ctxDone, muxOpen, authVars, serverError, errOf, sem, drain, ka, sliVars>>

(* newChannel.Accept fails: Release(1). *)
AcceptChannelFails(c) ==
  /\ pc = "accept" /\ sess[c] = "acquired"
  /\ sess' = [sess EXCEPT ![c] = "rejected"]
  /\ sem' = sem - 1
  /\ pc' = "loop"
  /\ UNCHANGED <<ctxDone, muxOpen, authVars, serverError, errOf, drain, ka, sliVars>>

(* chans is closed and empty. *)
LoopEnds ==
  /\ pc = "loop" /\ ~muxOpen
  /\ pc' = "drain"
  /\ UNCHANGED <<ctxDone, muxOpen, authVars, serverError, sess, errOf, sem, drain, ka, sliVars>>

(* Acquire(ctx, maxSessions) succeeds: every session has released. *)
DrainAcquired ==
  /\ pc = "drain"
  /\ sem + MaxSessions <= MaxSessions
  /\ sem' = sem + MaxSessions
  /\ drain' = "acquired"
  /\ pc' = "wait"
  /\ UNCHANGED <<ctxDone, muxOpen, authVars, serverError, sess, errOf, ka, sliVars>>

(* Mutant: Acquire without the timeout, ended by the context only. *)
DrainTimeout_CtxOnly ==
  /\ pc = "drain"
  /\ ctxDone
  /\ drain' = "timeout"
  /\ pc' = "wait"
  /\ UNCHANGED <<ctxDone, muxOpen, authVars, serverError, sess, errOf, sem, ka, sliVars>>

(* EOFTimeout expires while some session runs, or ctx is cancelled. *)
DrainTimeout ==
  /\ pc = "drain"
  /\ sem > 0 \/ ctxDone
  /\ drain' = "timeout"
  /\ pc' = "wait"
  /\ UNCHANGED <<ctxDone, muxOpen, authVars, serverError, sess, errOf, sem, ka, sliVars>>

(* sconn.Wait() returns once the transport is gone. *)
Wait ==
  /\ pc = "wait" /\ ~muxOpen
  /\ pc' = "track"
  /\ UNCHANGED <<ctxDone, muxOpen, authVars, serverError, sess, errOf, sem, drain, ka, sliVars>>

(* The deferred trackConnection. *)
trackConnection ==
  /\ pc = "track"
  /\ pc' = "done"
  /\ connsTotal' = IF authAttempted THEN connsTotal + 1 ELSE connsTotal
  /\ connsErrors' = IF authAttempted /\ serverError THEN connsErrors + 1 ELSE connsErrors
  /\ UNCHANGED <<ctxDone, muxOpen, authVars, serverError, sess, errOf, sem, drain, ka,
                 sessionsTotal, sessionsErrors, hitMax>>

-----------------------------------------------------------------------------
(* A session's goroutine. *)

(* The counter, then the handler. *)
SessionStarts(c) ==
  /\ sess[c] = "spawned"
  /\ sess' = [sess EXCEPT ![c] = "running"]
  /\ sessionsTotal' = sessionsTotal + 1
  /\ UNCHANGED <<pc, ctxDone, muxOpen, authVars, serverError, errOf, sem, drain, ka,
                 sessionsErrors, connsTotal, connsErrors, hitMax>>

(* The handler returns nil, or panics: the panic is recovered, not counted. *)
SessionEnds(c) ==
  /\ sess[c] = "running"
  /\ sess' = [sess EXCEPT ![c] = "releasing"]
  /\ UNCHANGED <<pc, ctxDone, muxOpen, authVars, serverError, errOf, sem, drain, ka, sliVars>>

isClientDisconnect(err) ==
  \/ err.code = "Internal" /\ err.text = "broken pipe"
  \/ err.text = "copy response EOF"

(* trackError's early returns. *)
Excluded(err) ==
  \/ err.api = "policy"
  \/ err.disallowed
  \/ err.code \in {"Canceled", "Unavailable"}
  \/ err.code = "Internal" /\ err.text = "not our ref"
  \/ isClientDisconnect(err)

(* The handler returns an error. *)
SessionFails(c, err) ==
  /\ sess[c] = "running"
  /\ errOf' = [errOf EXCEPT ![c] = {err}]
  /\ sess' = [sess EXCEPT ![c] = IF Excluded(err) THEN "releasing" ELSE "tracking"]
  /\ UNCHANGED <<pc, ctxDone, muxOpen, authVars, serverError, sem, drain, ka, sliVars>>

(* Mutant: the session's unit is released before the connection is marked. *)
TrackSessionError_ReleasesFirst(c) ==
  /\ sess[c] = "tracking"
  /\ sess' = [sess EXCEPT ![c] = "done"]
  /\ sem' = sem - 1
  /\ sessionsErrors' = sessionsErrors + 1
  /\ UNCHANGED <<pc, ctxDone, muxOpen, authVars, serverError, errOf, drain, ka,
                 sessionsTotal, connsTotal, connsErrors, hitMax>>

(* trackError: the session counter... *)
TrackSessionError(c) ==
  /\ sess[c] = "tracking"
  /\ sess' = [sess EXCEPT ![c] = "marking"]
  /\ sessionsErrors' = sessionsErrors + 1
  /\ UNCHANGED <<pc, ctxDone, muxOpen, authVars, serverError, errOf, sem, drain, ka,
                 sessionsTotal, connsTotal, connsErrors, hitMax>>

(* ...then the mark on the connection. *)
MarkServerError(c) ==
  /\ sess[c] = "marking"
  /\ sess' = [sess EXCEPT ![c] = "releasing"]
  /\ serverError' = TRUE
  /\ UNCHANGED <<pc, ctxDone, muxOpen, authVars, errOf, sem, drain, ka, sliVars>>

(* The deferred Release(1). *)
Release(c) ==
  /\ sess[c] = "releasing"
  /\ sess' = [sess EXCEPT ![c] = "done"]
  /\ sem' = sem - 1
  /\ UNCHANGED <<pc, ctxDone, muxOpen, authVars, serverError, errOf, drain, ka, sliVars>>

-----------------------------------------------------------------------------
(* sendKeepAliveMsg: select on ctx.Done() and the ticker. *)

(* A tick: SendRequest, which waits for the client's reply. *)
KeepAliveTick ==
  /\ ka = "select"
  /\ pc # "done"       \* the ticker is stopped when handle() returns
  /\ ka' = "sending"
  /\ UNCHANGED <<pc, ctxDone, muxOpen, authVars, serverError, sess, errOf, sem, drain, sliVars>>

KeepAliveReply ==
  /\ ka = "sending" /\ muxOpen
  /\ ka' = "select"
  /\ UNCHANGED <<pc, ctxDone, muxOpen, authVars, serverError, sess, errOf, sem, drain, sliVars>>

(* The transport is gone: SendRequest fails. *)
KeepAliveFails ==
  /\ ka = "sending" /\ ~muxOpen
  /\ ka' = "off"
  /\ UNCHANGED <<pc, ctxDone, muxOpen, authVars, serverError, sess, errOf, sem, drain, sliVars>>

(* Mutant: the goroutine waits for ticks only. *)
KeepAliveStops_TickOnly ==
  /\ ka = "select" /\ ctxDone /\ muxOpen
  /\ ka' = "off"
  /\ UNCHANGED <<pc, ctxDone, muxOpen, authVars, serverError, sess, errOf, sem, drain, sliVars>>

KeepAliveStops ==
  /\ ka = "select" /\ ctxDone
  /\ ka' = "off"
  /\ UNCHANGED <<pc, ctxDone, muxOpen, authVars, serverError, sess, errOf, sem, drain, sliVars>>

-----------------------------------------------------------------------------
(* The surroundings. *)

(* The client disconnects, or the network fails. *)
ClientLeaves ==
  /\ pc # "handshake" /\ muxOpen
  /\ muxOpen' = FALSE
  /\ UNCHANGED <<pc, ctxDone, authVars, serverError, sess, errOf, sem, drain, ka, sliVars>>

(* The server's grace period is over. *)
TopContextCancelled ==
  /\ ~ctxDone
  /\ ctxDone' = TRUE
  /\ UNCHANGED <<pc, muxOpen, authVars, serverError, sess, errOf, sem, drain, ka, sliVars>>

(* handleConn's deferred cancel(). *)
ConnContextCancelled ==
  /\ pc = "done" /\ ~ctxDone
  /\ ctxDone' = TRUE
  /\ UNCHANGED <<pc, muxOpen, authVars, serverError, sess, errOf, sem, drain, ka, sliVars>>

(* handleConn's watcher closes the socket, which ends the transport. *)
SocketClosed ==
  /\ ctxDone /\ muxOpen /\ pc # "handshake"
  /\ muxOpen' = FALSE
  /\ UNCHANGED <<pc, ctxDone, authVars, serverError, sess, errOf, sem, drain, ka, sliVars>>

(* handle() has returned and nothing is left to run. *)
Quiescent ==
  /\ pc = "done" /\ ctxDone /\ ka = "off" /\ Holding = {}
  /\ UNCHANGED vars

-----------------------------------------------------------------------------
(* The steps handle()'s goroutine takes on its own. *)
HandleStep ==
  \/ \E c \in Channels : AcceptChannel(c) \/ AcceptChannelFails(c)
  \/ LoopEnds \/ DrainAcquired \/ DrainTimeout \/ Wait \/ trackConnection

SessionStep(c) ==
  \/ SessionStarts(c) \/ SessionEnds(c)
  \/ \E err \in SessionErrors : SessionFails(c, err)
  \/ TrackSessionError(c) \/ MarkServerError(c) \/ Release(c)

KeepAliveStep == KeepAliveReply \/ KeepAliveFails \/ KeepAliveStops

Next ==
  \/ \E result \in {"ok", "system", "other"} : AuthAttempt(result)
  \/ HandshakeFails \/ HandshakeSucceeds
  \/ \E c \in Channels : RejectType(c) \/ RejectFull(c) \/ TryAcquire(c) \/ SessionStep(c)
  \/ HandleStep
  \/ KeepAliveTick \/ KeepAliveStep
  \/ ClientLeaves \/ TopContextCancelled \/ ConnContextCancelled \/ SocketClosed
  \/ Quiescent

Spec == Init /\ [][Next]_vars

(* Goroutines that can run are scheduled and timers fire.  Nothing is      *)
(* asked of the client, nor of a session (Gitaly may never answer).        *)
Fairness ==
  /\ WF_vars(HandleStep)
  /\ WF_vars(ctxDone /\ HandshakeFails)   \* the socket is closed under it
  /\ WF_vars(KeepAliveFails \/ KeepAliveStops)
  /\ WF_vars(ConnContextCancelled)
  /\ WF_vars(SocketClosed)

FairSpec == Spec /\ Fairness

-----------------------------------------------------------------------------
(* Properties. *)

SessStates == {"none", "rejected", "acquired", "spawned", "running", "tracking",
               "marking", "releasing", "done"}

(* The connection's state is well typed; no Release takes the semaphore    *)
(* below zero.                                                             *)
TypeOK ==
  /\ pc \in {"handshake", "loop", "accept", "drain", "wait", "track", "done"}
  /\ ctxDone \in BOOLEAN /\ muxOpen \in BOOLEAN
  /\ lastAuth \in {"none", "ok", "system", "other"}
  /\ authAttempted \in BOOLEAN /\ serverError \in BOOLEAN
  /\ sess \in [Channels -> SessStates]
  /\ errOf \in [Channels -> SUBSET SessionErrors]
  /\ sem \in Nat
  /\ drain \in {"none", "acquired", "timeout"}
  /\ ka \in {"off", "select", "sending"}
  /\ sessionsTotal \in Nat /\ sessionsErrors \in Nat
  /\ connsTotal \in Nat /\ connsErrors \in Nat /\ hitMax \in Nat

(* What must not count toward the error SLI, by the comments of            *)
(* trackError and of the error fragments: an answer of the internal API, a *)
(* command that does not exist, a cancelled or unavailable Gitaly, a ref   *)
(* the repository does not have, a client that left.                       *)
ClientSide(err) ==
  \/ err.api = "policy" \/ err.disallowed
  \/ err.code = "Canceled" \/ err.code = "Unavailable"
  \/ err.code = "Internal" /\ err.text \in {"not our ref", "broken pipe"}
  \/ err.text = "copy response EOF"

ServerFault(c) == \E err \in errOf[c] : ~ClientSide(err)

(* The semaphore's weight is what the sessions hold, plus all of it once   *)
(* the final Acquire has succeeded: no unit leaks when Accept fails or a   *)
(* session panics, and never more than MaxSessions sessions run            *)
(* (handleRequests).                                                       *)
SemaphoreExact ==
  /\ sem = Cardinality(Holding) + (IF drain = "acquired" THEN MaxSessions ELSE 0)
  /\ sem <= MaxSessions

(* Unless EOFTimeout or the context cut the wait short, no session is left *)
(* running when handle() goes on to return (handleRequests' Acquire of the *)
(* whole semaphore).                                                       *)
DrainedOnReturn == (drain = "acquired") => (Holding = {})

(* A connection counts as an error for a reason: a session of it ended in  *)
(* a server-side failure, or its last authentication attempt did not       *)
(* succeed.  An authentication that recovers from a transient API failure, *)
(* and sessions that ended in client-side outcomes, leave no error         *)
(* (observeAuth, trackError, trackConnection).                             *)
ConnErrorJustified ==
  (connsErrors > 0) => \/ \E c \in Channels : ServerFault(c)
                       \/ lastAuth # "ok"

(* No server-side failure of a session is missed by the connection's SLI   *)
(* when every session was waited for: trackError runs before the deferred  *)
(* Release, and no later observeAuth clears it.                            *)
NoMissedError ==
  (pc = "done" /\ drain = "acquired" /\ \E c \in Channels : ServerFault(c))
     => connsErrors = 1

(* handle() returns once the transport has ended or the context has been   *)
(* cancelled, whatever its sessions do (the timeout of the final Acquire). *)
HandleReturns == (~muxOpen \/ ctxDone) ~> (pc = "done")

(* The keepalive goroutine does not outlive its connection for ever        *)
(* (sendKeepAliveMsg's select).                                            *)
KeepAliveEnds == (pc = "done") ~> (ka = "off")
=============================================================================

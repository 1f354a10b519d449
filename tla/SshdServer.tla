----------------------------- MODULE SshdServer -----------------------------
(***************************************************************************)
(* The life cycle of the gitlab-sshd process: main (cmd/gitlab-sshd) and   *)
(* the Server of internal/sshd/sshd.go.  Four kinds of goroutine run       *)
(* concurrently: main's, in ListenAndServe; the one gracefulShutdown       *)
(* starts; one handleConn per accepted connection; and one socket watcher  *)
(* per handleConn.  What conn.handle does between its call and its return  *)
(* is module SshdConnection; here it only starts, and returns or panics.   *)
(***************************************************************************)
EXTENDS Naturals, FiniteSets

CONSTANT Conns        \* the TCP connections clients may open

ASSUME ConnsAssumption == IsFiniteSet(Conns)

VARIABLES
  proc,        \* the process: "up", "exited", "killed" (signal) or "crashed"
  status,      \* Server.status
  listener,    \* Server.listener: "nil", "open" or "closed"
  main,        \* where main's goroutine is
  shutter,     \* where gracefulShutdown's goroutine is
  ctxDone,     \* main's top-level context has been cancelled
  conn,        \* per connection, where it or its handleConn is
  nconn,       \* per connection, the server's end of the socket
  wg,          \* Server.wg
  inFlight,    \* the gauge metrics.SshdConnectionsInFlight
  panics       \* panics handleConn added to SliSshdSessionsErrorsTotal

vars == <<proc, status, listener, main, shutter, ctxDone, conn, nconn, wg,
          inFlight, panics>>

connVars == <<conn, nconn, wg, inFlight, panics>>

Statuses == {"StatusStarting", "StatusReady", "StatusOnShutdown", "StatusClosed"}

(* A connection is unknown, queued by the kernel or refused, or accepted;  *)
(* then its goroutine is spawned, handling, and leaves through its         *)
(* deferred calls: cancelled (the context), uncounted (the gauge),         *)
(* returned (wg.Done).                                                     *)
ConnStates == {"none", "queued", "refused", "accepted", "spawned", "handling",
               "cancelled", "uncounted", "returned"}

(* The connections the wait group counts: wg.Add has run, wg.Done has not. *)
Active == {c \in Conns : conn[c] \in {"spawned", "handling", "cancelled", "uncounted"}}

(* The connections Accept has returned and whose handling is not over. *)
Accepted == Active \cup {c \in Conns : conn[c] = "accepted"}

(* The connections the gauge counts. *)
Counted == {c \in Conns : conn[c] \in {"handling", "cancelled"}}

Init ==
  /\ proc = "up"
  /\ status = "StatusStarting"
  /\ listener = "nil"
  /\ main = "listen"
  /\ shutter = "waiting"
  /\ ctxDone = FALSE
  /\ conn = [c \in Conns |-> "none"]
  /\ nconn = [c \in Conns |-> "open"]
  /\ wg = 0
  /\ inFlight = 0
  /\ panics = 0

-----------------------------------------------------------------------------
(* Server.changeStatus, under statusMu. *)
changeStatus(st) == status' = st

(* main's goroutine: ListenAndServe. *)

(* net.Listen, or the proxy policy, fails: main logs and returns. *)
ListenFails ==
  /\ proc = "up" /\ main = "listen"
  /\ proc' = "exited"
  /\ UNCHANGED <<status, listener, main, shutter, ctxDone, connVars>>

(* net.Listen succeeded; the assignment to s.listener comes next.  It is   *)
(* not ordered with Shutdown's reads by any lock.                          *)
Bind ==
  /\ proc = "up" /\ main = "listen"
  /\ main' = "assign"
  /\ UNCHANGED <<proc, status, listener, shutter, ctxDone, connVars>>

AssignListener ==
  /\ proc = "up" /\ main = "assign"
  /\ listener' = "open"
  /\ main' = "serve"
  /\ UNCHANGED <<proc, status, shutter, ctxDone, connVars>>

(* serve's first statement: unconditional. *)
BecomeReady ==
  /\ proc = "up" /\ main = "serve"
  /\ changeStatus("StatusReady")
  /\ main' = "accept"
  /\ UNCHANGED <<proc, listener, shutter, ctxDone, connVars>>

(* Accept returns a connection. *)
Accept(c) ==
  /\ proc = "up" /\ main = "accept" /\ listener = "open"
  /\ conn[c] = "queued"
  /\ conn' = [conn EXCEPT ![c] = "accepted"]
  /\ main' = "spawn"
  /\ UNCHANGED <<proc, status, listener, shutter, ctxDone, nconn, wg, inFlight, panics>>

(* wg.Add(1), then go handleConn: whatever Shutdown did since Accept. *)
Spawn(c) ==
  /\ proc = "up" /\ main = "spawn" /\ conn[c] = "accepted"
  /\ conn' = [conn EXCEPT ![c] = "spawned"]
  /\ wg' = wg + 1
  /\ main' = "accept"
  /\ UNCHANGED <<proc, status, listener, shutter, ctxDone, nconn, inFlight, panics>>

(* Accept fails on an open listener (no file descriptor left, say). *)
AcceptFails ==
  /\ proc = "up" /\ main = "accept" /\ listener = "open"
  /\ main' = "accept_error"
  /\ UNCHANGED <<proc, status, listener, shutter, ctxDone, connVars>>

(* Accept on a closed listener returns an error at once. *)
AcceptClosed ==
  /\ proc = "up" /\ main = "accept" /\ listener = "closed"
  /\ main' = "accept_error"
  /\ UNCHANGED <<proc, status, listener, shutter, ctxDone, connVars>>

(* The loop ends on an accept error iff the server is on shutdown. *)
AfterAcceptError ==
  /\ proc = "up" /\ main = "accept_error"
  /\ main' = IF status = "StatusOnShutdown" THEN "wait" ELSE "accept"
  /\ UNCHANGED <<proc, status, listener, shutter, ctxDone, connVars>>

(* Mutant: serve returns without waiting for the connections. *)
WaitConns_NoWait ==
  /\ proc = "up" /\ main = "wait"
  /\ changeStatus("StatusClosed")
  /\ main' = "closed"
  /\ UNCHANGED <<proc, listener, shutter, ctxDone, connVars>>

(* s.wg.Wait() returns; the status becomes Closed. *)
WaitConns ==
  /\ proc = "up" /\ main = "wait"
  /\ wg = 0
  /\ changeStatus("StatusClosed")
  /\ main' = "closed"
  /\ UNCHANGED <<proc, listener, shutter, ctxDone, connVars>>

(* The deferred listener.Close, then main returns: deferred cancel(), exit. *)
MainReturns ==
  /\ proc = "up" /\ main = "closed"
  /\ listener' = "closed"
  /\ ctxDone' = TRUE
  /\ proc' = "exited"
  /\ UNCHANGED <<status, main, shutter, connVars>>

-----------------------------------------------------------------------------
(* gracefulShutdown's goroutine. *)

(* A first SIGINT or SIGTERM: received from done; signal.Reset. *)
Signal ==
  /\ proc = "up" /\ shutter = "waiting"
  /\ shutter' = "shutdown"
  /\ UNCHANGED <<proc, status, listener, main, ctxDone, connVars>>

(* After signal.Reset a further signal has its default effect. *)
SecondSignal ==
  /\ proc = "up" /\ shutter # "waiting"
  /\ proc' = "killed"
  /\ UNCHANGED <<status, listener, main, shutter, ctxDone, connVars>>

(* Shutdown finds no listener and returns nil: it changes nothing. *)
ShutdownNoListener ==
  /\ proc = "up" /\ shutter = "shutdown"
  /\ listener = "nil"
  /\ shutter' = "grace"
  /\ UNCHANGED <<proc, status, listener, main, ctxDone, connVars>>

(* Shutdown finds a listener.  While main is assigning s.listener the      *)
(* unsynchronised read may already see the interface's first word.         *)
ShutdownStatus ==
  /\ proc = "up" /\ shutter = "shutdown"
  /\ listener # "nil" \/ main = "assign"
  /\ changeStatus("StatusOnShutdown")
  /\ shutter' = "close"
  /\ UNCHANGED <<proc, listener, main, ctxDone, connVars>>

(* Mutant: Shutdown only changes the status. *)
ShutdownClose_Omitted ==
  /\ proc = "up" /\ shutter = "close"
  /\ shutter' = "grace"
  /\ UNCHANGED <<proc, status, listener, main, ctxDone, connVars>>

(* Mutant: the context is cancelled before the grace period. *)
ShutdownClose_CancelsAtOnce ==
  /\ proc = "up" /\ shutter = "close"
  /\ shutter' = "grace"
  /\ listener' = "closed"
  /\ ctxDone' = TRUE
  /\ UNCHANGED <<proc, status, main, connVars>>

(* listener.Close(): the kernel refuses what it had queued.  On a listener *)
(* whose data word is not there yet Close returns EINVAL, or panics if it  *)
(* is the PROXY protocol's.                                                *)
ShutdownClose ==
  /\ proc = "up" /\ shutter = "close"
  /\ proc' \in {"up"} \cup (IF listener = "nil" THEN {"crashed"} ELSE {})
  /\ shutter' = "grace"
  /\ listener' = IF listener = "nil" THEN "nil" ELSE "closed"
  /\ conn' = [c \in Conns |-> IF listener # "nil" /\ conn[c] = "queued"
                                THEN "refused" ELSE conn[c]]
  /\ UNCHANGED <<status, main, ctxDone, nconn, wg, inFlight, panics>>

(* Mutant: the goroutine ends without calling cancel(). *)
GraceExpires_NoCancel ==
  /\ proc = "up" /\ shutter = "grace"
  /\ shutter' = "cancelled"
  /\ UNCHANGED <<proc, status, listener, main, ctxDone, connVars>>

(* The grace period is over: cancel(). *)
GraceExpires ==
  /\ proc = "up" /\ shutter = "grace"
  /\ ctxDone' = TRUE
  /\ shutter' = "cancelled"
  /\ UNCHANGED <<proc, status, listener, main, connVars>>

-----------------------------------------------------------------------------
(* The clients and the monitoring endpoint. *)

(* A client connects: the kernel queues it from net.Listen on. *)
ClientConnects(c) ==
  /\ proc = "up" /\ conn[c] = "none"
  /\ listener = "open" \/ main = "assign"
  /\ conn' = [conn EXCEPT ![c] = "queued"]
  /\ UNCHANGED <<proc, status, listener, main, shutter, ctxDone, nconn, wg, inFlight, panics>>

(* monitoring.Start returned: startupMonitoringEndpoint panics. *)
MonitoringPanics ==
  /\ proc = "up"
  /\ proc' = "crashed"
  /\ UNCHANGED <<status, listener, main, shutter, ctxDone, connVars>>

-----------------------------------------------------------------------------
(* handleConn and its watcher. *)

(* The goroutine starts: the gauge goes up, the watcher starts, handle()   *)
(* is called.                                                              *)
HandleConnStarts(c) ==
  /\ proc = "up" /\ conn[c] = "spawned"
  /\ conn' = [conn EXCEPT ![c] = "handling"]
  /\ inFlight' = inFlight + 1
  /\ UNCHANGED <<proc, status, listener, main, shutter, ctxDone, nconn, wg, panics>>

(* conn.handle returns; the deferred cancel() of the connection's context. *)
HandleReturns(c) ==
  /\ proc = "up" /\ conn[c] = "handling"
  /\ conn' = [conn EXCEPT ![c] = "cancelled"]
  /\ UNCHANGED <<proc, status, listener, main, shutter, ctxDone, nconn, wg, inFlight, panics>>

(* conn.handle panics: recovered and counted, then the same deferred calls. *)
HandlePanics(c) ==
  /\ proc = "up" /\ conn[c] = "handling"
  /\ conn' = [conn EXCEPT ![c] = "cancelled"]
  /\ panics' = panics + 1
  /\ UNCHANGED <<proc, status, listener, main, shutter, ctxDone, nconn, wg, inFlight>>

DecInFlight(c) ==
  /\ proc = "up" /\ conn[c] = "cancelled"
  /\ conn' = [conn EXCEPT ![c] = "uncounted"]
  /\ inFlight' = inFlight - 1
  /\ UNCHANGED <<proc, status, listener, main, shutter, ctxDone, nconn, wg, panics>>

WgDone(c) ==
  /\ proc = "up" /\ conn[c] = "uncounted"
  /\ conn' = [conn EXCEPT ![c] = "returned"]
  /\ wg' = wg - 1
  /\ UNCHANGED <<proc, status, listener, main, shutter, ctxDone, nconn, inFlight, panics>>

(* Mutant: the connection's context is not derived with a cancel of its own. *)
ConnCtxDone_TopOnly(c) == ctxDone

(* The connection's context: a child of main's, cancelled when handleConn  *)
(* leaves.                                                                 *)
ConnCtxDone(c) == ctxDone \/ conn[c] \in {"cancelled", "uncounted", "returned"}

(* The watcher: <-ctx.Done(), then nconn.Close(). *)
CloseNconn(c) ==
  /\ proc = "up"
  /\ conn[c] \in {"handling", "cancelled", "uncounted", "returned"}
  /\ ConnCtxDone(c)
  /\ nconn[c] = "open"
  /\ nconn' = [nconn EXCEPT ![c] = "closed"]
  /\ UNCHANGED <<proc, status, listener, main, shutter, ctxDone, conn, wg, inFlight, panics>>

-----------------------------------------------------------------------------
MainStep ==
  \/ ListenFails \/ Bind \/ AssignListener \/ BecomeReady
  \/ \E c \in Conns : Accept(c) \/ Spawn(c)
  \/ AcceptClosed \/ AfterAcceptError \/ WaitConns \/ MainReturns

ShutterStep ==
  \/ ShutdownNoListener \/ ShutdownStatus \/ ShutdownClose \/ GraceExpires

(* handleConn's own steps; whether and when handle() returns is not here. *)
ConnStep(c) ==
  \/ HandleConnStarts(c) \/ DecInFlight(c) \/ WgDone(c) \/ CloseNconn(c)

(* The process is over. *)
Terminated == proc # "up" /\ UNCHANGED vars

Next ==
  \/ MainStep
  \/ ShutterStep
  \/ AcceptFails
  \/ Signal \/ SecondSignal \/ MonitoringPanics
  \/ \E c \in Conns : \/ ClientConnects(c)
                      \/ ConnStep(c)
                      \/ HandleReturns(c)
                      \/ HandlePanics(c)
  \/ Terminated

Spec == Init /\ [][Next]_vars

(* Every goroutine that can run is scheduled.  handle() may serve a client *)
(* for ever, and is owed a return only once its socket has been closed     *)
(* (SshdConnection, HandleReturns).                                        *)
Fairness ==
  /\ WF_vars(MainStep)
  /\ WF_vars(ShutterStep)
  /\ \A c \in Conns : /\ WF_vars(HandleConnStarts(c))
                      /\ WF_vars(DecInFlight(c))
                      /\ WF_vars(WgDone(c))
                      /\ WF_vars(CloseNconn(c))
                      /\ WF_vars(nconn[c] = "closed" /\ HandleReturns(c))

FairSpec == Spec /\ Fairness

-----------------------------------------------------------------------------
(* Properties. *)

(* The server's state is well typed; neither the wait group nor the gauge  *)
(* goes negative.                                                          *)
TypeOK ==
  /\ proc \in {"up", "exited", "killed", "crashed"}
  /\ status \in Statuses
  /\ listener \in {"nil", "open", "closed"}
  /\ main \in {"listen", "assign", "serve", "accept", "spawn", "accept_error", "wait", "closed"}
  /\ shutter \in {"waiting", "shutdown", "close", "grace", "cancelled"}
  /\ ctxDone \in BOOLEAN
  /\ conn \in [Conns -> ConnStates]
  /\ nconn \in [Conns -> {"open", "closed"}]
  /\ wg \in Nat
  /\ inFlight \in Nat
  /\ panics \in Nat

(* The status is Closed, and the process exits of its own accord, only     *)
(* when every accepted connection has run its deferred calls to the last:  *)
(* no handleConn is left and the in-flight gauge is back to zero (serve's  *)
(* wg.Wait, and wg.Add before the go statement).                           *)
ClosedMeansDrained ==
  (status = "StatusClosed") => /\ Accepted = {}
                               /\ inFlight = 0

(* Once Shutdown has returned with the server on shutdown no connection    *)
(* is accepted any more (Shutdown's listener.Close).                       *)
ShutdownStopsAccepting ==
  [][(shutter \in {"grace", "cancelled"} /\ status = "StatusOnShutdown")
        => Accepted' \subseteq Accepted]_vars

(* Until the grace period is over the server closes the socket of no       *)
(* connection whose handle() has not returned (gracefulShutdown, and the   *)
(* watcher in handleConn).                                                 *)
GraceRespected ==
  \A c \in Conns : nconn[c] = "closed" /\ conn[c] = "handling"
                     => shutter = "cancelled"

(* A server told to shut down while it serves stops: the accept loop ends, *)
(* connections that outlive the grace period are cut off, and the process  *)
(* ends.                                                                   *)
ServingShutdownEnds ==
  (status = "StatusOnShutdown" /\ main # "serve" /\ main # "assign") ~> (proc # "up")

(* No socket leaks: the watcher closes the socket of every connection      *)
(* whose handleConn has returned.                                          *)
SocketsClosed ==
  \A c \in Conns : (conn[c] = "returned") ~> (nconn[c] = "closed" \/ proc # "up")

(* internal/sshd/README.md, "State machine": a termination signal shuts    *)
(* the service down, and once the grace period is over every connection    *)
(* is closed - whenever the signal arrives.                                *)
SignalEndsProcess == (shutter = "shutdown") ~> (proc # "up")
=============================================================================

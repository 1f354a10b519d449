-------------------------- MODULE SshdServerProofs --------------------------
(***************************************************************************)
(* SshdServer's safety properties, for any finite set of connections.      *)
(***************************************************************************)
EXTENDS SshdServer, FiniteSetTheorems, TLAPS

(* The two counters are the number of goroutines they count. *)
CountersExact ==
  /\ wg = Cardinality(Active)
  /\ inFlight = Cardinality(Counted)

(* Where the status may be Closed, and that no goroutine is left there. *)
ClosedInv ==
  /\ status = "StatusClosed" => main = "closed"
  /\ main = "closed" => wg = 0

(* A connection between Accept and its goroutine is the one serve holds. *)
HeldInv ==
  /\ \A c \in Conns : conn[c] = "accepted" => main = "spawn"
  /\ \A c, d \in Conns : conn[c] = "accepted" /\ conn[d] = "accepted" => c = d

(* What Shutdown has left behind once it returned. *)
ListenerInv ==
  /\ main \notin {"listen", "assign"} => listener # "nil"
  /\ (/\ shutter \in {"grace", "cancelled"}
      /\ status = "StatusOnShutdown"
      /\ main \notin {"listen", "assign", "serve"}) => listener = "closed"

(* Who can have closed a socket. *)
SocketInv ==
  /\ ctxDone /\ proc = "up" => shutter = "cancelled"
  /\ \A c \in Conns : conn[c] \in {"none", "queued", "refused", "accepted", "spawned"}
                        => nconn[c] = "open"
  /\ GraceRespected

IInv == TypeOK /\ CountersExact /\ ClosedInv /\ HeldInv /\ ListenerInv /\ SocketInv

-----------------------------------------------------------------------------
(* Active and Counted are finite. *)
LEMMA ActiveFinite == /\ IsFiniteSet(Active) /\ Cardinality(Active) \in Nat
                      /\ IsFiniteSet(Counted) /\ Cardinality(Counted) \in Nat
  <1>1. Active \subseteq Conns /\ Counted \subseteq Conns
    BY DEF Active, Counted
  <1> QED
    BY <1>1, ConnsAssumption, FS_Subset, FS_CardinalityType

(* A connection that enters a finite set adds one to its size; one that    *)
(* leaves takes one away.                                                  *)
LEMMA CardinalityStep ==
  ASSUME NEW S, NEW T, NEW c, IsFiniteSet(S)
  PROVE  /\ (c \notin S /\ T = S \cup {c}) => Cardinality(T) = Cardinality(S) + 1
         /\ (c \in S /\ T = S \ {c}) => Cardinality(T) = Cardinality(S) - 1
  BY FS_AddElement, FS_RemoveElement

(* The type invariant is inductive given that the counters are exact, which *)
(* keeps wg.Done and the gauge's Dec from going below zero.                 *)
LEMMA TypeStep == TypeOK /\ CountersExact /\ [Next]_vars => TypeOK'
  <1> SUFFICES ASSUME TypeOK, CountersExact, [Next]_vars PROVE TypeOK'
    OBVIOUS
  <1> USE DEF TypeOK, Statuses, ConnStates, changeStatus, connVars
  <1>1. CASE MainStep
    <2>1. ASSUME NEW c \in Conns, Accept(c) \/ Spawn(c) PROVE TypeOK'
      BY <2>1 DEF Accept, Spawn
    <2>2. CASE ListenFails \/ Bind \/ AssignListener \/ BecomeReady
      BY <2>2 DEF ListenFails, Bind, AssignListener, BecomeReady
    <2>3. CASE AcceptClosed \/ AfterAcceptError \/ WaitConns \/ MainReturns
      BY <2>3 DEF AcceptClosed, AfterAcceptError, WaitConns, MainReturns
    <2> QED BY <1>1, <2>1, <2>2, <2>3 DEF MainStep
  <1>2. CASE ShutterStep
    <2>1. CASE ShutdownClose
      BY <2>1 DEF ShutdownClose
    <2>2. CASE ShutdownNoListener \/ ShutdownStatus \/ GraceExpires
      BY <2>2 DEF ShutdownNoListener, ShutdownStatus, GraceExpires
    <2> QED BY <1>2, <2>1, <2>2 DEF ShutterStep
  <1>3. CASE AcceptFails \/ Signal \/ SecondSignal \/ MonitoringPanics
    BY <1>3 DEF AcceptFails, Signal, SecondSignal, MonitoringPanics
  <1>4. ASSUME NEW c \in Conns, ClientConnects(c) \/ HandleConnStarts(c)
                                 \/ HandleReturns(c) \/ HandlePanics(c) \/ CloseNconn(c)
        PROVE TypeOK'
    BY <1>4 DEF ClientConnects, HandleConnStarts, HandleReturns, HandlePanics, CloseNconn
  <1>5. ASSUME NEW c \in Conns, DecInFlight(c) PROVE TypeOK'
    <2>1. c \in Counted
      BY <1>5 DEF DecInFlight, Counted
    <2>2. Cardinality(Counted) # 0
      BY <2>1, ActiveFinite, FS_EmptySet
    <2>3. inFlight - 1 \in Nat
      BY <2>2, ActiveFinite DEF CountersExact
    <2> QED BY <1>5, <2>3 DEF DecInFlight
  <1>6. ASSUME NEW c \in Conns, WgDone(c) PROVE TypeOK'
    <2>1. c \in Active
      BY <1>6 DEF WgDone, Active
    <2>2. Cardinality(Active) # 0
      BY <2>1, ActiveFinite, FS_EmptySet
    <2>3. wg - 1 \in Nat
      BY <2>2, ActiveFinite DEF CountersExact
    <2> QED BY <1>6, <2>3 DEF WgDone
  <1>7. CASE UNCHANGED vars
    BY <1>7 DEF vars
  <1> QED
    BY <1>1, <1>2, <1>3, <1>4, <1>5, <1>6, <1>7 DEF Next, ConnStep, Terminated

(* wg.Add and wg.Done, the gauge's Inc and Dec, keep the counters exact. *)
LEMMA CountersStep == TypeOK /\ CountersExact /\ [Next]_vars => CountersExact'
  <1> SUFFICES ASSUME TypeOK, CountersExact, [Next]_vars PROVE CountersExact'
    OBVIOUS
  <1>1. ASSUME UNCHANGED <<conn, wg, inFlight>> PROVE CountersExact'
    BY <1>1 DEF CountersExact, Active, Counted
  <1>2. ASSUME NEW c \in Conns, Spawn(c) PROVE CountersExact'
    <2>1. conn' = [conn EXCEPT ![c] = "spawned"] /\ wg' = wg + 1 /\ inFlight' = inFlight
      BY <1>2 DEF Spawn
    <2>2. c \notin Active /\ c \notin Counted
      BY <1>2 DEF Spawn, Active, Counted
    <2>3. Active' = Active \cup {c} /\ Counted' = Counted
      BY <2>1, <2>2 DEF TypeOK, Active, Counted
    <2> QED
      BY <2>1, <2>2, <2>3, ActiveFinite, CardinalityStep DEF CountersExact
  <1>3. ASSUME NEW c \in Conns, HandleConnStarts(c) PROVE CountersExact'
    <2>1. conn' = [conn EXCEPT ![c] = "handling"] /\ wg' = wg /\ inFlight' = inFlight + 1
      BY <1>3 DEF HandleConnStarts
    <2>2. c \in Active /\ c \notin Counted
      BY <1>3 DEF HandleConnStarts, Active, Counted
    <2>3. Active' = Active /\ Counted' = Counted \cup {c}
      BY <2>1, <2>2 DEF TypeOK, Active, Counted
    <2> QED
      BY <2>1, <2>2, <2>3, ActiveFinite, CardinalityStep DEF CountersExact
  <1>4. ASSUME NEW c \in Conns, DecInFlight(c) PROVE CountersExact'
    <2>1. conn' = [conn EXCEPT ![c] = "uncounted"] /\ wg' = wg /\ inFlight' = inFlight - 1
      BY <1>4 DEF DecInFlight
    <2>2. c \in Active /\ c \in Counted
      BY <1>4 DEF DecInFlight, Active, Counted
    <2>3. Active' = Active /\ Counted' = Counted \ {c}
      BY <2>1, <2>2 DEF TypeOK, Active, Counted
    <2> QED
      BY <2>1, <2>2, <2>3, ActiveFinite, CardinalityStep DEF CountersExact
  <1>5. ASSUME NEW c \in Conns, WgDone(c) PROVE CountersExact'
    <2>1. conn' = [conn EXCEPT ![c] = "returned"] /\ wg' = wg - 1 /\ inFlight' = inFlight
      BY <1>5 DEF WgDone
    <2>2. c \in Active /\ c \notin Counted
      BY <1>5 DEF WgDone, Active, Counted
    <2>3. Active' = Active \ {c} /\ Counted' = Counted
      BY <2>1, <2>2 DEF TypeOK, Active, Counted
    <2> QED
      BY <2>1, <2>2, <2>3, ActiveFinite, CardinalityStep DEF CountersExact
  <1>6. ASSUME NEW c \in Conns, HandleReturns(c) \/ HandlePanics(c) PROVE CountersExact'
    <2>1. conn' = [conn EXCEPT ![c] = "cancelled"] /\ UNCHANGED <<wg, inFlight>>
      BY <1>6 DEF HandleReturns, HandlePanics
    <2>2. c \in Active /\ c \in Counted
      BY <1>6 DEF HandleReturns, HandlePanics, Active, Counted
    <2>3. Active' = Active /\ Counted' = Counted
      BY <2>1, <2>2 DEF TypeOK, Active, Counted
    <2> QED BY <2>1, <2>3 DEF CountersExact
  <1>7. ASSUME NEW c \in Conns, ClientConnects(c) \/ Accept(c) PROVE CountersExact'
    <2>1. /\ conn' \in {[conn EXCEPT ![c] = "queued"], [conn EXCEPT ![c] = "accepted"]}
          /\ UNCHANGED <<wg, inFlight>>
      BY <1>7 DEF ClientConnects, Accept
    <2>2. c \notin Active /\ c \notin Counted
      BY <1>7 DEF ClientConnects, Accept, Active, Counted
    <2>3. Active' = Active /\ Counted' = Counted
      BY <2>1, <2>2 DEF TypeOK, Active, Counted
    <2> QED BY <2>1, <2>3 DEF CountersExact
  <1>8. CASE ShutdownClose
    <2>1. Active' = Active /\ Counted' = Counted
      BY <1>8 DEF ShutdownClose, Active, Counted, TypeOK
    <2> QED BY <1>8, <2>1 DEF ShutdownClose, CountersExact
  <1>9. ASSUME NEW c \in Conns, CloseNconn(c) PROVE CountersExact'
    BY <1>1, <1>9 DEF CloseNconn
  <1> QED
    BY <1>1, <1>2, <1>3, <1>4, <1>5, <1>6, <1>7, <1>8, <1>9
    DEF Next, ConnStep, Terminated, MainStep, ShutterStep, vars, connVars,
        ListenFails, Bind, AssignListener, BecomeReady, AcceptFails, AcceptClosed,
        AfterAcceptError, WaitConns, MainReturns, Signal, SecondSignal,
        ShutdownNoListener, ShutdownStatus, GraceExpires, MonitoringPanics

(* Only serve's last statement sets Closed, after wg.Wait; nothing is      *)
(* accepted after that.                                                    *)
LEMMA ClosedStep == IInv /\ [Next]_vars => ClosedInv'
  <1> SUFFICES ASSUME IInv, [Next]_vars PROVE ClosedInv'
    OBVIOUS
  <1> USE DEF IInv, ClosedInv
  <1>1. CASE UNCHANGED <<status, main, wg>>
    BY <1>1
  <1>2. CASE MainStep
    BY <1>2 DEF MainStep, ListenFails, Bind, AssignListener, BecomeReady, Accept, Spawn,
       AcceptClosed, AfterAcceptError, WaitConns, MainReturns, changeStatus, connVars
  <1>3. CASE ShutdownStatus \/ AcceptFails
    BY <1>3 DEF ShutdownStatus, AcceptFails, changeStatus, connVars
  <1>4. ASSUME NEW c \in Conns, WgDone(c) PROVE ClosedInv'
    <2>1. c \in Active
      BY <1>4 DEF WgDone, Active
    <2>2. wg # 0
      BY <2>1, ActiveFinite, FS_EmptySet DEF CountersExact
    <2> QED BY <1>4, <2>2 DEF WgDone
  <1> QED
    BY <1>1, <1>2, <1>3, <1>4
    DEF Next, ConnStep, Terminated, ShutterStep, vars, connVars, Signal, SecondSignal,
        ShutdownNoListener, ShutdownClose, GraceExpires, MonitoringPanics,
        ClientConnects, HandleConnStarts, HandleReturns, HandlePanics, DecInFlight, CloseNconn

(* serve holds one accepted connection at a time, until it starts its      *)
(* goroutine.                                                              *)
LEMMA HeldStep == IInv /\ [Next]_vars => HeldInv'
  <1> SUFFICES ASSUME IInv, [Next]_vars PROVE HeldInv'
    OBVIOUS
  <1> USE DEF IInv, HeldInv, TypeOK
  <1>1. CASE UNCHANGED <<main, conn>>
    BY <1>1
  <1>2. CASE MainStep
    <2>1. ASSUME NEW c \in Conns, Accept(c) \/ Spawn(c) PROVE HeldInv'
      BY <2>1 DEF Accept, Spawn
    <2> QED
      BY <1>2, <2>1 DEF MainStep, ListenFails, Bind, AssignListener, BecomeReady,
         AcceptClosed, AfterAcceptError, WaitConns, MainReturns, connVars
  <1>3. CASE ShutdownClose \/ AcceptFails
    BY <1>3 DEF ShutdownClose, AcceptFails, connVars
  <1>4. ASSUME NEW c \in Conns, ClientConnects(c) \/ HandleConnStarts(c)
                                 \/ HandleReturns(c) \/ HandlePanics(c)
                                 \/ DecInFlight(c) \/ WgDone(c)
        PROVE HeldInv'
    BY <1>4 DEF ClientConnects, HandleConnStarts, HandleReturns, HandlePanics,
       DecInFlight, WgDone
  <1> QED
    BY <1>1, <1>2, <1>3, <1>4
    DEF Next, ConnStep, Terminated, ShutterStep, vars, connVars, Signal, SecondSignal,
        ShutdownNoListener, ShutdownStatus, GraceExpires, MonitoringPanics, CloseNconn

(* Shutdown leaves a closed listener unless it ran before serve. *)
LEMMA ListenerStep == IInv /\ [Next]_vars => ListenerInv'
  <1> SUFFICES ASSUME IInv, [Next]_vars PROVE ListenerInv'
    OBVIOUS
  <1> USE DEF IInv, ListenerInv, TypeOK
  <1>1. CASE UNCHANGED <<status, main, listener, shutter>>
    BY <1>1
  <1>2. CASE MainStep
    BY <1>2 DEF MainStep, ListenFails, Bind, AssignListener, BecomeReady, Accept, Spawn,
       AcceptClosed, AfterAcceptError, WaitConns, MainReturns, changeStatus
  <1>3. CASE ShutterStep
    BY <1>3 DEF ShutterStep, ShutdownNoListener, ShutdownStatus, ShutdownClose,
       GraceExpires, changeStatus
  <1>4. CASE AcceptFails \/ Signal
    BY <1>4 DEF AcceptFails, Signal
  <1> QED
    BY <1>1, <1>2, <1>3, <1>4
    DEF Next, ConnStep, Terminated, vars, SecondSignal, MonitoringPanics,
        ClientConnects, HandleConnStarts, HandleReturns, HandlePanics, DecInFlight,
        WgDone, CloseNconn

(* A socket is closed because its handler has left or the grace period has *)
(* expired.                                                                *)
LEMMA SocketStep == IInv /\ [Next]_vars => SocketInv'
  <1> SUFFICES ASSUME IInv, [Next]_vars PROVE SocketInv'
    OBVIOUS
  <1> USE DEF IInv, SocketInv, GraceRespected, TypeOK
  <1>1. CASE UNCHANGED <<proc, shutter, ctxDone, conn, nconn>>
    BY <1>1
  <1>2. CASE MainStep
    BY <1>2 DEF MainStep, ListenFails, Bind, AssignListener, BecomeReady, Accept, Spawn,
       AcceptClosed, AfterAcceptError, WaitConns, MainReturns, connVars
  <1>3. CASE ShutterStep
    BY <1>3 DEF ShutterStep, ShutdownNoListener, ShutdownStatus, ShutdownClose,
       GraceExpires, connVars
  <1>4. CASE AcceptFails \/ Signal \/ SecondSignal \/ MonitoringPanics
    BY <1>4 DEF AcceptFails, Signal, SecondSignal, MonitoringPanics, connVars
  <1>5. ASSUME NEW c \in Conns, ClientConnects(c) \/ HandleConnStarts(c)
                                 \/ HandleReturns(c) \/ HandlePanics(c)
                                 \/ DecInFlight(c) \/ WgDone(c)
        PROVE SocketInv'
    BY <1>5 DEF ClientConnects, HandleConnStarts, HandleReturns, HandlePanics,
       DecInFlight, WgDone
  <1>6. ASSUME NEW c \in Conns, CloseNconn(c) PROVE SocketInv'
    BY <1>6 DEF CloseNconn, ConnCtxDone
  <1> QED
    BY <1>1, <1>2, <1>3, <1>4, <1>5, <1>6 DEF Next, ConnStep, Terminated, vars

-----------------------------------------------------------------------------
(* The inductive invariant holds of every behaviour. *)
THEOREM Invariance == Spec => []IInv
  <1>1. Init => IInv
    <2> SUFFICES ASSUME Init PROVE IInv
      OBVIOUS
    <2>1. TypeOK
      BY DEF Init, TypeOK, Statuses, ConnStates
    <2>2. Active = {} /\ Counted = {}
      BY DEF Init, Active, Counted
    <2>3. CountersExact
      BY <2>2, FS_EmptySet DEF Init, CountersExact
    <2> QED
      BY <2>1, <2>3 DEF Init, IInv, ClosedInv, HeldInv, ListenerInv, SocketInv, GraceRespected
  <1>2. IInv /\ [Next]_vars => IInv'
    BY TypeStep, CountersStep, ClosedStep, HeldStep, ListenerStep, SocketStep DEF IInv
  <1> QED
    BY <1>1, <1>2, PTL DEF Spec

(* sshd.go's state stays well typed: in particular neither the wait group  *)
(* nor the gauge goes negative.                                            *)
THEOREM TypeCorrect == Spec => []TypeOK
  BY Invariance, PTL DEF IInv

(* serve reports Closed only when every handleConn has returned. *)
THEOREM Drained == Spec => []ClosedMeansDrained
  <1>1. IInv => ClosedMeansDrained
    <2> SUFFICES ASSUME IInv, status = "StatusClosed" PROVE Accepted = {} /\ inFlight = 0
      BY DEF ClosedMeansDrained
    <2>1. Cardinality(Active) = 0
      BY DEF IInv, ClosedInv, CountersExact
    <2>2. Active = {}
      BY <2>1, ActiveFinite, FS_EmptySet
    <2>3. Counted = {}
      BY <2>2 DEF Active, Counted
    <2> QED
      BY <2>2, <2>3, FS_EmptySet DEF IInv, CountersExact, ClosedInv, HeldInv, Accepted
  <1> QED
    BY <1>1, Invariance, PTL

(* The server closes no socket of a running handler before the grace       *)
(* period that gracefulShutdown grants is over.                            *)
THEOREM Grace == Spec => []GraceRespected
  BY Invariance, PTL DEF IInv, SocketInv

(* After Shutdown has returned on a serving server nothing is accepted. *)
THEOREM StopsAccepting == Spec => ShutdownStopsAccepting
  <1> DEFINE Quiet == (shutter \in {"grace", "cancelled"} /\ status = "StatusOnShutdown")
                         => Accepted' \subseteq Accepted
  <1>1. IInv /\ [Next]_vars => [Quiet]_vars
    <2> SUFFICES ASSUME IInv, Next, shutter \in {"grace", "cancelled"},
                        status = "StatusOnShutdown"
                 PROVE  Accepted' \subseteq Accepted
      OBVIOUS
    <2>1. CASE UNCHANGED conn
      BY <2>1 DEF Active, Accepted
    <2>2. ASSUME NEW c \in Conns, Accept(c) PROVE FALSE
      BY <2>2 DEF Accept, IInv, ListenerInv
    <2>3. CASE ShutdownClose
      BY <2>3 DEF ShutdownClose
    <2>4. ASSUME NEW c \in Conns, ClientConnects(c) \/ Spawn(c) \/ HandleConnStarts(c)
                                   \/ HandleReturns(c) \/ HandlePanics(c)
                                   \/ DecInFlight(c) \/ WgDone(c)
          PROVE  Accepted' \subseteq Accepted
      BY <2>4 DEF ClientConnects, Spawn, HandleConnStarts, HandleReturns, HandlePanics,
         DecInFlight, WgDone, Active, Accepted, IInv, TypeOK
    <2> QED
      BY <2>1, <2>2, <2>3, <2>4
      DEF Next, ConnStep, Terminated, MainStep, ShutterStep, vars, connVars,
          ListenFails, Bind, AssignListener, BecomeReady, AcceptFails, AcceptClosed,
          AfterAcceptError, WaitConns, MainReturns, Signal, SecondSignal,
          ShutdownNoListener, ShutdownStatus, GraceExpires, MonitoringPanics, CloseNconn
  <1> QED
    BY <1>1, Invariance, PTL DEF Spec, ShutdownStopsAccepting
=============================================================================

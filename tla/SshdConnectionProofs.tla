------------------------ MODULE SshdConnectionProofs ------------------------
(***************************************************************************)
(* SshdConnection's safety properties, for any finite set of channels, any *)
(* limit of concurrent sessions and any session errors.                    *)
(***************************************************************************)
EXTENDS SshdConnection, FiniteSetTheorems, TLAPS

(* Which phase of handle() goes with which state of the channels. *)
PhaseInv ==
  /\ (pc = "handshake" \/ (pc \in {"track", "done"} /\ drain = "none"))
       => \A c \in Channels : sess[c] = "none"
  /\ pc \in {"handshake", "loop", "accept", "drain"} => drain = "none"
  /\ pc = "wait" => drain # "none"

(* A handle() that is past the handshake has been authenticated. *)
AuthInv ==
  /\ lastAuth = "ok" => authAttempted
  /\ pc \in {"loop", "accept", "drain", "wait"} \/ drain # "none" => lastAuth = "ok"

(* Where the errors of sessions are, and when the connection knows them. *)
FaultInv ==
  /\ \A c \in Channels : errOf[c] # {} => sess[c] \in {"tracking", "marking", "releasing", "done"}
  /\ \A c \in Channels : sess[c] \in {"tracking", "marking"} => ServerFault(c)
  /\ \A c \in Channels : ServerFault(c) /\ sess[c] \notin {"tracking", "marking"}
                           => serverError
  /\ serverError => (\E c \in Channels : ServerFault(c)) \/ lastAuth # "ok"

(* The connection's counters before and after trackConnection. *)
SliInv ==
  /\ pc # "done" => connsTotal = 0 /\ connsErrors = 0
  /\ ConnErrorJustified
  /\ NoMissedError

IInv == TypeOK /\ SemaphoreExact /\ PhaseInv /\ AuthInv /\ FaultInv /\ SliInv

-----------------------------------------------------------------------------
(* trackError's early returns are exactly the client-side outcomes. *)
LEMMA ExcludedIsClientSide ==
  ASSUME NEW err \in SessionErrors PROVE Excluded(err) <=> ClientSide(err)
  BY DEF Excluded, ClientSide, isClientDisconnect

(* The sessions that hold a unit are finitely many. *)
LEMMA HoldingFinite == IsFiniteSet(Holding) /\ Cardinality(Holding) \in Nat
  <1>1. Holding \subseteq Channels
    BY DEF Holding
  <1> QED
    BY <1>1, ConnectionAssumption, FS_Subset, FS_CardinalityType

(* A channel that enters or leaves a finite set changes its size by one. *)
LEMMA CardinalityStep ==
  ASSUME NEW S, NEW T, NEW c, IsFiniteSet(S)
  PROVE  /\ (c \notin S /\ T = S \cup {c}) => Cardinality(T) = Cardinality(S) + 1
         /\ (c \in S /\ T = S \ {c}) => Cardinality(T) = Cardinality(S) - 1
  BY FS_AddElement, FS_RemoveElement

(* A held unit is counted in the semaphore. *)
LEMMA HeldUnit ==
  ASSUME TypeOK, SemaphoreExact, NEW c \in Channels, c \in Holding
  PROVE  sem - 1 \in Nat
  <1>1. Cardinality(Holding) # 0
    BY HoldingFinite, FS_EmptySet
  <1>2. Cardinality(Holding) \in Nat /\ MaxSessions \in Nat
    BY HoldingFinite, ConnectionAssumption
  <1> QED
    BY <1>1, <1>2 DEF SemaphoreExact, TypeOK

(* Once the whole semaphore has been acquired nobody holds a unit. *)
LEMMA AcquiredAll ==
  ASSUME SemaphoreExact, drain = "acquired" PROVE Holding = {}
  <1>1. Cardinality(Holding) \in Nat /\ MaxSessions \in Nat
    BY HoldingFinite, ConnectionAssumption
  <1>2. Cardinality(Holding) = 0
    BY <1>1 DEF SemaphoreExact
  <1> QED
    BY <1>2, HoldingFinite, FS_EmptySet

-----------------------------------------------------------------------------
(* Types, given that a release gives back a unit that is held. *)
LEMMA TypeStep == TypeOK /\ SemaphoreExact /\ [Next]_vars => TypeOK'
  <1> SUFFICES ASSUME TypeOK, SemaphoreExact, [Next]_vars PROVE TypeOK'
    OBVIOUS
  <1> USE DEF TypeOK, SessStates, authVars, sliVars
  <1>1. ASSUME NEW result \in {"ok", "system", "other"}, AuthAttempt(result) PROVE TypeOK'
    BY <1>1 DEF AuthAttempt, observeAuth
  <1>2. CASE HandshakeFails \/ HandshakeSucceeds \/ LoopEnds \/ DrainTimeout \/ Wait
    <2>1. CASE HandshakeFails \/ LoopEnds \/ Wait
      BY <2>1 DEF HandshakeFails, LoopEnds, Wait
    <2>2. CASE HandshakeSucceeds
      BY <2>2 DEF HandshakeSucceeds
    <2>3. CASE DrainTimeout
      BY <2>3 DEF DrainTimeout
    <2> QED BY <1>2, <2>1, <2>2, <2>3
  <1>3. CASE DrainAcquired
    <2>1. MaxSessions \in Nat
      BY ConnectionAssumption
    <2> QED BY <1>3, <2>1 DEF DrainAcquired
  <1>10. CASE trackConnection
    BY <1>10 DEF trackConnection
  <1>4. ASSUME NEW c \in Channels, RejectType(c) \/ RejectFull(c) \/ TryAcquire(c)
                                     \/ AcceptChannel(c)
        PROVE TypeOK'
    <2>1. CASE RejectType(c) \/ AcceptChannel(c)
      BY <2>1 DEF RejectType, AcceptChannel
    <2>2. CASE RejectFull(c)
      BY <2>2 DEF RejectFull
    <2>3. CASE TryAcquire(c)
      BY <2>3 DEF TryAcquire
    <2> QED BY <1>4, <2>1, <2>2, <2>3
  <1>5. ASSUME NEW c \in Channels, AcceptChannelFails(c) \/ Release(c) PROVE TypeOK'
    <2>1. sem - 1 \in Nat
      BY <1>5, HeldUnit DEF AcceptChannelFails, Release, Holding
    <2> QED BY <1>5, <2>1 DEF AcceptChannelFails, Release
  <1>6. ASSUME NEW c \in Channels, SessionStarts(c) \/ SessionEnds(c)
                                     \/ TrackSessionError(c) \/ MarkServerError(c)
        PROVE TypeOK'
    <2>1. CASE SessionStarts(c) \/ SessionEnds(c)
      BY <2>1 DEF SessionStarts, SessionEnds
    <2>2. CASE TrackSessionError(c)
      BY <2>2 DEF TrackSessionError
    <2>3. CASE MarkServerError(c)
      BY <2>3 DEF MarkServerError
    <2> QED BY <1>6, <2>1, <2>2, <2>3
  <1>7. ASSUME NEW c \in Channels, NEW err \in SessionErrors, SessionFails(c, err)
        PROVE TypeOK'
    <2>1. errOf' \in [Channels -> SUBSET SessionErrors]
      BY <1>7 DEF SessionFails
    <2> QED BY <1>7, <2>1 DEF SessionFails
  <1>8. CASE KeepAliveTick \/ KeepAliveStep \/ ClientLeaves \/ TopContextCancelled
               \/ ConnContextCancelled \/ SocketClosed
    <2>1. CASE KeepAliveTick \/ KeepAliveStep
      BY <2>1 DEF KeepAliveTick, KeepAliveStep, KeepAliveReply, KeepAliveFails, KeepAliveStops
    <2>2. CASE ClientLeaves \/ SocketClosed
      BY <2>2 DEF ClientLeaves, SocketClosed
    <2>3. CASE TopContextCancelled \/ ConnContextCancelled
      BY <2>3 DEF TopContextCancelled, ConnContextCancelled
    <2> QED BY <1>8, <2>1, <2>2, <2>3
  <1>9. CASE UNCHANGED vars
    BY <1>9 DEF vars
  <1> QED
    BY <1>1, <1>2, <1>3, <1>4, <1>5, <1>6, <1>7, <1>8, <1>9, <1>10
    DEF Next, HandleStep, SessionStep, Quiescent

(* Every TryAcquire is matched by one Release on every path. *)
LEMMA SemaphoreStep == TypeOK /\ SemaphoreExact /\ PhaseInv /\ [Next]_vars => SemaphoreExact'
  <1> SUFFICES ASSUME TypeOK, SemaphoreExact, PhaseInv, [Next]_vars PROVE SemaphoreExact'
    OBVIOUS
  <1> USE ConnectionAssumption, HoldingFinite
  <1>1. ASSUME UNCHANGED <<sem, drain>>, Holding' = Holding PROVE SemaphoreExact'
    BY <1>1 DEF SemaphoreExact
  <1>2. ASSUME UNCHANGED <<sem, drain, sess>> PROVE SemaphoreExact'
    BY <1>1, <1>2 DEF Holding
  <1>3. ASSUME NEW c \in Channels, TryAcquire(c) PROVE SemaphoreExact'
    <2>1. c \notin Holding /\ Holding' = Holding \cup {c}
      BY <1>3 DEF TryAcquire, Holding, TypeOK
    <2>2. Cardinality(Holding') = Cardinality(Holding) + 1
      BY <2>1, CardinalityStep
    <2> QED BY <1>3, <2>2 DEF TryAcquire, SemaphoreExact, TypeOK
  <1>4. ASSUME NEW c \in Channels, AcceptChannelFails(c) \/ Release(c) PROVE SemaphoreExact'
    <2>1. c \in Holding /\ Holding' = Holding \ {c}
      BY <1>4 DEF AcceptChannelFails, Release, Holding, TypeOK
    <2>2. Cardinality(Holding') = Cardinality(Holding) - 1
      BY <2>1, CardinalityStep
    <2>3. sem' = sem - 1 /\ drain' = drain
      BY <1>4 DEF AcceptChannelFails, Release
    <2> QED BY <2>2, <2>3 DEF SemaphoreExact, TypeOK
  <1>5. CASE DrainAcquired
    <2>1. Holding' = Holding /\ drain = "none"
      BY <1>5 DEF DrainAcquired, Holding, PhaseInv
    <2> QED BY <1>5, <2>1 DEF DrainAcquired, SemaphoreExact, TypeOK
  <1>6. CASE DrainTimeout
    <2>1. Holding' = Holding /\ drain = "none"
      BY <1>6 DEF DrainTimeout, Holding, PhaseInv
    <2> QED BY <1>6, <2>1 DEF DrainTimeout, SemaphoreExact, TypeOK
  <1>7. ASSUME NEW c \in Channels, RejectType(c) \/ RejectFull(c) \/ AcceptChannel(c)
                 \/ SessionStarts(c) \/ SessionEnds(c) \/ TrackSessionError(c)
                 \/ MarkServerError(c)
        PROVE SemaphoreExact'
    <2>1. Holding' = Holding
      BY <1>7 DEF RejectType, RejectFull, AcceptChannel, SessionStarts, SessionEnds,
         TrackSessionError, MarkServerError, Holding, TypeOK
    <2> QED BY <1>1, <1>7, <2>1 DEF RejectType, RejectFull, AcceptChannel, SessionStarts,
         SessionEnds, TrackSessionError, MarkServerError
  <1>8. ASSUME NEW c \in Channels, NEW err \in SessionErrors, SessionFails(c, err)
        PROVE SemaphoreExact'
    <2>1. Holding' = Holding
      BY <1>8 DEF SessionFails, Holding, TypeOK
    <2> QED BY <1>1, <1>8, <2>1 DEF SessionFails
  <1> QED
    BY <1>2, <1>3, <1>4, <1>5, <1>6, <1>7, <1>8
    DEF Next, HandleStep, SessionStep, KeepAliveStep, Quiescent, vars, AuthAttempt,
        HandshakeFails, HandshakeSucceeds, LoopEnds, Wait, trackConnection,
        KeepAliveTick, KeepAliveReply, KeepAliveFails, KeepAliveStops, ClientLeaves,
        TopContextCancelled, ConnContextCancelled, SocketClosed

(* The phases follow one another, and sessions start in the loop only. *)
LEMMA PhaseStep == TypeOK /\ PhaseInv /\ [Next]_vars => PhaseInv'
  <1> SUFFICES ASSUME TypeOK, PhaseInv, [Next]_vars PROVE PhaseInv'
    OBVIOUS
  <1> USE DEF TypeOK, PhaseInv
  <1>1. ASSUME UNCHANGED <<pc, drain, sess>> PROVE PhaseInv'
    BY <1>1
  <1>2. CASE HandshakeFails \/ HandshakeSucceeds \/ LoopEnds \/ DrainAcquired
               \/ DrainTimeout \/ Wait \/ trackConnection
    BY <1>2 DEF HandshakeFails, HandshakeSucceeds, LoopEnds, DrainAcquired, DrainTimeout,
       Wait, trackConnection
  <1>3. ASSUME NEW c \in Channels, RejectType(c) \/ RejectFull(c) \/ TryAcquire(c)
        PROVE PhaseInv'
    BY <1>3 DEF RejectType, RejectFull, TryAcquire
  <1>4. ASSUME NEW c \in Channels, AcceptChannel(c) \/ AcceptChannelFails(c) PROVE PhaseInv'
    BY <1>4 DEF AcceptChannel, AcceptChannelFails
  <1>5. ASSUME NEW c \in Channels, SessionStarts(c) \/ SessionEnds(c) \/ TrackSessionError(c)
                                     \/ MarkServerError(c) \/ Release(c)
        PROVE PhaseInv'
    BY <1>5 DEF SessionStarts, SessionEnds, TrackSessionError, MarkServerError, Release
  <1>6. ASSUME NEW c \in Channels, NEW err \in SessionErrors, SessionFails(c, err)
        PROVE PhaseInv'
    BY <1>6 DEF SessionFails
  <1> QED
    BY <1>1, <1>2, <1>3, <1>4, <1>5, <1>6
    DEF Next, HandleStep, SessionStep, KeepAliveStep, Quiescent, vars, AuthAttempt,
        KeepAliveTick, KeepAliveReply, KeepAliveFails, KeepAliveStops, ClientLeaves,
        TopContextCancelled, ConnContextCancelled, SocketClosed

(* Nothing changes the authentication after the handshake. *)
LEMMA AuthStep == TypeOK /\ PhaseInv /\ AuthInv /\ [Next]_vars => AuthInv'
  <1> SUFFICES ASSUME TypeOK, PhaseInv, AuthInv, [Next]_vars PROVE AuthInv'
    OBVIOUS
  <1> USE DEF TypeOK, PhaseInv, AuthInv, authVars
  <1>1. ASSUME UNCHANGED <<pc, drain, lastAuth, authAttempted>> PROVE AuthInv'
    BY <1>1
  <1>2. ASSUME NEW result \in {"ok", "system", "other"}, AuthAttempt(result) PROVE AuthInv'
    BY <1>2 DEF AuthAttempt, observeAuth
  <1>3. CASE HandshakeFails \/ HandshakeSucceeds \/ LoopEnds \/ DrainAcquired
               \/ DrainTimeout \/ Wait \/ trackConnection
    BY <1>3 DEF HandshakeFails, HandshakeSucceeds, LoopEnds, DrainAcquired, DrainTimeout,
       Wait, trackConnection
  <1>4. ASSUME NEW c \in Channels, TryAcquire(c) \/ AcceptChannel(c) \/ AcceptChannelFails(c)
        PROVE AuthInv'
    BY <1>4 DEF TryAcquire, AcceptChannel, AcceptChannelFails
  <1> QED
    BY <1>1, <1>2, <1>3, <1>4
    DEF Next, HandleStep, SessionStep, KeepAliveStep, Quiescent, vars, RejectType, RejectFull,
        SessionStarts, SessionEnds, SessionFails, TrackSessionError, MarkServerError, Release,
        KeepAliveTick, KeepAliveReply, KeepAliveFails, KeepAliveStops, ClientLeaves,
        TopContextCancelled, ConnContextCancelled, SocketClosed

(* trackError marks the connection for every server-side failure; only an  *)
(* auth attempt clears the mark, and then no session has run.              *)
LEMMA FaultStep == TypeOK /\ PhaseInv /\ FaultInv /\ [Next]_vars => FaultInv'
  <1> SUFFICES ASSUME TypeOK, PhaseInv, FaultInv, [Next]_vars PROVE FaultInv'
    OBVIOUS
  <1> USE DEF TypeOK, FaultInv, ServerFault, authVars
  <1>1. ASSUME UNCHANGED <<sess, errOf, serverError, lastAuth>> PROVE FaultInv'
    BY <1>1
  <1>2. ASSUME NEW result \in {"ok", "system", "other"}, AuthAttempt(result) PROVE FaultInv'
    <2>1. \A c \in Channels : sess[c] = "none" /\ errOf[c] = {}
      BY <1>2 DEF AuthAttempt, PhaseInv
    <2>2. sess' = sess /\ errOf' = errOf
      BY <1>2 DEF AuthAttempt
    <2>3. serverError => lastAuth # "ok"
      BY <2>1
    <2>4. serverError' => lastAuth' # "ok"
      BY <1>2, <2>3 DEF AuthAttempt, observeAuth
    <2> QED BY <2>1, <2>2, <2>4
  <1>3. ASSUME NEW c \in Channels, RejectType(c) \/ RejectFull(c) \/ TryAcquire(c)
                 \/ AcceptChannel(c) \/ AcceptChannelFails(c) \/ SessionStarts(c)
                 \/ SessionEnds(c) \/ Release(c)
        PROVE FaultInv'
    <2>1. UNCHANGED <<errOf, serverError, lastAuth>>
      BY <1>3 DEF RejectType, RejectFull, TryAcquire, AcceptChannel, AcceptChannelFails,
         SessionStarts, SessionEnds, Release
    <2>2. \E st \in SessStates \ {"tracking", "marking"} :
             /\ sess' = [sess EXCEPT ![c] = st]
             /\ sess[c] \notin {"tracking", "marking"}
             /\ errOf[c] # {} => st \in {"releasing", "done"}
      BY <1>3 DEF RejectType, RejectFull, TryAcquire, AcceptChannel, AcceptChannelFails,
         SessionStarts, SessionEnds, Release, SessStates
    <2> QED BY <2>1, <2>2
  <1>4. ASSUME NEW c \in Channels, TrackSessionError(c) PROVE FaultInv'
    BY <1>4 DEF TrackSessionError
  <1>5. ASSUME NEW c \in Channels, MarkServerError(c) PROVE FaultInv'
    BY <1>5 DEF MarkServerError
  <1>6. ASSUME NEW c \in Channels, NEW err \in SessionErrors, SessionFails(c, err)
        PROVE FaultInv'
    <2>1. errOf[c] = {}
      BY <1>6 DEF SessionFails
    <2>2. errOf' = [errOf EXCEPT ![c] = {err}] /\ UNCHANGED <<serverError, lastAuth>>
      BY <1>6 DEF SessionFails
    <2>3. ServerFault(c)' <=> ~ClientSide(err)
      BY <2>2
    <2>4. \A d \in Channels \ {c} : errOf'[d] = errOf[d] /\ sess'[d] = sess[d]
      BY <1>6 DEF SessionFails
    <2>5. CASE ClientSide(err)
      <3>1. sess'[c] = "releasing"
        BY <1>6, <2>5, ExcludedIsClientSide DEF SessionFails
      <3> QED BY <2>1, <2>2, <2>3, <2>4, <2>5, <3>1
    <2>6. CASE ~ClientSide(err)
      <3>1. sess'[c] = "tracking"
        BY <1>6, <2>6, ExcludedIsClientSide DEF SessionFails
      <3> QED BY <2>1, <2>2, <2>3, <2>4, <2>6, <3>1
    <2> QED BY <2>5, <2>6
  <1> QED
    BY <1>1, <1>2, <1>3, <1>4, <1>5, <1>6
    DEF Next, HandleStep, SessionStep, KeepAliveStep, Quiescent, vars,
        HandshakeFails, HandshakeSucceeds, LoopEnds, DrainAcquired, DrainTimeout, Wait,
        trackConnection, KeepAliveTick, KeepAliveReply, KeepAliveFails, KeepAliveStops,
        ClientLeaves, TopContextCancelled, ConnContextCancelled, SocketClosed

(* trackConnection reads the mark after every session that was waited for  *)
(* has set it; afterwards none of those sessions can fail any more.        *)
LEMMA SliStep == IInv /\ [Next]_vars => SliInv'
  <1> SUFFICES ASSUME IInv, [Next]_vars PROVE SliInv'
    OBVIOUS
  <1> USE DEF IInv, SliInv, ConnErrorJustified, NoMissedError
  <1>1. ASSUME UNCHANGED <<pc, drain, errOf, lastAuth, connsTotal, connsErrors>> PROVE SliInv'
    BY <1>1 DEF ServerFault
  <1>2. ASSUME pc # "done", pc' # "done", UNCHANGED <<connsTotal, connsErrors>> PROVE SliInv'
    BY <1>2
  <1>3. CASE trackConnection
    <2>1. connsErrors' > 0 => authAttempted /\ serverError
      BY <1>3 DEF trackConnection
    <2>2. UNCHANGED <<errOf, lastAuth, drain, sess>>
      BY <1>3 DEF trackConnection, authVars
    <2>3. ASSUME drain = "acquired", NEW c \in Channels, ServerFault(c)
          PROVE authAttempted /\ serverError
      <3>1. sess[c] \notin {"tracking", "marking"}
        BY <2>3, AcquiredAll DEF Holding
      <3>2. lastAuth = "ok"
        BY <2>3 DEF AuthInv
      <3> QED BY <2>3, <3>1, <3>2 DEF FaultInv, AuthInv
    <2>4. NoMissedError'
      BY <1>3, <2>2, <2>3 DEF trackConnection, ServerFault
    <2>5. ConnErrorJustified'
      BY <2>1, <2>2 DEF FaultInv, ServerFault
    <2> QED BY <1>3, <2>4, <2>5 DEF trackConnection
  <1>4. ASSUME NEW c \in Channels, NEW err \in SessionErrors, SessionFails(c, err)
        PROVE SliInv'
    <2>1. UNCHANGED <<pc, drain, lastAuth, connsTotal, connsErrors>>
      BY <1>4 DEF SessionFails, sliVars, authVars
    <2>2. c \in Holding
      BY <1>4 DEF SessionFails, Holding
    <2>3. drain # "acquired"
      BY <2>2, AcquiredAll
    <2>4. errOf[c] = {}
      BY <1>4 DEF SessionFails, FaultInv
    <2>5. \A d \in Channels \ {c} : errOf'[d] = errOf[d]
      BY <1>4 DEF SessionFails, TypeOK
    <2>6. \A d \in Channels : ServerFault(d) => ServerFault(d)'
      BY <2>4, <2>5 DEF ServerFault
    <2> QED BY <2>1, <2>3, <2>6
  <1>5. ASSUME NEW result \in {"ok", "system", "other"}, AuthAttempt(result) PROVE SliInv'
    BY <1>2, <1>5 DEF AuthAttempt, sliVars
  <1>6. CASE HandshakeFails \/ HandshakeSucceeds \/ LoopEnds \/ DrainAcquired
               \/ DrainTimeout \/ Wait
    BY <1>2, <1>6 DEF HandshakeFails, HandshakeSucceeds, LoopEnds, DrainAcquired,
       DrainTimeout, Wait, sliVars
  <1>7. ASSUME NEW c \in Channels, TryAcquire(c) \/ AcceptChannel(c) \/ AcceptChannelFails(c)
        PROVE SliInv'
    BY <1>2, <1>7 DEF TryAcquire, AcceptChannel, AcceptChannelFails, sliVars
  <1> QED
    BY <1>1, <1>3, <1>4, <1>5, <1>6, <1>7
    DEF Next, HandleStep, SessionStep, KeepAliveStep, Quiescent, vars, authVars, sliVars,
        RejectType, RejectFull, SessionStarts, SessionEnds, TrackSessionError,
        MarkServerError, Release, KeepAliveTick, KeepAliveReply, KeepAliveFails,
        KeepAliveStops, ClientLeaves, TopContextCancelled, ConnContextCancelled, SocketClosed

-----------------------------------------------------------------------------
(* The inductive invariant holds of every behaviour. *)
THEOREM Invariance == Spec => []IInv
  <1>1. Init => IInv
    <2> SUFFICES ASSUME Init PROVE IInv
      OBVIOUS
    <2>1. TypeOK
      BY DEF Init, TypeOK, SessStates
    <2>2. Holding = {}
      BY DEF Init, Holding
    <2>3. SemaphoreExact
      BY <2>2, FS_EmptySet, ConnectionAssumption DEF Init, SemaphoreExact
    <2>4. PhaseInv /\ AuthInv
      BY DEF Init, PhaseInv, AuthInv
    <2>5. FaultInv /\ SliInv
      BY DEF Init, FaultInv, SliInv, ServerFault, ConnErrorJustified, NoMissedError
    <2> QED BY <2>1, <2>3, <2>4, <2>5 DEF IInv
  <1>2. IInv /\ [Next]_vars => IInv'
    BY TypeStep, SemaphoreStep, PhaseStep, AuthStep, FaultStep, SliStep DEF IInv
  <1> QED
    BY <1>1, <1>2, PTL DEF Spec

(* connection.go's state stays well typed; no release takes the semaphore  *)
(* below zero.                                                             *)
THEOREM TypeCorrect == Spec => []TypeOK
  BY Invariance, PTL DEF IInv

(* concurrentSessions counts the sessions exactly, within its limit. *)
THEOREM Semaphore == Spec => []SemaphoreExact
  BY Invariance, PTL DEF IInv

(* A successful final Acquire means that no session is left. *)
THEOREM Drained == Spec => []DrainedOnReturn
  <1>1. IInv => DrainedOnReturn
    BY AcquiredAll DEF IInv, DrainedOnReturn
  <1> QED
    BY <1>1, Invariance, PTL

(* The connection SLI raises no false alarm. *)
THEOREM ErrorJustified == Spec => []ConnErrorJustified
  BY Invariance, PTL DEF IInv, SliInv

(* The connection SLI misses no failure of a session that was waited for. *)
THEOREM ErrorNotMissed == Spec => []NoMissedError
  BY Invariance, PTL DEF IInv, SliInv
=============================================================================

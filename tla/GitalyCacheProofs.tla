------------------------- MODULE GitalyCacheProofs -------------------------
(***************************************************************************)
(* GitalyCache's invariants, and that it implements ConnectionPool, for    *)
(* any number of calls and keys.                                           *)
(***************************************************************************)
EXTENDS GitalyCache, TLAPS

(* Where a call holds the write lock. *)
Critical(t) == pc[t] \in {"locked", "dialling", "store"}

(* The locks exclude what they must. *)
LockInv ==
  /\ \A t \in Calls : (t \in writer) <=> Critical(t)
  /\ \A t \in Calls : (t \in readers) <=> (pc[t] = "read")
  /\ writer # {} => readers = {}

(* A call that dials found no connection, and its key still has none. *)
MissInv == \A t \in Calls : pc[t] \in {"dialling", "store"} => connections[key[t]] = {}

(* What a call has returned is its key's connection. *)
ResultInv == \A t \in Calls : pc[t] = "returned"
                                => result[t] = connections[key[t]] /\ result[t] # {}

DialInv == (\A t \in dialled : pc[t] \in {"store", "returned"}) /\ NoConnectionLost

IInv == TypeOK /\ LockInv /\ MissInv /\ ResultInv /\ DialInv

-----------------------------------------------------------------------------
(* Every step keeps the invariant: one case per action. *)
LEMMA StepInv == ASSUME IInv, NEW t \in Calls, Step(t) PROVE IInv'
  <1> USE DEF IInv, TypeOK, LockInv, MissInv, ResultInv, DialInv, NoConnectionLost, Critical
  <1>1. CASE RLock(t)
    BY <1>1 DEF RLock
  <1>2. CASE ReadRUnlock(t)
    BY <1>2 DEF ReadRUnlock
  <1>3. CASE Lock(t)
    BY <1>3 DEF Lock
  <1>4. CASE RecheckHit(t)
    BY <1>4 DEF RecheckHit
  <1>5. CASE RecheckMiss(t)
    BY <1>5 DEF RecheckMiss
  <1>6. CASE DialOk(t)
    BY <1>6 DEF DialOk
  <1>7. CASE DialFails(t)
    BY <1>7 DEF DialFails
  <1>8. CASE Store(t)
    <2>1. connections[key[t]] = {} /\ t \in writer
      BY <1>8 DEF Store
    <2>2. \A u \in Calls \ {t} : ~Critical(u)
      BY <2>1
    <2>3. \A u \in Calls \ {t} : /\ pc'[u] = pc[u] /\ result'[u] = result[u]
                                 /\ pc[u] = "returned" => key[u] # key[t]
                                 /\ u \in dialled => key[u] # key[t]
      BY <1>8, <2>1, <2>2 DEF Store
    <2>4. /\ pc'[t] = "returned" /\ result'[t] = {t} /\ connections'[key[t]] = {t}
          /\ \A k \in Keys \ {key[t]} : connections'[k] = connections[k]
          /\ UNCHANGED <<key, readers, dialled, okTotal>> /\ writer' = writer \ {t}
      BY <1>8 DEF Store
    <2>5. TypeOK'
      BY <1>8 DEF Store
    <2>6. LockInv'
      BY <2>1, <2>2, <2>3, <2>4
    <2>7. MissInv'
      BY <2>2, <2>3, <2>4
    <2>9. ResultInv'
      <3>1. ASSUME NEW u \in Calls, pc'[u] = "returned", u # t
            PROVE  result'[u] = connections'[key'[u]] /\ result'[u] # {}
        BY <2>3, <2>4, <3>1
      <3>2. result'[t] = connections'[key'[t]] /\ result'[t] # {}
        BY <2>4
      <3> QED BY <3>1, <3>2
    <2>8. DialInv'
      BY <2>2, <2>3, <2>4
    <2> QED BY <2>5, <2>6, <2>7, <2>8, <2>9
  <1> QED
    BY <1>1, <1>2, <1>3, <1>4, <1>5, <1>6, <1>7, <1>8 DEF Step

(* The inductive invariant holds of every behaviour. *)
THEOREM Invariance == Spec => []IInv
  <1>1. Init => IInv
    BY DEF Init, IInv, TypeOK, LockInv, MissInv, ResultInv, DialInv, NoConnectionLost, Critical
  <1>2. IInv /\ [Next]_vars => IInv'
    <2>1. ASSUME IInv, UNCHANGED vars PROVE IInv'
      BY <2>1 DEF vars, IInv, TypeOK, LockInv, MissInv, ResultInv, DialInv,
         NoConnectionLost, Critical
    <2> QED BY <2>1, StepInv DEF Next, AllReturned
  <1> QED
    BY <1>1, <1>2, PTL DEF Spec

(* No call reads or writes the map while another one writes it. *)
THEOREM MapNotRaced == Spec => []NoMapRace
  <1>1. IInv => NoMapRace
    BY DEF IInv, TypeOK, LockInv, Critical, NoMapRace
  <1> QED
    BY <1>1, Invariance, PTL

(* No connection is dialled twice or lost. *)
THEOREM NothingLost == Spec => []NoConnectionLost
  BY Invariance, PTL DEF IInv, DialInv

(* All calls for a key share one connection. *)
THEOREM Agreement == Spec => []OneConnectionPerKey
  <1>1. IInv => OneConnectionPerKey
    BY DEF IInv, ResultInv, OneConnectionPerKey
  <1> QED
    BY <1>1, Invariance, PTL

-----------------------------------------------------------------------------
(* A step that leaves a call unanswered, or answers it, as the pool sees   *)
(* it.                                                                     *)
LEMMA AnswerStep ==
  ASSUME TypeOK, NEW t \in Calls, NEW a,
         PoolAnswer'[t] = a,
         \A u \in Calls \ {t} : pc'[u] = pc[u] /\ result'[u] = result[u]
  PROVE  PoolAnswer' = [PoolAnswer EXCEPT ![t] = a]
  BY DEF PoolAnswer

(* GetConnection implements the pool. *)
THEOREM Refinement == Spec => ImplementsPool
  <1>1. Init => Pool!Init
    BY DEF Init, Pool!Init, PoolAnswer, Pool!Pending
  <1>2. IInv /\ [Next]_vars => [Pool!Next]_(Pool!vars)
    <2>1. ASSUME IInv, UNCHANGED vars PROVE UNCHANGED Pool!vars
      BY <2>1 DEF vars, Pool!vars, PoolAnswer
    <2>2. ASSUME IInv, NEW t \in Calls, Step(t) PROVE Pool!Next \/ UNCHANGED Pool!vars
      <3> USE <2>2 DEF IInv, TypeOK
      <3>1. \A u \in Calls \ {t} : pc'[u] = pc[u] /\ result'[u] = result[u]
        BY DEF Step, RLock, ReadRUnlock, Lock, RecheckHit, RecheckMiss, DialOk, DialFails, Store
      <3>2. key' = key
        BY DEF Step, RLock, ReadRUnlock, Lock, RecheckHit, RecheckMiss, DialOk, DialFails, Store
      <3>3. pc[t] \notin {"returned", "failed"} /\ PoolAnswer[t] = Pool!Pending
        BY DEF Step, RLock, ReadRUnlock, Lock, RecheckHit, RecheckMiss, DialOk, DialFails,
           Store, PoolAnswer, Pool!Pending
      <3>4. CASE connections' = connections /\ pc'[t] \notin {"returned", "failed"}
        <4>1. PoolAnswer' = PoolAnswer
          BY <3>1, <3>3, <3>4 DEF PoolAnswer
        <4> QED BY <3>2, <3>4, <4>1 DEF Pool!vars
      <3>5. CASE /\ connections' = connections /\ pc'[t] = "returned"
                 /\ result'[t] = connections[key[t]] /\ connections[key[t]] # {}
        <4>1. PoolAnswer'[t] = Pool!Given(connections[key[t]])
          BY <3>5 DEF PoolAnswer, Pool!Given
        <4>2. PoolAnswer' = [PoolAnswer EXCEPT ![t] = Pool!Given(connections[key[t]])]
          BY <3>1, <4>1, AnswerStep
        <4>3. Pool!Share(t)
          BY <3>2, <3>3, <3>5, <4>2 DEF Pool!Share
        <4> QED BY <4>3 DEF Pool!Next
      <3>6. CASE Store(t)
        <4>1. connections[key[t]] = {} /\ connections' = [connections EXCEPT ![key[t]] = {t}]
          BY <3>6 DEF Store, MissInv
        <4>2. PoolAnswer'[t] = Pool!Given({t})
          BY <3>6 DEF Store, PoolAnswer, Pool!Given
        <4>3. PoolAnswer' = [PoolAnswer EXCEPT ![t] = Pool!Given({t})]
          BY <3>1, <4>2, AnswerStep
        <4>4. Pool!Create(t)
          BY <3>2, <3>3, <4>1, <4>3 DEF Pool!Create
        <4> QED BY <4>4 DEF Pool!Next
      <3>7. CASE DialFails(t)
        <4>1. connections[key[t]] = {} /\ connections' = connections
          BY <3>7 DEF DialFails, MissInv
        <4>2. PoolAnswer'[t] = Pool!Error
          BY <3>7 DEF DialFails, PoolAnswer, Pool!Error
        <4>3. PoolAnswer' = [PoolAnswer EXCEPT ![t] = Pool!Error]
          BY <3>1, <4>2, AnswerStep
        <4>4. Pool!Fail(t)
          BY <3>2, <3>3, <4>1, <4>3 DEF Pool!Fail
        <4> QED BY <4>4 DEF Pool!Next
      <3>8. CASE RLock(t) \/ ReadRUnlock(t) \/ Lock(t) \/ RecheckHit(t) \/ RecheckMiss(t)
                   \/ DialOk(t)
        BY <3>4, <3>5, <3>8 DEF RLock, ReadRUnlock, Lock, RecheckHit, RecheckMiss, DialOk
      <3> QED BY <3>6, <3>7, <3>8 DEF Step
    <2> QED BY <2>1, <2>2 DEF Next, AllReturned
  <1> QED
    BY <1>1, <1>2, Invariance, PTL DEF Spec, Pool!Spec, ImplementsPool
=============================================================================

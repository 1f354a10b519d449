---------------------------- MODULE GitalyCache ----------------------------
(***************************************************************************)
(* gitaly.Client.GetConnection (internal/gitaly/gitaly.go): the cache of   *)
(* gRPC connections that all sessions of a gitlab-sshd process share.  It  *)
(* is read under the read lock and, on a miss, read again, dialled and     *)
(* filled under the write lock.  A connection is named after the call that *)
(* dialled it; connections are never evicted.                              *)
(***************************************************************************)
EXTENDS Naturals, FiniteSets

CONSTANTS
  Calls,       \* the calls of GetConnection, concurrent or not
  Keys,        \* CacheKey: service name, address and token
  NoAddress    \* the keys whose address is empty

ASSUME CacheAssumption == IsFiniteSet(Calls) /\ NoAddress \subseteq Keys

VARIABLES
  pc,          \* per call, where it is
  key,         \* per call, its key
  readers,     \* the calls that hold the read lock
  writer,      \* the calls that hold the write lock
  connections, \* per key, its connection: a set with at most one member
  result,      \* per call, the connection returned: likewise
  dialled,     \* the calls whose dial succeeded
  okTotal      \* GitalyConnectionsTotal{status="ok"}

vars == <<pc, key, readers, writer, connections, result, dialled, okTotal>>

Init ==
  /\ pc = [t \in Calls |-> "idle"]
  /\ key \in [Calls -> Keys]
  /\ readers = {}
  /\ writer = {}
  /\ connections = [k \in Keys |-> {}]
  /\ result = [t \in Calls |-> {}]
  /\ dialled = {}
  /\ okTotal = 0

-----------------------------------------------------------------------------
(* Mutant: readers do not wait for a writer. *)
RLock_NoWait(t) ==
  /\ pc[t] = "idle"
  /\ readers' = readers \cup {t}
  /\ pc' = [pc EXCEPT ![t] = "read"]
  /\ UNCHANGED <<key, writer, connections, result, dialled, okTotal>>

RLock(t) ==
  /\ pc[t] = "idle"
  /\ writer = {}
  /\ readers' = readers \cup {t}
  /\ pc' = [pc EXCEPT ![t] = "read"]
  /\ UNCHANGED <<key, writer, connections, result, dialled, okTotal>>

(* The map is read and the lock released; a hit is returned. *)
ReadRUnlock(t) ==
  /\ pc[t] = "read"
  /\ readers' = readers \ {t}
  /\ result' = [result EXCEPT ![t] = connections[key[t]]]
  /\ pc' = [pc EXCEPT ![t] = IF connections[key[t]] # {} THEN "returned" ELSE "missed"]
  /\ UNCHANGED <<key, writer, connections, dialled, okTotal>>

Lock(t) ==
  /\ pc[t] = "missed"
  /\ writer = {} /\ readers = {}
  /\ writer' = {t}
  /\ pc' = [pc EXCEPT ![t] = "locked"]
  /\ UNCHANGED <<key, readers, connections, result, dialled, okTotal>>

(* The second look finds a connection: it is returned, the lock released. *)
RecheckHit(t) ==
  /\ pc[t] = "locked"
  /\ connections[key[t]] # {}
  /\ result' = [result EXCEPT ![t] = connections[key[t]]]
  /\ writer' = writer \ {t}
  /\ pc' = [pc EXCEPT ![t] = "returned"]
  /\ UNCHANGED <<key, readers, connections, dialled, okTotal>>

(* Mutant: no second look. *)
RecheckMiss_NoRecheck(t) ==
  /\ pc[t] = "locked"
  /\ pc' = [pc EXCEPT ![t] = "dialling"]
  /\ UNCHANGED <<key, readers, writer, connections, result, dialled, okTotal>>

RecheckMiss(t) ==
  /\ pc[t] = "locked"
  /\ connections[key[t]] = {}
  /\ pc' = [pc EXCEPT ![t] = "dialling"]
  /\ UNCHANGED <<key, readers, writer, connections, result, dialled, okTotal>>

(* newConnection succeeds and is counted. *)
DialOk(t) ==
  /\ pc[t] = "dialling"
  /\ key[t] \notin NoAddress
  /\ dialled' = dialled \cup {t}
  /\ okTotal' = okTotal + 1
  /\ pc' = [pc EXCEPT ![t] = "store"]
  /\ UNCHANGED <<key, readers, writer, connections, result>>

(* Mutant: an error leaves the lock held. *)
DialFails_KeepsLock(t) ==
  /\ pc[t] = "dialling"
  /\ pc' = [pc EXCEPT ![t] = "failed"]
  /\ UNCHANGED <<key, readers, writer, connections, result, dialled, okTotal>>

(* newConnection fails, with an empty address always: the deferred Unlock, *)
(* nothing cached.                                                         *)
DialFails(t) ==
  /\ pc[t] = "dialling"
  /\ writer' = writer \ {t}
  /\ pc' = [pc EXCEPT ![t] = "failed"]
  /\ UNCHANGED <<key, readers, connections, result, dialled, okTotal>>

(* The connection is cached and returned; the deferred Unlock. *)
Store(t) ==
  /\ pc[t] = "store"
  /\ connections' = [connections EXCEPT ![key[t]] = {t}]
  /\ result' = [result EXCEPT ![t] = {t}]
  /\ writer' = writer \ {t}
  /\ pc' = [pc EXCEPT ![t] = "returned"]
  /\ UNCHANGED <<key, readers, dialled, okTotal>>

Step(t) ==
  \/ RLock(t) \/ ReadRUnlock(t) \/ Lock(t) \/ RecheckHit(t) \/ RecheckMiss(t)
  \/ DialOk(t) \/ DialFails(t) \/ Store(t)

AllReturned == (\A t \in Calls : pc[t] \in {"returned", "failed"}) /\ UNCHANGED vars

Next == (\E t \in Calls : Step(t)) \/ AllReturned

Spec == Init /\ [][Next]_vars

(* Every call is scheduled; a dial returns, as DialSidechannel does not    *)
(* wait for the peer.                                                      *)
FairSpec == Spec /\ \A t \in Calls : WF_vars(Step(t))

-----------------------------------------------------------------------------
(* Properties. *)

(* The cache's state is well typed; the write lock has one holder at most. *)
TypeOK ==
  /\ pc \in [Calls -> {"idle", "read", "missed", "locked", "dialling", "store",
                       "returned", "failed"}]
  /\ key \in [Calls -> Keys]
  /\ readers \subseteq Calls /\ writer \subseteq Calls
  /\ \A t, u \in writer : t = u
  /\ connections \in [Keys -> SUBSET Calls]
  /\ result \in [Calls -> SUBSET Calls]
  /\ dialled \subseteq Calls
  /\ okTotal \in Nat

(* The map is not read, nor written by another call, while a call that     *)
(* dialled is about to write it: a concurrent map access ends a Go         *)
(* process (GetConnection's two locks).                                    *)
NoMapRace ==
  \A t, u \in Calls : (pc[t] = "store" /\ u # t)
                         => pc[u] \notin {"read", "locked", "dialling", "store"}

(* Every connection that was dialled is the cached connection of its key,  *)
(* or is about to be: two calls that miss at the same time do not both     *)
(* dial, and no connection is dialled and then lost (the second look under *)
(* the write lock).                                                        *)
NoConnectionLost ==
  \A t \in dialled : pc[t] = "store" \/ connections[key[t]] = {t}

(* All calls for a key that return a connection return the same one.       *)
OneConnectionPerKey ==
  \A t, u \in Calls :
    (pc[t] = "returned" /\ pc[u] = "returned" /\ key[t] = key[u])
      => result[t] = result[u] /\ result[t] # {}

(* Every call returns (no path of GetConnection leaves a lock held). *)
CallsReturn == \A t \in Calls : <>(pc[t] \in {"returned", "failed"})

(* The cache implements the pool: a call is answered when it returns. *)
PoolAnswer ==
  [t \in Calls |->
     CASE pc[t] = "returned" -> [state |-> "given", conn |-> result[t]]
       [] pc[t] = "failed"   -> [state |-> "error", conn |-> {}]
       [] OTHER              -> [state |-> "pending", conn |-> {}]]

Pool == INSTANCE ConnectionPool WITH pool <- connections, answer <- PoolAnswer

(* GetConnection, with its two looks at the map and its two locks, looks   *)
(* to its callers like the one-step pool.                                  *)
ImplementsPool == Pool!Spec
=============================================================================

--------------------------- MODULE ConnectionPool ---------------------------
(***************************************************************************)
(* What gitaly.Client promises its callers: a call for a key is answered   *)
(* in one step, with the key's connection if it has one, else with a new   *)
(* connection that becomes the key's for ever, or with an error.  An error *)
(* is answered only while the key has no connection.  A connection is      *)
(* named after the call that dialled it.                                   *)
(***************************************************************************)
CONSTANTS Calls, Keys

VARIABLES
  key,       \* per call, the key it asks for
  pool,      \* per key, its connection: a set with at most one member
  answer     \* per call, what it was answered

vars == <<key, pool, answer>>

Pending == [state |-> "pending", conn |-> {}]
Error == [state |-> "error", conn |-> {}]
Given(conn) == [state |-> "given", conn |-> conn]

Init ==
  /\ key \in [Calls -> Keys]
  /\ pool = [k \in Keys |-> {}]
  /\ answer = [t \in Calls |-> Pending]

(* The call is answered with the connection its key has. *)
Share(t) ==
  /\ answer[t] = Pending
  /\ pool[key[t]] # {}
  /\ answer' = [answer EXCEPT ![t] = Given(pool[key[t]])]
  /\ UNCHANGED <<key, pool>>

(* The call gives its key a connection. *)
Create(t) ==
  /\ answer[t] = Pending
  /\ pool[key[t]] = {}
  /\ pool' = [pool EXCEPT ![key[t]] = {t}]
  /\ answer' = [answer EXCEPT ![t] = Given({t})]
  /\ UNCHANGED key

(* The call fails. *)
Fail(t) ==
  /\ answer[t] = Pending
  /\ pool[key[t]] = {}
  /\ answer' = [answer EXCEPT ![t] = Error]
  /\ UNCHANGED <<key, pool>>

Next == \E t \in Calls : Share(t) \/ Create(t) \/ Fail(t)

Spec == Init /\ [][Next]_vars
=============================================================================

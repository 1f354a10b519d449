-------------------------- MODULE TopologyRouting --------------------------
(***************************************************************************)
(* Routing of internal API requests to cells (internal/topology): the      *)
(* lazily dialled client of the Topology Service that all requests of a    *)
(* process share, Classify with its retries, and the HTTP client a request *)
(* is then sent with: the shared one, or a copy of it for the cell.  Any   *)
(* failure means the default host.  Close runs when main returns, while    *)
(* sessions that were not waited for may still classify.                   *)
(***************************************************************************)
EXTENDS Naturals, FiniteSets

CONSTANTS
  Requests,      \* the internal API requests, concurrent or not
  Cells,         \* the usable cell addresses
  DefaultHost,   \* GitlabURL's host
  MaxAttempts    \* classifyMaxAttempts

ASSUME RoutingAssumption ==
  /\ IsFiniteSet(Requests)
  /\ DefaultHost \notin Cells
  /\ MaxAttempts \in Nat \ {0}

(* The addresses a PROXY answer may carry that are not usable. *)
BadAddresses == {"empty", "slash", "no_host", "ipv6"}

(* The Topology Service's answers: an address for PROXY, or "not_proxy". *)
Answers == Cells \cup BadAddresses \cup {"not_proxy"}

RetryableCodes == {"Unavailable", "DeadlineExceeded", "not_status"}
PermanentCodes == {"NotFound", "Canceled"}

(* An address is told from every other outcome, and from no address.  *)
ASSUME AddressAssumption ==
  Cells \cap (BadAddresses \cup RetryableCodes \cup PermanentCodes \cup {"none", "not_proxy"}) = {}

VARIABLES
  enabled,       \* the Topology Service is configured
  classifiable,  \* the requests with a namespace, fingerprint or username
  conn,          \* Client.conn and Client.client: a connection, or 0 for nil
  dialled,       \* the number of connections dialled; they are 1..dialled
  closed,        \* the connections that were closed
  pc,            \* per request, where it is
  using,         \* per request, the connection getClient gave it
  attempts,      \* per request, the Classify calls made
  answer,        \* per request, the last answer or error code
  sharedHost,    \* the host of the process's one HTTPClient
  address,       \* per request, RoutedClient.Address; "none" for the empty one
  sentTo         \* per request, the host it was sent to

cacheVars == <<conn, dialled, closed>>
vars == <<enabled, classifiable, cacheVars, pc, using, attempts, answer, sharedHost,
          address, sentTo>>

Init ==
  /\ enabled \in BOOLEAN
  /\ classifiable \in SUBSET Requests
  /\ conn = 0 /\ dialled = 0 /\ closed = {}
  /\ pc = [r \in Requests |-> "resolve"]
  /\ using = [r \in Requests |-> 0]
  /\ attempts = [r \in Requests |-> 0]
  /\ answer = [r \in Requests |-> "none"]
  /\ sharedHost = DefaultHost
  /\ address = [r \in Requests |-> "none"]
  /\ sentTo = [r \in Requests |-> "none"]

-----------------------------------------------------------------------------
(* Nothing to ask, or nobody: the default host. *)
SkipResolve(r) ==
  /\ pc[r] = "resolve"
  /\ ~enabled \/ r \notin classifiable
  /\ pc' = [pc EXCEPT ![r] = "attach"]
  /\ UNCHANGED <<enabled, classifiable, cacheVars, using, attempts, answer, sharedHost,
                 address, sentTo>>

StartResolve(r) ==
  /\ pc[r] = "resolve"
  /\ enabled /\ r \in classifiable
  /\ pc' = [pc EXCEPT ![r] = "getClient"]
  /\ UNCHANGED <<enabled, classifiable, cacheVars, using, attempts, answer, sharedHost,
                 address, sentTo>>

(* Mutant: the client is not looked at before dialling. *)
getClient_AlwaysDials(r) ==
  /\ pc[r] = "getClient"
  /\ conn' = dialled + 1 /\ dialled' = dialled + 1
  /\ using' = [using EXCEPT ![r] = conn']
  /\ pc' = [pc EXCEPT ![r] = "classify"]
  /\ UNCHANGED <<enabled, classifiable, closed, attempts, answer, sharedHost, address, sentTo>>

(* getClient, under the mutex: the client there is, or a new connection.   *)
(* grpc.NewClient does not wait for the peer.                              *)
getClient(r) ==
  /\ pc[r] = "getClient"
  /\ \/ conn # 0 /\ UNCHANGED cacheVars
     \/ conn = 0 /\ conn' = dialled + 1 /\ dialled' = dialled + 1 /\ UNCHANGED closed
  /\ using' = [using EXCEPT ![r] = conn']
  /\ pc' = [pc EXCEPT ![r] = "classify"]
  /\ UNCHANGED <<enabled, classifiable, attempts, answer, sharedHost, address, sentTo>>

(* Client.Close, under the mutex. *)
Close ==
  /\ conn # 0
  /\ closed' = closed \cup {conn}
  /\ conn' = 0
  /\ UNCHANGED <<enabled, classifiable, dialled, pc, using, attempts, answer, sharedHost,
                 address, sentTo>>

-----------------------------------------------------------------------------
isRetryableError(code) == code \in RetryableCodes

(* Mutant: the attempts of a request are not counted. *)
AttemptFails_Uncounted(r, code) ==
  /\ answer' = [answer EXCEPT ![r] = code]
  /\ pc' = [pc EXCEPT ![r] = IF isRetryableError(code) THEN "backoff" ELSE "attach"]
  /\ UNCHANGED attempts

(* An attempt fails: another one follows after a wait, or resolve gives none. *)
AttemptFails(r, code) ==
  /\ attempts' = [attempts EXCEPT ![r] = @ + 1]
  /\ answer' = [answer EXCEPT ![r] = code]
  /\ pc' = [pc EXCEPT ![r] = IF isRetryableError(code) /\ attempts[r] + 1 < MaxAttempts
                               THEN "backoff" ELSE "attach"]

(* The TLS files cannot be read: an error that is no gRPC status. *)
getClientFails(r) ==
  /\ pc[r] = "getClient" /\ conn = 0
  /\ AttemptFails(r, "not_status")
  /\ UNCHANGED <<enabled, classifiable, cacheVars, using, sharedHost, address, sentTo>>

(* Classify fails.  On a connection that was closed the code is Canceled. *)
ClassifyFails(r, code) ==
  /\ pc[r] = "classify"
  /\ using[r] \in closed => code = "Canceled"
  /\ AttemptFails(r, code)
  /\ UNCHANGED <<enabled, classifiable, cacheVars, using, sharedHost, address, sentTo>>

(* resolve, once Classify has answered, and buildCellURL: the cell's URL   *)
(* has the configured scheme and port, so it is named after the host.      *)
buildCellURL(a) == IF a \in Cells THEN a ELSE "none"

ClassifyAnswers(r, a) ==
  /\ pc[r] = "classify"
  /\ using[r] \notin closed
  /\ attempts' = [attempts EXCEPT ![r] = @ + 1]
  /\ answer' = [answer EXCEPT ![r] = a]
  /\ address' = [address EXCEPT ![r] = buildCellURL(a)]
  /\ pc' = [pc EXCEPT ![r] = "attach"]
  /\ UNCHANGED <<enabled, classifiable, cacheVars, using, sharedHost, sentTo>>

BackoffEnds(r) ==
  /\ pc[r] = "backoff"
  /\ pc' = [pc EXCEPT ![r] = "getClient"]
  /\ UNCHANGED <<enabled, classifiable, cacheVars, using, attempts, answer, sharedHost,
                 address, sentTo>>

(* The request's context is done: backoff.Retry gives up. *)
BackoffInterrupted(r) ==
  /\ pc[r] = "backoff"
  /\ pc' = [pc EXCEPT ![r] = "attach"]
  /\ UNCHANGED <<enabled, classifiable, cacheVars, using, attempts, answer, sharedHost,
                 address, sentTo>>

-----------------------------------------------------------------------------
(* Mutant: WithHost changes the client it is given. *)
attachHost_InPlace(r) ==
  /\ pc[r] = "attach"
  /\ sharedHost' = IF address[r] = "none" THEN sharedHost ELSE address[r]
  /\ pc' = [pc EXCEPT ![r] = "post"]
  /\ UNCHANGED <<enabled, classifiable, cacheVars, using, attempts, answer, address, sentTo>>

(* attachHost: with an address the request gets a copy of the client, by   *)
(* WithHost, else the shared client itself.                                *)
attachHost(r) ==
  /\ pc[r] = "attach"
  /\ pc' = [pc EXCEPT ![r] = "post"]
  /\ UNCHANGED <<enabled, classifiable, cacheVars, using, attempts, answer, sharedHost,
                 address, sentTo>>

(* The request is sent, to the host of the client it was given. *)
Post(r) ==
  /\ pc[r] = "post"
  /\ sentTo' = [sentTo EXCEPT ![r] = IF address[r] = "none" THEN sharedHost ELSE address[r]]
  /\ pc' = [pc EXCEPT ![r] = "done"]
  /\ UNCHANGED <<enabled, classifiable, cacheVars, using, attempts, answer, sharedHost, address>>

-----------------------------------------------------------------------------
Step(r) ==
  \/ SkipResolve(r) \/ StartResolve(r)
  \/ getClient(r) \/ getClientFails(r)
  \/ (\E code \in RetryableCodes \cup PermanentCodes : ClassifyFails(r, code))
  \/ (\E a \in Answers : ClassifyAnswers(r, a))
  \/ BackoffEnds(r) \/ BackoffInterrupted(r)
  \/ attachHost(r) \/ Post(r)

AllDone == (\A r \in Requests : pc[r] = "done") /\ UNCHANGED vars

Next == (\E r \in Requests : Step(r)) \/ Close \/ AllDone

Spec == Init /\ [][Next]_vars

(* Goroutines are scheduled, and Classify returns: it has a timeout. *)
FairSpec == Spec /\ \A r \in Requests : WF_vars(Step(r))

-----------------------------------------------------------------------------
(* Properties. *)

(* The routing state is well typed; no request classifies more than        *)
(* MaxAttempts times.                                                      *)
TypeOK ==
  /\ enabled \in BOOLEAN /\ classifiable \subseteq Requests
  /\ dialled \in Nat /\ conn \in 0..dialled /\ closed \subseteq 1..dialled
  /\ pc \in [Requests -> {"resolve", "getClient", "classify", "backoff", "attach",
                          "post", "done"}]
  /\ using \in [Requests -> 0..dialled]
  /\ attempts \in [Requests -> 0..MaxAttempts]
  /\ answer \in [Requests -> Answers \cup RetryableCodes \cup PermanentCodes \cup {"none"}]
  /\ sharedHost \in Cells \cup {DefaultHost}
  /\ address \in [Requests -> Cells \cup {"none"}]
  /\ sentTo \in [Requests -> Cells \cup {DefaultHost, "none"}]

(* A request is sent to a cell exactly when its own last Classify named    *)
(* that cell, and to the default host in every other case - disabled,      *)
(* unreachable, an unusable address, a connection closed under it - and    *)
(* whatever the other requests were answered (resolve, attachHost and      *)
(* WithHost).                                                              *)
SentWhereAnswered ==
  \A r \in Requests : pc[r] = "done" =>
    sentTo[r] = IF answer[r] \in Cells THEN answer[r] ELSE DefaultHost

(* At most one connection to the Topology Service is open, and only the    *)
(* one the client holds: none is dialled twice, none is left behind by     *)
(* Close (getClient and Close under the mutex).                            *)
OneOpenConnection == (1..dialled) \ closed \subseteq {conn}

(* Every request is sent, however the Topology Service behaves. *)
EveryRequestSent == \A r \in Requests : <>(pc[r] = "done")
=============================================================================

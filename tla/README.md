# gitlab-shell in TLA+

This directory holds a TLA+ model of gitlab-shell: the SSH server `gitlab-sshd`,
the commands it and the `gitlab-shell` binary run, and the clients through which
they reach GitLab's internal API, Gitaly and the Topology Service. TLC checks the
modules on small instances; TLAPS proves every safety property that a passing run checks for
every value of the constants. `PROJECT.json` maps each definition to the lines it
models and lists the runs, the mutants, the hazards, the findings and the theorems.

To repeat a check: `tlc -config SshdServer.cfg SshdServer` (`MCSshdConnection`,
`MCInternalAPI`, `MCLogin`, `MCGitTransport` and `MCLFSTransfer` give values to the sets, or the symmetry, of their
modules; `MCSession` puts two of them into one run), and likewise for the other runs; to repeat a proof: `tlapm SshdServerProofs.tla`.

## 1. Inventory

| Part | State it keeps | Operations | Interacts with |
|---|---|---|---|
| Process and `Server` (`cmd/gitlab-sshd/main.go`, `internal/sshd/sshd.go`) | status, listener, wait group, in-flight gauge, top context | ListenAndServe, serve, Shutdown, handleConn, readiness probe, signal handling | starts a *connection* per client; cancels it through the context |
| SSH connection (`internal/sshd/connection.go`) | session semaphore, auth outcome, server-error flag, SLI counters | handshake, observeAuth, handleRequests, trackError, trackConnection, keepalive | calls *authentication* in the handshake, starts a *session* per channel |
| SSH session (`internal/sshd/session.go`) | command line, Git protocol, reply and exit state | env, exec, shell, unknown requests; exit and close | builds and runs a *command* |
| Authentication (`internal/sshd/server_config.go`, `gssapi.go`) and command construction (`cmd/gitlab-shell/command`, `internal/command/shared`) | cached permissions (of the ssh library), identity, namespace | publicKeyCallback, certificate and GSSAPI callbacks, NewWith*, Build | asks the *internal API* |
| Git commands (`internal/command/{receivepack,uploadpack,uploadarchive}`, `handler/exec.go`) | the `/allowed` answer, the transport, the audit event | Verify, dispatch to Gitaly, cell or Geo primary, Audit | *internal API*, *Topology routing*, *Gitaly cache* |
| Git over HTTP (`internal/command/githttp`, `gitlabnet/git`, `pktline`) | the scanner's buffer, the pipe, needsPackData | requestInfoRefs, readFromStdin, ReceivePack and UploadPack, executeSSHRequest | started by a *Git command*; the client's stdin, the Geo primary or a cell |
| Gitaly connection cache (`internal/gitaly/gitaly.go`) | map of connections, RWMutex | GetConnection | shared by all sessions of a process |
| Internal API clients (`client/`, `internal/clients/gitlab`) | token, attempts, retries | DoRequest, do, ParseJSON, checkResponse | GitLab over HTTP |
| Topology routing (`internal/topology`) | lazily dialled gRPC client, per-request host | Classify, Close, resolve, attachHost | Topology Service; gives the host to the *internal API* client |
| Two-factor verification (`internal/command/twofactorverify`) | unbuffered result channel, 30 s context | Execute, PushAuth, VerifyOTP | *internal API*, the user's terminal |
| LFS (`internal/command/{lfsauthenticate,lfstransfer}`, `gitlabnet/lfstransfer`) | none between two commands: ids and tokens travel through the client | Batch, Upload, Download, Verify, Create, Unlock, FromPath, Range | *internal API* for access and credentials; the repository's LFS API; other sessions, through the API |
| OpenSSH's helpers (`internal/command/{authorizedkeys,authorizedprincipals}`, `keyline`) and the `gitlab-shell` binary | the identity, as text in a line and then in an argument | Execute, ToString; parseWho, New, Build | OpenSSH between the two; *internal API* |
| Configuration (`internal/config`) | the HTTP client, or the error of building it, kept by a sync.Once | HTTPClient, Close, loading | shared by all sessions of a process |
| Personal access tokens, recovery codes, discover, health check | none | one request each, and parsing | *internal API* |

What is hard to get right, and hard to test, in this code:

* startup and shutdown run in two goroutines that share the status and the listener
  without a lock common to both of them;
* a connection must be in the wait group before anyone waits for it, its socket is
  closed by a third goroutine, and its handler must survive a panic;
* sessions are bounded by a semaphore that is also the way to wait for them, with a
  timeout, while their errors decide an SLI of the connection;
* the ssh library calls the auth callbacks for mere queries and caches the answers;
* caches are filled by concurrent sessions (double-checked locking, lazy dial);
* requests are retried, cancelled and classified in two clients meant to agree;
* a command's steps fail one by one, and an error must not become a success;
* a goroutine turns stdin into the body of a request, between a client that waits for the
  answer and a primary that waits for the body;
* two goroutines and a timer race for one unbuffered channel;
* the right to move an LFS object is handed to the client and comes back with a later command, maybe
  altered, maybe in another session;
* locking and unlocking an LFS path are POSTs that are sent again when the answer is lost;
* with OpenSSH an identity is printed by one process and parsed by another.

The properties that make each part correct are those of its run in section 3.

## 2. Modules

The state of a module is the state of its part; each action is one operation, cut
where another goroutine can see the state in between. Payloads, log lines and message
texts are left out. Definitions named `X_Something` next to `X` are
mutants: what `X` would be with a plausible bug, used to show that the properties
notice it.

**SshdServer.** `main` and `shutter` are the program counters of `main`'s goroutine
and of `gracefulShutdown`'s, `conn[c]` that of connection `c` and its `handleConn`,
`nconn[c]` the server's end of its socket. Binding the socket, assigning
`s.listener`, setting `StatusReady`, accepting, `wg.Add` and `go` are separate steps,
because Shutdown runs between them. `handleConn` is
`HandleConnStarts`, the result of the connection's handler (`HandleReturns`,
`HandlePanics`) and its deferred calls in their order; the goroutine that closes the
socket is `CloseNconn`. A second signal, after `signal.Reset`, kills the process.

**SshdConnection.** `handle()` of one connection, with its session goroutines
(`sess[c]`), the keepalive goroutine (`ka`) and the counters. What a session does is
abstracted to how it ends: without an error, with an error of one of the classes
`trackError` tells apart, by a panic, or never. The handshake is a sequence of
calls of the auth callbacks, any of which may be a query; an authenticated connection
is one whose last answer the library accepted.

**SshdSession.** One session: the requests of the client, the replies, the command's
construction and execution and the order of what the client receives (`sent`). The
client may leave at any time, after which sends fail.

**UserAuth.** The credentials a client may try, the three callbacks, what the ssh
library does around them (the query cache, certificate checks, source-address, the
limit of attempts; marked external) and which command a session then builds for whom.

**Login.** Extends `UserAuth` by the other way in: OpenSSH asks one of the check commands about a
credential (`CheckCommand`), which prints lines with a forced command (`KeyLine`, `AuthorizedKeys`,
`AuthorizedPrincipals`); OpenSSH runs that of a matching line for whoever proves to hold the credential
(`Accept`, external), and gitlab-shell reads the identity from its arguments (`parseWho`, `New`). Text is
a sequence of words, so that an id of several words can do what it would do in a line. A login is in
one of the two worlds, chosen by `openssh` in `LoginInit`.

**GitalyCache**, **ConnectionPool.** `GetConnection` with its read lock, second look
under the write lock, dial and store. `ConnectionPool` is what callers may rely on:
each call, in one step, is given its key's only connection, creates it or fails.
`GitalyCache!ImplementsPool` is the refinement: a call is answered when it returns.

**InternalAPI.** One call through the old client (`client`, retryablehttp) or the new
one (`internal/clients/gitlab`). An attempt comes to an HTTP status, a network
error, a cancellation or a deadline; the result is a response, an `*APIError` with its
System flag, or another error. Which network errors are worth a retry is left open.
The call starts with its client: `oldBuilds` and `newBuilds` say for which configurations the two
packages build one, and `GetClientFails` is the error that `Config.HTTPClient` then keeps.

**TopologyRouting.** Requests share the lazily dialled client under its mutex, classify
with retries, and are sent through a copy of the HTTP client with the cell's host;
`Close` may run at any time.

**GitCommand.** One of the three Git commands from its arguments to its audit event:
every answer of `/allowed`, the transport chosen, and each way a step can fail.

**GitHTTP.** One push or fetch over HTTP, packet by packet: the client (`ClientSends`,
`ClientLeaves`...; external), the goroutine `readFromStdin` with the scanner's
read-ahead (`buf`), the pipe, and `Execute`, whose request may be answered, refused or
broken off at any time. `executeSSHRequest`, where the request reads stdin itself, is the
service "ssh". A chunk of pack data is one packet. What happens when a fetch needs an answer
in the middle of its negotiation depends on the primary and is left out.

**GitTransport.** Composes the two (`Cmd == INSTANCE GitCommand`, `Http == INSTANCE GitHTTP`). They meet in
three steps: `Start`, in which `StartCells` or `StartGeo` begins a conversation in the protocol the answer
asks for; `InfoRefs`; and `Returns`, in which the end of the conversation is the end of the command's
transport. The rest are steps of one side (`CmdStep`, `HttpStep`). All properties of the two
parts are stated here, over the state of both.

**LFSTransfer.** Sessions of git-lfs-transfer, or git-lfs-authenticate, on one repository: access check,
authentication, then the client's commands. Of an id and its token the model keeps what the MAC is of
(`IdData`); a client may present any id it was given, altered in its oid or garbled, with any token
(`Ids`, `Tokens`). `call[s]` is the request to the LFS API with the retries it has left. An attempt may
fail (`AttemptFails`), be served with its answer lost (`AnswerLost`), be served with an answer that does
not parse (`AnswerUnparsable`), or be answered; the API (`ApiAnswers`, `ApiDoes`; external) may refuse
anything.

**TwoFactorVerify.** `Execute`, its two goroutines, the context, and what the internal
API has accepted.

**TwoFactorSession.** Composes `SshdSession` with `TwoFactorVerify` as its command: while the command
is executed the session can only lose its client, goes on when `Execute` has returned
(`TwoFactorReturns`), and the goroutines that are left behind run on beside it.

How they fit together: `SshdServer!HandleReturns` stands for the end of
`SshdConnection` (whose property `HandleReturns` justifies the fairness
`SshdServer` assumes), a session goroutine of `SshdConnection` for an `SshdSession`,
its handshake for `UserAuth`, the command of a session for `GitTransport`, `LFSTransfer` or
`TwoFactorVerify`; `GitCommand`'s `/allowed` request is an `InternalAPI` call whose host
comes from `TopologyRouting`, its Gitaly call takes a connection from `GitalyCache`; `GitTransport` is
`GitCommand` together with the `GitHTTP` that its transports "cells" and "geo" are.

## 3. Runs

`TypeOK` documents the state of a module; it is proved where a module has it (section 6) and is
not checked by a run of its own. Deadlock is checked in every run: a state in which a module has finished has an
explicit stuttering action (`Terminated`, `Quiescent`, `Done`...).

| Run | Instance | Shows |
|---|---|---|
| `sshd_server` | 3 connections, FairSpec | `ClosedMeansDrained`: the status is Closed, and the process exits by itself, only after every accepted connection has run its last deferred call. `GraceRespected`: no connection is cut off before the grace period is over. `ShutdownStopsAccepting`. `ServingShutdownEnds`: a serving process told to shut down ends. `SocketsClosed`: no socket outlives its handler. |
| `sshd_connection` | 3 channels, 2 sessions at a time, 8 error classes, FairSpec | `SemaphoreExact`: no unit is lost or released twice, whatever fails, and a final wait that succeeds leaves no session. `ConnErrorJustified` and `NoMissedError`: the connection's SLI has an error only for a server-side failure or an authentication that did not recover, and misses none it waited for. `HandleReturns` and `KeepAliveEnds`, even when sessions hang. |
| `session_and_api` | up to 3 requests; 2fa_verify, and a command that is only its result; fairness of `TwoFactorSession`. Without a session: 3 attempts, 11 statuses, both clients with 16 configurations | Of a session: `EndsInOrder`: end of output, exit status, close, once each. `StatusMatchesError`. `ErrorHasCause`: no left-over error becomes the result. `EveryRequestAnswered`. Of 2fa_verify: `SuccessIsTrue`: success is shown only for the check the API accepted. `NothingSentAfterReturn`. `TwoFactorEnds`: its session ends although nobody answers and goroutines stay behind. Of a call: `OnlyTransientRetried`: only a network error, 429 or a 5xx other than 501 is followed by another attempt. `OutageIsSystemError`: the old client reports every outage as one. `SystemErrorJustified`: neither client reports anything else so, whatever the earlier attempts came to, but for the 429 of `internal_api_throttled`. |
| `login` | 2 attempts; Alice's credentials with at most two flaws, Bob's flawless; one principal | `LoginAcceptable`: nobody gets in, through gitlab-sshd or OpenSSH, but with a credential that is proved and acceptable by itself, whatever was queried before. `RunsAsProved`: a command runs as the identity that was proved, also when it went through a key line and an argument. `GroupCertConfined`: a group's certificate runs Git commands of its namespace only. |
| `gitaly_cache` | 3 calls, 3 keys, one without an address, FairSpec | `NoMapRace`, `NoConnectionLost`: no two calls dial for a key. `CallsReturn`. `ImplementsPool`: all calls for a key are given the same connection. |
| `topology_routing` | 2 requests, 2 cells, 2 attempts, FairSpec | `SentWhereAnswered`: a request goes to the cell its own last answer named, else to the default host. `OneOpenConnection`: nothing is dialled twice or left behind by Close. `EveryRequestSent`. |
| `git_transport` | all answers of `/allowed`; 4 pushes, 3 fetches, each also as "ssh"; FairSpec | `GitOnlyWhenAllowed`: nothing the client sends is read or leaves without the consent of the host that owns the repository, and a push or fetch of another cell's repository takes the transport to that cell or none. `NilMeansServed`: no failing step of either part is reported as success. `AuditedOnlyWhenServed`. `BodyInOrder`: the remote end receives what the client sent, in order and once, but for what the scanner had read beyond the place where it stopped. `ConversationEnds`: a client that waits with stdin open gets the command's result (no circular wait). `ReaderEnds`: no goroutine is left behind. |
| `lfs_transfer` | 2 sessions, 2 objects, 2 lock ids, 3 retries as in the code; symmetric in sessions, objects and ids | `TransferAuthorized`: an object is moved only as the API allowed it to somebody with the access, whatever id and token are presented where. `CredentialsNeedAccess`. `PresentIsTrue`: an object called present is stored, also when another session stored it meanwhile. `LockRepliesTrue`: what is said of locks is so, however often a request was repeated. |
| `sshd_server_signal` | 1 connection, FairSpec | violation, see 5 |
| `git_http_data` | as `git_transport` | violation, see 5 |
| `git_archive_cell` | as `git_transport` | violation, see 5 |
| `internal_api_throttled` | the calls of `session_and_api` | violation, see 5 |

`session_and_api` asks about two systems that share no variable. `MCSession` runs each while the other is in an
initial state (`CallAlone`, `SessionAlone`): a behaviour of both together is, for each, a behaviour of it alone
with stuttering, so nothing is missed.

Why the bounds are enough. Connections, channels, calls and requests interact only
through counters, locks and flags, so two of them show every pairwise race; three let
one wait while two others run, and three channels over two sessions is the least that
has both concurrent sessions and a full semaphore. The error classes
have one member for each early return of `trackError` and two neighbours that are
counted. The statuses have one of each class the clients tell apart, and its neighbour
where the classes touch (300 and 302, 400 and 401, 429, 500 and 501). Three attempts is
the first number with a retry of a retry. Three requests put two of any kind before or
after the command. Two auth attempts are the fewest for a query of one credential and
a signature with another; the pushes update, remove, do both or are not
pkt-lines, with up to two chunks of pack data, so that one can be lost and the other sent; queries that succeed do not count as attempts and are not
bounded. Two LFS sessions are one that was given an id and one that was not, or one that holds a lock
and one that wants it; two objects are the one an id is for and another; two lock ids let a path be
locked again after it was unlocked. The sets of sessions, objects and ids are symmetric: no
definition names a member of them. `MaxRequests`, `MaxAttempts`, `CallAttempts` and `MaxAuthTries` are bounds, of which the last
three are limits of the code with smaller values; `about` is one too: in a behaviour of `LFSTransfer`
the clients work on objects or on locks, which share no state in the code, and unlock ids that exist.

## 4. Fairness

Weak fairness is assumed only for steps the process itself owes: a goroutine that can
run is scheduled, a timer fires, a mutex that is free is taken, a request ends by
its timeout. Nothing is assumed of clients, sessions, users or Gitaly (but see `GitTransport`): a client may stay
for ever, a session may hang, nobody need answer a prompt. In `SshdServer` a
`handle()` owes its return only after its socket was closed, which is what
`SshdConnection!HandleReturns` shows; in `SshdConnection` the final wait ends by its
timeout. `GitalyCache` relies on dialling not to block (`grpc.NewClient` connects
lazily), `TopologyRouting` on the timeouts of its requests, `TwoFactorSession` on the 30 s context of
2fa_verify and on the session's own steps after `Execute`, which wait for no answer.
`GitTransport` is about a conversation, so it says what it expects of the other two: a Git client that
sends a pack closes stdin behind it (one that sends none keeps it open), and the remote end, or a broken
connection, answers a request whose body is complete (`Owed`); it need not answer any other. `/info/refs`
ends by an answer or an error.

## 5. Findings

* **A signal during startup is lost** (`SignalEndsProcess`). `serve` sets `StatusReady`
  unconditionally. If Shutdown has run before, it found no listener and did nothing, or
  its `StatusOnShutdown` is overwritten: the accept loop then fails on a closed listener
  for ever while the readiness probe answers 200.
* **Pack data is lost behind the flush** (`AllDataSent`). `readFromStdin` of a push scans stdin with a
  `bufio.Scanner`, which reads as much as there is, and then copies the pack data from
  stdin itself. What the scanner had read together with the flush is in neither. The
  test (`push_test.go:156`) hands over the flush and the data in separate reads.
* **Throttling counts as an outage** (`PolicyIsNoSystemError`). "Other 4xx responses
  (401/403/404/422/429) are expected policy responses" (`httpclient.go:178`), which
  "are expected and should not" count toward error SLIs (`gitlabnet.go:52`). retryablehttp retries 429 and,
  when it gives up, returns an error without the response; `checkResponse` makes it a system error. It is
  the only exception: `SystemErrorJustified` holds of every other call.
* **git-upload-archive of another cell's repository calls Gitaly** (`CellRoutedOverHTTP`), where "Gitaly
  is not directly reachable and SSH-over-HTTP must be used" (`accessverifier/client.go:167`). The other
  two commands ask `IsCellRouted`; `GitOnlyWhenAllowed` holds them to it.

Smaller observations met while modelling, without a run: `observeAuth` takes an accepted query for an
authenticated connection ("A successful attempt means the connection authenticated",
`connection.go:92`); a token is signed once per call and may
be older than its minute when a retry carries it (`clients/gitlab/auth.go:18`);
`ParseJSON` of the new client
builds `*APIError` without its System flag and status, so an outage seen through it counts
toward no SLI, although "The error semantics deliberately match those of the old client package"
(`clients/gitlab/response.go:13`, `NewError` against `OldError`); a push of removals closes the pipe at its first flush, so push
options behind it are not sent;
`buildHTTPSTransport` of the old client goes on with an empty pool when there is no system pool, and then
returns the error all the same (`httpclient.go:241`), while the new one does not, and reads past CA files
that are unreadable or hold no certificate, which the new one refuses, although the new one is said to
"replicate the behavior of client.NewHTTPClientWithOpts" (`clients/gitlab/transport.go:28`; `oldBuilds` against
`newBuilds`); `ListLocksVerify` does not look at the status, so a refusal in JSON is an empty list of
locks (`ListReplies`); `Lock`, whose answer was lost, is told of a conflict with the lock it has just
made; the clients of the LFS API have no timeout and no context, so a session whose client has left goes on
until the API answers; `gitlabLock.Unlock` dereferences the lock of the answer, which may be absent;
the OTP goroutine of 2fa_verify goes on to submit a blank OTP after it has
reported it as an error (`twofactorverify.go:53`), unless the context is cancelled first.

## 6. Proofs

Every invariant and every action property of a passing run is a theorem, for every value of the
constants. The argument is the same in all modules: an inductive invariant `IInv` holds (`Invariance`),
was checked by TLC before it was proved, and implies the properties. Eight modules hold the proofs;
two of them extend, and prove, a second component.

| Proof module | Components | Assumptions on the constants |
|---|---|---|
| `SshdServerProofs` | SshdServer | `ConnsAssumption`: finitely many connections |
| `SshdConnectionProofs` | SshdConnection | `ConnectionAssumption`: finitely many channels, a natural limit, errors of the modelled classes |
| `SshdSessionProofs` | SshdSession, TwoFactorVerify, TwoFactorSession | `SessionAssumption`: a natural number of requests |
| `LoginProofs` | UserAuth, Login | `AuthAssumption`: credentials are keys or certificates, at least one attempt |
| `GitalyCacheProofs` | GitalyCache, ConnectionPool | `CacheAssumption`: finitely many calls |
| `TopologyRoutingProofs` | TopologyRouting, InternalAPI | `RoutingAssumption`, `AddressAssumption`: an address is no error code; `APIAssumption`: at least one attempt, statuses in 100..599 |
| `GitTransportProofs` | GitTransport, GitCommand, GitHTTP | `HostAssumption`: the two hosts differ, and from no host; `ConversationAssumption`: clients send packets |
| `LFSTransferProofs` | LFSTransfer | `RetryAssumption`: a natural number of retries; `NoneAssumption`: an id is told from its absence and from a garbled one |

* **Server.** `ClosedMeansDrained` is not inductive: it needs that the wait group is
  exactly the number of goroutines that will still call `Done`, and the gauge the number
  that will call `Dec` (`CountersExact`), that only the end of `wg.Wait` leads to
  `StatusClosed` (`ClosedInv`), and that a connection between Accept and
  its goroutine is held by `serve` itself, which is then not waiting (`HeldInv`).
  `ListenerInv` records what Shutdown leaves behind, `SocketInv` who can have closed a socket. From
  these: `TypeCorrect`, `Drained`, `Grace` and the action property `StopsAccepting`.
* **Connection.** `SemaphoreExact` is inductive with the phases of `handle()` (`PhaseInv`).
  The SLI properties need to know where a session's error is between its return and the flag
  (`FaultInv`: once a session has released its unit, a server-side error of it has been
  stored) and that nothing after the handshake clears the flag (`AuthInv`). From these:
  `TypeCorrect`, `Semaphore`, `Drained`, `ErrorJustified`, `ErrorNotMissed`.
* **Session.** The properties speak of the end of a session only, so `IInv` says what a client that is
  still there has received at every point: replies and errors, then as much of the ending as `handle()` has
  got to (`SentInv`, with `Ending` a function of the program counter and the error). One reply is
  added for every request that is counted (`ReplyInv`). `ErrInv` keeps the loop's errors from
  outliving a command and the command's error in step with its status. From these: `TypeCorrect`, `Ordered`,
  `StatusAgrees`, `Caused`, `Answered`.
* **Two-factor verification.** What was accepted was asked for, what a goroutine is about to send was
  accepted, and a command that returned has cancelled its context (`TwoFactorInv`). From these:
  `SuccessTrue`, the action property `SilentAfterReturn` and `TwoFactorTypeCorrect`. The composition implements
  both of its parts (`SessionIsSession`, `CommandIsTwoFactor`), so their theorems are about it too.
* **Login.** The heart is that an answer the library remembers is one the callback may give now
  (`CacheInv`), so that what opened a connection was granted to the credential that was proved, not to one
  that was only queried (`OpenInv`). For OpenSSH the identity is followed from the line that was
  printed (`LineInv`) through the forced command to `parseWho` (`ShellInv`, with the lemma that only the
  last argument names somebody). From these: `Admission`, `Identified`, `Confined`.
* **Cache.** The locks exclude each other and match the program counters (`LockInv`); a
  call that dials still finds its key empty (`MissInv`); what was returned or dialled is in
  the map (`ResultInv`, `DialInv`). From these: `MapNotRaced`, `NothingLost`, `Agreement`, and
  `Refinement`: every step of `GitalyCache` is a step of `ConnectionPool` or a stutter.
* **Routing.** A request that is being resolved has attempts left and no cell (`ResolveInv`), and its
  address is always what its own last answer makes of it (`AddressInv`). From these: `Typed`,
  `Routed`, `OneConnection`.
* **Internal API.** All attempts but the last were worth another, the last one too while another is to come,
  and a call stops at a status worth another only when no attempt is left (`AttemptsInv`); a call that is over has the verdict on its last attempt (`ResultInv`). What remains is
  about the operators alone: which outcomes `OldError` and `NewError` blame on the system. From these:
  `RetriedOnlyTransient`, `OutagesReported`, `AlarmsJustified`, the last with the exception of a call that was
  throttled to the end (`GaveUpThrottled`).
* **Git transport.** The composition implements each of its parts (`ImplementsHttp`, `ImplementsCommand`),
  so what concerns one part is proved of it alone. Of the conversation (`HttpInvariance`): the scanner's buffer
  is the piece of the input between what it returned and what was read (`ScanInv`), and the body is
  a prefix of the input followed, after a gap only a push can have, by what stdin gave (`CopyInv`,
  `Shape`); while the request reads, body and gap together are all that was read. This gives
  `Ordered`, for inputs of any length and any portions, and `FetchUnbroken`. Of the command
  (`CommandInvariance`): whoever has got past the access check was granted it. `MeetInv` ties the two
  program counters and results together. From these: `Allowed`, for all three commands what was granted and
  for pushes and fetches which way they take, `Served`, `Audited`.
* **LFS.** Every id that was signed is an offer to a session that had the access for it
  (`IssuedInv`); a request under way is what the commands let through (`CallInv`), so that retries and lost
  answers need no history. A reply stays true because the API's state only moves one
  way (`ServerStep`: objects are stored, locks made, a lock that is gone stays so). From these: `Authorized`,
  `AccessNeeded`, `PresentStored`, `LocksTrue`.

Only model-checked: the liveness properties (`ServingShutdownEnds`, `SocketsClosed`, `HandleReturns`,
`KeepAliveEnds`, `CallsReturn`, `EveryRequestSent`, `ConversationEnds`, `ReaderEnds`, `TwoFactorEnds`), since
fairness is out of the prover's reach, and the four violations of section 5.

## 7. Not modelled

* Output and parsing without state: logging, metrics beyond the counters above, console formatting,
  environment, the reading of the configuration and secret files.
* What only decides whether a connection comes about: TLS, Unix sockets, the PROXY protocol, the
  lists of algorithms and host keys of `server_config.go`.
* Details of modelled code. Of GSSAPI only the login it ends in: the security context and the MIC are the
  library's. A value with a newline in a key line (`validate`) comes from neither the API nor OpenSSH's
  configuration. An LFS batch answer that leaves out an object because of an error of its own: the
  client's `BatchObject` has no field for it, so the upload of such an object would be called present; the model
  assumes that the API offers whatever it lacks. Object ids of a length other than 40 in `IsRefRemoval`.
* Discover, health check, personal access tokens and recovery codes: one question, one request, whose
  behaviour is InternalAPI's. No two steps or actors of them can get in each other's way.
* `main` of the short-lived binaries: exit codes and setup. The test servers.

## 8. Plan

The components of the plan are modelled and the safety properties of the runs are proved. What is
left, in this order:

1. Safety facts on which the liveness properties rest, in the form the prover can handle: that
   in no reachable state of `SshdServer`, `SshdConnection` and `GitTransport` everybody waits for somebody
   who has ended.
2. When `AllDataSent` does hold: a push whose scanner had read nothing beyond its flush.
3. `SshdConnection` with `SshdSession` in place of its abstract session, and `SshdServer` with
   `SshdConnection` in place of `HandleReturns`, as refinements.

Worth modelling later: the parsing of the trusted CA file against a reference definition.

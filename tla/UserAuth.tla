------------------------------ MODULE UserAuth ------------------------------
(***************************************************************************)
(* Who a gitlab-sshd session runs as and what it may run: the auth         *)
(* callbacks of internal/sshd/server_config.go, the permissions they hand  *)
(* to the SSH library, the session that is built from them, and the        *)
(* dispatch of its command line (cmd/gitlab-shell/command).  A client may  *)
(* ask about any number of credentials before it proves that it holds one; *)
(* the library remembers the answer about the last one asked about.        *)
(***************************************************************************)
EXTENDS Naturals

CONSTANTS
  Credentials,   \* the keys and certificates clients present
  MaxAuthTries   \* the failed attempts after which the library hangs up

(* A credential.  id is the GitLab user behind it; held says that the      *)
(* client has the private key.  Of a key: whether it is DSA and whether    *)
(* the internal API knows it.  Of a certificate: its type, whether it is   *)
(* in force (dates, signature, known critical options), the principal it   *)
(* is limited to or "any", who signed it, whether its KeyId has the form   *)
(* of a username and whether its source-address restriction, if there is   *)
(* one, admits the client.                                                 *)
KeyRecords == [kind: {"key"}, id: {"alice", "bob"}, held: BOOLEAN,
               dsa: BOOLEAN, registered: BOOLEAN]

CertRecords == [kind: {"cert"}, id: {"alice", "bob"}, held: BOOLEAN,
                type: {"user", "host"}, inForce: BOOLEAN, principal: {"any", "git", "root"},
                ca: {"local", "group", "unknown"}, keyIdOk: BOOLEAN, sourceOk: BOOLEAN]

ASSUME AuthAssumption ==
  /\ Credentials \subseteq KeyRecords \cup CertRecords
  /\ MaxAuthTries \in Nat \ {0}

(* The SSH user of an auth request; "git" is the configured one. *)
SSHUsers == {"git", "root"}
ConfiguredUser == "git"

(* The namespace that configured the group's CA. *)
GroupNamespace == "group"

GitCommands == {"git-lfs-authenticate", "git-upload-pack", "git-receive-pack",
                "git-upload-archive"}

(* What a command line parses to: a command type, "discover" for an empty  *)
(* one, "unknown" for any other first word, or an error.                   *)
CommandTypes == GitCommands \cup {"discover", "2fa_recovery_codes", "2fa_verify",
                  "git-lfs-transfer", "personal_access_token", "unknown", "unparsable"}

(* An extension that is not there. *)
Unset == "unset"

(* Permissions: the extensions, and whether CriticalOptions holds a        *)
(* source-address the client is not in.                                    *)
Failed == [ok |-> FALSE]
Permissions(keyID, krb5, username, namespace, sourceOk) ==
  [ok |-> TRUE, keyID |-> keyID, krb5principal |-> krb5, username |-> username,
   namespace |-> namespace, sourceOk |-> sourceOk]

VARIABLES
  certFeature,   \* FF_GITLAB_SHELL_SSH_CERTIFICATES is "1"
  gssapi,        \* GSSAPI is enabled and its library loaded
  pureSSH, pat,  \* LFSConfig.PureSSHProtocol and PATConfig.Enabled
  pc,            \* "auth", "open" or "closed"
  failures,      \* the failed attempts
  cache,         \* the library's: the last credential asked about and its result
  perms,         \* sconn.Permissions
  proved,        \* how the client authenticated: SSH user, credential or principal
  ran            \* the last command that was built: its type, identity and namespace

config == <<certFeature, gssapi, pureSSH, pat>>
vars == <<config, pc, failures, cache, perms, proved, ran>>

None == [none |-> TRUE]

Init ==
  /\ certFeature \in BOOLEAN /\ gssapi \in BOOLEAN
  /\ pureSSH \in BOOLEAN /\ pat \in BOOLEAN
  /\ pc = "auth"
  /\ failures = 0
  /\ cache = None
  /\ perms = Failed
  /\ proved = None
  /\ ran = None

-----------------------------------------------------------------------------
(* The callbacks, as the set of their possible results.  The internal API  *)
(* may fail whenever it is asked.                                          *)

(* authorizedkeys.Client.GetByKey: the key ids it may find. *)
KeyIDs(c) == IF c.registered THEN {c.id} ELSE {}

(* authorizedcerts.Client.GetByKey: the namespaces it may find. *)
CertNamespaces(c) == IF c.ca = "group" THEN {GroupNamespace} ELSE {}

handleUserKey(user, c) ==
  {Failed} \cup IF user = ConfiguredUser /\ ~c.dsa
                  THEN {Permissions(id, Unset, Unset, Unset, TRUE) : id \in KeyIDs(c)} ELSE {}

buildCertPermissions(c, namespace) == Permissions(Unset, Unset, c.id, namespace, c.sourceOk)

CheckCert(user, c) == c.inForce /\ c.principal \in {"any", user}

(* A certificate of a locally trusted CA needs no API call; any other is   *)
(* looked up with its signing key, if the feature is on.                   *)
handleUserCertificate(user, c) ==
  IF c.type # "user" \/ ~CheckCert(user, c) THEN {Failed}
  ELSE IF c.ca = "local"
    THEN {IF c.keyIdOk THEN buildCertPermissions(c, Unset) ELSE Failed}
    ELSE {Failed} \cup IF certFeature
                         THEN {buildCertPermissions(c, ns) : ns \in CertNamespaces(c)} ELSE {}

publicKeyCallback(user, c) ==
  IF c.kind = "cert" THEN handleUserCertificate(user, c) ELSE handleUserKey(user, c)

AllowLogin(user, principal) ==
  IF user = ConfiguredUser THEN Permissions(Unset, principal, Unset, Unset, TRUE) ELSE Failed

(* The library enforces source-address on what a callback returned. *)
Enforced(p) == IF p.ok /\ ~p.sourceOk THEN Failed ELSE p

-----------------------------------------------------------------------------
(* The library's handshake. *)

Fail ==
  /\ failures' = failures + 1
  /\ pc' = IF failures' >= MaxAuthTries THEN "closed" ELSE "auth"

(* The result for a credential: the remembered one if it was the last      *)
(* asked about, else the callback's.                                       *)
Result(user, c) ==
  IF cache # None /\ cache.user = user /\ cache.cred = c THEN {cache.result}
  ELSE {Enforced(p) : p \in publicKeyCallback(user, c)}

(* Asked whether a credential would do: nothing is proved yet. *)
Query(user, c) ==
  /\ pc = "auth"
  /\ \E p \in Result(user, c) :
       /\ cache' = [user |-> user, cred |-> c, result |-> p]
       /\ IF p.ok THEN UNCHANGED <<pc, failures>> ELSE Fail
  /\ UNCHANGED <<config, perms, proved, ran>>

(* A signed request: the client holds the private key. *)
Sign(user, c) ==
  /\ pc = "auth" /\ c.held
  /\ \E p \in Result(user, c) :
       \/ /\ p.ok
          /\ pc' = "open" /\ perms' = p /\ proved' = [user |-> user, cred |-> c]
          /\ cache' = None
          /\ UNCHANGED failures
       \/ /\ ~p.ok /\ Fail
          /\ cache' = [user |-> user, cred |-> c, result |-> p]
          /\ UNCHANGED <<perms, proved>>
  /\ UNCHANGED <<config, ran>>

(* GSSAPI: the library has established the principal, a GitLab user's. *)
GSSAPILogin(user, principal) ==
  /\ pc = "auth" /\ gssapi
  /\ LET p == AllowLogin(user, principal) IN
       \/ /\ p.ok
          /\ pc' = "open" /\ perms' = p
          /\ proved' = [user |-> user, cred |-> [kind |-> "krb5", id |-> principal]]
          /\ cache' = None
          /\ UNCHANGED failures
       \/ ~p.ok /\ Fail /\ UNCHANGED <<cache, perms, proved>>
  /\ UNCHANGED <<config, ran>>

-----------------------------------------------------------------------------
(* A session's command. *)

(* Build: the types that have a command under this configuration. *)
Build(type) ==
  \/ type \in GitCommands \cup {"discover", "2fa_recovery_codes", "2fa_verify"}
  \/ type = "git-lfs-transfer" /\ pureSSH
  \/ type = "personal_access_token" /\ pat

(* Mutant: a namespace does not restrict the commands. *)
NewWithUsername_AnyCommand(type, namespace) == Build(type)

(* NewWithUsername: with a namespace only the Git commands. *)
NewWithUsername(type, namespace) ==
  Build(type) /\ (namespace # Unset => type \in GitCommands)

(* getCommand's choice, in its order. *)
Identity(p) ==
  IF p.krb5principal # Unset THEN [as |-> "krb5", id |-> p.krb5principal]
  ELSE IF p.username # Unset THEN [as |-> "cert", id |-> p.username]
  ELSE [as |-> "key", id |-> p.keyID]

(* The constructor getCommand calls finds a command. *)
Built(type) ==
  /\ type # "unparsable"
  /\ Identity(perms).as = "cert" => NewWithUsername(type, perms.namespace)
  /\ Identity(perms).as # "cert" => Build(type)

(* The command is built: the session has its own copy of the extensions    *)
(* and the namespace goes into the command's environment.                  *)
getCommand(type) ==
  /\ pc = "open" /\ Built(type)
  /\ ran' = [type |-> type, who |-> Identity(perms), namespace |-> perms.namespace]
  /\ UNCHANGED <<config, pc, failures, cache, perms, proved>>

(* No command: a parse error or disallowedcommand.Error. *)
Refused(type) ==
  /\ pc = "open" /\ ~Built(type)
  /\ ran' = None
  /\ UNCHANGED <<config, pc, failures, cache, perms, proved>>

Closed == pc = "closed" /\ UNCHANGED vars

Next ==
  \/ \E u \in SSHUsers, c \in Credentials : Query(u, c) \/ Sign(u, c)
  \/ \E u \in SSHUsers, id \in {"alice", "bob"} : GSSAPILogin(u, id)
  \/ \E type \in CommandTypes : getCommand(type) \/ Refused(type)
  \/ Closed

Spec == Init /\ [][Next]_vars

-----------------------------------------------------------------------------
(* Properties. *)

(* A connection opens only for a credential whose private key the client   *)
(* has, and that is acceptable by itself, whatever was asked about before  *)
(* it: a registered key that is not DSA, for the configured user; a user   *)
(* certificate in force, for its principal, from where it is valid, of a   *)
(* locally trusted CA and with a username for a KeyId, or of a group's CA  *)
(* while the feature is on; a principal, with GSSAPI on                    *)
(* (publicKeyCallback, AllowLogin and the permissions they return).        *)
OnlyAcceptable ==
  pc = "open" => LET c == proved.cred IN
    \/ /\ c.kind = "key" /\ c.held /\ c.registered /\ ~c.dsa
       /\ proved.user = ConfiguredUser
    \/ /\ c.kind = "cert" /\ c.held /\ c.type = "user" /\ c.inForce /\ c.sourceOk
       /\ c.principal \in {"any", proved.user}
       /\ (c.ca = "local" /\ c.keyIdOk) \/ (c.ca = "group" /\ certFeature)
    \/ c.kind = "krb5" /\ gssapi /\ proved.user = ConfiguredUser

(* A command runs as the identity of the credential the client proved,     *)
(* never as that of one it only asked about, and by the API parameter that *)
(* belongs to its kind: key id, username or principal (handleConn's        *)
(* session fields and getCommand; with OpenSSH the key line, ToString, and *)
(* parseWho, which read each other's text).                                *)
RunsAsProved ==
  ran # None => ran.who = [as |-> proved.cred.kind, id |-> proved.cred.id]

(* A client that authenticated with a group's certificate runs Git         *)
(* commands only, each carrying the group's namespace to the access check; *)
(* no other client is restricted to a namespace (handleUserCertificate,    *)
(* the session's namespace, NewWithUsername).                              *)
GroupCertConfined ==
  ran # None =>
    IF proved.cred.kind = "cert" /\ proved.cred.ca = "group"
      THEN ran.namespace = GroupNamespace /\ ran.type \in GitCommands
      ELSE ran.namespace = Unset
=============================================================================

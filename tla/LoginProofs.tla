---------------------------- MODULE LoginProofs ----------------------------
(***************************************************************************)
(* Who gets in, as whom a command runs and what it may run, for any set of *)
(* credentials, any principals and any number of attempts.                 *)
(***************************************************************************)
EXTENDS Login, TLAPS

(* What the callback and the library's enforcement may make of a           *)
(* credential that is presented afresh.                                    *)
FreshResults(user, c) == {Enforced(p) : p \in publicKeyCallback(user, c)}

(* The permissions p that a login as user with c may end with. *)
GrantedKey(user, c, p) ==
  /\ c.kind = "key" /\ c.registered /\ ~c.dsa /\ user = ConfiguredUser
  /\ p = Permissions(c.id, Unset, Unset, Unset, TRUE)

GrantedCert(user, c, p) ==
  /\ c.kind = "cert" /\ c.type = "user" /\ c.inForce /\ c.sourceOk
  /\ c.principal \in {"any", user}
  /\ \/ c.ca = "local" /\ c.keyIdOk /\ p = Permissions(Unset, Unset, c.id, Unset, TRUE)
     \/ c.ca = "group" /\ certFeature /\ p = Permissions(Unset, Unset, c.id, GroupNamespace, TRUE)

GrantedPrincipal(user, c, p) ==
  /\ c.kind = "krb5" /\ c.id \in {"alice", "bob"} /\ gssapi /\ user = ConfiguredUser
  /\ p = Permissions(Unset, c.id, Unset, Unset, TRUE)

(* The library remembers what it was really answered. *)
CacheInv == cache # None => cache.result \in FreshResults(cache.user, cache.cred)

(* An open connection has the permissions of the credential it proved. *)
OpenInv ==
  pc = "open" =>
    \/ /\ proved.cred \in Credentials /\ proved.cred.held
       /\ \/ GrantedKey(proved.user, proved.cred, perms)
          \/ GrantedCert(proved.user, proved.cred, perms)
    \/ GrantedPrincipal(proved.user, proved.cred, perms)

(* What OpenSSH may accept a credential for. *)
Acceptable(user, c) ==
  /\ c \in Credentials
  /\ \/ c.kind = "key" /\ c.registered /\ user = ConfiguredUser
     \/ c.kind = "cert" /\ c.ca = "local"

PrefixOf(c) == IF c.kind = "key" THEN "key" ELSE "username"

(* A line that was printed names the credential that was asked about. *)
LineInv ==
  openssh = "match" => \A line \in lines :
    /\ Acceptable(asked.user, asked.cred)
    /\ asked.cred.kind = "cert" => line.value \in Principals
    /\ line.command = <<GitlabShell, Word(PrefixOf(asked.cred), asked.cred.id)>>

(* The identity that gitlab-shell reads is the proved credential's. *)
ShellInv ==
  /\ openssh \in {"shell", "closed"} =>
       /\ Acceptable(proved.user, proved.cred) /\ proved.cred.held
       /\ proved.cred.kind = "cert" => proved.cred.principal \in Principals
  /\ openssh = "shell" => parseWho(args) = [as |-> proved.cred.kind, id |-> proved.cred.id]

(* Each of the two ways leaves the other alone, and a command is the last  *)
(* thing that happens on it.                                               *)
WayInv ==
  /\ pc \in {"auth", "open", "closed"}
  /\ openssh \in {"off", "check", "match", "shell", "closed"}
  /\ openssh # "off" => pc = "auth"
  /\ ran # None => pc = "open" \/ openssh = "closed"

IInv == WayInv /\ CacheInv /\ OpenInv /\ LineInv /\ ShellInv /\ RunsAsProved /\ GroupCertConfined

-----------------------------------------------------------------------------
(* What is accepted afresh has the permissions that belong to it. *)
LEMMA FreshGrants ==
  ASSUME NEW user, NEW c \in Credentials, NEW p \in FreshResults(user, c), p.ok
  PROVE  GrantedKey(user, c, p) \/ GrantedCert(user, c, p)
  <1>1. PICK q \in publicKeyCallback(user, c) : p = Enforced(q)
    BY DEF FreshResults
  <1>2. q.ok /\ q.sourceOk /\ p = q
    BY <1>1 DEF Enforced, Failed
  <1>3. CASE c \in KeyRecords
    <2>1. c.kind = "key" /\ q \in handleUserKey(user, c) /\ q # Failed
      BY <1>1, <1>2, <1>3 DEF KeyRecords, publicKeyCallback, Failed
    <2> QED BY <1>2, <2>1 DEF handleUserKey, KeyIDs, GrantedKey
  <1>4. CASE c \in CertRecords
    <2>1. c.kind = "cert" /\ q \in handleUserCertificate(user, c) /\ q # Failed
      BY <1>1, <1>2, <1>4 DEF CertRecords, publicKeyCallback, Failed
    <2>2. CASE c.ca = "local"
      BY <1>2, <2>1, <2>2 DEF handleUserCertificate, CheckCert, buildCertPermissions, Permissions,
         GrantedCert
    <2>3. CASE c.ca # "local"
      BY <1>2, <2>1, <2>3 DEF handleUserCertificate, CheckCert, buildCertPermissions, Permissions,
         CertNamespaces, GrantedCert
    <2> QED BY <2>2, <2>3
  <1> QED BY <1>3, <1>4, AuthAssumption

(* A remembered answer is one the callback may give. *)
LEMMA ResultIsFresh ==
  ASSUME CacheInv, NEW user, NEW c, NEW p \in Result(user, c)
  PROVE  p \in FreshResults(user, c)
  BY DEF CacheInv, Result, FreshResults

-----------------------------------------------------------------------------
(* The forced command, from the line to the identity that is read back. *)

(* A command of one word more than gitlab-shell. *)
LEMMA OneWord == ASSUME NEW g, NEW v, NEW w PROVE <<g, v>> \o Tail(<<w>>) = <<g, v>>
  OBVIOUS

(* Where only the last of the arguments names somebody, it is that one. *)
LEMMA LastNames ==
  ASSUME NEW a, Len(a) \in Nat \ {0}, \A i \in 1..Len(a) : Who(a[i]) # None <=> i = Len(a)
  PROVE  parseWho(a) = Who(a[Len(a)])
  <1>1. {i \in 1..Len(a) : Who(a[i]) # None} = {Len(a)}
    OBVIOUS
  <1>2. SelectInSeq(a, LAMBDA x : Who(x) # None) = Len(a)
    BY <1>1 DEF SelectInSeq, Min
  <1> QED BY <1>2 DEF parseWho

(* Both ways of running the command give the same identity. *)
LEMMA WhoReadBack ==
  ASSUME NEW c, c.kind \in {"key", "cert"},
         NEW a \in ForcedCommandArgs(<<GitlabShell, Word(PrefixOf(c), c.id)>>)
  PROVE  parseWho(a) = [as |-> c.kind, id |-> c.id]
  <1>1. PICK command : command = <<GitlabShell, Word(PrefixOf(c), c.id)>>
    OBVIOUS
  <1>2. Who(command) = [as |-> c.kind, id |-> c.id] /\ Who(<<command[2]>>) = Who(command)
    BY <1>1 DEF Who, Last, Word, PrefixOf
  <1>3. [as |-> c.kind, id |-> c.id] # None
    BY DEF None
  <1>4. Who(<<Word("-c", Unset)>>) = None
    BY DEF Who, Last, Word
  <1>5. CASE a = [i \in 1..(Len(command) - 1) |-> <<command[i + 1]>>]
    <2>1. Len(a) = 1 /\ a[1] = <<command[2]>>
      BY <1>1, <1>5
    <2>2. \A i \in 1..Len(a) : Who(a[i]) # None <=> i = Len(a)
      BY <1>2, <1>3, <2>1
    <2>3. parseWho(a) = Who(a[1])
      BY <2>1, <2>2, LastNames
    <2> QED BY <1>2, <2>1, <2>3
  <1>6. CASE a = << <<Word("-c", Unset)>>, command >>
    <2>1. a[1] = <<Word("-c", Unset)>> /\ a[2] = command
      BY <1>6
    <2>2. Len(a) = 2
      BY <1>6
    <2>3. \A i \in 1..Len(a) : Who(a[i]) # None <=> i = Len(a)
      BY <1>2, <1>3, <1>4, <2>1, <2>2
    <2>4. Len(a) \in Nat \ {0}
      BY <2>2
    <2>5. parseWho(a) = Who(a[Len(a)])
      BY <2>3, <2>4, LastNames, Zenon
    <2> QED BY <1>2, <2>1, <2>2, <2>5
  <1> QED BY <1>1, <1>5, <1>6 DEF ForcedCommandArgs

-----------------------------------------------------------------------------
(* gitlab-sshd: the handshake, then commands. *)

(* The callbacks depend on the configuration only. *)
LEMMA FreshKept ==
  ASSUME UNCHANGED certFeature, NEW user, NEW c
  PROVE  FreshResults(user, c)' = FreshResults(user, c)
  BY DEF FreshResults, publicKeyCallback, handleUserCertificate, handleUserKey

(* A query remembers an answer and proves nothing. *)
LEMMA QueryInv ==
  ASSUME IInv, openssh = "off", UNCHANGED opensshVars,
         NEW user, NEW c \in Credentials, Query(user, c)
  PROVE  IInv'
  <1>1. PICK p \in Result(user, c) : /\ cache' = [user |-> user, cred |-> c, result |-> p]
                                     /\ IF p.ok THEN UNCHANGED <<pc, failures>> ELSE Fail
    BY DEF Query
  <1>2. /\ pc = "auth" /\ pc' \in {"auth", "closed"} /\ openssh' = "off" /\ ran = None
        /\ UNCHANGED <<certFeature, gssapi, proved, perms, ran>>
    BY <1>1 DEF Query, Fail, config, opensshVars, IInv, WayInv
  <1>3. CacheInv'
    <2>1. p \in FreshResults(user, c)
      BY ResultIsFresh DEF IInv
    <2>2. FreshResults(user, c)' = FreshResults(user, c)
      BY <1>2, FreshKept
    <2> QED BY <1>1, <2>1, <2>2 DEF CacheInv
  <1> QED BY <1>2, <1>3 DEF IInv, WayInv, OpenInv, LineInv, ShellInv, RunsAsProved, GroupCertConfined

(* A signature opens the connection with the permissions that belong to    *)
(* the credential, or fails like a query.                                  *)
LEMMA SignInv ==
  ASSUME IInv, openssh = "off", UNCHANGED opensshVars,
         NEW user, NEW c \in Credentials, Sign(user, c)
  PROVE  IInv'
  <1>1. PICK p \in Result(user, c) :
          \/ /\ p.ok
             /\ pc' = "open" /\ perms' = p /\ proved' = [user |-> user, cred |-> c]
             /\ cache' = None
             /\ UNCHANGED failures
          \/ /\ ~p.ok /\ Fail
             /\ cache' = [user |-> user, cred |-> c, result |-> p]
             /\ UNCHANGED <<perms, proved>>
    BY DEF Sign
  <1>2. /\ pc = "auth" /\ c.held /\ openssh' = "off" /\ ran = None
        /\ UNCHANGED <<certFeature, gssapi, ran>>
    BY DEF Sign, config, opensshVars, IInv, WayInv
  <1>3. p \in FreshResults(user, c)
    BY ResultIsFresh DEF IInv
  <1>4. CASE p.ok
    <2>1. /\ pc' = "open" /\ perms' = p /\ proved' = [user |-> user, cred |-> c] /\ cache' = None
      BY <1>1, <1>4
    <2>2. GrantedKey(user, c, p) \/ GrantedCert(user, c, p)
      BY <1>3, <1>4, FreshGrants
    <2>3. OpenInv'
      BY <1>2, <2>1, <2>2 DEF OpenInv, GrantedKey, GrantedCert
    <2> QED BY <1>2, <2>1, <2>3 DEF IInv, WayInv, CacheInv, LineInv, ShellInv, RunsAsProved,
               GroupCertConfined
  <1>5. CASE ~p.ok
    <2>1. /\ pc' \in {"auth", "closed"} /\ cache' = [user |-> user, cred |-> c, result |-> p]
          /\ UNCHANGED <<perms, proved>>
      BY <1>1, <1>5 DEF Fail
    <2>2. CacheInv'
      BY <1>2, <1>3, <2>1, FreshKept DEF CacheInv
    <2> QED BY <1>2, <2>1, <2>2 DEF IInv, WayInv, OpenInv, LineInv, ShellInv, RunsAsProved,
               GroupCertConfined
  <1> QED BY <1>4, <1>5

(* GSSAPI opens the connection for the principal. *)
LEMMA GSSAPIInv ==
  ASSUME IInv, openssh = "off", UNCHANGED opensshVars,
         NEW user, NEW id \in {"alice", "bob"}, GSSAPILogin(user, id)
  PROVE  IInv'
  <1>1. PICK p : p = AllowLogin(user, id)
    OBVIOUS
  <1>2. /\ pc = "auth" /\ gssapi /\ openssh' = "off" /\ ran = None
        /\ UNCHANGED <<certFeature, gssapi, ran>>
    BY DEF GSSAPILogin, config, opensshVars, IInv, WayInv
  <1>3. CASE user = ConfiguredUser
    <2>1. p = Permissions(Unset, id, Unset, Unset, TRUE) /\ p.ok
      BY <1>1, <1>3 DEF AllowLogin, Permissions
    <2>2. /\ pc' = "open" /\ perms' = p /\ cache' = None
          /\ proved' = [user |-> user, cred |-> [kind |-> "krb5", id |-> id]]
      BY <1>1, <2>1 DEF GSSAPILogin
    <2>3. OpenInv'
      BY <1>2, <1>3, <2>1, <2>2 DEF OpenInv, GrantedPrincipal
    <2> QED BY <1>2, <2>2, <2>3 DEF IInv, WayInv, CacheInv, LineInv, ShellInv, RunsAsProved,
               GroupCertConfined
  <1>4. CASE user # ConfiguredUser
    <2>1. ~p.ok
      BY <1>1, <1>4 DEF AllowLogin, Failed
    <2>2. pc' \in {"auth", "closed"} /\ UNCHANGED <<cache, perms, proved>>
      BY <1>1, <2>1 DEF GSSAPILogin, Fail
    <2>3. CacheInv'
      BY <1>2, <2>2, FreshKept DEF IInv, CacheInv
    <2> QED BY <1>2, <2>2, <2>3 DEF IInv, WayInv, OpenInv, LineInv, ShellInv, RunsAsProved,
               GroupCertConfined
  <1> QED BY <1>3, <1>4

(* The identity and the commands that the permissions stand for. *)
LEMMA CommandFits ==
  ASSUME IInv, pc = "open", NEW type, Built(type)
  PROVE  /\ Identity(perms) = [as |-> proved.cred.kind, id |-> proved.cred.id]
         /\ IF proved.cred.kind = "cert" /\ proved.cred.ca = "group"
              THEN perms.namespace = GroupNamespace /\ type \in GitCommands
              ELSE perms.namespace = Unset
  <1> USE DEF Identity, Unset, Permissions
  <1>1. CASE GrantedKey(proved.user, proved.cred, perms)
    BY <1>1 DEF GrantedKey
  <1>2. CASE proved.cred \in Credentials /\ GrantedCert(proved.user, proved.cred, perms)
    <2>1. proved.cred \in CertRecords
      BY <1>2, AuthAssumption DEF GrantedCert, KeyRecords
    <2>2. proved.cred.id # Unset
      BY <2>1 DEF CertRecords
    <2> QED BY <1>2, <2>2 DEF GrantedCert, Built, NewWithUsername, GroupNamespace
  <1>3. CASE GrantedPrincipal(proved.user, proved.cred, perms)
    BY <1>3 DEF GrantedPrincipal
  <1> QED BY <1>1, <1>2, <1>3 DEF IInv, OpenInv

(* Commands in gitlab-sshd. *)
LEMMA CommandInv ==
  ASSUME IInv, openssh = "off", UNCHANGED opensshVars, NEW type, getCommand(type) \/ Refused(type)
  PROVE  IInv'
  <1>1. /\ pc = "open" /\ openssh' = "off"
        /\ UNCHANGED <<certFeature, gssapi, pc, cache, perms, proved>>
    BY DEF getCommand, Refused, config, opensshVars
  <1>2. WayInv' /\ CacheInv' /\ LineInv' /\ ShellInv'
    BY <1>1, FreshKept DEF IInv, WayInv, CacheInv, LineInv, ShellInv
  <1>3. OpenInv'
    BY <1>1 DEF IInv, OpenInv, GrantedKey, GrantedCert, GrantedPrincipal
  <1>4. CASE getCommand(type)
    <2>1. /\ Built(type)
          /\ ran' = [type |-> type, who |-> Identity(perms), namespace |-> perms.namespace]
      BY <1>4 DEF getCommand
    <2>2. RunsAsProved' /\ GroupCertConfined'
      BY <1>1, <2>1, CommandFits DEF RunsAsProved, GroupCertConfined
    <2> QED BY <1>2, <1>3, <2>2 DEF IInv
  <1>5. CASE Refused(type)
    <2>1. ran' = None
      BY <1>5 DEF Refused
    <2> QED BY <1>2, <1>3, <2>1 DEF IInv, RunsAsProved, GroupCertConfined
  <1> QED BY <1>4, <1>5

-----------------------------------------------------------------------------
(* OpenSSH and gitlab-shell. *)

(* The lines of the two checks. *)
LEMMA KeyLines ==
  ASSUME NEW user, NEW c, NEW ls \in AuthorizedKeys(user, c), NEW line \in ls
  PROVE  /\ c.registered /\ user = ConfiguredUser
         /\ line.command = <<GitlabShell, Word("key", c.id)>>
  <1>1. user = ConfiguredUser /\ c.registered /\ ls = KeyLine("key", <<Word("plain", c.id)>>, c)
    BY DEF AuthorizedKeys, KeyIDs
  <1>2. line.command = <<GitlabShell, Word("key", c.id)>> \o Tail(<<Word("plain", c.id)>>)
    BY <1>1 DEF KeyLine, Word
  <1> QED BY <1>1, <1>2, OneWord

LEMMA PrincipalLines ==
  ASSUME NEW c, NEW line \in AuthorizedPrincipals(c)
  PROVE  /\ line.value \in Principals
         /\ line.command = <<GitlabShell, Word("username", c.id)>>
  <1>1. PICK p \in Principals : line \in KeyLine("username", KeyId(c), p)
    BY DEF AuthorizedPrincipals
  <1>2. KeyId(c) = <<Word("plain", c.id)>>
    BY <1>1 DEF KeyLine, validate, KeyId
  <1>3. /\ line.value = p
        /\ line.command = <<GitlabShell, Word("username", c.id)>> \o Tail(<<Word("plain", c.id)>>)
    BY <1>1, <1>2 DEF KeyLine, Word
  <1> QED BY <1>3, OneWord

(* The check that OpenSSH starts. *)
LEMMA CheckInv ==
  ASSUME IInv, NEW user, NEW c \in Credentials, CheckCommand(user, c)
  PROVE  IInv'
  <1>1. /\ openssh = "check" /\ openssh' = "match" /\ asked' = [user |-> user, cred |-> c]
        /\ UNCHANGED <<certFeature, gssapi, pc, cache, perms, proved, ran>>
    BY DEF CheckCommand, vars, config
  <1>2. LineInv'
    <2>1. CASE c.kind = "key" /\ lines' \in AuthorizedKeys(user, c)
      <3>1. \A line \in lines' : /\ c.registered /\ user = ConfiguredUser
                                 /\ line.command = <<GitlabShell, Word("key", c.id)>>
        BY <2>1, KeyLines
      <3> QED BY <1>1, <2>1, <3>1 DEF LineInv, Acceptable, PrefixOf
    <2>2. CASE c.kind = "cert" /\ c.ca = "local" /\ lines' = AuthorizedPrincipals(c)
      <3>1. \A line \in lines' : /\ line.value \in Principals
                                 /\ line.command = <<GitlabShell, Word("username", c.id)>>
        BY <2>2, PrincipalLines
      <3> QED BY <1>1, <2>2, <3>1 DEF LineInv, Acceptable, PrefixOf
    <2> QED BY <2>1, <2>2 DEF CheckCommand
  <1>3. CacheInv'
    BY <1>1, FreshKept DEF IInv, CacheInv
  <1> QED BY <1>1, <1>2, <1>3 DEF IInv, WayInv, OpenInv, ShellInv, RunsAsProved, GroupCertConfined

(* The credential is proved, and gitlab-shell started. *)
LEMMA AcceptInv == ASSUME IInv, NEW line \in lines, Accept(line) PROVE IInv'
  <1>1. /\ openssh = "match" /\ openssh' = "shell" /\ proved' = asked /\ asked.cred.held
        /\ Matches(line) /\ pc = "auth" /\ ran = None
        /\ UNCHANGED <<certFeature, gssapi, pc, cache, perms, ran>>
    BY DEF Accept, config, IInv, WayInv
  <1>2. /\ Acceptable(asked.user, asked.cred)
        /\ asked.cred.kind = "cert" => line.value \in Principals
        /\ line.command = <<GitlabShell, Word(PrefixOf(asked.cred), asked.cred.id)>>
    BY <1>1 DEF IInv, LineInv
  <1>3. parseWho(args') = [as |-> asked.cred.kind, id |-> asked.cred.id]
    <2>1. asked.cred.kind \in {"key", "cert"}
      BY <1>2 DEF Acceptable
    <2>2. args' \in ForcedCommandArgs(<<GitlabShell, Word(PrefixOf(asked.cred), asked.cred.id)>>)
      BY <1>2 DEF Accept
    <2> QED BY <2>1, <2>2, WhoReadBack
  <1>4. ShellInv'
    BY <1>1, <1>2, <1>3 DEF ShellInv, Acceptable, Matches
  <1>5. CacheInv'
    BY <1>1, FreshKept DEF IInv, CacheInv
  <1> QED BY <1>1, <1>4, <1>5 DEF IInv, WayInv, OpenInv, LineInv, RunsAsProved, GroupCertConfined

(* gitlab-shell's command. *)
LEMMA NewInv == ASSUME IInv, NEW type, New(type) PROVE IInv'
  <1>1. /\ openssh = "shell" /\ openssh' = "closed" /\ pc = "auth"
        /\ ran' = None \/ ran' = [type |-> type, who |-> parseWho(args), namespace |-> Unset]
        /\ UNCHANGED <<certFeature, gssapi, pc, cache, perms, proved>>
    BY DEF New, config, IInv, WayInv
  <1>2. RunsAsProved' /\ GroupCertConfined' /\ ShellInv'
    BY <1>1 DEF IInv, ShellInv, Acceptable, RunsAsProved, GroupCertConfined
  <1>3. CacheInv'
    BY <1>1, FreshKept DEF IInv, CacheInv
  <1> QED BY <1>1, <1>2, <1>3 DEF IInv, WayInv, OpenInv, LineInv

-----------------------------------------------------------------------------
(* The inductive invariant holds of every behaviour. *)
THEOREM Invariance == LoginSpec => []IInv
  <1>1. LoginInit => IInv
    BY DEF LoginInit, Init, IInv, WayInv, CacheInv, OpenInv, LineInv, ShellInv, RunsAsProved,
       GroupCertConfined
  <1>2. ASSUME IInv, UNCHANGED <<certFeature, gssapi, pc, cache, perms, proved, ran>>,
               \/ UNCHANGED opensshVars
               \/ openssh = "match" /\ openssh' = "check"
        PROVE  IInv'
    <2>1. CacheInv'
      BY <1>2, FreshKept DEF IInv, CacheInv
    <2>2. OpenInv'
      BY <1>2 DEF IInv, OpenInv, GrantedKey, GrantedCert, GrantedPrincipal
    <2>3. WayInv' /\ LineInv' /\ ShellInv'
      BY <1>2 DEF IInv, WayInv, LineInv, ShellInv, Acceptable, opensshVars
    <2>4. RunsAsProved' /\ GroupCertConfined'
      BY <1>2 DEF IInv, RunsAsProved, GroupCertConfined
    <2> QED BY <2>1, <2>2, <2>3, <2>4 DEF IInv
  <1>3. ASSUME IInv, UNCHANGED allVars PROVE IInv'
    BY <1>2, <1>3 DEF allVars, vars, config
  <1>4. ASSUME IInv, Reject PROVE IInv'
    BY <1>2, <1>4 DEF Reject, vars, config
  <1>5. ASSUME IInv, openssh = "off", Next, UNCHANGED opensshVars PROVE IInv'
    BY <1>3, <1>5, QueryInv, SignInv, GSSAPIInv, CommandInv DEF Next, Closed, allVars
  <1>6. IInv /\ [LoginNext]_allVars => IInv'
    BY <1>3, <1>4, <1>5, CheckInv, AcceptInv, NewInv DEF LoginNext, OpenSSHClosed
  <1> QED
    BY <1>1, <1>6, PTL DEF LoginSpec

(* Nobody gets in, through gitlab-sshd or OpenSSH, with a credential that  *)
(* is not acceptable by itself, whatever was asked about before            *)
(* (publicKeyCallback, AllowLogin, the two check commands).                *)
THEOREM Admission == LoginSpec => []LoginAcceptable
  <1>1. IInv => OnlyAcceptable
    BY DEF IInv, OpenInv, GrantedKey, GrantedCert, GrantedPrincipal, OnlyAcceptable
  <1>2. IInv => LoginAcceptable
    BY <1>1 DEF IInv, ShellInv, Acceptable, LoginAcceptable
  <1> QED BY <1>2, Invariance, PTL

(* A command runs as the credential that was proved, also where the        *)
(* identity went through the text of a key line (getCommand, ToString,     *)
(* parseWho).                                                              *)
THEOREM Identified == LoginSpec => []RunsAsProved
  BY Invariance, PTL DEF IInv

(* A group's certificate runs Git commands in its namespace only, and no   *)
(* other credential is restricted to one (handleUserCertificate,           *)
(* NewWithUsername).                                                       *)
THEOREM Confined == LoginSpec => []GroupCertConfined
  BY Invariance, PTL DEF IInv
=============================================================================

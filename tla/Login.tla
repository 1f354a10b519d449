------------------------------- MODULE Login -------------------------------
(***************************************************************************)
(* Both ways into GitLab over SSH.  gitlab-sshd authenticates its clients  *)
(* itself (UserAuth).  OpenSSH asks gitlab-shell-authorized-keys-check or  *)
(* gitlab-shell-authorized-principals-check what a key or a certificate    *)
(* may do; the answer is lines with a forced command, gitlab-shell with    *)
(* the identity as its argument, which OpenSSH runs for whoever proves to  *)
(* hold the credential.  The identity thus passes through a line of text   *)
(* and is read back from the arguments of another process.                 *)
(***************************************************************************)
EXTENDS UserAuth, SequencesExt

CONSTANTS Principals    \* in OpenSSH's configuration: arguments of the check

VARIABLES
  openssh,   \* "off", or where OpenSSH is: "check", "match", "shell" or "closed"
  asked,     \* the SSH user and the credential that it asked about
  lines,     \* what the check printed: values, each with a forced command
  args       \* the arguments gitlab-shell is started with

opensshVars == <<openssh, asked, lines, args>>
allVars == <<vars, opensshVars>>

LoginInit ==
  /\ Init
  /\ openssh \in {"off", "check"}
  /\ asked = None /\ lines = {} /\ args = <<>>

-----------------------------------------------------------------------------
(* The lines.  Text is a sequence of words; the words that matter have a   *)
(* prefix, "key" or "username", and an id.                                 *)

Word(prefix, id) == [prefix |-> prefix, id |-> id]
GitlabShell == Word("gitlab-shell", Unset)

(* The words of a certificate's KeyId: a name, or more than that. *)
KeyId(c) ==
  IF c.keyIdOk THEN <<Word("plain", c.id)>> ELSE <<Word("plain", c.id), Word("key", "bob")>>

(* Mutant: the id may be anything. *)
validate_AnyId(id) == TRUE

(* keyRegex: one word.  A value with a newline is refused too; neither the *)
(* API nor OpenSSH's configuration has one.                                *)
validate(id) == Len(id) = 1

(* NewPublicKeyLine, NewPrincipalKeyLine and ToString: no line, or one. *)
KeyLine(prefix, id, value) ==
  IF validate(id)
    THEN {[value |-> value, command |-> <<GitlabShell, Word(prefix, Head(id).id)>> \o Tail(id)]}
    ELSE {}

(* Mutant: the SSH user is not compared. *)
AuthorizedKeys_AnyUser(user, c) ==
  {{}} \cup {KeyLine("key", <<Word("plain", id)>>, c) : id \in KeyIDs(c)}

(* gitlab-shell-authorized-keys-check: nothing for another SSH user, a     *)
(* comment if the key is not found or the API fails, else one line, with   *)
(* the key that the API has found by the fingerprint of the one asked for. *)
AuthorizedKeys(user, c) ==
  {{}} \cup IF user = ConfiguredUser
              THEN {KeyLine("key", <<Word("plain", id)>>, c) : id \in KeyIDs(c)} ELSE {}

(* gitlab-shell-authorized-principals-check: a line for each principal, or *)
(* an error for a KeyId that it does not accept.                           *)
AuthorizedPrincipals(c) == UNION {KeyLine("username", KeyId(c), p) : p \in Principals}

-----------------------------------------------------------------------------
(* OpenSSH. *)

(* It asks about a key, or about a certificate of a CA it trusts that is   *)
(* in force.                                                               *)
CheckCommand(user, c) ==
  /\ openssh = "check"
  /\ \/ c.kind = "key" /\ lines' \in AuthorizedKeys(user, c)
     \/ /\ c.kind = "cert" /\ c.type = "user" /\ c.inForce /\ c.ca = "local" /\ c.sourceOk
        /\ lines' = AuthorizedPrincipals(c)
  /\ asked' = [user |-> user, cred |-> c]
  /\ openssh' = "match"
  /\ UNCHANGED <<vars, args>>

Matches(line) ==
  IF asked.cred.kind = "key" THEN line.value = asked.cred ELSE line.value = asked.cred.principal

(* The forced command is run word by word, or as one argument of a shell. *)
ForcedCommandArgs(command) ==
  {[i \in 1..(Len(command) - 1) |-> <<command[i + 1]>>], << <<Word("-c", Unset)>>, command >>}

(* The client proves that it holds the credential. *)
Accept(line) ==
  /\ openssh = "match" /\ Matches(line) /\ asked.cred.held
  /\ openssh' = "shell"
  /\ proved' = asked
  /\ args' \in ForcedCommandArgs(line.command)
  /\ UNCHANGED <<config, pc, failures, cache, perms, ran, asked, lines>>

(* No line matches, or no proof: the client may try another credential. *)
Reject ==
  /\ openssh = "match"
  /\ openssh' = "check" /\ asked' = None /\ lines' = {}
  /\ UNCHANGED <<vars, args>>

-----------------------------------------------------------------------------
(* gitlab-shell: New, Parse and Build. *)

(* tryParse: the last word of an argument. *)
Who(argument) == LET w == Last(argument) IN
  CASE w.prefix = "key"      -> [as |-> "key", id |-> w.id]
    [] w.prefix = "username" -> [as |-> "cert", id |-> w.id]
    [] OTHER                 -> None

(* parseWho: the first argument that names somebody. *)
parseWho(arguments) == LET i == SelectInSeq(arguments, LAMBDA a : Who(a) # None) IN
  IF i = 0 THEN None ELSE Who(arguments[i])

(* The client's command line is in the environment, not in the arguments. *)
New(type) ==
  /\ openssh = "shell"
  /\ IF type # "unparsable" /\ Build(type)
       THEN ran' = [type |-> type, who |-> parseWho(args), namespace |-> Unset]
       ELSE ran' = None
  /\ openssh' = "closed"
  /\ UNCHANGED <<config, pc, failures, cache, perms, proved, asked, lines, args>>

OpenSSHClosed == openssh = "closed" /\ UNCHANGED allVars

LoginNext ==
  \/ openssh = "off" /\ Next /\ UNCHANGED opensshVars
  \/ \E u \in SSHUsers, c \in Credentials : CheckCommand(u, c)
  \/ \E line \in lines : Accept(line)
  \/ Reject
  \/ \E type \in CommandTypes : New(type)
  \/ OpenSSHClosed

LoginSpec == LoginInit /\ [][LoginNext]_allVars

-----------------------------------------------------------------------------
(* Properties. *)

(* Nobody gets in, by either way, with a credential that is not acceptable *)
(* by itself: for gitlab-sshd see OnlyAcceptable; OpenSSH gets a line for  *)
(* a registered key and the configured SSH user only, and for a            *)
(* certificate only with a principal that the administrator chose          *)
(* (authorizedkeys.Command, authorizedprincipals.Command).                 *)
LoginAcceptable ==
  /\ OnlyAcceptable
  /\ openssh \in {"shell", "closed"} => LET c == proved.cred IN
       \/ c.kind = "key" /\ c.held /\ c.registered /\ proved.user = ConfiguredUser
       \/ c.kind = "cert" /\ c.held /\ c.principal \in Principals
=============================================================================

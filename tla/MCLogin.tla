------------------------------- MODULE MCLogin -------------------------------
(* Alice's credentials are those with at most two flaws, Bob's have none. *)
EXTENDS Login, FiniteSets

Flaws(c) ==
  {f \in {"held"} : ~c.held} \cup
  IF c.kind = "key"
    THEN {f \in {"dsa"} : c.dsa} \cup {f \in {"registered"} : ~c.registered}
    ELSE {f \in {"type"} : c.type = "host"} \cup {f \in {"inForce"} : ~c.inForce}
           \cup {f \in {"principal"} : c.principal = "root"} \cup {f \in {"ca"} : c.ca = "unknown"}
           \cup {f \in {"keyId"} : ~c.keyIdOk} \cup {f \in {"source"} : ~c.sourceOk}

SomeCredentials ==
  {c \in KeyRecords \cup CertRecords :
     Cardinality(Flaws(c)) <= IF c.id = "alice" THEN 2 ELSE 0}
=============================================================================

-------------------------- MODULE MCSshdConnection --------------------------
(* SshdConnection on small sets of channels, with one error of each kind.  *)
EXTENDS SshdConnection

Err(api, disallowed, code, text) ==
  [api |-> api, disallowed |-> disallowed, code |-> code, text |-> text]

(* One error for each early return of trackError, and two that are counted:*)
(* a system API error and a broken pipe without the Internal code.         *)
SomeErrors ==
  { Err("policy", FALSE, "Unknown", "other"),
    Err("system", FALSE, "Unknown", "other"),
    Err("none", TRUE, "Unknown", "other"),
    Err("none", FALSE, "Canceled", "other"),
    Err("none", FALSE, "Internal", "not our ref"),
    Err("none", FALSE, "Internal", "broken pipe"),
    Err("none", FALSE, "Unknown", "broken pipe"),
    Err("none", FALSE, "Unknown", "copy response EOF") }
=============================================================================

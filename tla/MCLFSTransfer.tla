--------------------------- MODULE MCLFSTransfer ---------------------------
(* LFSTransfer, up to the names of sessions, objects and locks. *)
EXTENDS LFSTransfer, TLC

Symmetry == Permutations(Sessions) \cup Permutations(Oids) \cup Permutations(LockIds)
=============================================================================

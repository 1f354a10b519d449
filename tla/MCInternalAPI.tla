--------------------------- MODULE MCInternalAPI ---------------------------
(* InternalAPI with one status of each class the clients tell apart. *)
EXTENDS InternalAPI

SomeStatuses == {200, 300, 302, 304, 400, 401, 404, 429, 500, 501, 503}
=============================================================================

--------------------------- MODULE MCGitTransport ---------------------------
(* GitTransport with pushes that update, remove or do both, and bytes that *)
(* are no packet; fetches with and without a negotiation.                  *)
EXTENDS GitTransport

SomePushes ==
  { <<"update", "flush", "pack", "pack">>,
    <<"remove", "flush">>,
    <<"remove", "update", "flush", "pack">>,
    <<"update", "bad", "pack">> }

SomePulls ==
  { <<"line", "flush", "done">>,
    <<"line", "flush", "line", "flush", "done">>,
    <<"line", "bad">> }
=============================================================================

---------------------------- MODULE MCApiSession ----------------------------
(* Two clients of one cloud that share one place, for TLC. *)
EXTENDS ApiSession, TLC

CONSTANTS c1, c2
MCClients == {c1, c2}
MCMaxCalls == c1 :> 2 @@ c2 :> 1
=============================================================================

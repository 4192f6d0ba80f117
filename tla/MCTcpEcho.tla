----------------------------- MODULE MCTcpEcho -----------------------------
(***************************************************************************)
(* Instances of TcpEcho for TLC: one client sends enough to overrun the    *)
(* queue of a server that does not pause, another only a little.           *)
(***************************************************************************)
EXTENDS TcpEcho, TLC

CONSTANTS s1, s2

MCMaxBytes == s1 :> 4 @@ s2 :> 2
MCLone == s1 :> 4
=============================================================================

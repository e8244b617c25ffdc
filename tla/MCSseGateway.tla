---------------------------- MODULE MCSseGateway ----------------------------
(***************************************************************************)
(* Two connections and more messages than a channel or the buffer holds.   *)
(***************************************************************************)
EXTENDS SseGateway, TLC

CONSTANTS c1, c2

TwoClients == {c1, c2}
Symmetric == Permutations(TwoClients)
=============================================================================

----------------------------- MODULE MCWsGateway -----------------------------
(***************************************************************************)
(* Two clients that use the same ids, and channels of one place.           *)
(***************************************************************************)
EXTENDS WsGateway, TLC

CONSTANTS c1, c2, a, b

TwoClients == {c1, c2}
TwoIds == {a, b}
Symmetric == Permutations(TwoClients) \cup Permutations(TwoIds)
=============================================================================

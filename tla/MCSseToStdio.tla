---------------------------- MODULE MCSseToStdio -----------------------------
(* An instance of SseToStdio for TLC. *)
EXTENDS SseToStdio

InitializeAndAsk == <<"initialize", "notification", "request">>
=============================================================================

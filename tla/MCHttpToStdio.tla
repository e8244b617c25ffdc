---------------------------- MODULE MCHttpToStdio ----------------------------
(* Instances of HttpToStdio for TLC. *)
EXTENDS HttpToStdio

\* Parents that initialize, that do not, and that initialize too late.
ThreeParents ==
  {<<"initialize", "notification", "request", "batch", "request">>,
   <<"request", "garbage", "notification", "request">>,
   <<"notification", "initialize", "request">>}
=============================================================================

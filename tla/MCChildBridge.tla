---------------------------- MODULE MCChildBridge ----------------------------
(***************************************************************************)
(* Two writers, two callers of kill(), and channels of one or two places.  *)
(***************************************************************************)
EXTENDS ChildBridge

CONSTANTS w1, w2

TwoWriters == {w1, w2}
GoodAndBad == {{}, {"stop"}, {"spew", "deafen"}}
=============================================================================

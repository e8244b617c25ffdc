-------------------------- MODULE MCSessionManager --------------------------
(***************************************************************************)
(* Two sessions and three tasks: enough for a writer, an acquire half-way  *)
(* and a guard of the same session at once.                                *)
(***************************************************************************)
EXTENDS SessionManager

CONSTANTS s1, s2, t1, t2, t3

TwoIds == {s1, s2}
ThreeTasks == {t1, t2, t3}
=============================================================================

------------------------- MODULE MCStatefulGateway --------------------------
(***************************************************************************)
(* Small instances of StatefulGateway: one request makes a session, two    *)
(* more use it, overlap, and meet a timer or a DELETE.                     *)
(***************************************************************************)
EXTENDS StatefulGateway

CONSTANTS s1, s2, r1, r2, r3

OneId == {s1}
TwoIds == {s1, s2}
ThreeRequests == {r1, r2, r3}
ThreeRequestTasks == ThreeRequests \X {"http", "timer", "drain"}
AllMethods == {"POST", "GET", "DELETE"}
PostAndGet == {"POST", "GET"}
=============================================================================

--------------------------- MODULE MCStatefulRelay ---------------------------
(***************************************************************************)
(* The POST that opens the session and two more: a batch of two requests   *)
(* and a notification, or a request with a notification and a request.     *)
(***************************************************************************)
EXTENDS StatefulRelay

CONSTANTS p1, p2, p3, i1, i2, i3, note

ThreePosts == {p1, p2, p3}
ThreeIds == {i1, i2, i3}
TwoBodies ==
  {p1 :> {i1} @@ p2 :> {i2, i3} @@ p3 :> {note},
   p1 :> {i1} @@ p2 :> {i2, note} @@ p3 :> {i3}}
=============================================================================

--------------------------- MODULE MCStatelessHttp ---------------------------
(***************************************************************************)
(* Four POSTs: a request and a notification, an initialize and a request, *)
(* a response of the client's own, and a notification only.               *)
(***************************************************************************)
EXTENDS StatelessHttp, TLC

CONSTANTS p1, p2, p3, p4, ask

FourPosts == {p1, p2, p3, p4}
OneAsk == {ask}
AllBodies ==
  p1 :> <<ask, "note">> @@ p2 :> <<"initialize", ask>> @@ p3 :> <<"response">>
  @@ p4 :> <<"note">>
=============================================================================

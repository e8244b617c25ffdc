----------------------------- MODULE MCTableLock ------------------------------
(* Three handlers on two sessions for TLC: two POSTs to one session while    *)
(* the other is deleted, and POSTs to both while the first is deleted.       *)
EXTENDS TableLock, TLC

CONSTANTS h1, h2, h3, s1, s2

Post(s) == [kind |-> "post", session |-> s]
Delete(s) == [kind |-> "delete", session |-> s]

ThreeHandlers == {h1, h2, h3}
TwoSessions == {s1, s2}
TwoOrders ==
  {(h1 :> Post(s1)) @@ (h2 :> Post(s1)) @@ (h3 :> Delete(s2)),
   (h1 :> Post(s1)) @@ (h2 :> Post(s2)) @@ (h3 :> Delete(s1))}
OneDeaf == {{}, {s1}}
=============================================================================

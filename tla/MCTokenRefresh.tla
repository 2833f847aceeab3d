---------------------------- MODULE MCTokenRefresh ----------------------------
(* Two processes with a background cycle each, and a request in the first.  *)
EXTENDS TokenRefresh, TLC

CONSTANTS b1, b2, q1, p1, p2

MCProcessOf == (b1 :> p1) @@ (b2 :> p2) @@ (q1 :> p1)
=============================================================================

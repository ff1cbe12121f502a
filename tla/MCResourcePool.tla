---------------------------- MODULE MCResourcePool ----------------------------
(* Three threads share a pool of at most two connections, warmed with two. *)
EXTENDS ResourcePool, TLC
CONSTANTS t1, t2, t3, c1, c2, c3
const_Threads == {t1, t2, t3}
const_Conns == {c1, c2, c3}
=============================================================================

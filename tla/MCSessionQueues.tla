---------------------------- MODULE MCSessionQueues ----------------------------
\* Three threads of two processes; the leader has one of them.
EXTENDS SessionQueues, TLC

CONSTANTS a1, b1, t1, t2, t3, q1

MCProcessOf == (t1 :> a1) @@ (t2 :> b1) @@ (t3 :> b1)

================================================================================

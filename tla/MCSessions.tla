----------------------------- MODULE MCSessions -----------------------------
(* Two goroutines that share one client: a worker that reads and writes,   *)
(* and whose last call is about another tenancy at times, and another one  *)
(* that logs out.                                                          *)
EXTENDS ReconnectingClient

CONSTANTS worker, other

MCOps(q, made) ==
    IF q = other THEN {"logout"} ELSE {"read", "write"} \union (IF made[worker] = 3 THEN {"foreign"} ELSE {})
\* Four calls of the worker alone, with a fault; or two of them, one of the other during the
\* second, one more of the worker after both, and no fault.
MCMayCall(q, made, faulty, busy) ==
    IF q = worker THEN made[worker] + made[other] < 4 /\ ~busy
    ELSE made[worker] = 2 /\ made[other] = 0 /\ faulty = 0 /\ busy
MCMayFail(made) == made[other] = 0
=============================================================================

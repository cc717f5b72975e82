---------------------------- MODULE MCHttpAsync ----------------------------
(* Instance of HttpAsync for TLC: two clients share a pool of MaxThreads.   *)
EXTENDS HttpAsync, TLC
CONSTANTS c1, c2, t1, t2, t3
MCClients == {c1, c2}
MCTasks == {t1, t2, t3}
=============================================================================

---------------------------- MODULE MCThreadPool ----------------------------
(* ThreadPool under clients that dispatch and detach directly, as           *)
(* test/src/test/thread.h does, with and without a detach callback.         *)
EXTENDS ThreadPool, TLC
CONSTANTS c1, t1, t2
MCClients == {c1}
MCTasks == {t1, t2}

VARIABLE released   \* the tasks whose slot a client has detached
vars == <<poolVars, released>>

Init ==
  /\ PoolInit
  /\ pc = [c \in Clients |-> "idle"]
  /\ released = {}

Dispatch(c) ==
  /\ pc[c] = "idle"
  /\ \E k \in Tasks :
       /\ \A x \in Slots : ti[x].opaque # k
       /\ k \notin released
       /\ DispatchCall(c, k, "scan")

InDispatch(c) ==
  \/ DispatchScan(c, "scan", "taken")
  \/ DispatchStart(c, "taken", "idle")
  \/ DispatchFails(c, "scan", "idle")

\* The client detaches the slot its last dispatch returned.
Detach(c, detach) ==
  /\ pc[c] = "idle"
  /\ arg[c].x \in 1..MaxThreads
  /\ DetachSlot(arg[c].x, detach)
  /\ released' = released \cup {ti[arg[c].x].opaque}
  /\ UNCHANGED <<mutex, worker, pc, arg>>

Next ==
  \/ \E c \in Clients :
       \/ (Dispatch(c) \/ InDispatch(c)) /\ UNCHANGED released
       \/ \E detach \in BOOLEAN : Detach(c, detach)
  \/ \E x \in Slots : (WorkerFinish(x) \/ WorkerExit(x)) /\ UNCHANGED released

Spec == Init /\ [][Next]_vars

DetachedIsReusableNow == DetachedIsReusable(released)
=============================================================================

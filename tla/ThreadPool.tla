----------------------------- MODULE ThreadPool -----------------------------
(***************************************************************************)
(* The MTY_ThreadPool of src/thread.c: an array of slots, each with a       *)
(* mutex, a status, the function's opaque state and the callback that       *)
(* cleans that state up.  Slot 0 is allocated and never dispatched to.      *)
(*                                                                         *)
(* Clients call Dispatch, Detach, Poll and Destroy from their own threads;  *)
(* each slot has at most one worker thread.  What is done under a slot's    *)
(* mutex without blocking is one step; Dispatch blocks under the mutex when *)
(* it joins the previous worker, so it holds the mutex across two steps.    *)
(*                                                                         *)
(* The calls are written for a module that EXTENDS this one: an action      *)
(* takes the program point to return to, and leaves its result in arg.      *)
(***************************************************************************)
EXTENDS Integers, FiniteSets

CONSTANTS
  Clients,      \* threads that call the pool
  MaxThreads,   \* maxThreads of MTY_ThreadPoolCreate
  Tasks,        \* the opaque states that can be dispatched
  NoTask,       \* a NULL opaque
  Nobody        \* holder of a free mutex

ASSUME PoolAssumption ==
  /\ MaxThreads \in Nat
  /\ NoTask \notin Tasks
  /\ Nobody \notin Clients

VARIABLES
  ti,           \* struct thread_info of each slot
  mutex,        \* the holder of each slot's mutex
  worker,       \* the worker thread of each slot: "none", "running" func,
                \* "leaving" (func returned and the mutex was given up), "exited"
  pc,           \* where each client is
  arg,          \* arguments and result of the client's call
  cleanups      \* how many times each task was given to a detach callback

poolVars == <<ti, mutex, worker, pc, arg, cleanups>>

Slots == 0..MaxThreads
Statuses == {"DONE", "CONTINUE", "OK"}

SlotInfo == [status : Statuses, opaque : Tasks \cup {NoTask}, detach : BOOLEAN]
Args == [x : 0..(MaxThreads + 1), task : Tasks \cup {NoTask}, detach : BOOLEAN,
         status : Statuses]

PoolTypeOK ==
  /\ ti \in [Slots -> SlotInfo]
  /\ mutex \in [Slots -> Clients \cup {Nobody}]
  /\ worker \in [Slots -> {"none", "running", "leaving", "exited"}]
  /\ arg \in [Clients -> Args]
  /\ cleanups \in [Tasks -> Nat]

\* MTY_ThreadPoolCreate
FreshSlot == [status |-> "DONE", opaque |-> NoTask, detach |-> FALSE]

NoArgs == [x |-> 0, task |-> NoTask, detach |-> FALSE, status |-> "DONE"]

PoolInit ==
  /\ ti = [x \in Slots |-> FreshSlot]
  /\ mutex = [x \in Slots |-> Nobody]
  /\ worker = [x \in Slots |-> "none"]
  /\ arg = [c \in Clients |-> NoArgs]
  /\ cleanups = [k \in Tasks |-> 0]

\* The detach callback runs on the opaque state of slot x.
CleanUp(x) ==
  cleanups' = IF ti[x].opaque = NoTask THEN cleanups
              ELSE [cleanups EXCEPT ![ti[x].opaque] = @ + 1]

-----------------------------------------------------------------------------
(* The worker thread of slot x. *)

\* A mutation: the thread function only ever reports OK.
WorkerFinishNoDetach(x) ==
  /\ worker[x] = "running"
  /\ mutex[x] = Nobody
  /\ worker' = [worker EXCEPT ![x] = "leaving"]
  /\ ti' = [ti EXCEPT ![x].status = "OK"]
  /\ UNCHANGED <<cleanups, mutex, pc, arg>>

\* thread_pool_func: func has returned; the rest runs under the mutex.
WorkerFinish(x) ==
  /\ worker[x] = "running"
  /\ mutex[x] = Nobody
  /\ worker' = [worker EXCEPT ![x] = "leaving"]
  /\ IF ti[x].detach
     THEN ti' = [ti EXCEPT ![x].status = "DONE"] /\ CleanUp(x)
     ELSE ti' = [ti EXCEPT ![x].status = "OK"] /\ UNCHANGED cleanups
  /\ UNCHANGED <<mutex, pc, arg>>

\* The thread function returns: only now can the thread be joined.
WorkerExit(x) ==
  /\ worker[x] = "leaving"
  /\ worker' = [worker EXCEPT ![x] = "exited"]
  /\ UNCHANGED <<ti, mutex, pc, arg, cleanups>>

\* MTY_ThreadDestroy(&ti->t) can return: no thread, or one that has ended.
Joinable(x) == worker[x] \in {"none", "exited"}

-----------------------------------------------------------------------------
(* MTY_ThreadPoolDispatch. *)

DispatchCall(c, task, at) ==
  /\ arg' = [arg EXCEPT ![c].x = 1, ![c].task = task]
  /\ pc' = [pc EXCEPT ![c] = at]
  /\ UNCHANGED <<ti, mutex, worker, cleanups>>

\* A mutation: a slot whose function has finished counts as free.
DispatchScanFinished(c, at, taken) ==
  LET x == arg[c].x IN
  /\ pc[c] = at
  /\ x <= MaxThreads
  /\ mutex[x] = Nobody
  /\ IF ti[x].status # "CONTINUE"
     THEN /\ mutex' = [mutex EXCEPT ![x] = c]
          /\ pc' = [pc EXCEPT ![c] = taken]
          /\ UNCHANGED arg
     ELSE /\ arg' = [arg EXCEPT ![c].x = x + 1]
          /\ UNCHANGED <<mutex, pc>>
  /\ UNCHANGED <<ti, worker, cleanups>>

\* The scan looks at slot arg.x and takes it, or goes on to the next one.
DispatchScan(c, at, taken) ==
  LET x == arg[c].x IN
  /\ pc[c] = at
  /\ x <= MaxThreads
  /\ mutex[x] = Nobody
  /\ IF ti[x].status = "DONE"
     THEN /\ mutex' = [mutex EXCEPT ![x] = c]
          /\ pc' = [pc EXCEPT ![c] = taken]
          /\ UNCHANGED arg
     ELSE /\ arg' = [arg EXCEPT ![c].x = x + 1]
          /\ UNCHANGED <<mutex, pc>>
  /\ UNCHANGED <<ti, worker, cleanups>>

\* A mutation: the call returns from inside the loop and keeps the mutex.
DispatchStartLocked(c, taken, ret) ==
  LET x == arg[c].x IN
  /\ pc[c] = taken
  /\ Joinable(x)
  /\ ti' = [ti EXCEPT ![x] = [status |-> "CONTINUE", opaque |-> arg[c].task,
                              detach |-> FALSE]]
  /\ worker' = [worker EXCEPT ![x] = "running"]
  /\ pc' = [pc EXCEPT ![c] = ret]
  /\ UNCHANGED <<mutex, arg, cleanups>>

\* Under the mutex: the old worker is joined, and the slot gets the new task.
DispatchStart(c, taken, ret) ==
  LET x == arg[c].x IN
  /\ pc[c] = taken
  /\ Joinable(x)
  /\ ti' = [ti EXCEPT ![x] = [status |-> "CONTINUE", opaque |-> arg[c].task,
                              detach |-> FALSE]]
  /\ worker' = [worker EXCEPT ![x] = "running"]
  /\ mutex' = [mutex EXCEPT ![x] = Nobody]
  /\ pc' = [pc EXCEPT ![c] = ret]
  /\ UNCHANGED <<arg, cleanups>>

\* A mutation: the call returns the loop variable.
DispatchFailsWithX(c, at, ret) ==
  /\ pc[c] = at
  /\ arg[c].x = MaxThreads + 1
  /\ pc' = [pc EXCEPT ![c] = ret]
  /\ UNCHANGED <<ti, mutex, worker, cleanups, arg>>

\* No slot is DONE: the call returns 0.
DispatchFails(c, at, ret) ==
  /\ pc[c] = at
  /\ arg[c].x = MaxThreads + 1
  /\ arg' = [arg EXCEPT ![c].x = 0]
  /\ pc' = [pc EXCEPT ![c] = ret]
  /\ UNCHANGED <<ti, mutex, worker, cleanups>>

-----------------------------------------------------------------------------
\* A mutation: a finished slot is cleaned up and stays OK.
DetachSlotStaysOK(x, detach) ==
  /\ mutex[x] = Nobody
  /\ CASE ti[x].status = "CONTINUE" ->
            ti' = [ti EXCEPT ![x].detach = detach] /\ UNCHANGED cleanups
       [] ti[x].status = "OK" ->
            /\ UNCHANGED ti
            /\ IF detach THEN CleanUp(x) ELSE UNCHANGED cleanups
       [] OTHER -> UNCHANGED <<ti, cleanups>>

\* MTY_ThreadPoolDetach: what it does to slot x; detach says whether a callback
\* was given.
DetachSlot(x, detach) ==
  /\ mutex[x] = Nobody
  /\ CASE ti[x].status = "CONTINUE" ->
            ti' = [ti EXCEPT ![x].detach = detach] /\ UNCHANGED cleanups
       [] ti[x].status = "OK" ->
            /\ ti' = [ti EXCEPT ![x].status = "DONE"]
            /\ IF detach THEN CleanUp(x) ELSE UNCHANGED cleanups
       [] OTHER -> UNCHANGED <<ti, cleanups>>

\* MTY_ThreadPoolPoll of slot x: status and opaque, read under the mutex.
PollSlot(c, x) ==
  /\ mutex[x] = Nobody
  /\ arg' = [arg EXCEPT ![c].x = x, ![c].task = ti[x].opaque,
                        ![c].status = ti[x].status]

-----------------------------------------------------------------------------
(* MTY_ThreadPoolDestroy goes through the slots: detach, then join. *)

DestroyDetach(c, at, join) ==
  LET x == arg[c].x IN
  /\ pc[c] = at
  /\ x <= MaxThreads
  /\ DetachSlot(x, arg[c].detach)
  /\ pc' = [pc EXCEPT ![c] = join]
  /\ UNCHANGED <<mutex, worker, arg>>

DestroyJoin(c, at, join) ==
  LET x == arg[c].x IN
  /\ pc[c] = join
  /\ Joinable(x)
  /\ arg' = [arg EXCEPT ![c].x = x + 1]
  /\ pc' = [pc EXCEPT ![c] = at]
  /\ worker' = [worker EXCEPT ![x] = "none"]
  /\ UNCHANGED <<ti, mutex, cleanups>>

\* The memory of the pool is freed.
DestroyEnds(c, at, ret) ==
  /\ pc[c] = at
  /\ arg[c].x = MaxThreads + 1
  /\ ti' = [x \in Slots |-> FreshSlot]
  /\ arg' = [arg EXCEPT ![c] = NoArgs]
  /\ pc' = [pc EXCEPT ![c] = ret]
  /\ UNCHANGED <<mutex, worker, cleanups>>

-----------------------------------------------------------------------------
(* Properties. *)

\* Every task's state is cleaned up at most once, and never while the function
\* that uses it is still running.
CleanedOnce ==
  /\ \A k \in Tasks : cleanups[k] <= 1
  /\ \A x \in Slots : worker[x] = "running" =>
       ti[x].opaque \in Tasks /\ cleanups[ti[x].opaque] = 0

\* matoya.h of MTY_ThreadPoolDetach: "In either case, the thread is allowed to be
\* reused via MTY_ThreadPoolDispatch as soon as it is no longer executing."
\* released holds the tasks whose slot was detached.
DetachedIsReusable(released) ==
  \A x \in Slots :
    ti[x].opaque \in released /\ worker[x] = "exited" => ti[x].status = "DONE"
=============================================================================

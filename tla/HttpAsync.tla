----------------------------- MODULE HttpAsync -----------------------------
(***************************************************************************)
(* src/async.c: the global pool of HTTP requests, built on ThreadPool.      *)
(* A client keeps a handle (uint32_t *index) that names a slot of the pool; *)
(* the opaque state of a slot is a heap-allocated struct async_state, which *)
(* http_async_free_state frees.  A task stands for one such state.          *)
(*                                                                         *)
(* ASYNC_CTX is created and destroyed under ASYNC_GLOCK; the other calls    *)
(* read it without the lock.                                                *)
(***************************************************************************)
EXTENDS ThreadPool

VARIABLES
  ctx,      \* ASYNC_CTX # NULL
  glock,    \* holder of ASYNC_GLOCK
  index,    \* each client's handle, 0 when it has none
  owner     \* the client that requested each task, Nobody if unused

asyncVars == <<ctx, glock, index, owner>>
vars == <<poolVars, asyncVars>>

TypeOK ==
  /\ PoolTypeOK
  /\ pc \in [Clients -> {"idle", "detach", "scan", "taken", "started", "failed",
                         "read", "clear", "destroy", "join", "destroyed"}]
  /\ ctx \in BOOLEAN
  /\ glock \in Clients \cup {Nobody}
  /\ index \in [Clients -> Slots]
  /\ owner \in [Tasks -> Clients \cup {Nobody}]

Init ==
  /\ PoolInit
  /\ pc = [c \in Clients |-> "idle"]
  /\ ctx = FALSE
  /\ glock = Nobody
  /\ index = [c \in Clients |-> 0]
  /\ owner = [k \in Tasks |-> Nobody]

Goto(c, at) == pc' = [pc EXCEPT ![c] = at]
Idle(c) == pc[c] = "idle"

\* The caller's part: MTY_HttpAsyncDestroy frees the pool under the feet of any
\* call that is under way, since those read ASYNC_CTX without the lock; an
\* application destroys the pool when its other threads are out of it.
Quiet(c) == \A d \in Clients \ {c} : Idle(d)
NoDestroy == \A d \in Clients : pc[d] \notin {"destroy", "join", "destroyed"}

-----------------------------------------------------------------------------
\* MTY_HttpAsyncCreate.  Handles of an earlier pool are not used with this one.
Create(c) ==
  /\ Idle(c)
  /\ glock = Nobody
  /\ ~ctx
  /\ \A d \in Clients : index[d] = 0
  /\ ctx' = TRUE
  /\ UNCHANGED <<poolVars, glock, index, owner>>

\* A mutation: the pool is destroyed with a NULL callback.
DestroyNoCallback(c) ==
  /\ Idle(c) /\ Quiet(c)
  /\ ctx
  /\ glock = Nobody
  /\ glock' = c
  /\ arg' = [arg EXCEPT ![c].x = 0, ![c].detach = FALSE]
  /\ Goto(c, "destroy")
  /\ UNCHANGED <<ti, mutex, worker, cleanups, ctx, index, owner>>

\* MTY_HttpAsyncDestroy takes the global lock and goes through the slots.
Destroy(c) ==
  /\ Idle(c) /\ Quiet(c)
  /\ ctx
  /\ glock = Nobody
  /\ glock' = c
  /\ arg' = [arg EXCEPT ![c].x = 0, ![c].detach = TRUE]
  /\ Goto(c, "destroy")
  /\ UNCHANGED <<ti, mutex, worker, cleanups, ctx, index, owner>>

DestroyStep(c) ==
  /\ \/ DestroyDetach(c, "destroy", "join")
     \/ DestroyJoin(c, "destroy", "join")
     \/ DestroyEnds(c, "destroy", "destroyed")
  /\ UNCHANGED asyncVars

Destroyed(c) ==
  /\ pc[c] = "destroyed"
  /\ ctx' = FALSE
  /\ glock' = Nobody
  /\ Goto(c, "idle")
  /\ UNCHANGED <<ti, mutex, worker, arg, cleanups, index, owner>>

\* The application sets a handle back to 0 once the pool is gone.
ForgetHandle(c) ==
  /\ Idle(c)
  /\ ~ctx
  /\ index[c] # 0
  /\ index' = [index EXCEPT ![c] = 0]
  /\ UNCHANGED <<poolVars, ctx, glock, owner>>

-----------------------------------------------------------------------------
\* MTY_HttpAsyncRequest: the handle's old slot is detached, if it has one; a new
\* state is allocated and dispatched.  Without a pool the call does nothing.
Request(c) ==
  /\ Idle(c) /\ NoDestroy
  /\ ctx
  /\ \E k \in Tasks : owner[k] = Nobody
  /\ Goto(c, "detach")
  /\ UNCHANGED <<ti, mutex, worker, arg, cleanups, ctx, glock, index, owner>>

\* Which unused task is allocated makes no difference.
RequestDetach(c) ==
  /\ pc[c] = "detach"
  /\ IF index[c] # 0 THEN DetachSlot(index[c], TRUE) ELSE UNCHANGED <<ti, cleanups>>
  /\ \E k \in Tasks : owner[k] = Nobody
  /\ LET k == CHOOSE k \in Tasks : owner[k] = Nobody IN
       /\ owner' = [owner EXCEPT ![k] = c]
       /\ arg' = [arg EXCEPT ![c].x = 1, ![c].task = k]
  /\ Goto(c, "scan")
  /\ UNCHANGED <<mutex, worker, ctx, glock, index>>

RequestDispatch(c) ==
  /\ \/ DispatchScan(c, "scan", "taken")
     \/ DispatchStart(c, "taken", "started")
     \/ DispatchFails(c, "scan", "failed")
  /\ UNCHANGED asyncVars

\* *index gets the result of the dispatch; on 0 the new state is freed.
RequestEnds(c) ==
  /\ pc[c] \in {"started", "failed"}
  /\ index' = [index EXCEPT ![c] = arg[c].x]
  /\ cleanups' = IF pc[c] = "failed" THEN [cleanups EXCEPT ![arg[c].task] = @ + 1]
                 ELSE cleanups
  /\ Goto(c, "idle")
  /\ arg' = [arg EXCEPT ![c] = NoArgs]
  /\ UNCHANGED <<ti, mutex, worker, ctx, glock, owner>>

-----------------------------------------------------------------------------
\* http_async_thread returns, whether MTY_HttpRequest succeeded or failed, and the
\* pool's thread function goes on to finish the slot.
RequestThread(x) ==
  /\ WorkerFinish(x)
  /\ UNCHANGED <<ctx, glock, index, owner>>

ThreadExit(x) == WorkerExit(x) /\ UNCHANGED asyncVars

-----------------------------------------------------------------------------
\* MTY_HttpAsyncPoll with a pool and a handle; otherwise it only returns.  When
\* the slot is OK the state is read after the slot's mutex was given up.
Poll(c) ==
  /\ Idle(c) /\ NoDestroy
  /\ ctx
  /\ index[c] # 0
  /\ PollSlot(c, index[c])
  /\ Goto(c, IF arg'[c].status = "OK" THEN "read" ELSE "idle")
  /\ UNCHANGED <<ti, mutex, worker, cleanups, ctx, glock, index, owner>>

\* s->res and s->status are read; the application reads the response from here
\* until it calls again.
PollRead(c) ==
  /\ pc[c] = "read"
  /\ Goto(c, "idle")
  /\ arg' = [arg EXCEPT ![c] = NoArgs]
  /\ UNCHANGED <<ti, mutex, worker, cleanups, asyncVars>>

\* A mutation: the handle is not set to 0.
ClearKeepsHandle(c) ==
  /\ Idle(c) /\ NoDestroy
  /\ IF ctx THEN DetachSlot(index[c], TRUE) ELSE UNCHANGED <<ti, cleanups>>
  /\ UNCHANGED <<mutex, worker, pc, arg, ctx, glock, index, owner>>

\* MTY_HttpAsyncClear.  A handle of 0 detaches slot 0, which is always DONE.
Clear(c) ==
  /\ Idle(c) /\ NoDestroy
  /\ IF ctx
     THEN DetachSlot(index[c], TRUE) /\ index' = [index EXCEPT ![c] = 0]
     ELSE UNCHANGED <<ti, cleanups, index>>
  /\ UNCHANGED <<mutex, worker, pc, arg, ctx, glock, owner>>

-----------------------------------------------------------------------------
InCall(c) ==
  DestroyStep(c) \/ Destroyed(c) \/ RequestDetach(c) \/ RequestDispatch(c)
  \/ RequestEnds(c) \/ PollRead(c)

Next ==
  \/ \E c \in Clients :
       \/ Create(c) \/ Destroy(c) \/ DestroyStep(c) \/ Destroyed(c) \/ ForgetHandle(c)
       \/ Request(c) \/ RequestDetach(c) \/ RequestDispatch(c) \/ RequestEnds(c)
       \/ Poll(c) \/ PollRead(c) \/ Clear(c)
  \/ \E x \in Slots : RequestThread(x) \/ ThreadExit(x)

\* A call that was made goes on, and a request ends: MTY_HttpRequest has a timeout.
Spec ==
  /\ Init
  /\ [][Next]_vars
  /\ \A c \in Clients : WF_vars(InCall(c))
  /\ \A x \in Slots : WF_vars(RequestThread(x)) /\ WF_vars(ThreadExit(x))

-----------------------------------------------------------------------------
(* Properties. *)

Freed(k) == cleanups[k] > 0

\* The state of a request is not freed under a client that still uses it: a Poll
\* between the slot's mutex and the read, or a handle whose response the
\* application may be reading.
NoUseAfterFree ==
  /\ \A c \in Clients : pc[c] = "read" => ~Freed(arg[c].task)
  /\ \A c \in Clients :
       ctx /\ Idle(c) /\ NoDestroy /\ index[c] # 0 => ~Freed(ti[index[c]].opaque)

\* A handle leads to the request its client made last, never to one that another
\* client has since put in a reused slot, and no two clients share a slot.
HandleIsOwn ==
  \A c \in Clients :
    ctx /\ Idle(c) /\ NoDestroy /\ index[c] # 0 =>
      /\ owner[ti[index[c]].opaque] = c
      /\ ti[index[c]].status # "DONE"
      /\ ~ti[index[c]].detach

\* Destroying the pool leaves no state behind: each one ever requested has been
\* freed exactly once.
DestroyFreesAll ==
  ~ctx => \A k \in Tasks : owner[k] # Nobody => cleanups[k] = 1

\* Destroy comes to an end whatever the slots are doing.
DestroyEndsEventually ==
  \A c \in Clients : pc[c] = "destroy" ~> pc[c] = "idle"

\* A request its client has no handle to any more (cleared, replaced by another
\* request, never dispatched) is freed once its thread is done.
AbandonedIsFreed ==
  \A k \in Tasks, c \in Clients :
    owner[k] = c /\ Idle(c) /\ (index[c] # 0 => ti[index[c]].opaque # k) ~> Freed(k)
=============================================================================

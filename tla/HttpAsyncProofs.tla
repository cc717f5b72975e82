-------------------------- MODULE HttpAsyncProofs --------------------------
(***************************************************************************)
(* The safety of HttpAsync, for any number of clients, slots and requests:  *)
(* a state is freed once and not under its reader, a handle is its client's *)
(* own, and destroying the pool leaves nothing behind.                      *)
(*                                                                         *)
(* A request's state has one place at a time: with the client that is       *)
(* dispatching it, in one slot that is not DONE, or freed.                  *)
(***************************************************************************)
EXTENDS HttpAsync, TLAPS

Active(x) == ti[x].status # "DONE"
Pending(c) == pc[c] \in {"scan", "taken", "failed"}
OwnSlot(c, x) == Active(x) /\ owner[ti[x].opaque] = c /\ ~ti[x].detach

\* A slot is in use by one request, whose state is not freed.
SlotInv ==
  /\ ~Active(0)
  /\ \A x \in Slots : worker[x] = "running" <=> ti[x].status = "CONTINUE"
  /\ \A x \in Slots : Active(x) =>
       /\ ti[x].opaque \in Tasks
       /\ owner[ti[x].opaque] # Nobody
       /\ cleanups[ti[x].opaque] = 0
  /\ \A x, y \in Slots : Active(x) /\ Active(y) /\ ti[x].opaque = ti[y].opaque => x = y

\* A state that was requested and not freed is in a slot or with its client.
TaskInv ==
  \A k \in Tasks :
    /\ cleanups[k] <= 1
    /\ owner[k] = Nobody => cleanups[k] = 0
    /\ owner[k] # Nobody /\ cleanups[k] = 0 =>
         \/ \E x \in Slots : Active(x) /\ ti[x].opaque = k
         \/ \E c \in Clients : Pending(c) /\ arg[c].task = k

\* Where a client's call has got to.
PendingInv ==
  \A c \in Clients : Pending(c) =>
    /\ arg[c].task \in Tasks
    /\ owner[arg[c].task] = c
    /\ cleanups[arg[c].task] = 0
    /\ \A x \in Slots : Active(x) => ti[x].opaque # arg[c].task
CallInv ==
  \A c \in Clients :
    /\ pc[c] # "idle" => ctx
    /\ pc[c] = "scan" => arg[c].x >= 1
    /\ pc[c] = "taken" => arg[c].x \in 1..MaxThreads /\ mutex[arg[c].x] = c /\ ~Active(arg[c].x)
    /\ pc[c] = "started" => arg[c].x \in 1..MaxThreads /\ OwnSlot(c, arg[c].x)
    /\ pc[c] = "failed" => arg[c].x = 0
    /\ pc[c] = "read" => index[c] # 0 /\ arg[c].task = ti[index[c]].opaque

\* A client that is not about to replace it has a handle to a slot of its own.
HandleInv ==
  \A c \in Clients :
    ctx /\ NoDestroy /\ pc[c] \in {"idle", "detach", "read"} /\ index[c] # 0
      => OwnSlot(c, index[c])

\* Destroy is alone, and the slots that it passed are not in use.
DestroyInv ==
  /\ ~ctx => \A x \in Slots : ~Active(x)
  /\ \A c \in Clients :
       /\ pc[c] \in {"destroy", "join", "destroyed"} => Quiet(c)
       /\ pc[c] \in {"destroy", "join"} =>
            arg[c].detach /\ \A x \in Slots : x < arg[c].x => ~Active(x)
       /\ pc[c] = "join" =>
            /\ arg[c].x \in Slots
            /\ Active(arg[c].x) => ti[arg[c].x].status = "CONTINUE" /\ ti[arg[c].x].detach
       /\ pc[c] = "destroyed" => \A x \in Slots : ~Active(x)

IInv ==
  /\ TypeOK
  /\ SlotInv /\ TaskInv
  /\ PendingInv /\ CallInv
  /\ HandleInv /\ DestroyInv

-----------------------------------------------------------------------------
(* What a step may be known by. *)

\* The state in slot x is freed and the slot is given back.
Frees(x) ==
  /\ ti' = [ti EXCEPT ![x].status = "DONE"]
  /\ cleanups' = [cleanups EXCEPT ![ti[x].opaque] = 1]

\* A request that is still running is to be freed by its thread.
Abandons(x) ==
  /\ ti[x].status = "CONTINUE"
  /\ ti' = [ti EXCEPT ![x].detach = TRUE]
  /\ cleanups' = cleanups

LEMMA DetachEffect ==
  ASSUME IInv, NEW x \in Slots, DetachSlot(x, TRUE)
  PROVE  \/ Abandons(x)
         \/ ti[x].status = "OK" /\ Frees(x)
         \/ ~Active(x) /\ UNCHANGED <<ti, cleanups>>
<1>1. ti[x] \in SlotInfo
  BY DEF IInv, TypeOK, PoolTypeOK
<1>2. Active(x) => ti[x].opaque \in Tasks /\ ti[x].opaque # NoTask /\ cleanups[ti[x].opaque] = 0
  BY PoolAssumption DEF IInv, SlotInv
<1>3. CASE ti[x].status = "CONTINUE"
  BY <1>3 DEF DetachSlot, Abandons
<1>4. CASE ti[x].status = "OK"
  <2>1. ti' = [ti EXCEPT ![x].status = "DONE"] /\ CleanUp(x)
    BY <1>4 DEF DetachSlot
  <2>2. cleanups' = [cleanups EXCEPT ![ti[x].opaque] = cleanups[ti[x].opaque] + 1]
    BY <1>2, <1>4, <2>1 DEF CleanUp, Active
  <2>3. cleanups[ti[x].opaque] + 1 = 1
    BY <1>2, <1>4 DEF Active
  <2>4. QED
    BY <1>4, <2>1, <2>2, <2>3 DEF Frees
<1>5. CASE ti[x].status = "DONE"
  BY <1>5 DEF DetachSlot, Active
<1>6. QED
  BY <1>1, <1>3, <1>4, <1>5 DEF SlotInfo, Statuses

LEMMA FreesEffect ==
  ASSUME IInv, NEW x \in Slots, Active(x), Frees(x)
  PROVE  /\ ti' \in [Slots -> SlotInfo] /\ cleanups' \in [Tasks -> Nat]
         /\ ti[x].opaque \in Tasks
         /\ \A y \in Slots : /\ y # x => ti'[y] = ti[y]
                             /\ ti'[y].opaque = ti[y].opaque
                             /\ ti'[y].detach = ti[y].detach
         /\ ti'[x].status = "DONE"
         /\ \A k \in Tasks : cleanups'[k] = IF k = ti[x].opaque THEN 1 ELSE cleanups[k]
BY DEF IInv, TypeOK, PoolTypeOK, SlotInv, SlotInfo, Statuses, Frees

LEMMA AbandonsEffect ==
  ASSUME IInv, NEW x \in Slots, Abandons(x)
  PROVE  /\ ti' \in [Slots -> SlotInfo]
         /\ \A y \in Slots : /\ y # x => ti'[y] = ti[y]
                             /\ ti'[y].opaque = ti[y].opaque
                             /\ ti'[y].status = ti[y].status
         /\ ti'[x].detach
BY DEF IInv, TypeOK, PoolTypeOK, SlotInfo, Statuses, Abandons

\* A task is requested only with a client that is dispatching it.
OwnersStay ==
  \A k \in Tasks :
    \/ owner'[k] = owner[k]
    \/ owner[k] = Nobody /\ \E c \in Clients : Pending(c)' /\ arg'[c].task = k
PendingStay == \A c \in Clients : Pending(c) => Pending(c)' /\ arg'[c] = arg[c]

\* Nothing that is requested and not freed is lost by a step that keeps it in its slot.
LEMMA TaskStays ==
  ASSUME TaskInv, OwnersStay, UNCHANGED cleanups,
         \A c \in Clients : Pending(c) => Pending(c)' /\ arg'[c].task = arg[c].task,
         \A x \in Slots : Active(x) => Active(x)' /\ ti'[x].opaque = ti[x].opaque
  PROVE  TaskInv'
<1> SUFFICES ASSUME NEW k \in Tasks, owner'[k] # Nobody, cleanups[k] = 0
             PROVE  \/ \E x \in Slots : Active(x)' /\ ti'[x].opaque = k
                    \/ \E c \in Clients : Pending(c)' /\ arg'[c].task = k
  BY DEF TaskInv, OwnersStay
<1>1. CASE \E x \in Slots : Active(x) /\ ti[x].opaque = k
  BY <1>1
<1>2. CASE \E c \in Clients : Pending(c) /\ arg[c].task = k
  BY <1>2
<1>3. QED
  BY <1>1, <1>2 DEF TaskInv, OwnersStay

\* A step that leaves the slots' use as it is.
LEMMA SlotsStay ==
  ASSUME IInv, OwnersStay, UNCHANGED cleanups,
         \A x \in Slots : /\ ti'[x].status = ti[x].status /\ ti'[x].opaque = ti[x].opaque
                          /\ worker'[x] = "running" <=> worker[x] = "running"
  PROVE  SlotInv'
BY PoolAssumption DEF IInv, SlotInv, Active, OwnersStay, Slots

\* A request's state is freed, by a step that leaves the other slots alone.
LEMMA FreesKeeps ==
  ASSUME IInv, NEW x \in Slots, Active(x), Frees(x), OwnersStay, PendingStay,
         \A y \in Slots : worker'[y] = "running" <=> worker[y] = "running" /\ y # x
  PROVE  SlotInv' /\ TaskInv'
<1>1. SlotInv'
  <2>1. ~Active(0)'
    BY FreesEffect, PoolAssumption DEF IInv, SlotInv, Active, Slots
  <2>2. ASSUME NEW y \in Slots
        PROVE  worker'[y] = "running" <=> ti'[y].status = "CONTINUE"
    BY FreesEffect DEF IInv, SlotInv
  <2>3. ASSUME NEW y \in Slots, Active(y)'
        PROVE  /\ y # x /\ Active(y) /\ ti'[y] = ti[y]
               /\ cleanups'[ti[y].opaque] = cleanups[ti[y].opaque]
    BY <2>3, FreesEffect DEF IInv, SlotInv, Active
  <2>4. QED
    BY <2>1, <2>2, <2>3 DEF IInv, SlotInv, OwnersStay
<1>2. TaskInv'
  <2> SUFFICES ASSUME NEW k \in Tasks
               PROVE  /\ cleanups'[k] <= 1
                      /\ owner'[k] = Nobody => cleanups'[k] = 0
                      /\ owner'[k] # Nobody /\ cleanups'[k] = 0 =>
                           \/ \E y \in Slots : Active(y)' /\ ti'[y].opaque = k
                           \/ \E c \in Clients : Pending(c)' /\ arg'[c].task = k
    BY DEF TaskInv
  <2>1. CASE k = ti[x].opaque
    BY <2>1, FreesEffect DEF IInv, SlotInv, OwnersStay
  <2>2. CASE k # ti[x].opaque
    <3>1. cleanups'[k] = cleanups[k]
      BY <2>2, FreesEffect
    <3>2. ASSUME NEW y \in Slots, Active(y), ti[y].opaque = k
          PROVE  Active(y)' /\ ti'[y].opaque = k
      BY <2>2, <3>2, FreesEffect DEF Active
    <3>3. QED
      BY <3>1, <3>2 DEF IInv, TaskInv, OwnersStay, PendingStay
  <2>3. QED
    BY <2>1, <2>2
<1>3. QED
  BY <1>1, <1>2

\* MTY_ThreadPoolDetach with a callback leaves the other slots alone; in its own the
\* request was not there, is freed, or will be freed by its thread.
LEMMA DetachKeeps ==
  ASSUME IInv, NEW x \in Slots,
         DetachSlot(x, TRUE) \/ (~Active(x) /\ UNCHANGED <<ti, cleanups>>),
         UNCHANGED worker, OwnersStay, PendingStay
  PROVE  /\ ti' \in [Slots -> SlotInfo] /\ cleanups' \in [Tasks -> Nat]
         /\ SlotInv' /\ TaskInv'
         /\ \A y \in Slots : /\ y # x => ti'[y] = ti[y]
                             /\ Active(y)' => Active(y)
                             /\ ti'[y].opaque = ti[y].opaque
         /\ Active(x)' => ti'[x].status = "CONTINUE" /\ ti'[x].detach
         /\ \A k \in Tasks : cleanups'[k] # cleanups[k] => Active(x) /\ k = ti[x].opaque
<1>1. CASE Abandons(x)
  <2>1. SlotInv'
    BY <1>1, AbandonsEffect, SlotsStay DEF Abandons
  <2>2. TaskInv'
    BY <1>1, AbandonsEffect, TaskStays DEF Abandons, IInv, PendingStay, Active
  <2>3. QED
    BY <1>1, <2>1, <2>2, AbandonsEffect
    DEF Abandons, Active, IInv, TypeOK, PoolTypeOK
<1>2. CASE ti[x].status = "OK" /\ Frees(x)
  <2>1. Active(x)
    BY <1>2 DEF Active
  <2>2. worker[x] # "running"
    BY <1>2 DEF IInv, SlotInv
  <2>3. SlotInv' /\ TaskInv'
    BY <1>2, <2>1, <2>2, FreesKeeps
  <2>4. QED
    BY <1>2, <2>1, <2>3, FreesEffect DEF Active
<1>3. CASE ~Active(x) /\ UNCHANGED <<ti, cleanups>>
  <2>1. SlotInv' /\ TaskInv'
    BY <1>3, SlotsStay, TaskStays DEF IInv, PendingStay, Active
  <2>2. QED
    BY <1>3, <2>1 DEF Active, IInv, TypeOK, PoolTypeOK
<1>4. QED
  BY <1>1, <1>2, <1>3, DetachEffect

-----------------------------------------------------------------------------
(* Calls change what a client has in arg. *)

LEMMA ArgX ==
  ASSUME arg \in [Clients -> Args], NEW c \in Clients, NEW n \in 0..(MaxThreads + 1),
         arg' = [arg EXCEPT ![c].x = n]
  PROVE  /\ arg' \in [Clients -> Args]
         /\ arg'[c].x = n /\ arg'[c].detach = arg[c].detach /\ arg'[c].task = arg[c].task
         /\ \A d \in Clients : d # c => arg'[d] = arg[d]
BY DEF Args

LEMMA ArgXDetach ==
  ASSUME arg \in [Clients -> Args], NEW c \in Clients, NEW n \in 0..(MaxThreads + 1),
         NEW b \in BOOLEAN, arg' = [arg EXCEPT ![c].x = n, ![c].detach = b]
  PROVE  /\ arg' \in [Clients -> Args]
         /\ arg'[c].x = n /\ arg'[c].detach = b
         /\ \A d \in Clients : d # c => arg'[d] = arg[d]
BY DEF Args

LEMMA ArgXTask ==
  ASSUME arg \in [Clients -> Args], NEW c \in Clients, NEW n \in 0..(MaxThreads + 1),
         NEW k \in Tasks \cup {NoTask}, arg' = [arg EXCEPT ![c].x = n, ![c].task = k]
  PROVE  /\ arg' \in [Clients -> Args]
         /\ arg'[c].x = n /\ arg'[c].task = k
         /\ \A d \in Clients : d # c => arg'[d] = arg[d]
BY DEF Args

LEMMA ArgPolled ==
  ASSUME arg \in [Clients -> Args], NEW c \in Clients, NEW n \in 0..(MaxThreads + 1),
         NEW k \in Tasks \cup {NoTask}, NEW t \in Statuses,
         arg' = [arg EXCEPT ![c].x = n, ![c].task = k, ![c].status = t]
  PROVE  /\ arg' \in [Clients -> Args]
         /\ arg'[c].task = k /\ arg'[c].status = t
         /\ \A d \in Clients : d # c => arg'[d] = arg[d]
BY DEF Args

LEMMA ArgNone ==
  ASSUME arg \in [Clients -> Args], NEW c \in Clients, arg' = [arg EXCEPT ![c] = NoArgs]
  PROVE  /\ arg' \in [Clients -> Args]
         /\ \A d \in Clients : d # c => arg'[d] = arg[d]
BY PoolAssumption DEF Args, NoArgs, Statuses

Points == {"idle", "detach", "scan", "taken", "started", "failed", "read", "clear",
           "destroy", "join", "destroyed"}

LEMMA Goes ==
  ASSUME TypeOK, NEW c \in Clients, NEW at \in Points, pc' = [pc EXCEPT ![c] = at]
  PROVE  /\ pc' \in [Clients -> Points] /\ pc'[c] = at
         /\ \A d \in Clients : d # c => pc'[d] = pc[d]
BY DEF TypeOK, Points

\* While a client is in a call that is not Destroy, nobody destroys.
LEMMA CallersShare ==
  ASSUME IInv, NEW c \in Clients, pc[c] \notin {"idle", "destroy", "join", "destroyed"}
  PROVE  NoDestroy
BY DEF IInv, DestroyInv, Quiet, NoDestroy, Idle

-----------------------------------------------------------------------------
(* One lemma for each action. *)

LEMMA CreateKeeps ==
  ASSUME IInv, NEW c \in Clients, Create(c)
  PROVE  IInv'
<1>1. /\ UNCHANGED <<ti, mutex, worker, pc, arg, cleanups, glock, index, owner>>
      /\ ~ctx /\ ctx' /\ \A d \in Clients : index[d] = 0
  BY DEF Create, poolVars
<1>2. TypeOK'
  BY <1>1 DEF IInv, TypeOK, PoolTypeOK, Create
<1>3. SlotInv'
  BY <1>1, SlotsStay DEF OwnersStay
<1>4. TaskInv'
  BY <1>1, TaskStays DEF IInv, OwnersStay, Pending, Active
<1>5. PendingInv'
  BY <1>1 DEF IInv, PendingInv, Pending, Active
<1>6. CallInv'
  BY <1>1 DEF IInv, CallInv, OwnSlot, Active
<1>7. HandleInv'
  BY <1>1 DEF IInv, HandleInv, DestroyInv, Quiet, NoDestroy, OwnSlot, Active, Idle
<1>8. DestroyInv'
  BY <1>1 DEF IInv, DestroyInv, CallInv, Quiet, Active, Idle
<1>9. QED
  BY <1>2, <1>3, <1>4, <1>5, <1>6, <1>7, <1>8 DEF IInv

LEMMA DestroyKeeps ==
  ASSUME IInv, NEW c \in Clients, Destroy(c)
  PROVE  IInv'
<1>1. /\ pc' \in [Clients -> Points]
      /\ arg' \in [Clients -> Args]
      /\ pc'[c] = "destroy" /\ arg'[c].x = 0 /\ arg'[c].detach
      /\ \A d \in Clients : d # c => arg'[d] = arg[d] /\ pc'[d] = pc[d]
      /\ pc[c] = "idle" /\ Quiet(c) /\ ctx /\ glock' = c
      /\ UNCHANGED <<ti, mutex, worker, cleanups, ctx, index, owner>>
  <2>1. /\ arg' \in [Clients -> Args] /\ arg'[c].x = 0 /\ arg'[c].detach = TRUE
        /\ \A d \in Clients : d # c => arg'[d] = arg[d]
    <3>1. 0 \in 0..(MaxThreads + 1) /\ arg' = [arg EXCEPT ![c].x = 0, ![c].detach = TRUE]
      BY PoolAssumption DEF Destroy
    <3>2. QED
      BY <3>1, ArgXDetach DEF IInv, TypeOK, PoolTypeOK
  <2>2. QED
    BY <2>1, Goes DEF Destroy, Goto, Idle, Points, IInv
<1>2. TypeOK'
  BY <1>1 DEF IInv, TypeOK, PoolTypeOK, Points
<1>3. SlotInv'
  BY <1>1, SlotsStay DEF OwnersStay
<1>4. TaskInv'
  BY <1>1, TaskStays DEF IInv, OwnersStay, Pending, Active
<1>5. PendingInv'
  BY <1>1 DEF IInv, PendingInv, Pending, Active
<1>6. CallInv'
  BY <1>1 DEF IInv, CallInv, OwnSlot, Active
<1>7. HandleInv'
  BY <1>1 DEF IInv, HandleInv, DestroyInv, Quiet, NoDestroy, OwnSlot, Active, Idle
<1>8. DestroyInv'
  BY <1>1 DEF IInv, DestroyInv, CallInv, Quiet, Active, Idle, Slots
<1>9. QED
  BY <1>2, <1>3, <1>4, <1>5, <1>6, <1>7, <1>8 DEF IInv

LEMMA DestroyJoinKeeps ==
  ASSUME IInv, NEW c \in Clients, DestroyJoin(c, "destroy", "join"), UNCHANGED asyncVars
  PROVE  IInv'
<1>1. /\ pc' \in [Clients -> Points]
      /\ arg' \in [Clients -> Args]
      /\ pc[c] = "join" /\ pc'[c] = "destroy"
      /\ arg[c].x \in Slots /\ arg'[c].x = arg[c].x + 1 /\ arg'[c].detach = arg[c].detach
      /\ \A d \in Clients : d # c => arg'[d] = arg[d] /\ pc'[d] = pc[d]
      /\ ~Active(arg[c].x) /\ worker[arg[c].x] # "running"
      /\ worker' = [worker EXCEPT ![arg[c].x] = "none"]
      /\ UNCHANGED <<ti, mutex, cleanups, ctx, glock, index, owner>>
  <2>1. pc[c] = "join" /\ arg[c].x \in Slots /\ worker[arg[c].x] # "running"
    BY DEF DestroyJoin, Joinable, IInv, DestroyInv
  <2>2. ~Active(arg[c].x)
    BY <2>1 DEF IInv, DestroyInv, SlotInv
  <2>3. arg[c].x + 1 \in 0..(MaxThreads + 1)
    BY <2>1, PoolAssumption DEF Slots
  <2>4. /\ arg' \in [Clients -> Args] /\ arg'[c].x = arg[c].x + 1
        /\ arg'[c].detach = arg[c].detach
        /\ \A d \in Clients : d # c => arg'[d] = arg[d]
    BY <2>3, ArgX DEF DestroyJoin, IInv, TypeOK, PoolTypeOK
  <2>5. QED
    BY <2>1, <2>2, <2>3, <2>4, Goes DEF DestroyJoin, asyncVars, Points, IInv
<1>2. TypeOK'
  BY <1>1 DEF IInv, TypeOK, PoolTypeOK, Points
<1>3. SlotInv'
  BY <1>1, SlotsStay DEF OwnersStay, IInv, TypeOK, PoolTypeOK
<1>4. TaskInv'
  BY <1>1, TaskStays DEF IInv, OwnersStay, Pending, Active
<1>5. PendingInv'
  BY <1>1 DEF IInv, PendingInv, Pending, Active
<1>6. CallInv'
  BY <1>1 DEF IInv, CallInv, OwnSlot, Active
<1>7. HandleInv'
  BY <1>1 DEF IInv, HandleInv, DestroyInv, Quiet, NoDestroy, OwnSlot, Active, Idle
<1>8. DestroyInv'
  BY <1>1, PoolAssumption DEF IInv, DestroyInv, CallInv, Quiet, Active, Idle, Slots
<1>9. QED
  BY <1>2, <1>3, <1>4, <1>5, <1>6, <1>7, <1>8 DEF IInv

LEMMA DestroyEndsKeeps ==
  ASSUME IInv, NEW c \in Clients, DestroyEnds(c, "destroy", "destroyed"), UNCHANGED asyncVars
  PROVE  IInv'
<1>1. /\ pc' \in [Clients -> Points]
      /\ arg' \in [Clients -> Args]
      /\ pc[c] = "destroy" /\ pc'[c] = "destroyed" /\ Quiet(c) /\ ctx
      /\ \A d \in Clients : d # c => arg'[d] = arg[d] /\ pc'[d] = pc[d]
      /\ \A x \in Slots : ~Active(x) /\ ti'[x] = FreshSlot
      /\ ti' \in [Slots -> SlotInfo]
      /\ UNCHANGED <<mutex, worker, cleanups, ctx, glock, index, owner>>
  <2>1. pc[c] = "destroy" /\ arg[c].x = MaxThreads + 1
    BY DEF DestroyEnds
  <2>2. Quiet(c) /\ ctx /\ \A x \in Slots : ~Active(x)
    BY <2>1, PoolAssumption DEF IInv, DestroyInv, CallInv, Slots
  <2>3. QED
    BY <2>1, <2>2, Goes, ArgNone, PoolAssumption
    DEF DestroyEnds, asyncVars, FreshSlot, SlotInfo, Statuses, Points, IInv, TypeOK, PoolTypeOK
<1>2. TypeOK'
  BY <1>1 DEF IInv, TypeOK, PoolTypeOK, Points
<1>3. SlotInv'
  BY <1>1, PoolAssumption
  DEF IInv, SlotInv, TypeOK, PoolTypeOK, SlotInfo, Statuses, Active, FreshSlot, Slots
<1>4. TaskInv'
  BY <1>1, TaskStays DEF IInv, OwnersStay, Pending, Active, Quiet, Idle
<1>5. PendingInv'
  BY <1>1 DEF IInv, PendingInv, Pending, Active, Quiet, Idle
<1>6. CallInv'
  BY <1>1 DEF IInv, CallInv, OwnSlot, Active, Quiet, Idle
<1>7. HandleInv'
  BY <1>1 DEF IInv, HandleInv, DestroyInv, Quiet, NoDestroy, OwnSlot, Active, Idle
<1>8. DestroyInv'
  BY <1>1 DEF IInv, DestroyInv, CallInv, Quiet, Active, Idle, FreshSlot
<1>9. QED
  BY <1>2, <1>3, <1>4, <1>5, <1>6, <1>7, <1>8 DEF IInv

LEMMA DestroyedKeeps ==
  ASSUME IInv, NEW c \in Clients, Destroyed(c)
  PROVE  IInv'
<1>1. /\ pc' \in [Clients -> Points]
      /\ pc[c] = "destroyed" /\ pc'[c] = "idle" /\ Quiet(c) /\ ~ctx' /\ ctx
      /\ \A d \in Clients : d # c => pc'[d] = pc[d]
      /\ \A x \in Slots : ~Active(x)
      /\ glock' = Nobody
      /\ UNCHANGED <<ti, mutex, worker, arg, cleanups, index, owner>>
  BY Goes DEF Destroyed, Goto, DestroyInv, CallInv, IInv, TypeOK, PoolTypeOK, Points
<1>2. TypeOK'
  BY <1>1 DEF IInv, TypeOK, PoolTypeOK, Points, Destroyed
<1>3. SlotInv'
  BY <1>1, SlotsStay DEF OwnersStay
<1>4. TaskInv'
  BY <1>1, TaskStays DEF IInv, OwnersStay, Pending, Active
<1>5. PendingInv'
  BY <1>1 DEF IInv, PendingInv, Pending, Active, Quiet, Idle
<1>6. CallInv'
  BY <1>1 DEF IInv, CallInv, OwnSlot, Active, Quiet, Idle
<1>7. HandleInv'
  BY <1>1 DEF IInv, HandleInv, DestroyInv, Quiet, NoDestroy, OwnSlot, Active, Idle
<1>8. DestroyInv'
  BY <1>1 DEF IInv, DestroyInv, CallInv, Quiet, Active, Idle
<1>9. QED
  BY <1>2, <1>3, <1>4, <1>5, <1>6, <1>7, <1>8 DEF IInv

LEMMA ForgetHandleKeeps ==
  ASSUME IInv, NEW c \in Clients, ForgetHandle(c)
  PROVE  IInv'
<1>1. /\ UNCHANGED <<ti, mutex, worker, pc, arg, cleanups, ctx, glock, owner>>
      /\ ~ctx /\ index' \in [Clients -> Slots]
  BY PoolAssumption DEF ForgetHandle, poolVars, Slots, IInv, TypeOK, PoolTypeOK, Points
<1>2. TypeOK'
  BY <1>1 DEF IInv, TypeOK, PoolTypeOK, Points
<1>3. SlotInv'
  BY <1>1, SlotsStay DEF OwnersStay
<1>4. TaskInv'
  BY <1>1, TaskStays DEF IInv, OwnersStay, Pending, Active
<1>5. PendingInv'
  BY <1>1 DEF IInv, PendingInv, Pending, Active
<1>6. CallInv'
  BY <1>1 DEF IInv, CallInv, OwnSlot, Active
<1>7. HandleInv'
  BY <1>1 DEF IInv, HandleInv, DestroyInv, Quiet, NoDestroy, OwnSlot, Active, Idle
<1>8. DestroyInv'
  BY <1>1 DEF IInv, DestroyInv, CallInv, Quiet, Active, Idle
<1>9. QED
  BY <1>2, <1>3, <1>4, <1>5, <1>6, <1>7, <1>8 DEF IInv

LEMMA RequestKeeps ==
  ASSUME IInv, NEW c \in Clients, Request(c)
  PROVE  IInv'
<1>1. /\ pc' \in [Clients -> Points]
      /\ pc[c] = "idle" /\ pc'[c] = "detach" /\ NoDestroy /\ ctx
      /\ \A d \in Clients : d # c => pc'[d] = pc[d]
      /\ UNCHANGED <<ti, mutex, worker, arg, cleanups, ctx, glock, index, owner>>
  BY Goes DEF Request, Goto, Idle, IInv, TypeOK, PoolTypeOK, Points
<1>2. TypeOK'
  BY <1>1 DEF IInv, TypeOK, PoolTypeOK, Points
<1>3. SlotInv'
  BY <1>1, SlotsStay DEF OwnersStay
<1>4. TaskInv'
  BY <1>1, TaskStays DEF IInv, OwnersStay, Pending, Active
<1>5. PendingInv'
  BY <1>1 DEF IInv, PendingInv, Pending, Active
<1>6. CallInv'
  BY <1>1 DEF IInv, CallInv, OwnSlot, Active
<1>7. HandleInv'
  BY <1>1 DEF IInv, HandleInv, DestroyInv, Quiet, NoDestroy, OwnSlot, Active, Idle
<1>8. DestroyInv'
  <2>1. ctx' /\ \A d \in Clients : pc'[d] \notin {"destroy", "join", "destroyed"}
    BY <1>1 DEF NoDestroy
  <2>2. QED
    BY <2>1 DEF DestroyInv
<1>9. QED
  BY <1>2, <1>3, <1>4, <1>5, <1>6, <1>7, <1>8 DEF IInv

LEMMA DispatchScanKeeps ==
  ASSUME IInv, NEW c \in Clients, DispatchScan(c, "scan", "taken"), UNCHANGED asyncVars
  PROVE  IInv'
<1>1. /\ pc' \in [Clients -> Points]
      /\ arg' \in [Clients -> Args]
      /\ pc[c] = "scan" /\ NoDestroy /\ ctx
      /\ \/ /\ pc'[c] = "taken" /\ arg' = arg
            /\ arg[c].x \in 1..MaxThreads /\ mutex[arg[c].x] = Nobody /\ ~Active(arg[c].x)
            /\ mutex' = [mutex EXCEPT ![arg[c].x] = c]
         \/ /\ pc' = pc /\ arg'[c].x \in 1..(MaxThreads + 1) /\ arg'[c].task = arg[c].task
            /\ mutex' = mutex
      /\ \A d \in Clients : d # c => arg'[d] = arg[d] /\ pc'[d] = pc[d]
      /\ UNCHANGED <<ti, worker, cleanups, ctx, glock, index, owner>>
  <2>1. pc[c] = "scan" /\ arg[c].x \in 1..MaxThreads /\ ctx
    BY PoolAssumption DEF DispatchScan, CallInv, Args, IInv, TypeOK, PoolTypeOK
  <2>2. NoDestroy
    BY <2>1, CallersShare
  <2>3. CASE ti[arg[c].x].status = "DONE"
    BY <2>1, <2>2, <2>3, Goes DEF DispatchScan, asyncVars, Active, Points, IInv, TypeOK, PoolTypeOK
  <2>4. CASE ti[arg[c].x].status # "DONE"
    <3>1. arg[c].x + 1 \in 0..(MaxThreads + 1) /\ arg[c].x + 1 \in 1..(MaxThreads + 1)
      BY <2>1, PoolAssumption
    <3>2. arg' = [arg EXCEPT ![c].x = arg[c].x + 1]
      BY <2>4 DEF DispatchScan
    <3>3. arg \in [Clients -> Args] /\ pc \in [Clients -> Points]
      BY DEF Points, IInv, TypeOK, PoolTypeOK
    <3>4. /\ arg' \in [Clients -> Args]
          /\ arg'[c].x = arg[c].x + 1 /\ arg'[c].task = arg[c].task
          /\ \A d \in Clients : d # c => arg'[d] = arg[d]
      BY <3>1, <3>2, <3>3, ArgX
    <3>5. UNCHANGED <<pc, mutex, ti, worker, cleanups, ctx, glock, index, owner>>
      BY <2>4 DEF DispatchScan, asyncVars
    <3>6. QED
      BY <2>1, <2>2, <3>1, <3>3, <3>4, <3>5
  <2>5. QED
    BY <2>3, <2>4
<1>2. TypeOK'
  BY <1>1 DEF IInv, TypeOK, PoolTypeOK, Points, Slots
<1>3. SlotInv'
  BY <1>1, SlotsStay DEF OwnersStay
<1>4. TaskInv'
  BY <1>1, TaskStays DEF IInv, OwnersStay, Pending, Active
<1>5. PendingInv'
  BY <1>1 DEF IInv, PendingInv, Pending, Active
<1>6. CallInv'
  <2> SUFFICES ASSUME NEW d \in Clients
               PROVE  /\ pc'[d] # "idle" => ctx
                      /\ pc'[d] = "scan" => arg'[d].x >= 1
                      /\ pc'[d] = "taken" =>
                           arg'[d].x \in 1..MaxThreads /\ mutex'[arg'[d].x] = d /\ ~Active(arg'[d].x)
                      /\ pc'[d] = "started" => arg'[d].x \in 1..MaxThreads /\ OwnSlot(d, arg'[d].x)
                      /\ pc'[d] = "failed" => arg'[d].x = 0
                      /\ pc'[d] = "read" => index[d] # 0 /\ arg'[d].task = ti[index[d]].opaque
    BY <1>1 DEF CallInv, OwnSlot, Active
  <2>1. CASE d # c
    <3>1. pc'[d] = pc[d] /\ arg'[d] = arg[d]
      BY <1>1, <2>1
    <3>2. CASE pc[d] = "taken"
      <4>1. arg[d].x \in 1..MaxThreads /\ mutex[arg[d].x] = d /\ arg[d].x \in Slots
        BY <3>2, PoolAssumption DEF IInv, CallInv, Slots
      <4>2. mutex \in [Slots -> Clients \cup {Nobody}] /\ d # Nobody
        BY PoolAssumption DEF IInv, TypeOK, PoolTypeOK
      <4>3. mutex'[arg[d].x] = d
        BY <1>1, <4>1, <4>2
      <4>4. QED
        BY <3>1, <3>2, <4>1, <4>3 DEF IInv, CallInv
    <3>3. QED
      BY <3>1, <3>2 DEF IInv, CallInv
  <2>2. CASE d = c /\ pc' = pc
    BY <1>1, <2>2 DEF IInv, CallInv
  <2>3. CASE d = c /\ pc'[c] = "taken"
    <3>1. arg[c].x \in 1..MaxThreads /\ arg[c].x \in Slots /\ arg' = arg
      BY <1>1, <2>3, PoolAssumption DEF Slots
    <3>2. mutex \in [Slots -> Clients \cup {Nobody}]
      BY DEF IInv, TypeOK, PoolTypeOK
    <3>3. mutex'[arg[c].x] = c
      BY <1>1, <2>3, <3>1, <3>2
    <3>4. QED
      BY <1>1, <2>3, <3>1, <3>3
  <2>4. QED
    BY <1>1, <2>1, <2>2, <2>3
<1>7. HandleInv'
  <2>1. \A d \in Clients : pc'[d] \in {"idle", "detach", "read"} => pc[d] = pc'[d]
    BY <1>1
  <2>2. QED
    BY <1>1, <2>1 DEF IInv, HandleInv, NoDestroy, OwnSlot, Active
<1>8. DestroyInv'
  <2>1. ctx' /\ \A d \in Clients : pc'[d] \notin {"destroy", "join", "destroyed"}
    BY <1>1 DEF NoDestroy
  <2>2. QED
    BY <2>1 DEF DestroyInv
<1>9. QED
  BY <1>2, <1>3, <1>4, <1>5, <1>6, <1>7, <1>8 DEF IInv

LEMMA DispatchFailsKeeps ==
  ASSUME IInv, NEW c \in Clients, DispatchFails(c, "scan", "failed"), UNCHANGED asyncVars
  PROVE  IInv'
<1>1. /\ pc' \in [Clients -> Points]
      /\ arg' \in [Clients -> Args]
      /\ pc[c] = "scan" /\ pc'[c] = "failed" /\ arg'[c].x = 0 /\ arg'[c].task = arg[c].task
      /\ NoDestroy /\ ctx
      /\ \A d \in Clients : d # c => arg'[d] = arg[d] /\ pc'[d] = pc[d]
      /\ UNCHANGED <<ti, mutex, worker, cleanups, ctx, glock, index, owner>>
  <2>1. /\ arg' \in [Clients -> Args] /\ arg'[c].x = 0 /\ arg'[c].task = arg[c].task
        /\ \A d \in Clients : d # c => arg'[d] = arg[d]
    <3>1. 0 \in 0..(MaxThreads + 1) /\ arg' = [arg EXCEPT ![c].x = 0]
      BY PoolAssumption DEF DispatchFails
    <3>2. QED
      BY <3>1, ArgX DEF IInv, TypeOK, PoolTypeOK
  <2>2. /\ pc[c] = "scan" /\ pc' = [pc EXCEPT ![c] = "failed"]
        /\ UNCHANGED <<ti, mutex, worker, cleanups, ctx, glock, index, owner>>
    BY DEF DispatchFails, asyncVars
  <2>3. /\ pc' \in [Clients -> Points] /\ pc'[c] = "failed"
        /\ \A d \in Clients : d # c => pc'[d] = pc[d]
    BY <2>2, Goes DEF Points, IInv
  <2>4. NoDestroy /\ ctx
    BY <2>2, CallersShare DEF IInv, CallInv
  <2>5. QED
    BY <2>1, <2>2, <2>3, <2>4
<1>2. TypeOK'
  BY <1>1 DEF IInv, TypeOK, PoolTypeOK, Points
<1>3. SlotInv'
  BY <1>1, SlotsStay DEF OwnersStay
<1>4. TaskInv'
  BY <1>1, TaskStays DEF IInv, OwnersStay, Pending, Active
<1>5. PendingInv'
  BY <1>1 DEF IInv, PendingInv, Pending, Active
<1>6. CallInv'
  BY <1>1 DEF IInv, CallInv, OwnSlot, Active
<1>7. HandleInv'
  BY <1>1 DEF IInv, HandleInv, DestroyInv, Quiet, NoDestroy, OwnSlot, Active, Idle
<1>8. DestroyInv'
  <2>1. ctx' /\ \A d \in Clients : pc'[d] \notin {"destroy", "join", "destroyed"}
    BY <1>1 DEF NoDestroy
  <2>2. QED
    BY <2>1 DEF DestroyInv
<1>9. QED
  BY <1>2, <1>3, <1>4, <1>5, <1>6, <1>7, <1>8 DEF IInv

LEMMA PollKeeps ==
  ASSUME IInv, NEW c \in Clients, Poll(c)
  PROVE  IInv'
<1>1. /\ pc' \in [Clients -> Points]
      /\ arg' \in [Clients -> Args]
      /\ pc[c] = "idle" /\ pc'[c] \in {"idle", "read"} /\ arg'[c].task = ti[index[c]].opaque
      /\ NoDestroy /\ ctx /\ index[c] # 0
      /\ \A d \in Clients : d # c => arg'[d] = arg[d] /\ pc'[d] = pc[d]
      /\ UNCHANGED <<ti, mutex, worker, cleanups, ctx, glock, index, owner>>
  <2>1. index[c] \in 0..(MaxThreads + 1) /\ ti[index[c]] \in SlotInfo
    BY PoolAssumption DEF Slots, IInv, TypeOK, PoolTypeOK
  <2>2. /\ arg' \in [Clients -> Args]
        /\ arg'[c].task = ti[index[c]].opaque /\ arg'[c].status = ti[index[c]].status
        /\ \A d \in Clients : d # c => arg'[d] = arg[d]
    <3>1. /\ ti[index[c]].opaque \in Tasks \cup {NoTask} /\ ti[index[c]].status \in Statuses
          /\ arg' = [arg EXCEPT ![c].x = index[c], ![c].task = ti[index[c]].opaque,
                                ![c].status = ti[index[c]].status]
      BY <2>1 DEF Poll, PollSlot, SlotInfo
    <3>2. arg \in [Clients -> Args] /\ index[c] \in 0..(MaxThreads + 1)
      BY <2>1 DEF IInv, TypeOK, PoolTypeOK
    <3>3. QED
      BY <3>1, <3>2, ArgPolled
  <2>3. QED
    BY <2>2, Goes DEF Poll, Goto, Idle, Points, IInv
<1>2. TypeOK'
  BY <1>1 DEF IInv, TypeOK, PoolTypeOK, Points
<1>3. SlotInv'
  BY <1>1, SlotsStay DEF OwnersStay
<1>4. TaskInv'
  BY <1>1, TaskStays DEF IInv, OwnersStay, Pending, Active
<1>5. PendingInv'
  BY <1>1 DEF IInv, PendingInv, Pending, Active
<1>6. CallInv'
  BY <1>1 DEF IInv, CallInv, OwnSlot, Active
<1>7. HandleInv'
  BY <1>1 DEF IInv, HandleInv, DestroyInv, Quiet, NoDestroy, OwnSlot, Active, Idle
<1>8. DestroyInv'
  <2>1. ctx' /\ \A d \in Clients : pc'[d] \notin {"destroy", "join", "destroyed"}
    BY <1>1 DEF NoDestroy
  <2>2. QED
    BY <2>1 DEF DestroyInv
<1>9. QED
  BY <1>2, <1>3, <1>4, <1>5, <1>6, <1>7, <1>8 DEF IInv

LEMMA PollReadKeeps ==
  ASSUME IInv, NEW c \in Clients, PollRead(c)
  PROVE  IInv'
<1>1. /\ pc' \in [Clients -> Points]
      /\ arg' \in [Clients -> Args]
      /\ pc[c] = "read" /\ pc'[c] = "idle" /\ NoDestroy /\ ctx
      /\ \A d \in Clients : d # c => arg'[d] = arg[d] /\ pc'[d] = pc[d]
      /\ UNCHANGED <<ti, mutex, worker, cleanups, ctx, glock, index, owner>>
  <2>1. /\ pc[c] = "read" /\ pc' = [pc EXCEPT ![c] = "idle"]
        /\ arg' = [arg EXCEPT ![c] = NoArgs]
        /\ UNCHANGED <<ti, mutex, worker, cleanups, ctx, glock, index, owner>>
    BY DEF PollRead, Goto, asyncVars
  <2>2. /\ pc' \in [Clients -> Points] /\ pc'[c] = "idle"
        /\ \A d \in Clients : d # c => pc'[d] = pc[d]
    BY <2>1, Goes DEF Points, IInv
  <2>3. arg \in [Clients -> Args]
    BY DEF IInv, TypeOK, PoolTypeOK
  <2>4. arg' \in [Clients -> Args] /\ \A d \in Clients : d # c => arg'[d] = arg[d]
    BY <2>1, <2>3, ArgNone
  <2>5. NoDestroy /\ ctx
    BY <2>1, CallersShare DEF IInv, CallInv
  <2>6. QED
    BY <2>1, <2>2, <2>4, <2>5
<1>2. TypeOK'
  BY <1>1 DEF IInv, TypeOK, PoolTypeOK, Points
<1>3. SlotInv'
  BY <1>1, SlotsStay DEF OwnersStay
<1>4. TaskInv'
  BY <1>1, TaskStays DEF IInv, OwnersStay, Pending, Active
<1>5. PendingInv'
  BY <1>1 DEF IInv, PendingInv, Pending, Active
<1>6. CallInv'
  BY <1>1 DEF IInv, CallInv, OwnSlot, Active
<1>7. HandleInv'
  BY <1>1 DEF IInv, HandleInv, DestroyInv, Quiet, NoDestroy, OwnSlot, Active, Idle
<1>8. DestroyInv'
  <2>1. ctx' /\ \A d \in Clients : pc'[d] \notin {"destroy", "join", "destroyed"}
    BY <1>1 DEF NoDestroy
  <2>2. QED
    BY <2>1 DEF DestroyInv
<1>9. QED
  BY <1>2, <1>3, <1>4, <1>5, <1>6, <1>7, <1>8 DEF IInv

LEMMA ThreadExitKeeps ==
  ASSUME IInv, NEW x \in Slots, ThreadExit(x)
  PROVE  IInv'
<1>1. /\ worker[x] = "leaving" /\ worker' = [worker EXCEPT ![x] = "exited"]
      /\ UNCHANGED <<ti, mutex, pc, arg, cleanups, ctx, glock, index, owner>>
  BY DEF ThreadExit, WorkerExit, asyncVars
<1>2. TypeOK'
  BY <1>1 DEF IInv, TypeOK, PoolTypeOK, Points
<1>3. SlotInv'
  BY <1>1, SlotsStay DEF OwnersStay, IInv, TypeOK, PoolTypeOK
<1>4. TaskInv'
  BY <1>1, TaskStays DEF IInv, OwnersStay, Pending, Active
<1>5. PendingInv'
  BY <1>1 DEF IInv, PendingInv, Pending, Active
<1>6. CallInv'
  BY <1>1 DEF IInv, CallInv, OwnSlot, Active
<1>7. HandleInv'
  BY <1>1 DEF IInv, HandleInv, DestroyInv, Quiet, NoDestroy, OwnSlot, Active, Idle
<1>8. DestroyInv'
  BY <1>1 DEF IInv, DestroyInv, CallInv, Quiet, Active, Idle
<1>9. QED
  BY <1>2, <1>3, <1>4, <1>5, <1>6, <1>7, <1>8 DEF IInv

LEMMA ClearKeeps ==
  ASSUME IInv, NEW c \in Clients, Clear(c)
  PROVE  IInv'
<1>1. /\ pc[c] = "idle" /\ NoDestroy /\ index[c] \in Slots
      /\ DetachSlot(index[c], TRUE) \/ (~Active(index[c]) /\ UNCHANGED <<ti, cleanups>>)
      /\ Active(index[c]) => owner[ti[index[c]].opaque] = c
      /\ index' \in [Clients -> Slots]
      /\ ctx => index'[c] = 0
      /\ \A d \in Clients : d # c => index'[d] = index[d]
      /\ UNCHANGED <<mutex, worker, pc, arg, ctx, glock, owner>>
  <2>1. pc[c] = "idle" /\ NoDestroy /\ index[c] \in Slots
    BY DEF Clear, Idle, IInv, TypeOK
  <2>2. Active(index[c]) => ctx /\ owner[ti[index[c]].opaque] = c
    BY <2>1 DEF IInv, SlotInv, DestroyInv, HandleInv, OwnSlot
  <2>3. CASE ctx
    <3>1. DetachSlot(index[c], TRUE) /\ index' = [index EXCEPT ![c] = 0]
      BY <2>3 DEF Clear
    <3>2. 0 \in Slots
      BY PoolAssumption DEF Slots
    <3>3. /\ index' \in [Clients -> Slots] /\ index'[c] = 0
          /\ \A d \in Clients : d # c => index'[d] = index[d]
      BY <3>1, <3>2 DEF IInv, TypeOK
    <3>4. QED
      BY <2>1, <2>2, <3>1, <3>3 DEF Clear
  <2>4. CASE ~ctx
    BY <2>1, <2>2, <2>4 DEF Clear, IInv, TypeOK
  <2>5. QED
    BY <2>3, <2>4
<1>p. PICK x \in Slots : x = index[c]
  BY <1>1
<1>d. /\ ti' \in [Slots -> SlotInfo] /\ cleanups' \in [Tasks -> Nat]
      /\ SlotInv' /\ TaskInv'
      /\ \A y \in Slots : /\ y # x => ti'[y] = ti[y]
                          /\ Active(y)' => Active(y)
                          /\ ti'[y].opaque = ti[y].opaque
      /\ Active(x)' => ti'[x].status = "CONTINUE" /\ ti'[x].detach
      /\ \A k \in Tasks : cleanups'[k] # cleanups[k] => Active(x) /\ k = ti[x].opaque
  <2>1. OwnersStay
    BY <1>1 DEF OwnersStay
  <2>2. PendingStay
    BY <1>1 DEF PendingStay, Pending
  <2>3. QED
    BY <1>1, <1>p, <2>1, <2>2, DetachKeeps
<1>2. TypeOK'
  BY <1>1, <1>p, <1>d DEF IInv, TypeOK, PoolTypeOK
<1>3. SlotInv'
  BY <1>d
<1>4. TaskInv'
  BY <1>d
<1>5. PendingInv'
  BY <1>1, <1>p, <1>d DEF IInv, PendingInv, Pending
<1>6. CallInv'
  <2>1. ASSUME NEW d \in Clients, d # c, pc[d] = "started"
        PROVE  OwnSlot(d, arg[d].x)'
    <3>1. arg[d].x \in Slots /\ arg[d].x # index[c] /\ OwnSlot(d, arg[d].x)
      BY <1>1, <2>1, PoolAssumption DEF IInv, CallInv, OwnSlot, Slots
    <3>2. ti'[arg[d].x] = ti[arg[d].x] /\ arg'[d] = arg[d] /\ owner[ti[arg[d].x].opaque] = d
      BY <1>1, <1>p, <1>d, <2>1, <3>1 DEF OwnSlot
    <3>3. owner'[ti[arg[d].x].opaque] = d
      BY <1>1, <3>1, <3>2, PoolAssumption DEF IInv, SlotInv, OwnSlot, TypeOK
    <3>4. QED
      BY <3>1, <3>2, <3>3 DEF OwnSlot, Active
  <2>2. ASSUME NEW d \in Clients, d # c, pc[d] = "taken"
        PROVE  ~Active(arg[d].x)'
    BY <1>1, <1>p, <1>d, <2>2 DEF IInv, CallInv, Slots
  <2>3. ASSUME NEW d \in Clients, d # c, pc[d] = "read"
        PROVE  index'[d] # 0 /\ arg'[d].task = ti'[index'[d]].opaque
    BY <1>1, <1>p, <1>d, <2>3 DEF IInv, CallInv, TypeOK
  <2>4. QED
    BY <1>1, <2>1, <2>2, <2>3 DEF IInv, CallInv
<1>7. HandleInv'
  BY <1>1, <1>p, <1>d DEF IInv, HandleInv, NoDestroy, OwnSlot, Active, TypeOK, SlotInv
<1>8. DestroyInv'
  BY <1>1, <1>p, <1>d DEF IInv, DestroyInv, NoDestroy
<1>9. QED
  BY <1>2, <1>3, <1>4, <1>5, <1>6, <1>7, <1>8 DEF IInv

LEMMA RequestDetachKeeps ==
  ASSUME IInv, NEW c \in Clients, RequestDetach(c)
  PROVE  IInv'
<1>1. /\ pc' \in [Clients -> Points]
      /\ arg' \in [Clients -> Args]
      /\ pc[c] = "detach" /\ pc'[c] = "scan" /\ NoDestroy /\ ctx /\ index[c] \in Slots
      /\ DetachSlot(index[c], TRUE) \/ (~Active(index[c]) /\ UNCHANGED <<ti, cleanups>>)
      /\ Active(index[c]) => owner[ti[index[c]].opaque] = c
      /\ arg'[c].x = 1 /\ arg'[c].task \in Tasks /\ owner[arg'[c].task] = Nobody
      /\ owner' = [owner EXCEPT ![arg'[c].task] = c]
      /\ \A d \in Clients : d # c => arg'[d] = arg[d] /\ pc'[d] = pc[d]
      /\ UNCHANGED <<mutex, worker, ctx, glock, index>>
  <2>1. pc[c] = "detach" /\ index[c] \in Slots /\ ctx
    BY DEF RequestDetach, CallInv, IInv, TypeOK
  <2>2. NoDestroy
    BY <2>1, CallersShare
  <2>3. Active(index[c]) => owner[ti[index[c]].opaque] = c
    BY <2>1, <2>2 DEF IInv, SlotInv, HandleInv, OwnSlot
  <2>4. DetachSlot(index[c], TRUE) \/ (~Active(index[c]) /\ UNCHANGED <<ti, cleanups>>)
    <3>1. CASE index[c] # 0
      BY <3>1 DEF RequestDetach
    <3>2. CASE index[c] = 0
      BY <3>2 DEF RequestDetach, IInv, SlotInv
    <3>3. QED
      BY <3>1, <3>2
  <2>5. PICK k \in Tasks : /\ owner[k] = Nobody
                           /\ owner' = [owner EXCEPT ![k] = c]
                           /\ arg' = [arg EXCEPT ![c].x = 1, ![c].task = k]
    BY DEF RequestDetach
  <2>6. arg \in [Clients -> Args] /\ 1 \in 0..(MaxThreads + 1)
    BY PoolAssumption DEF IInv, TypeOK, PoolTypeOK
  <2>7. /\ arg' \in [Clients -> Args] /\ arg'[c].x = 1 /\ arg'[c].task = k
        /\ \A d \in Clients : d # c => arg'[d] = arg[d]
    <3>1. k \in Tasks \cup {NoTask} /\ arg' = [arg EXCEPT ![c].x = 1, ![c].task = k]
      BY <2>5
    <3>2. QED
      BY <2>6, <3>1 DEF Args
  <2>8. pc' = [pc EXCEPT ![c] = "scan"] /\ UNCHANGED <<mutex, worker, ctx, glock, index>>
    BY DEF RequestDetach, Goto
  <2>9. /\ pc' \in [Clients -> Points] /\ pc'[c] = "scan"
        /\ \A d \in Clients : d # c => pc'[d] = pc[d]
    BY <2>8, Goes DEF Points, IInv
  <2>10. QED
    BY <2>1, <2>2, <2>3, <2>4, <2>5, <2>7, <2>8, <2>9
<1>d. /\ ti' \in [Slots -> SlotInfo] /\ cleanups' \in [Tasks -> Nat]
      /\ SlotInv' /\ TaskInv'
      /\ \A y \in Slots : /\ y # index[c] => ti'[y] = ti[y]
                          /\ Active(y)' => Active(y)
                          /\ ti'[y].opaque = ti[y].opaque
      /\ Active(index[c])' => ti'[index[c]].status = "CONTINUE" /\ ti'[index[c]].detach
      /\ \A k \in Tasks :
           cleanups'[k] # cleanups[k] => Active(index[c]) /\ k = ti[index[c]].opaque
  <2>1. OwnersStay
    BY <1>1 DEF OwnersStay, Pending, IInv, TypeOK
  <2>2. PendingStay
    BY <1>1 DEF PendingStay, Pending
  <2>3. QED
    BY <1>1, <2>1, <2>2, DetachKeeps
<1>2. TypeOK'
  BY <1>1, <1>d DEF IInv, TypeOK, PoolTypeOK, Points
<1>3. SlotInv'
  BY <1>d
<1>4. TaskInv'
  BY <1>d
<1>5. PendingInv'
  <2>1. ASSUME NEW d \in Clients, Pending(d)', d # c
        PROVE  /\ arg'[d].task \in Tasks /\ owner'[arg'[d].task] = d
               /\ cleanups'[arg'[d].task] = 0
               /\ \A x \in Slots : Active(x)' => ti'[x].opaque # arg'[d].task
    BY <1>1, <1>d, <2>1, PoolAssumption DEF IInv, PendingInv, Pending
  <2>2. /\ owner'[arg'[c].task] = c /\ cleanups'[arg'[c].task] = 0
        /\ \A x \in Slots : Active(x)' => ti'[x].opaque # arg'[c].task
    BY <1>1, <1>d DEF IInv, SlotInv, TaskInv, TypeOK, PoolTypeOK
  <2>3. QED
    BY <1>1, <2>1, <2>2 DEF PendingInv
<1>6. CallInv'
  <2>1. ASSUME NEW d \in Clients, d # c, pc[d] = "started"
        PROVE  OwnSlot(d, arg[d].x)'
    <3>1. arg[d].x \in Slots /\ arg[d].x # index[c] /\ OwnSlot(d, arg[d].x)
      BY <1>1, <2>1, PoolAssumption DEF IInv, CallInv, OwnSlot, Slots
    <3>2. ti'[arg[d].x] = ti[arg[d].x] /\ arg'[d] = arg[d] /\ owner[ti[arg[d].x].opaque] = d
      BY <1>1, <1>d, <2>1, <3>1 DEF OwnSlot
    <3>3. owner'[ti[arg[d].x].opaque] = d
      BY <1>1, <3>1, <3>2, PoolAssumption DEF IInv, SlotInv, OwnSlot, TypeOK
    <3>4. QED
      BY <3>1, <3>2, <3>3 DEF OwnSlot, Active
  <2>2. ASSUME NEW d \in Clients, d # c, pc[d] = "taken"
        PROVE  ~Active(arg[d].x)'
    BY <1>1, <1>d, <2>2 DEF IInv, CallInv, Slots
  <2>3. ASSUME NEW d \in Clients, d # c, pc[d] = "read"
        PROVE  index'[d] # 0 /\ arg'[d].task = ti'[index'[d]].opaque
    BY <1>1, <1>d, <2>3 DEF IInv, CallInv, TypeOK
  <2>4. QED
    BY <1>1, <2>1, <2>2, <2>3 DEF IInv, CallInv
<1>7. HandleInv'
  BY <1>1, <1>d DEF IInv, HandleInv, NoDestroy, OwnSlot, Active, TypeOK, SlotInv
<1>8. DestroyInv'
  BY <1>1, <1>d DEF IInv, DestroyInv, NoDestroy
<1>9. QED
  BY <1>2, <1>3, <1>4, <1>5, <1>6, <1>7, <1>8 DEF IInv

LEMMA DestroyDetachKeeps ==
  ASSUME IInv, NEW c \in Clients, DestroyDetach(c, "destroy", "join"), UNCHANGED asyncVars
  PROVE  IInv'
<1>1. /\ pc' \in [Clients -> Points] /\ pc[c] = "destroy" /\ pc'[c] = "join"
      /\ arg[c].x \in Slots /\ arg[c].detach /\ Quiet(c) /\ ctx /\ DetachSlot(arg[c].x, TRUE)
      /\ \A d \in Clients : d # c => pc'[d] = pc[d]
      /\ UNCHANGED <<mutex, worker, arg, ctx, glock, index, owner>>
  <2>1. pc[c] = "destroy" /\ arg[c].x <= MaxThreads /\ arg[c] \in Args
    BY DEF DestroyDetach, IInv, TypeOK, PoolTypeOK
  <2>2. arg[c].x \in Slots /\ arg[c].detach = TRUE /\ Quiet(c) /\ ctx
    BY <2>1, PoolAssumption DEF Args, Slots, IInv, DestroyInv, CallInv
  <2>3. QED
    BY <2>1, <2>2, Goes DEF DestroyDetach, asyncVars, Points, IInv
<1>d. /\ ti' \in [Slots -> SlotInfo] /\ cleanups' \in [Tasks -> Nat]
      /\ SlotInv' /\ TaskInv'
      /\ \A y \in Slots : /\ y # arg[c].x => ti'[y] = ti[y]
                          /\ Active(y)' => Active(y)
                          /\ ti'[y].opaque = ti[y].opaque
      /\ Active(arg[c].x)' => ti'[arg[c].x].status = "CONTINUE" /\ ti'[arg[c].x].detach
      /\ \A k \in Tasks :
           cleanups'[k] # cleanups[k] => Active(arg[c].x) /\ k = ti[arg[c].x].opaque
  <2>1. OwnersStay
    BY <1>1 DEF OwnersStay
  <2>2. PendingStay
    BY <1>1 DEF PendingStay, Pending, Quiet, Idle
  <2>3. QED
    BY <1>1, <2>1, <2>2, DetachKeeps
<1>2. TypeOK'
  BY <1>1, <1>d DEF IInv, TypeOK, PoolTypeOK, Points
<1>3. SlotInv'
  BY <1>d
<1>4. TaskInv'
  BY <1>d
<1>5. PendingInv'
  BY <1>1, <1>d DEF Quiet, Idle, PendingInv, Pending
<1>6. CallInv'
  BY <1>1, <1>d DEF IInv, CallInv, Quiet, Idle
<1>7. HandleInv'
  BY <1>1 DEF HandleInv, NoDestroy
<1>8. DestroyInv'
  BY <1>1, <1>d DEF IInv, DestroyInv, Quiet, Idle
<1>9. QED
  BY <1>2, <1>3, <1>4, <1>5, <1>6, <1>7, <1>8 DEF IInv

LEMMA DispatchStartKeeps ==
  ASSUME IInv, NEW c \in Clients, DispatchStart(c, "taken", "started"), UNCHANGED asyncVars
  PROVE  IInv'
<1>1. /\ pc' \in [Clients -> Points] /\ pc[c] = "taken" /\ pc'[c] = "started" /\ NoDestroy /\ ctx
      /\ arg[c].x \in 1..MaxThreads /\ arg[c].x \in Slots /\ ~Active(arg[c].x) /\ mutex[arg[c].x] = c
      /\ arg[c].task \in Tasks
      /\ ti' \in [Slots -> SlotInfo]
      /\ ti'[arg[c].x] = [status |-> "CONTINUE", opaque |-> arg[c].task, detach |-> FALSE]
      /\ \A y \in Slots : y # arg[c].x => ti'[y] = ti[y]
      /\ worker' = [worker EXCEPT ![arg[c].x] = "running"]
      /\ mutex' = [mutex EXCEPT ![arg[c].x] = Nobody]
      /\ \A d \in Clients : d # c => pc'[d] = pc[d]
      /\ UNCHANGED <<arg, cleanups, ctx, glock, index, owner>>
  <2>1. pc[c] = "taken"
    BY DEF DispatchStart
  <2>2. /\ arg[c].x \in 1..MaxThreads /\ ~Active(arg[c].x) /\ mutex[arg[c].x] = c
        /\ ctx /\ arg[c].task \in Tasks
    BY <2>1 DEF IInv, CallInv, PendingInv, Pending
  <2>3. NoDestroy
    BY <2>1, CallersShare
  <2>4. arg[c].x \in Slots
    BY <2>2, PoolAssumption DEF Slots
  <2>5. [status |-> "CONTINUE", opaque |-> arg[c].task, detach |-> FALSE] \in SlotInfo
    BY <2>2 DEF SlotInfo, Statuses
  <2>6. /\ ti' = [ti EXCEPT ![arg[c].x] = [status |-> "CONTINUE", opaque |-> arg[c].task,
                                            detach |-> FALSE]]
        /\ worker' = [worker EXCEPT ![arg[c].x] = "running"]
        /\ mutex' = [mutex EXCEPT ![arg[c].x] = Nobody]
        /\ pc' = [pc EXCEPT ![c] = "started"]
        /\ UNCHANGED <<arg, cleanups, ctx, glock, index, owner>>
    BY DEF DispatchStart, asyncVars
  <2>7. /\ pc' \in [Clients -> Points] /\ pc'[c] = "started"
        /\ \A d \in Clients : d # c => pc'[d] = pc[d]
    BY <2>6, Goes DEF Points, IInv
  <2>8. ti \in [Slots -> SlotInfo]
    BY DEF IInv, TypeOK, PoolTypeOK
  <2>9. /\ ti' \in [Slots -> SlotInfo]
        /\ ti'[arg[c].x] = [status |-> "CONTINUE", opaque |-> arg[c].task, detach |-> FALSE]
        /\ \A y \in Slots : y # arg[c].x => ti'[y] = ti[y]
    BY <2>4, <2>5, <2>6, <2>8
  <2>10. QED
    BY <2>1, <2>2, <2>3, <2>4, <2>6, <2>7, <2>9
<1>2. TypeOK'
  BY <1>1 DEF IInv, TypeOK, PoolTypeOK, Points
<1>3. SlotInv'
  <2>1. ~Active(0)'
    BY <1>1, PoolAssumption DEF IInv, SlotInv, Active, Slots
  <2>2. ASSUME NEW y \in Slots
        PROVE  worker'[y] = "running" <=> ti'[y].status = "CONTINUE"
    BY <1>1, <2>2 DEF IInv, SlotInv, TypeOK, PoolTypeOK
  <2>3. /\ owner[arg[c].task] # Nobody /\ cleanups[arg[c].task] = 0
        /\ \A y \in Slots : Active(y) => ti[y].opaque # arg[c].task
    BY <1>1, PoolAssumption DEF IInv, PendingInv, Pending
  <2>4. QED
    BY <1>1, <2>1, <2>2, <2>3 DEF IInv, SlotInv, Active
<1>4. TaskInv'
  <2> SUFFICES ASSUME NEW k \in Tasks, owner[k] # Nobody, cleanups[k] = 0
               PROVE  \/ \E y \in Slots : Active(y)' /\ ti'[y].opaque = k
                      \/ \E d \in Clients : Pending(d)' /\ arg'[d].task = k
    BY <1>1 DEF IInv, TaskInv
  <2>1. CASE arg[c].task = k
    BY <1>1, <2>1 DEF Active
  <2>2. CASE \E y \in Slots : Active(y) /\ ti[y].opaque = k
    BY <1>1, <2>2 DEF Active
  <2>3. CASE \E d \in Clients : d # c /\ Pending(d) /\ arg[d].task = k
    BY <1>1, <2>3 DEF Pending
  <2>4. QED
    BY <2>1, <2>2, <2>3 DEF IInv, TaskInv
<1>5. PendingInv'
  BY <1>1 DEF IInv, PendingInv, Pending, Active
<1>6. CallInv'
  <2>1. ASSUME NEW d \in Clients, d # c, pc[d] = "started"
        PROVE  OwnSlot(d, arg[d].x)'
    <3>1. arg[d].x \in Slots /\ OwnSlot(d, arg[d].x)
      BY <2>1, PoolAssumption DEF IInv, CallInv, Slots
    <3>2. QED
      BY <1>1, <3>1 DEF OwnSlot, Active
  <2>2. ASSUME NEW d \in Clients, d # c, pc[d] = "taken"
        PROVE  mutex'[arg[d].x] = d /\ ~Active(arg[d].x)'
    <3>1. arg[d].x \in Slots /\ mutex[arg[d].x] = d /\ ~Active(arg[d].x)
      BY <2>2, PoolAssumption DEF IInv, CallInv, Slots
    <3>2. arg[d].x # arg[c].x
      BY <1>1, <2>2, <3>1
    <3>3. mutex \in [Slots -> Clients \cup {Nobody}]
      BY DEF IInv, TypeOK, PoolTypeOK
    <3>4. mutex'[arg[d].x] = d
      BY <1>1, <3>1, <3>2, <3>3
    <3>5. QED
      BY <1>1, <3>1, <3>2, <3>4 DEF Active
  <2>3. ASSUME NEW d \in Clients, d # c, pc[d] = "read"
        PROVE  index[d] # 0 /\ arg[d].task = ti'[index[d]].opaque
    <3>1. index[d] # 0 /\ arg[d].task = ti[index[d]].opaque /\ index[d] \in Slots
      BY <2>3 DEF IInv, CallInv, TypeOK
    <3>2. Active(index[d])
      BY <1>1, <2>3, <3>1 DEF IInv, HandleInv, OwnSlot
    <3>3. index[d] # arg[c].x
      BY <1>1, <3>2
    <3>4. QED
      BY <1>1, <3>1, <3>3
  <2>4. OwnSlot(c, arg[c].x)'
    BY <1>1 DEF OwnSlot, Active, IInv, PendingInv, Pending
  <2>5. QED
    BY <1>1, <2>1, <2>2, <2>3, <2>4 DEF IInv, CallInv
<1>7. HandleInv'
  BY <1>1 DEF IInv, HandleInv, OwnSlot, Active, NoDestroy, TypeOK
<1>8. DestroyInv'
  BY <1>1 DEF IInv, DestroyInv, NoDestroy
<1>9. QED
  BY <1>2, <1>3, <1>4, <1>5, <1>6, <1>7, <1>8 DEF IInv

LEMMA RequestThreadKeeps ==
  ASSUME IInv, NEW x \in Slots, RequestThread(x)
  PROVE  IInv'
<1>1. /\ worker[x] = "running" /\ Active(x) /\ ti[x].status = "CONTINUE" /\ ti[x].detach \in BOOLEAN
      /\ worker' = [worker EXCEPT ![x] = "leaving"]
      /\ \/ ti[x].detach /\ Frees(x)
         \/ ~ti[x].detach /\ cleanups' = cleanups /\ ti' = [ti EXCEPT ![x].status = "OK"]
      /\ UNCHANGED <<mutex, pc, arg, ctx, glock, index, owner>>
  <2>1. worker[x] = "running" /\ Active(x) /\ ti[x].status = "CONTINUE" /\ ti[x].detach \in BOOLEAN
    BY DEF RequestThread, WorkerFinish, Active, IInv, SlotInv, TypeOK, PoolTypeOK, SlotInfo
  <2>2. ti[x].opaque \in Tasks /\ ti[x].opaque # NoTask /\ cleanups[ti[x].opaque] = 0
    BY <2>1, PoolAssumption DEF IInv, SlotInv
  <2>3. ASSUME ti[x].detach
        PROVE  Frees(x)
    <3>1. ti' = [ti EXCEPT ![x].status = "DONE"] /\ CleanUp(x)
      BY <2>3 DEF RequestThread, WorkerFinish
    <3>2. cleanups' = [cleanups EXCEPT ![ti[x].opaque] = cleanups[ti[x].opaque] + 1]
      BY <2>2, <3>1 DEF CleanUp
    <3>3. cleanups[ti[x].opaque] + 1 = 1
      BY <2>2
    <3>4. QED
      BY <3>1, <3>2, <3>3 DEF Frees
  <2>4. QED
    BY <2>1, <2>3 DEF RequestThread, WorkerFinish
<1>2. /\ ti' \in [Slots -> SlotInfo] /\ cleanups' \in [Tasks -> Nat]
      /\ \A y \in Slots : /\ y # x => ti'[y] = ti[y]
                          /\ ti'[y].opaque = ti[y].opaque
                          /\ ti'[y].detach = ti[y].detach
      /\ Active(x)' => ~ti[x].detach /\ ti'[x].status = "OK"
      /\ ~ti[x].detach => Active(x)'
      /\ \A k \in Tasks : cleanups'[k] # cleanups[k] => k = ti[x].opaque
  <2>1. CASE ti[x].detach /\ Frees(x)
    BY <1>1, <2>1, FreesEffect DEF Active
  <2>2. CASE ~ti[x].detach /\ cleanups' = cleanups /\ ti' = [ti EXCEPT ![x].status = "OK"]
    BY <1>1, <2>2 DEF Active, IInv, TypeOK, PoolTypeOK, SlotInfo, Statuses
  <2>3. QED
    BY <1>1, <2>1, <2>2
<1>3. TypeOK'
  BY <1>1, <1>2 DEF IInv, TypeOK, PoolTypeOK
<1>4. SlotInv' /\ TaskInv'
  <2>1. OwnersStay
    BY <1>1 DEF OwnersStay
  <2>2. PendingStay
    BY <1>1 DEF PendingStay, Pending
  <2>3. CASE ti[x].detach /\ Frees(x)
    <3>1. \A y \in Slots : worker'[y] = "running" <=> (worker[y] = "running" /\ y # x)
      BY <1>1 DEF IInv, TypeOK, PoolTypeOK
    <3>2. QED
      BY <1>1, <2>1, <2>2, <2>3, <3>1, FreesKeeps
  <2>4. CASE ~ti[x].detach /\ cleanups' = cleanups
    <3>1. SlotInv'
      <4>1. \A y \in Slots : Active(y)' <=> Active(y)
        BY <1>1, <1>2, <2>4 DEF Active
      <4>2. 0 \in Slots
        BY PoolAssumption DEF Slots
      <4>3. \A y \in Slots : worker'[y] = "running" <=> ti'[y].status = "CONTINUE"
        BY <1>1, <1>2, <2>4 DEF IInv, SlotInv, Active, TypeOK, PoolTypeOK
      <4>4. QED
        BY <1>1, <1>2, <2>4, <4>1, <4>2, <4>3 DEF IInv, SlotInv
    <3>2. TaskInv'
      BY <1>1, <1>2, <2>1, <2>2, <2>4, TaskStays DEF IInv, Active, PendingStay
    <3>3. QED
      BY <3>1, <3>2
  <2>5. QED
    BY <1>1, <2>3, <2>4
<1>5. PendingInv'
  BY <1>1, <1>2 DEF IInv, PendingInv, Pending, Active
<1>6. CallInv'
  <2>1. ASSUME NEW d \in Clients, pc[d] = "taken"
        PROVE  arg[d].x # x /\ ~Active(arg[d].x)'
    <3>1. arg[d].x \in Slots /\ ~Active(arg[d].x)
      BY <2>1, PoolAssumption DEF IInv, CallInv, Slots
    <3>2. QED
      BY <1>1, <1>2, <3>1 DEF Active
  <2>2. ASSUME NEW d \in Clients, pc[d] = "started"
        PROVE  OwnSlot(d, arg[d].x)'
    <3>1. arg[d].x \in Slots /\ OwnSlot(d, arg[d].x)
      BY <2>2, PoolAssumption DEF IInv, CallInv, Slots
    <3>2. QED
      BY <1>1, <1>2, <3>1 DEF OwnSlot, Active
  <2>3. ASSUME NEW d \in Clients, pc[d] = "read"
        PROVE  arg[d].task = ti'[index[d]].opaque
    BY <1>1, <1>2, <2>3 DEF IInv, CallInv, TypeOK
  <2>4. UNCHANGED <<pc, arg, mutex, index, ctx>>
    BY <1>1
  <2>5. QED
    BY <2>1, <2>2, <2>3, <2>4 DEF IInv, CallInv
<1>7. HandleInv'
  BY <1>1, <1>2 DEF IInv, HandleInv, OwnSlot, Active, NoDestroy, TypeOK
<1>8. DestroyInv'
  BY <1>1, <1>2 DEF IInv, DestroyInv, Active, Quiet, Idle
<1>9. QED
  BY <1>3, <1>4, <1>5, <1>6, <1>7, <1>8 DEF IInv

LEMMA RequestEndsKeeps ==
  ASSUME IInv, NEW c \in Clients, RequestEnds(c)
  PROVE  IInv'
<1>1. /\ pc' \in [Clients -> Points]
      /\ arg' \in [Clients -> Args]
      /\ pc[c] \in {"started", "failed"} /\ pc'[c] = "idle" /\ NoDestroy /\ ctx
      /\ index' = [index EXCEPT ![c] = arg[c].x] /\ arg[c].x \in Slots
      /\ \A d \in Clients : d # c => arg'[d] = arg[d] /\ pc'[d] = pc[d]
      /\ \/ pc[c] = "started" /\ cleanups' = cleanups
         \/ pc[c] = "failed" /\ cleanups' = [cleanups EXCEPT ![arg[c].task] = 1]
      /\ UNCHANGED <<ti, mutex, worker, ctx, glock, owner>>
  <2>1. pc[c] \in {"started", "failed"} /\ arg[c].x \in Slots /\ ctx
    BY PoolAssumption DEF RequestEnds, IInv, CallInv, Slots
  <2>2. NoDestroy
    BY <2>1, CallersShare
  <2>3. ASSUME pc[c] = "failed"
        PROVE  cleanups' = [cleanups EXCEPT ![arg[c].task] = 1]
    <3>1. arg[c].task \in Tasks /\ cleanups[arg[c].task] = 0
      BY <2>3 DEF IInv, PendingInv, Pending
    <3>2. cleanups[arg[c].task] + 1 = 1
      BY <3>1
    <3>3. cleanups' = [cleanups EXCEPT ![arg[c].task] = cleanups[arg[c].task] + 1]
      BY <2>3 DEF RequestEnds
    <3>4. QED
      BY <3>2, <3>3
  <2>4. pc[c] = "started" => cleanups' = cleanups
    BY DEF RequestEnds
  <2>5. /\ arg' \in [Clients -> Args]
        /\ \A d \in Clients : d # c => arg'[d] = arg[d]
    BY ArgNone DEF RequestEnds, IInv, TypeOK, PoolTypeOK
  <2>6. QED
    BY <2>1, <2>2, <2>3, <2>4, <2>5, Goes DEF RequestEnds, Goto, Points, IInv
<1>2. TypeOK'
  BY <1>1 DEF IInv, TypeOK, PoolTypeOK, Points
<1>3. SlotInv'
  BY <1>1 DEF IInv, SlotInv, Active, PendingInv, Pending, TypeOK, PoolTypeOK
<1>4. TaskInv'
  <2> SUFFICES ASSUME NEW k \in Tasks
               PROVE  /\ cleanups'[k] <= 1
                      /\ owner[k] = Nobody => cleanups'[k] = 0
                      /\ owner[k] # Nobody /\ cleanups'[k] = 0 =>
                           \/ \E y \in Slots : Active(y)' /\ ti'[y].opaque = k
                           \/ \E d \in Clients : Pending(d)' /\ arg'[d].task = k
    BY <1>1 DEF TaskInv
  <2>1. CASE pc[c] = "failed" /\ arg[c].task = k
    BY <1>1, <2>1, PoolAssumption DEF IInv, PendingInv, Pending, TypeOK, PoolTypeOK
  <2>2. CASE ~(pc[c] = "failed" /\ arg[c].task = k)
    <3>1. cleanups'[k] = cleanups[k]
      BY <1>1, <2>2 DEF IInv, TypeOK, PoolTypeOK
    <3>2. ASSUME NEW d \in Clients, Pending(d), arg[d].task = k
          PROVE  Pending(d)' /\ arg'[d].task = k
      BY <1>1, <2>2, <3>2 DEF Pending
    <3>3. QED
      BY <1>1, <3>1, <3>2 DEF IInv, TaskInv, Active
  <2>3. QED
    BY <2>1, <2>2
<1>5. PendingInv'
  BY <1>1, PoolAssumption DEF IInv, PendingInv, Pending, Active, TypeOK, PoolTypeOK
<1>6. CallInv'
  BY <1>1 DEF IInv, CallInv, OwnSlot, Active, TypeOK, PoolTypeOK
<1>7. HandleInv'
  <2>1. index \in [Clients -> Slots]
    BY DEF IInv, TypeOK
  <2>2. ASSUME NEW d \in Clients, d # c, pc[d] \in {"idle", "detach", "read"}, index[d] # 0
        PROVE  OwnSlot(d, index[d])
    BY <1>1, <2>2 DEF IInv, HandleInv
  <2>3. ASSUME arg[c].x # 0
        PROVE  OwnSlot(c, arg[c].x)
    BY <1>1, <2>3 DEF IInv, CallInv
  <2>4. index'[c] = arg[c].x /\ \A d \in Clients : d # c => index'[d] = index[d] /\ pc'[d] = pc[d]
    BY <1>1, <2>1
  <2>5. QED
    BY <1>1, <2>2, <2>3, <2>4 DEF HandleInv, OwnSlot, Active
<1>8. DestroyInv'
  BY <1>1 DEF IInv, DestroyInv, NoDestroy
<1>9. QED
  BY <1>2, <1>3, <1>4, <1>5, <1>6, <1>7, <1>8 DEF IInv

LEMMA InitIInv == Init => IInv
<1> SUFFICES ASSUME Init PROVE IInv
  OBVIOUS
<1>1. TypeOK
  <2>1. FreshSlot \in SlotInfo /\ NoArgs \in Args /\ 0 \in Slots
    BY PoolAssumption DEF FreshSlot, NoArgs, SlotInfo, Args, Statuses, Slots
  <2>2. QED
    BY <2>1 DEF Init, PoolInit, TypeOK, PoolTypeOK
<1>2. \A x \in Slots : ~Active(x) /\ worker[x] # "running" /\ ti[x].status # "CONTINUE"
  BY DEF Init, PoolInit, FreshSlot, Active
<1>3. 0 \in Slots
  BY PoolAssumption DEF Slots
<1>4. SlotInv
  BY <1>2, <1>3 DEF SlotInv
<1>5. TaskInv
  BY DEF Init, PoolInit, TaskInv
<1>6. PendingInv /\ CallInv /\ HandleInv /\ DestroyInv
  BY <1>2 DEF Init, PendingInv, Pending, CallInv, HandleInv, DestroyInv
<1>7. QED
  BY <1>1, <1>4, <1>5, <1>6 DEF IInv

LEMMA NextIInv ==
  ASSUME IInv, [Next]_vars
  PROVE  IInv'
<1>1. ASSUME NEW c \in Clients, DestroyStep(c)
      PROVE  IInv'
  BY <1>1, DestroyDetachKeeps, DestroyJoinKeeps, DestroyEndsKeeps DEF DestroyStep
<1>2. ASSUME NEW c \in Clients, RequestDispatch(c)
      PROVE  IInv'
  BY <1>2, DispatchScanKeeps, DispatchStartKeeps, DispatchFailsKeeps DEF RequestDispatch
<1>3. CASE UNCHANGED vars
  <2>1. /\ UNCHANGED <<ti, mutex, worker, pc, arg, cleanups>>
        /\ UNCHANGED <<ctx, glock, index, owner>>
    BY <1>3 DEF vars, poolVars, asyncVars
  <2>2. TypeOK'
    BY <2>1 DEF IInv, TypeOK, PoolTypeOK
  <2>3. SlotInv' /\ TaskInv' /\ PendingInv'
    BY <2>1 DEF IInv, SlotInv, TaskInv, PendingInv, Active, Pending
  <2>4. CallInv'
    BY <2>1 DEF IInv, CallInv, Active, OwnSlot
  <2>5. HandleInv'
    BY <2>1 DEF IInv, HandleInv, Active, OwnSlot, NoDestroy
  <2>6. DestroyInv'
    BY <2>1 DEF IInv, DestroyInv, Active, Quiet, Idle
  <2>7. QED
    BY <2>2, <2>3, <2>4, <2>5, <2>6 DEF IInv
<1>4. QED
  BY <1>1, <1>2, <1>3, CreateKeeps, DestroyKeeps, DestroyedKeeps, ForgetHandleKeeps,
     RequestKeeps, RequestDetachKeeps, RequestEndsKeeps, PollKeeps, PollReadKeeps,
     ClearKeeps, RequestThreadKeeps, ThreadExitKeeps
  DEF Next

LEMMA IInvHolds == Spec => []IInv
BY InitIInv, NextIInv, PTL DEF Spec

-----------------------------------------------------------------------------
\* The pool's, the requests' and the clients' variables keep their types.
THEOREM HttpTypeCorrect == Spec => []TypeOK
<1>1. IInv => TypeOK
  BY DEF IInv
<1>2. QED
  BY IInvHolds, <1>1, PTL

\* The state of a request is freed at most once, and never while its thread runs.
THEOREM HttpCleanedOnce == Spec => []CleanedOnce
<1>1. IInv => CleanedOnce
  BY DEF IInv, TaskInv, SlotInv, Active, CleanedOnce
<1>2. QED
  BY IInvHolds, <1>1, PTL

\* No state is freed under a Poll, or under a client that may read its response.
THEOREM HttpNoUseAfterFree == Spec => []NoUseAfterFree
<1>1. IInv => NoUseAfterFree
  <2> SUFFICES ASSUME IInv PROVE NoUseAfterFree
    OBVIOUS
  <2>1. ASSUME NEW c \in Clients, ctx, NoDestroy, pc[c] \in {"idle", "read"}, index[c] # 0
        PROVE  ~Freed(ti[index[c]].opaque)
    BY <2>1 DEF IInv, HandleInv, OwnSlot, SlotInv, TypeOK, Freed
  <2>2. ASSUME NEW c \in Clients, pc[c] = "read"
        PROVE  ~Freed(arg[c].task)
    BY <2>1, <2>2, CallersShare DEF IInv, CallInv
  <2>3. QED
    BY <2>1, <2>2 DEF NoUseAfterFree, Idle
<1>2. QED
  BY IInvHolds, <1>1, PTL

\* A client's handle leads to the request it made last, whatever other clients do.
THEOREM HttpHandleIsOwn == Spec => []HandleIsOwn
<1>1. IInv => HandleIsOwn
  BY DEF IInv, HandleInv, OwnSlot, Active, HandleIsOwn, Idle
<1>2. QED
  BY IInvHolds, <1>1, PTL

\* Destroying the pool leaves no state behind, and frees none twice.
THEOREM HttpDestroyFreesAll == Spec => []DestroyFreesAll
<1>1. IInv => DestroyFreesAll
  <2> SUFFICES ASSUME IInv, ~ctx, NEW k \in Tasks, owner[k] # Nobody
               PROVE  cleanups[k] = 1
    BY DEF DestroyFreesAll
  <2>1. ~\E x \in Slots : Active(x) /\ ti[x].opaque = k
    BY DEF IInv, DestroyInv
  <2>2. ~\E c \in Clients : Pending(c) /\ arg[c].task = k
    BY DEF IInv, CallInv, Pending
  <2>3. cleanups[k] # 0 /\ cleanups[k] <= 1 /\ cleanups[k] \in Nat
    BY <2>1, <2>2 DEF IInv, TaskInv, TypeOK, PoolTypeOK
  <2>4. QED
    BY <2>3
<1>2. QED
  BY IInvHolds, <1>1, PTL
=============================================================================

------------------------------ MODULE MTYQueue ------------------------------
(***************************************************************************)
(* src/queue.c: a ring of Len slots with many producers and one consumer.   *)
(* Producers serialise on push_mutex, which a producer holds from           *)
(* MTY_QueueGetInputBuffer to MTY_QueuePush.  The consumer takes no lock:   *)
(* it reads the atomic state of the slot at pop_pos, and sleeps on the      *)
(* waitable pop_sync when that slot is empty.                               *)
(*                                                                         *)
(* A message is a ticket 1, 2, ... in the order in which slots become FULL, *)
(* with the flag that says whether it is a pointer (MTY_QueuePushPtr).      *)
(* Program counters follow the calls; every access to memory that the other *)
(* side can see is a step of its own.                                       *)
(***************************************************************************)
EXTENDS Waitable, Sequences

CONSTANTS
  Producers,    \* threads that push
  Consumer,     \* the thread that pops
  NoOne,        \* holder of a free mutex
  QueueLen,     \* ctx->len
  MaxMsgs       \* bound of the model: messages pushed in a behaviour

ASSUME QueueAssumption ==
  /\ QueueLen \in Nat \ {0}
  /\ MaxMsgs \in Nat
  /\ Consumer \notin Producers
  /\ NoOne \notin Producers

VARIABLES
  slots,        \* ctx->slots
  push_pos, pop_pos,
  push_mutex,   \* its holder
  pop_sync,     \* the waitable
  ppc,          \* where each producer is in its call
  push_lock,    \* lock_pos of queue_push
  cpc,          \* where the consumer is
  op,           \* the call the consumer makes: its kind and its timeout
  pop_lock,     \* lock_pos of MTY_QueuePop
  pushed,       \* how many messages became FULL
  taken,        \* how many messages pop_pos went past
  fate          \* what became of each message

producerVars == <<push_pos, push_mutex, ppc, push_lock, pushed>>
consumerVars == <<pop_pos, cpc, op, pop_lock, taken>>
vars == <<slots, push_pos, pop_pos, push_mutex, pop_sync, ppc, push_lock,
          cpc, op, pop_lock, pushed, taken, fate>>

Positions == 0..(QueueLen - 1)
Tickets == 1..MaxMsgs
Kinds == {"get", "last", "popptr", "flush"}
Timeouts == {-1, 0, 1}
Fates == {"unsent", "queued", "delivered", "discarded", "freed"}
Ops == [kind : Kinds, timeout : Timeouts]

TypeOK ==
  /\ slots \in [Positions -> [state : {"EMPTY", "FULL"}, msg : 0..MaxMsgs,
                              isptr : BOOLEAN, ptr : BOOLEAN]]
  /\ push_pos \in Positions /\ pop_pos \in Positions
  /\ push_lock \in Positions /\ pop_lock \in Positions
  /\ push_mutex \in Producers \cup {NoOne}
  /\ pop_sync \in WaitableSet({Consumer})
  /\ ppc \in [Producers -> {"idle", "locked", "filled", "advanced", "published"}]
  /\ cpc \in {"idle", "check", "next", "wait", "asleep", "hold", "release", "drop"}
  /\ op \in Ops
  /\ pushed \in 0..MaxMsgs /\ taken \in Nat
  /\ fate \in [Tickets -> Fates]

\* A mutation of the next definition: the ring wraps one slot too late.
NextPosLate(pos) == IF pos + 1 > QueueLen THEN 0 ELSE pos + 1

\* queue_next_pos
NextPos(pos) == IF pos + 1 = QueueLen THEN 0 ELSE pos + 1

\* MTY_QueueGetLength, when both positions are read at one instant.
QueueGetLength ==
  LET pos == push_pos - pop_pos IN IF pos < 0 THEN pos + QueueLen ELSE pos

-----------------------------------------------------------------------------
\* MTY_QueueCreate: every slot is zeroed memory.
Init ==
  /\ slots = [i \in Positions |->
                [state |-> "EMPTY", msg |-> 0, isptr |-> FALSE, ptr |-> FALSE]]
  /\ push_pos = 0 /\ pop_pos = 0
  /\ push_lock = 0 /\ pop_lock = 0
  /\ push_mutex = NoOne
  /\ pop_sync = WaitableCreate
  /\ ppc = [p \in Producers |-> "idle"]
  /\ cpc = "idle"
  /\ op = [kind |-> "get", timeout |-> 0]
  /\ pushed = 0 /\ taken = 0
  /\ fate = [m \in Tickets |-> "unsent"]

-----------------------------------------------------------------------------
(* The producers. *)

\* A mutation: the state of the slot is not looked at.
GetInputBufferUnchecked(p) ==
  /\ ppc[p] = "idle"
  /\ push_mutex = NoOne
  /\ push_mutex' = p
  /\ ppc' = [ppc EXCEPT ![p] = "locked"]
  /\ UNCHANGED <<slots, push_pos, push_lock, pop_sync, pushed, fate, consumerVars>>

\* MTY_QueueGetInputBuffer returns a buffer and keeps the mutex.  On a FULL slot
\* it unlocks and returns NULL, which changes nothing.
GetInputBuffer(p) ==
  /\ ppc[p] = "idle"
  /\ push_mutex = NoOne
  /\ slots[push_pos].state = "EMPTY"
  /\ push_mutex' = p
  /\ ppc' = [ppc EXCEPT ![p] = "locked"]
  /\ UNCHANGED <<slots, push_pos, push_lock, pop_sync, pushed, fate, consumerVars>>

\* The caller, or the memcpy of MTY_QueuePushPtr, writes the buffer.
FillBuffer(p, isptr) ==
  /\ ppc[p] = "locked"
  /\ pushed < MaxMsgs
  /\ slots' = [slots EXCEPT ![push_pos].msg = pushed + 1,
                            ![push_pos].isptr = isptr]
  /\ ppc' = [ppc EXCEPT ![p] = "filled"]
  /\ UNCHANGED <<push_pos, push_mutex, push_lock, pop_sync, pushed, fate,
                 consumerVars>>

\* MTY_QueuePush with size 0: the buffer is released and nothing is sent.
PushNothing(p) ==
  /\ ppc[p] \in {"locked", "filled"}
  /\ push_mutex' = NoOne
  /\ ppc' = [ppc EXCEPT ![p] = "idle"]
  /\ UNCHANGED <<slots, push_pos, push_lock, pop_sync, pushed, fate, consumerVars>>

\* queue_push: the fields of the slot and push_pos, before the slot is visible.
PushAdvance(p) ==
  /\ ppc[p] = "filled"
  /\ push_lock' = push_pos
  /\ push_pos' = NextPos(push_pos)
  /\ slots' = [slots EXCEPT ![push_pos].ptr = slots[push_pos].isptr]
  /\ ppc' = [ppc EXCEPT ![p] = "advanced"]
  /\ UNCHANGED <<push_mutex, pop_sync, pushed, fate, consumerVars>>

PushPublish(p) ==
  /\ ppc[p] = "advanced"
  /\ slots' = [slots EXCEPT ![push_lock].state = "FULL"]
  /\ pushed' = pushed + 1
  /\ fate' = [fate EXCEPT ![slots[push_lock].msg] = "queued"]
  /\ ppc' = [ppc EXCEPT ![p] = "published"]
  /\ UNCHANGED <<push_pos, push_mutex, push_lock, pop_sync, consumerVars>>

\* A mutation: the pushes of pointers wake nobody.
PushSignalNoPtr(p) ==
  /\ ppc[p] = "published"
  /\ pop_sync' \in IF slots[push_lock].ptr THEN {pop_sync} ELSE WaitableSignal(pop_sync)
  /\ push_mutex' = NoOne
  /\ ppc' = [ppc EXCEPT ![p] = "idle"]
  /\ UNCHANGED <<slots, push_pos, push_lock, pushed, fate, consumerVars>>

PushSignal(p) ==
  /\ ppc[p] = "published"
  /\ pop_sync' \in WaitableSignal(pop_sync)
  /\ push_mutex' = NoOne
  /\ ppc' = [ppc EXCEPT ![p] = "idle"]
  /\ UNCHANGED <<slots, push_pos, push_lock, pushed, fate, consumerVars>>

-----------------------------------------------------------------------------
(* The consumer. *)

\* One of MTY_QueueGetOutputBuffer, GetLastOutputBuffer, PopPtr and Flush begins.
\* Flush never waits.
PopCall(kind, timeout) ==
  /\ cpc = "idle"
  /\ kind = "flush" => timeout = 0
  /\ op' = [kind |-> kind, timeout |-> timeout]
  /\ cpc' = "check"
  /\ UNCHANGED <<slots, pop_sync, fate, pop_pos, pop_lock, taken, producerVars>>

\* The lock-free check at the top of queue_pop.
PopCheck ==
  /\ cpc = "check"
  /\ cpc' = IF slots[pop_pos].state = "FULL"
            THEN IF op.kind = "last" THEN "next" ELSE "hold"
            ELSE IF op.timeout # 0 THEN "wait" ELSE "idle"
  /\ UNCHANGED <<slots, pop_sync, fate, pop_pos, op, pop_lock, taken, producerVars>>

\* A mutation: the head is dropped whatever the slot after it holds.
PopCheckNextBlind ==
  /\ cpc = "next"
  /\ cpc' = "drop"
  /\ pop_lock' = pop_pos
  /\ pop_pos' = NextPos(pop_pos)
  /\ taken' = taken + 1
  /\ fate' = [fate EXCEPT ![slots[pop_pos].msg] = "discarded"]
  /\ UNCHANGED <<slots, pop_sync, op, producerVars>>

\* With last set, the slot after this one decides whether this one is dropped.
PopCheckNext ==
  /\ cpc = "next"
  /\ IF slots[NextPos(pop_pos)].state = "FULL"
     THEN /\ cpc' = "drop"
          /\ pop_lock' = pop_pos
          /\ pop_pos' = NextPos(pop_pos)
          /\ taken' = taken + 1
          /\ fate' = [fate EXCEPT ![slots[pop_pos].msg] = "discarded"]
     ELSE /\ cpc' = "hold"
          /\ UNCHANGED <<pop_pos, pop_lock, taken, fate>>
  /\ UNCHANGED <<slots, pop_sync, op, producerVars>>

\* MTY_WaitableWait before CondWait.
PopWait ==
  /\ cpc = "wait"
  /\ IF pop_sync.signal
     THEN pop_sync' = WaitTakes(pop_sync) /\ cpc' = "check"
     ELSE pop_sync' = WaitBlocks(pop_sync, Consumer) /\ cpc' = "asleep"
  /\ UNCHANGED <<slots, fate, pop_pos, op, pop_lock, taken, producerVars>>

\* MTY_WaitableWait after CondWait: true goes back to the check, false gives up.
PopWake(spurious) ==
  /\ cpc = "asleep"
  /\ CondWaitReturns(pop_sync, Consumer, op.timeout, spurious)
  /\ cpc' = IF pop_sync.signal THEN "check" ELSE "idle"
  /\ pop_sync' = WaitEnds(pop_sync, Consumer)
  /\ UNCHANGED <<slots, fate, pop_pos, op, pop_lock, taken, producerVars>>

\* A mutation: Flush does not look at slot->ptr.
PopAdvanceFreesAll ==
  /\ cpc = "hold"
  /\ pop_lock' = pop_pos
  /\ pop_pos' = NextPos(pop_pos)
  /\ taken' = taken + 1
  /\ fate' = [fate EXCEPT ![slots[pop_pos].msg] =
                IF op.kind # "flush" THEN "delivered" ELSE "freed"]
  /\ cpc' = IF op.kind = "flush" THEN "drop" ELSE "release"
  /\ UNCHANGED <<slots, pop_sync, op, producerVars>>

\* The consumer is done with the buffer it holds: the first half of MTY_QueuePop,
\* after the copy of PopPtr, or the free of Flush that only pointers get.
PopAdvance ==
  /\ cpc = "hold"
  /\ pop_lock' = pop_pos
  /\ pop_pos' = NextPos(pop_pos)
  /\ taken' = taken + 1
  /\ fate' = [fate EXCEPT ![slots[pop_pos].msg] =
                IF op.kind # "flush" THEN "delivered"
                ELSE IF slots[pop_pos].ptr THEN "freed" ELSE "discarded"]
  /\ cpc' = IF op.kind = "flush" THEN "drop" ELSE "release"
  /\ UNCHANGED <<slots, pop_sync, op, producerVars>>

\* A mutation: the slot is looked up again after pop_pos has moved.
PopReleaseNew ==
  /\ cpc \in {"release", "drop"}
  /\ slots' = [slots EXCEPT ![pop_pos].state = "EMPTY"]
  /\ cpc' = IF cpc = "drop" THEN "check" ELSE "idle"
  /\ UNCHANGED <<pop_sync, fate, pop_pos, op, pop_lock, taken, producerVars>>

\* The second half of MTY_QueuePop hands the slot back.  "drop": the loop goes on.
PopRelease ==
  /\ cpc \in {"release", "drop"}
  /\ slots' = [slots EXCEPT ![pop_lock].state = "EMPTY"]
  /\ cpc' = IF cpc = "drop" THEN "check" ELSE "idle"
  /\ UNCHANGED <<pop_sync, fate, pop_pos, op, pop_lock, taken, producerVars>>

-----------------------------------------------------------------------------
ProducerInCall(p) == PushAdvance(p) \/ PushPublish(p) \/ PushSignal(p)

ConsumerInCall ==
  PopCheck \/ PopCheckNext \/ PopWait \/ PopWake(FALSE) \/ PopAdvance \/ PopRelease

ConsumerCalls == \E kind \in Kinds, timeout \in Timeouts : PopCall(kind, timeout)

Next ==
  \/ \E p \in Producers :
       \/ GetInputBuffer(p)
       \/ \E isptr \in BOOLEAN : FillBuffer(p, isptr)
       \/ PushNothing(p)
       \/ PushAdvance(p)
       \/ PushPublish(p)
       \/ PushSignal(p)
  \/ ConsumerCalls
  \/ PopCheck
  \/ PopCheckNext
  \/ PopWait
  \/ \E spurious \in BOOLEAN : PopWake(spurious)
  \/ PopAdvance
  \/ PopRelease

\* Running threads keep running, and the consumer keeps calling; a producer need
\* never call, nor ever return from filling its buffer.
Spec ==
  /\ Init
  /\ [][Next]_vars
  /\ \A p \in Producers : WF_vars(ProducerInCall(p))
  /\ WF_vars(ConsumerInCall)
  /\ WF_vars(ConsumerCalls)

-----------------------------------------------------------------------------
(* Properties. *)

\* The slot a producer may write: from GetInputBuffer until the slot is FULL.
WriterSlot(p) == IF ppc[p] = "advanced" THEN push_lock ELSE push_pos
Writing(p) == ppc[p] \in {"locked", "filled", "advanced"}

\* The slots the consumer may read: the one it holds, the one it still releases.
Reading(i) ==
  \/ cpc \in {"next", "hold"} /\ i = pop_pos
  \/ cpc \in {"release", "drop"} /\ i = pop_lock

\* A buffer is never written while the consumer reads it: the lock-free consumer
\* and a producer inside GetInputBuffer..Push are always on different slots.
BufferExclusion ==
  \A p \in Producers : Writing(p) => ~Reading(WriterSlot(p))

\* A consumer that found the queue empty and then waits is never left asleep
\* beside a message: the flag is up, or its wakeup is under way, or the producer
\* that made the slot FULL is still to signal.
NoLostWakeup ==
  cpc \in {"wait", "asleep"} /\ slots[pop_pos].state = "FULL" =>
    \/ cpc = "wait" /\ pop_sync.signal
    \/ pop_sync.signal /\ Consumer \in pop_sync.notified
    \/ \E p \in Producers : ppc[p] = "published"

\* What the ring holds, oldest first.
Contents ==
  [k \in 1..(pushed - taken) |-> slots[(pop_pos + k - 1) % QueueLen].msg]

\* Messages leave in the order in which they were pushed, none twice, none lost:
\* the slots from pop_pos on are FULL and hold exactly the tickets between those
\* taken and those pushed.
InOrder ==
  /\ pushed - taken \in 0..QueueLen
  /\ Contents = [k \in 1..(pushed - taken) |-> taken + k]
  /\ \A k \in 1..(pushed - taken) : slots[(pop_pos + k - 1) % QueueLen].state = "FULL"

\* Flush frees the pointers in the ring and nothing else, and what the consumer
\* was given is never freed or given again: a message that left the ring keeps
\* its fate.
FateIsFinal ==
  [][\A m \in Tickets :
       /\ fate[m] \in {"delivered", "discarded", "freed"} => fate'[m] = fate[m]
       /\ fate[m] = "queued" /\ fate'[m] = "freed" =>
            slots[pop_pos].msg = m /\ slots[pop_pos].isptr]_vars

\* Every message that is pushed leaves the ring, given a consumer that keeps
\* calling: it cannot sleep through it.
EventuallyTaken ==
  \A m \in Tickets : fate[m] = "queued" ~> fate[m] # "queued"

\* The queue implements the abstract bounded buffer.
Fifo == INSTANCE BoundedFifo WITH
  Capacity <- QueueLen, Messages <- Tickets, Nothing <- 0,
  fifo <- Contents,
  shown <- IF cpc = "hold" THEN slots[pop_pos].msg ELSE 0
ImplementsFifo == Fifo!Spec

\* matoya.h: "Get the current number of items in the queue", an approximation
\* only "while there is activity": with nobody inside a call the length is the
\* number of FULL slots.
LengthIsItemCount ==
  (\A p \in Producers : ppc[p] = "idle") /\ cpc = "idle" =>
    QueueGetLength = Cardinality({i \in Positions : slots[i].state = "FULL"})
=============================================================================

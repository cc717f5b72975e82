--------------------------- MODULE MTYQueueProofs ---------------------------
(***************************************************************************)
(* The queue of MTYQueue for any number of producers, any length of the     *)
(* ring and any traffic: no buffer is written while it is read, and the     *)
(* consumer is never left asleep beside a message.                          *)
(*                                                                         *)
(* The argument for the buffers is about the state flag alone: whoever      *)
(* writes a slot holds push_mutex and the slot is EMPTY; whoever reads one  *)
(* finds it FULL.  No arithmetic on positions is needed.  The second half   *)
(* is about the order of the messages, where positions matter.              *)
(***************************************************************************)
EXTENDS MTYQueue, TLAPS, SequenceTheorems

SlotSet == [state : {"EMPTY", "FULL"}, msg : 0..MaxMsgs, isptr : BOOLEAN, ptr : BOOLEAN]

\* push_mutex is held from GetInputBuffer to the end of the push.
MutexInv == \A p \in Producers : ppc[p] # "idle" <=> push_mutex = p

\* A slot under construction is EMPTY, a slot being read is FULL.
WriterSlotEmpty ==
  \A p \in Producers : Writing(p) => slots[WriterSlot(p)].state = "EMPTY"

ReaderSlotFull ==
  /\ cpc \in {"next", "hold"} => slots[pop_pos].state = "FULL"
  /\ cpc \in {"release", "drop"} => slots[pop_lock].state = "FULL"

\* The consumer is asleep in the waitable exactly when it is asleep in its call,
\* and is there with the flag up only once it has been notified.
SleeperInv ==
  /\ cpc = "asleep" <=> Consumer \in pop_sync.blocked \/ Consumer \in pop_sync.notified
  /\ Consumer \in pop_sync.notified => Consumer \notin pop_sync.blocked
  /\ Consumer \in pop_sync.blocked => ~pop_sync.signal
  /\ Consumer \in pop_sync.notified => pop_sync.signal

\* The bound of the model is respected by a message on its way in.
RoomInv ==
  \A p \in Producers : ppc[p] \in {"filled", "advanced"} => pushed < MaxMsgs

IInv ==
  /\ TypeOK
  /\ MutexInv
  /\ WriterSlotEmpty
  /\ ReaderSlotFull
  /\ SleeperInv
  /\ RoomInv
  /\ NoLostWakeup

-----------------------------------------------------------------------------
LEMMA NextPosType ==
  ASSUME NEW pos \in Positions
  PROVE  NextPos(pos) \in Positions
BY QueueAssumption DEF Positions, NextPos

LEMMA ConsumerAlone ==
  ASSUME NEW w \in WaitableSet({Consumer})
  PROVE  /\ w.blocked = {} \/ w.blocked = {Consumer}
         /\ w.notified = {} \/ w.notified = {Consumer}
BY DEF WaitableSet

\* The flag is up after MTY_WaitableSignal, and a consumer that was asleep is
\* notified if it had not been before.
LEMMA SignalRaises ==
  ASSUME NEW w \in WaitableSet({Consumer}), NEW v \in WaitableSignal(w)
  PROVE  /\ v \in WaitableSet({Consumer})
         /\ v.signal
         /\ w.signal => v = w
         /\ ~w.signal => Consumer \notin v.blocked
         /\ ~w.signal =>
              (Consumer \in v.notified <=>
                 Consumer \in w.blocked \/ Consumer \in w.notified)
<1>1. CASE w.signal
  BY <1>1 DEF WaitableSignal, WaitableSet
<1>2. CASE ~w.signal /\ w.blocked = {}
  <2>1. v = [w EXCEPT !.signal = TRUE]
    BY <1>2 DEF WaitableSignal, CondSignal
  <2>2. QED
    BY <1>2, <2>1 DEF WaitableSet
<1>3. CASE ~w.signal /\ w.blocked = {Consumer}
  <2>1. v = [[w EXCEPT !.blocked = @ \ {Consumer}, !.notified = @ \cup {Consumer}]
               EXCEPT !.signal = TRUE]
    BY <1>3 DEF WaitableSignal, CondSignal
  <2>2. QED
    BY <1>3, <2>1 DEF WaitableSet
<1>4. QED
  BY <1>1, <1>2, <1>3, ConsumerAlone

LEMMA InitIInv == Init => IInv
<1> SUFFICES ASSUME Init PROVE IInv
  OBVIOUS
<1>1. TypeOK
  BY QueueAssumption
  DEF Init, TypeOK, Positions, WaitableSet, WaitableCreate, Ops, Kinds, Timeouts, Fates
<1>2. MutexInv /\ WriterSlotEmpty /\ ReaderSlotFull /\ SleeperInv /\ RoomInv /\ NoLostWakeup
  BY QueueAssumption
  DEF Init, MutexInv, WriterSlotEmpty, Writing, ReaderSlotFull, SleeperInv, RoomInv,
      NoLostWakeup, WaitableCreate
<1>3. QED
  BY <1>1, <1>2 DEF IInv

LEMMA IInvExcludes == IInv => BufferExclusion
<1> SUFFICES ASSUME IInv, NEW p \in Producers, Writing(p), Reading(WriterSlot(p))
             PROVE  FALSE
  BY DEF BufferExclusion
<1>1. slots[WriterSlot(p)].state = "EMPTY"
  BY DEF IInv, WriterSlotEmpty
<1>2. slots[WriterSlot(p)].state = "FULL"
  BY DEF IInv, ReaderSlotFull, Reading
<1>3. QED
  BY <1>1, <1>2

-----------------------------------------------------------------------------
(* The steps of the producers. *)

LEMMA GetInputBufferKeeps ==
  ASSUME IInv, NEW p \in Producers, GetInputBuffer(p)
  PROVE  IInv'
<1> USE QueueAssumption DEF IInv, GetInputBuffer, consumerVars
<1>1. TypeOK'
  BY DEF TypeOK
<1>2. MutexInv'
  BY DEF MutexInv, TypeOK
<1>3. WriterSlotEmpty'
  BY DEF WriterSlotEmpty, Writing, WriterSlot, MutexInv, TypeOK
<1>4. ReaderSlotFull' /\ SleeperInv'
  BY DEF ReaderSlotFull, SleeperInv
<1>5. RoomInv'
  BY DEF RoomInv, TypeOK
<1>6. NoLostWakeup'
  BY DEF NoLostWakeup, TypeOK
<1>7. QED
  BY <1>1, <1>2, <1>3, <1>4, <1>5, <1>6

LEMMA FillBufferKeeps ==
  ASSUME IInv, NEW p \in Producers, NEW isptr \in BOOLEAN, FillBuffer(p, isptr)
  PROVE  IInv'
<1> USE QueueAssumption DEF IInv, FillBuffer, consumerVars
<1>1. slots' = [slots EXCEPT ![push_pos] =
                  [slots[push_pos] EXCEPT !.msg = pushed + 1, !.isptr = isptr]]
  OBVIOUS
<1>2. [slots[push_pos] EXCEPT !.msg = pushed + 1, !.isptr = isptr] \in SlotSet
  <2>1. slots[push_pos] \in SlotSet
    BY DEF TypeOK, SlotSet
  <2>2. pushed + 1 \in 0..MaxMsgs
    BY DEF TypeOK
  <2>3. QED
    BY <2>1, <2>2 DEF SlotSet
<1>3. \A i \in Positions : slots'[i].state = slots[i].state
  BY <1>1 DEF TypeOK
<1>4. TypeOK'
  <2>1. slots' \in [Positions -> SlotSet]
    BY <1>1, <1>2 DEF TypeOK, SlotSet
  <2>2. QED
    BY <2>1 DEF TypeOK, SlotSet
<1>5. MutexInv'
  BY DEF MutexInv, TypeOK
<1>6. WriterSlotEmpty'
  BY <1>3 DEF WriterSlotEmpty, Writing, WriterSlot, TypeOK
<1>7. ReaderSlotFull' /\ SleeperInv'
  BY <1>3 DEF ReaderSlotFull, SleeperInv, TypeOK
<1>8. RoomInv'
  BY DEF RoomInv, TypeOK
<1>9. NoLostWakeup'
  BY <1>3 DEF NoLostWakeup, TypeOK
<1>10. QED
  BY <1>4, <1>5, <1>6, <1>7, <1>8, <1>9

LEMMA PushNothingKeeps ==
  ASSUME IInv, NEW p \in Producers, PushNothing(p)
  PROVE  IInv'
<1> USE QueueAssumption DEF IInv, PushNothing, consumerVars
<1>1. TypeOK'
  BY DEF TypeOK
<1>2. MutexInv'
  BY DEF MutexInv, TypeOK
<1>3. WriterSlotEmpty'
  BY DEF WriterSlotEmpty, Writing, WriterSlot, TypeOK
<1>4. ReaderSlotFull' /\ SleeperInv'
  BY DEF ReaderSlotFull, SleeperInv
<1>5. RoomInv'
  BY DEF RoomInv, TypeOK
<1>6. NoLostWakeup'
  BY DEF NoLostWakeup, TypeOK
<1>7. QED
  BY <1>1, <1>2, <1>3, <1>4, <1>5, <1>6

LEMMA PushAdvanceKeeps ==
  ASSUME IInv, NEW p \in Producers, PushAdvance(p)
  PROVE  IInv'
<1> USE QueueAssumption DEF IInv, PushAdvance, consumerVars
<1>1. slots' = [slots EXCEPT ![push_pos] =
                  [slots[push_pos] EXCEPT !.ptr = slots[push_pos].isptr]]
  OBVIOUS
<1>2. [slots[push_pos] EXCEPT !.ptr = slots[push_pos].isptr] \in SlotSet
  BY DEF TypeOK, SlotSet
<1>3. \A i \in Positions : slots'[i].state = slots[i].state
  BY <1>1 DEF TypeOK
<1>4. TypeOK'
  <2>1. slots' \in [Positions -> SlotSet]
    BY <1>1, <1>2 DEF TypeOK, SlotSet
  <2>2. push_pos' \in Positions /\ push_lock' \in Positions
    BY NextPosType DEF TypeOK
  <2>3. QED
    BY <2>1, <2>2 DEF TypeOK, SlotSet
<1>5. MutexInv'
  BY DEF MutexInv, TypeOK
<1>6. WriterSlotEmpty'
  <2>1. slots[push_pos].state = "EMPTY"
    BY DEF WriterSlotEmpty, Writing, WriterSlot
  <2>2. \A q \in Producers : q # p => ~Writing(q)'
    BY DEF MutexInv, Writing, TypeOK
  <2>3. WriterSlot(p)' = push_pos
    BY DEF WriterSlot, TypeOK
  <2>4. QED
    BY <1>3, <2>1, <2>2, <2>3 DEF WriterSlotEmpty, TypeOK
<1>7. ReaderSlotFull' /\ SleeperInv'
  BY <1>3 DEF ReaderSlotFull, SleeperInv, TypeOK
<1>8. RoomInv'
  BY DEF RoomInv, TypeOK
<1>9. NoLostWakeup'
  BY <1>3 DEF NoLostWakeup, TypeOK
<1>10. QED
  BY <1>4, <1>5, <1>6, <1>7, <1>8, <1>9

LEMMA PushPublishKeeps ==
  ASSUME IInv, NEW p \in Producers, PushPublish(p)
  PROVE  IInv'
<1> USE QueueAssumption DEF IInv, PushPublish, consumerVars
<1>1. slots' = [slots EXCEPT ![push_lock] = [slots[push_lock] EXCEPT !.state = "FULL"]]
  OBVIOUS
<1>2. [slots[push_lock] EXCEPT !.state = "FULL"] \in SlotSet
  BY DEF TypeOK, SlotSet
<1>3. /\ slots'[push_lock].state = "FULL"
      /\ \A i \in Positions : i # push_lock => slots'[i].state = slots[i].state
  BY <1>1, <1>2 DEF TypeOK
<1>4. TypeOK'
  <2>1. slots' \in [Positions -> SlotSet]
    BY <1>1, <1>2 DEF TypeOK, SlotSet
  <2>2. pushed' \in 0..MaxMsgs
    BY DEF TypeOK, RoomInv
  <2>3. fate' \in [Tickets -> Fates]
    BY DEF TypeOK, Fates
  <2>4. ppc' \in [Producers -> {"idle", "locked", "filled", "advanced", "published"}]
    BY DEF TypeOK
  <2>5. QED
    BY <2>1, <2>2, <2>3, <2>4 DEF TypeOK, SlotSet
<1>5. MutexInv'
  BY DEF MutexInv, TypeOK
<1>6. \A q \in Producers : ~Writing(q)'
  BY DEF MutexInv, Writing, TypeOK
<1>7. ReaderSlotFull' /\ SleeperInv'
  BY <1>3 DEF ReaderSlotFull, SleeperInv, TypeOK
<1>8. RoomInv'
  BY <1>6 DEF RoomInv, Writing
<1>9. NoLostWakeup'
  BY DEF NoLostWakeup, TypeOK
<1>10. QED
  BY <1>4, <1>5, <1>6, <1>7, <1>8, <1>9 DEF WriterSlotEmpty

LEMMA PushSignalKeeps ==
  ASSUME IInv, NEW p \in Producers, PushSignal(p)
  PROVE  IInv'
<1> USE QueueAssumption DEF IInv, PushSignal, consumerVars
<1>1. /\ pop_sync' \in WaitableSet({Consumer})
      /\ pop_sync'.signal
      /\ pop_sync.signal => pop_sync' = pop_sync
      /\ ~pop_sync.signal => Consumer \notin pop_sync'.blocked
      /\ ~pop_sync.signal => (Consumer \in pop_sync'.notified <=>
             Consumer \in pop_sync.blocked \/ Consumer \in pop_sync.notified)
  BY SignalRaises DEF TypeOK
<1>2. TypeOK'
  BY <1>1 DEF TypeOK
<1>3. MutexInv'
  BY DEF MutexInv, TypeOK
<1>4. WriterSlotEmpty'
  BY DEF WriterSlotEmpty, Writing, WriterSlot, TypeOK
<1>5. ReaderSlotFull'
  BY DEF ReaderSlotFull
<1>6. SleeperInv'
  BY <1>1 DEF SleeperInv
<1>7. RoomInv'
  BY DEF RoomInv, TypeOK
<1>8. NoLostWakeup'
  BY <1>1, <1>6 DEF NoLostWakeup, SleeperInv
<1>9. QED
  BY <1>2, <1>3, <1>4, <1>5, <1>6, <1>7, <1>8

-----------------------------------------------------------------------------
(* The steps of the consumer. *)

LEMMA PopCallKeeps ==
  ASSUME IInv, NEW kind \in Kinds, NEW timeout \in Timeouts, PopCall(kind, timeout)
  PROVE  IInv'
<1> USE DEF IInv, PopCall, producerVars
<1>1. TypeOK'
  BY DEF TypeOK, Ops
<1>2. MutexInv' /\ RoomInv' /\ ReaderSlotFull' /\ SleeperInv'
  BY DEF MutexInv, RoomInv, ReaderSlotFull, SleeperInv
<1>3. WriterSlotEmpty'
  BY DEF WriterSlotEmpty, Writing, WriterSlot
<1>4. NoLostWakeup'
  BY DEF NoLostWakeup
<1>5. QED
  BY <1>1, <1>2, <1>3, <1>4

LEMMA PopCheckKeeps ==
  ASSUME IInv, PopCheck
  PROVE  IInv'
<1> USE DEF IInv, PopCheck, producerVars
<1>1. TypeOK'
  BY DEF TypeOK
<1>2. MutexInv' /\ RoomInv' /\ SleeperInv'
  BY DEF MutexInv, RoomInv, SleeperInv
<1>3. WriterSlotEmpty'
  BY DEF WriterSlotEmpty, Writing, WriterSlot
<1>4. ReaderSlotFull' /\ NoLostWakeup'
  BY DEF ReaderSlotFull, NoLostWakeup
<1>5. QED
  BY <1>1, <1>2, <1>3, <1>4

LEMMA PopCheckNextKeeps ==
  ASSUME IInv, PopCheckNext
  PROVE  IInv'
<1> USE DEF IInv, PopCheckNext, producerVars
<1>1. TypeOK'
  BY NextPosType DEF TypeOK, Fates
<1>2. MutexInv' /\ RoomInv' /\ SleeperInv'
  BY DEF MutexInv, RoomInv, SleeperInv
<1>3. WriterSlotEmpty'
  BY DEF WriterSlotEmpty, Writing, WriterSlot
<1>4. ReaderSlotFull' /\ NoLostWakeup'
  BY DEF ReaderSlotFull, NoLostWakeup
<1>5. QED
  BY <1>1, <1>2, <1>3, <1>4

LEMMA PopWaitKeeps ==
  ASSUME IInv, PopWait
  PROVE  IInv'
<1> USE DEF IInv, PopWait, producerVars
<1>1. TypeOK' /\ SleeperInv'
  <2>1. CASE pop_sync.signal
    <3>1. pop_sync' = [pop_sync EXCEPT !.signal = FALSE] /\ cpc' = "check"
      BY <2>1 DEF WaitTakes
    <3>2. pop_sync' \in WaitableSet({Consumer})
      BY <3>1 DEF TypeOK, WaitableSet
    <3>3. QED
      BY <3>1, <3>2 DEF TypeOK, SleeperInv, WaitableSet
  <2>2. CASE ~pop_sync.signal
    <3>1. pop_sync' = [pop_sync EXCEPT !.blocked = @ \cup {Consumer}] /\ cpc' = "asleep"
      BY <2>2 DEF WaitBlocks
    <3>2. pop_sync' \in WaitableSet({Consumer})
      BY <3>1 DEF TypeOK, WaitableSet
    <3>3. QED
      BY <2>2, <3>1, <3>2 DEF TypeOK, SleeperInv, WaitableSet
  <2>3. QED
    BY <2>1, <2>2
<1>2. MutexInv' /\ RoomInv'
  BY DEF MutexInv, RoomInv
<1>3. WriterSlotEmpty'
  BY DEF WriterSlotEmpty, Writing, WriterSlot
<1>4. ReaderSlotFull' /\ NoLostWakeup'
  BY DEF ReaderSlotFull, NoLostWakeup
<1>5. QED
  BY <1>1, <1>2, <1>3, <1>4

LEMMA PopWakeKeeps ==
  ASSUME IInv, NEW spurious \in BOOLEAN, PopWake(spurious)
  PROVE  IInv'
<1> USE DEF IInv, PopWake, producerVars
<1>1. /\ pop_sync' \in WaitableSet({Consumer})
      /\ Consumer \notin pop_sync'.blocked
      /\ Consumer \notin pop_sync'.notified
  BY DEF TypeOK, WaitEnds, WaitableSet
<1>2. TypeOK' /\ SleeperInv'
  BY <1>1 DEF TypeOK, SleeperInv
<1>3. MutexInv' /\ RoomInv'
  BY DEF MutexInv, RoomInv
<1>4. WriterSlotEmpty'
  BY DEF WriterSlotEmpty, Writing, WriterSlot
<1>5. ReaderSlotFull' /\ NoLostWakeup'
  BY DEF ReaderSlotFull, NoLostWakeup
<1>6. QED
  BY <1>2, <1>3, <1>4, <1>5

LEMMA PopAdvanceKeeps ==
  ASSUME IInv, PopAdvance
  PROVE  IInv'
<1> USE DEF IInv, PopAdvance, producerVars
<1>1. TypeOK'
  <2>1. fate' \in [Tickets -> Fates]
    <3> DEFINE end == IF op.kind # "flush" THEN "delivered"
                      ELSE IF slots[pop_pos].ptr THEN "freed" ELSE "discarded"
    <3>1. end \in Fates
      BY DEF Fates
    <3>2. fate' = [fate EXCEPT ![slots[pop_pos].msg] = end]
      OBVIOUS
    <3> HIDE DEF end
    <3>3. QED
      BY <3>1, <3>2 DEF TypeOK
  <2>2. cpc' \in {"drop", "release"} /\ taken' \in Nat
    BY DEF TypeOK
  <2>3. pop_lock' \in Positions /\ pop_pos' \in Positions
    BY NextPosType DEF TypeOK
  <2>4. QED
    BY <2>1, <2>2, <2>3 DEF TypeOK
<1>2. MutexInv' /\ RoomInv' /\ SleeperInv'
  BY DEF MutexInv, RoomInv, SleeperInv
<1>3. WriterSlotEmpty'
  BY DEF WriterSlotEmpty, Writing, WriterSlot
<1>4. ReaderSlotFull' /\ NoLostWakeup'
  BY DEF ReaderSlotFull, NoLostWakeup
<1>5. QED
  BY <1>1, <1>2, <1>3, <1>4

LEMMA PopReleaseKeeps ==
  ASSUME IInv, PopRelease
  PROVE  IInv'
<1> USE DEF IInv, PopRelease, producerVars
<1>1. slots' = [slots EXCEPT ![pop_lock] = [slots[pop_lock] EXCEPT !.state = "EMPTY"]]
  OBVIOUS
<1>2. [slots[pop_lock] EXCEPT !.state = "EMPTY"] \in SlotSet
  BY DEF TypeOK, SlotSet
<1>3. /\ slots'[pop_lock].state = "EMPTY"
      /\ \A i \in Positions : i # pop_lock => slots'[i].state = slots[i].state
  BY <1>1, <1>2 DEF TypeOK
<1>4. TypeOK'
  <2>1. slots' \in [Positions -> SlotSet]
    BY <1>1, <1>2 DEF TypeOK, SlotSet
  <2>2. QED
    BY <2>1 DEF TypeOK, SlotSet
<1>5. MutexInv' /\ RoomInv' /\ SleeperInv'
  BY DEF MutexInv, RoomInv, SleeperInv
<1>6. WriterSlotEmpty'
  BY <1>3 DEF WriterSlotEmpty, Writing, WriterSlot, TypeOK
<1>7. ReaderSlotFull' /\ NoLostWakeup'
  BY DEF ReaderSlotFull, NoLostWakeup
<1>8. QED
  BY <1>4, <1>5, <1>6, <1>7

-----------------------------------------------------------------------------
LEMMA NextIInv ==
  ASSUME IInv, [Next]_vars
  PROVE  IInv'
<1>1. CASE UNCHANGED vars
  BY <1>1
  DEF vars, IInv, TypeOK, MutexInv, WriterSlotEmpty, Writing, WriterSlot, ReaderSlotFull,
      SleeperInv, RoomInv, NoLostWakeup
<1>2. ASSUME NEW p \in Producers,
             \/ GetInputBuffer(p)
             \/ \E isptr \in BOOLEAN : FillBuffer(p, isptr)
             \/ PushNothing(p)
             \/ PushAdvance(p)
             \/ PushPublish(p)
             \/ PushSignal(p)
      PROVE  IInv'
  BY <1>2, GetInputBufferKeeps, FillBufferKeeps, PushNothingKeeps, PushAdvanceKeeps,
     PushPublishKeeps, PushSignalKeeps
<1>3. CASE ConsumerCalls
  BY <1>3, PopCallKeeps DEF ConsumerCalls
<1>4. CASE \E spurious \in BOOLEAN : PopWake(spurious)
  BY <1>4, PopWakeKeeps
<1>5. CASE PopCheck \/ PopCheckNext \/ PopWait \/ PopAdvance \/ PopRelease
  BY <1>5, PopCheckKeeps, PopCheckNextKeeps, PopWaitKeeps, PopAdvanceKeeps, PopReleaseKeeps
<1>6. QED
  BY <1>1, <1>2, <1>3, <1>4, <1>5 DEF Next

LEMMA IInvHolds == Spec => []IInv
<1>1. IInv /\ [Next]_vars => IInv'
  BY NextIInv
<1>2. QED
  BY InitIInv, <1>1, PTL DEF Spec

\* The variables of the queue and of the calls under way stay well formed.
THEOREM QueueTypeCorrect == Spec => []TypeOK
<1>1. IInv => TypeOK
  BY DEF IInv
<1>2. QED
  BY IInvHolds, <1>1, PTL

\* No producer writes the buffer the consumer reads, although the consumer takes
\* no lock.
THEOREM QueueBufferExclusion == Spec => []BufferExclusion
BY IInvHolds, IInvExcludes, PTL

\* The check of the slot outside the waitable's mutex does not lose a wakeup.
THEOREM QueueNoLostWakeup == Spec => []NoLostWakeup
<1>1. IInv => NoLostWakeup
  BY DEF IInv
<1>2. QED
  BY IInvHolds, <1>1, PTL

-----------------------------------------------------------------------------
(***************************************************************************)
(* The order of the messages: the ring holds what was pushed and not yet    *)
(* taken, oldest first, a message that left it keeps its fate, and the      *)
(* queue implements BoundedFifo.                                            *)
(*                                                                         *)
(* Slots are counted from pop_pos on: the first Held of them are FULL and   *)
(* hold the next tickets, the others are EMPTY but for the one that the     *)
(* consumer went past and did not release yet.                              *)
(***************************************************************************)

Wrap(x) == IF x < QueueLen THEN x ELSE x - QueueLen
Held == pushed - taken
At(k) == Wrap(pop_pos + k)
Returning(i) == cpc \in {"release", "drop"} /\ i = pop_lock

\* The slots that hold messages, and those that do not.
HeldInv == Held \in 0..QueueLen
FullInv ==
  \A k \in Positions :
    k < Held => slots[At(k)].state = "FULL" /\ slots[At(k)].msg = taken + k + 1
EmptyInv ==
  \A k \in Positions : k >= Held /\ ~Returning(At(k)) => slots[At(k)].state = "EMPTY"

\* The slot that is being released lies just behind pop_pos.
ReturnInv ==
  cpc \in {"release", "drop"} => pop_pos = NextPos(pop_lock) /\ Held < QueueLen

\* A producer writes the next ticket to the slot after the last message.
WriteInv ==
  /\ \A p \in Producers :
       /\ ppc[p] = "advanced" => push_lock = At(Held) /\ push_pos = NextPos(push_lock)
       /\ ppc[p] \in {"filled", "advanced"} => slots[WriterSlot(p)].msg = pushed + 1
  /\ (\A p \in Producers : ppc[p] # "advanced") => push_pos = At(Held)

RingInv == HeldInv /\ FullInv /\ EmptyInv /\ ReturnInv /\ WriteInv

-----------------------------------------------------------------------------
(* Arithmetic on the ring. *)

LEMMA WrapType ==
  ASSUME NEW x \in 0..(2 * QueueLen - 1)
  PROVE  Wrap(x) \in Positions
BY QueueAssumption DEF Wrap, Positions

LEMMA NextPosWraps ==
  ASSUME NEW pos \in Positions, NEW k \in Positions
  PROVE  /\ NextPos(pos) = Wrap(pos + 1)
         /\ Wrap(NextPos(pos) + k) = Wrap(pos + k + 1) \/ k = QueueLen - 1
         /\ Wrap(NextPos(pos) + (QueueLen - 1)) = pos
BY QueueAssumption DEF Wrap, Positions, NextPos

LEMMA NextOfWrap ==
  ASSUME NEW pos \in Positions, NEW k \in Positions
  PROVE  NextPos(Wrap(pos + k)) = Wrap(pos + (k + 1))
BY QueueAssumption DEF Wrap, Positions, NextPos

LEMMA WrapOneToOne ==
  ASSUME NEW pos \in Positions, NEW j \in Positions, NEW k \in Positions,
         Wrap(pos + j) = Wrap(pos + k)
  PROVE  j = k
BY QueueAssumption DEF Wrap, Positions

LEMMA WrapIsModulo ==
  ASSUME NEW x \in 0..(2 * QueueLen - 1)
  PROVE  x % QueueLen = Wrap(x)
<1>1. CASE x < QueueLen
  BY <1>1, QueueAssumption, SMTT(30) DEF Wrap
<1>2. CASE x >= QueueLen
  BY <1>2, QueueAssumption, SMTT(30) DEF Wrap
<1>3. QED
  BY <1>1, <1>2, QueueAssumption

\* What lies on the ring in terms of pop_pos.
LEMMA AtType ==
  ASSUME TypeOK, NEW k \in 0..QueueLen
  PROVE  At(k) \in Positions
BY WrapType, QueueAssumption DEF TypeOK, At, Positions

LEMMA AtZero ==
  ASSUME TypeOK
  PROVE  At(0) = pop_pos /\ At(QueueLen) = pop_pos
BY QueueAssumption DEF TypeOK, At, Wrap, Positions

-----------------------------------------------------------------------------
LEMMA InitRing == Init => RingInv
<1> SUFFICES ASSUME Init PROVE RingInv
  OBVIOUS
<1>1. TypeOK /\ Held = 0
  BY InitIInv DEF IInv, Init, Held
<1>2. \A k \in Positions : At(k) \in Positions
  BY <1>1, AtType, QueueAssumption DEF Positions
<1>3. FullInv /\ EmptyInv
  BY <1>1, <1>2, QueueAssumption DEF FullInv, EmptyInv, Init, Positions
<1>4. HeldInv /\ ReturnInv
  BY <1>1, QueueAssumption DEF HeldInv, ReturnInv, Init
<1>5. WriteInv
  BY <1>1, AtZero DEF WriteInv, Init
<1>6. QED
  BY <1>3, <1>4, <1>5 DEF RingInv

\* The producer in a call is alone, and its slot is neither held nor being released.
LEMMA WriterAlone ==
  ASSUME IInv, NEW p \in Producers, ppc[p] # "idle"
  PROVE  \A q \in Producers : q # p => ppc[q] = "idle"
BY DEF IInv, MutexInv

LEMMA WriterAtEnd ==
  ASSUME IInv, RingInv, NEW p \in Producers, Writing(p)
  PROVE  /\ WriterSlot(p) = At(Held) /\ WriterSlot(p) \in Positions
         /\ Held \in Positions
         /\ ~Returning(WriterSlot(p))
         /\ \A k \in Positions : At(k) = WriterSlot(p) => k = Held
<1>1. slots[WriterSlot(p)].state = "EMPTY"
  BY DEF IInv, WriterSlotEmpty
<1>2. WriterSlot(p) = At(Held)
  <2>1. CASE ppc[p] = "advanced"
    BY <2>1 DEF RingInv, WriteInv, WriterSlot
  <2>2. CASE ppc[p] # "advanced"
    <3>1. \A q \in Producers : ppc[q] # "advanced"
      BY <2>2, WriterAlone DEF Writing
    <3>2. QED
      BY <2>2, <3>1 DEF RingInv, WriteInv, WriterSlot
  <2>3. QED
    BY <2>1, <2>2
<1>3. Held # QueueLen
  <2> SUFFICES ASSUME Held = QueueLen PROVE FALSE
    OBVIOUS
  <2>1. At(Held) = At(0)
    BY AtZero DEF IInv
  <2>2. slots[At(0)].state = "FULL"
    BY QueueAssumption DEF RingInv, FullInv, Positions
  <2>3. QED
    BY <1>1, <1>2, <2>1, <2>2
<1>4. Held \in Positions
  BY <1>3, QueueAssumption DEF RingInv, HeldInv, Positions
<1>5. WriterSlot(p) \in Positions
  BY <1>2, <1>4, AtType, QueueAssumption DEF IInv, Positions
<1>6. ~Returning(WriterSlot(p))
  BY <1>1 DEF IInv, ReaderSlotFull, Returning
<1>7. \A k \in Positions : At(k) = WriterSlot(p) => k = Held
  BY <1>2, <1>4, WrapOneToOne DEF IInv, TypeOK, At
<1>8. QED
  BY <1>2, <1>4, <1>5, <1>6, <1>7

-----------------------------------------------------------------------------
(* The steps of the producers. *)

\* A step that neither fills nor empties a slot, nor moves a position.
LEMMA RingStays ==
  ASSUME RingInv, UNCHANGED <<slots, push_pos, pop_pos, push_lock, pop_lock, pushed, taken>>,
         cpc' = cpc \/ {cpc, cpc'} \cap {"release", "drop"} = {},
         \A p \in Producers : ppc'[p] \in {ppc[p], "idle", "locked"},
         \A p \in Producers : ppc[p] = "advanced" => ppc'[p] = "advanced"
  PROVE  RingInv'
<1>1. Held' = Held /\ \A k : At(k)' = At(k)
  BY DEF Held, At, Wrap
<1>2. \A i : Returning(i)' <=> Returning(i)
  BY DEF Returning
<1>3. HeldInv' /\ FullInv' /\ EmptyInv' /\ ReturnInv'
  BY <1>1, <1>2 DEF RingInv, HeldInv, FullInv, EmptyInv, ReturnInv, NextPos
<1>4. WriteInv'
  BY <1>1 DEF RingInv, WriteInv, WriterSlot, NextPos
<1>5. QED
  BY <1>3, <1>4 DEF RingInv

LEMMA FillBufferRing ==
  ASSUME IInv, RingInv, NEW p \in Producers, NEW isptr \in BOOLEAN, FillBuffer(p, isptr)
  PROVE  RingInv'
<1> USE DEF FillBuffer, consumerVars
<1>1. /\ Writing(p) /\ WriterSlot(p) = push_pos
      /\ WriterSlot(p)' = push_pos
  BY DEF Writing, WriterSlot, IInv, TypeOK
<1>2. slots' = [slots EXCEPT ![push_pos] =
                  [slots[push_pos] EXCEPT !.msg = pushed + 1, !.isptr = isptr]]
  OBVIOUS
<1>3. /\ \A i \in Positions : slots'[i].state = slots[i].state
      /\ \A i \in Positions : i # push_pos => slots'[i] = slots[i]
      /\ slots'[push_pos].msg = pushed + 1
  <2>1. slots[push_pos] \in SlotSet /\ push_pos \in Positions
    BY DEF IInv, TypeOK, SlotSet
  <2>2. QED
    BY <1>2, <2>1 DEF IInv, TypeOK, SlotSet
<1>4. Held' = Held /\ \A k : At(k)' = At(k)
  BY DEF Held, At, Wrap
<1>5. \A k \in Positions : At(k) \in Positions
  BY AtType, QueueAssumption DEF IInv, Positions
<1>6. FullInv'
  <2> SUFFICES ASSUME NEW k \in Positions, k < Held
               PROVE  slots'[At(k)].state = "FULL" /\ slots'[At(k)].msg = taken + k + 1
    BY <1>4 DEF FullInv
  <2>1. At(k) # push_pos
    BY <1>1, WriterAtEnd DEF RingInv, HeldInv, Positions
  <2>2. QED
    BY <1>3, <1>5, <2>1 DEF RingInv, FullInv
<1>7. HeldInv' /\ EmptyInv' /\ ReturnInv'
  BY <1>3, <1>4, <1>5
  DEF RingInv, HeldInv, EmptyInv, ReturnInv, Returning, NextPos
<1>8. WriteInv'
  <2>1. \A q \in Producers : q # p => ppc'[q] = "idle"
    BY WriterAlone DEF IInv, TypeOK
  <2>2. \A q \in Producers : ppc[q] # "advanced"
    BY WriterAlone
  <2>3. ppc'[p] = "filled"
    BY DEF IInv, TypeOK
  <2>4. QED
    BY <1>1, <1>3, <1>4, <2>1, <2>2, <2>3 DEF RingInv, WriteInv
<1>9. QED
  BY <1>6, <1>7, <1>8 DEF RingInv

LEMMA PushAdvanceRing ==
  ASSUME IInv, RingInv, NEW p \in Producers, PushAdvance(p)
  PROVE  RingInv'
<1> USE DEF PushAdvance, consumerVars
<1>1. /\ Writing(p) /\ WriterSlot(p) = push_pos
      /\ WriterSlot(p)' = push_pos
  BY DEF Writing, WriterSlot, IInv, TypeOK
<1>2. \A i \in Positions : slots'[i].state = slots[i].state /\ slots'[i].msg = slots[i].msg
  BY DEF IInv, TypeOK
<1>3. Held' = Held /\ \A k : At(k)' = At(k)
  BY DEF Held, At, Wrap
<1>4. \A k \in Positions : At(k) \in Positions
  BY AtType, QueueAssumption DEF IInv, Positions
<1>5. HeldInv' /\ FullInv' /\ EmptyInv' /\ ReturnInv'
  BY <1>2, <1>3, <1>4
  DEF RingInv, HeldInv, FullInv, EmptyInv, ReturnInv, Returning, NextPos
<1>6. WriteInv'
  <2>1. \A q \in Producers : q # p => ppc'[q] = "idle"
    BY WriterAlone DEF IInv, TypeOK
  <2>2. push_pos = At(Held) /\ push_pos \in Positions
    BY <1>1, WriterAtEnd
  <2>3. ppc'[p] = "advanced" /\ slots[push_pos].msg = pushed + 1
    BY <1>1 DEF IInv, TypeOK, RingInv, WriteInv
  <2>4. QED
    BY <1>1, <1>2, <1>3, <2>1, <2>2, <2>3 DEF WriteInv, NextPos
<1>7. QED
  BY <1>5, <1>6 DEF RingInv

LEMMA PushPublishRing ==
  ASSUME IInv, RingInv, NEW p \in Producers, PushPublish(p)
  PROVE  RingInv'
<1> USE DEF PushPublish, consumerVars
<1>1. Writing(p) /\ WriterSlot(p) = push_lock
  BY DEF Writing, WriterSlot
<1>2. /\ push_lock = At(Held) /\ push_lock \in Positions /\ Held \in Positions
      /\ ~Returning(push_lock)
      /\ \A k \in Positions : At(k) = push_lock => k = Held
  BY <1>1, WriterAtEnd
<1>3. /\ slots'[push_lock].state = "FULL" /\ slots'[push_lock].msg = slots[push_lock].msg
      /\ \A i \in Positions : i # push_lock => slots'[i] = slots[i]
  <2>1. slots[push_lock] \in SlotSet
    BY <1>2 DEF IInv, TypeOK, SlotSet
  <2>2. slots' = [slots EXCEPT ![push_lock] = [slots[push_lock] EXCEPT !.state = "FULL"]]
    OBVIOUS
  <2>3. QED
    BY <1>2, <2>1, <2>2 DEF IInv, TypeOK, SlotSet
<1>4. Held' = Held + 1 /\ \A k : At(k)' = At(k)
  BY DEF Held, At, Wrap, IInv, TypeOK
<1>5. \A k \in Positions : At(k) \in Positions
  BY AtType, QueueAssumption DEF IInv, Positions
<1>6. pushed = taken + Held /\ slots[push_lock].msg = pushed + 1
  BY <1>1 DEF Held, IInv, TypeOK, RingInv, WriteInv
<1>7. FullInv'
  <2> SUFFICES ASSUME NEW k \in Positions, k < Held + 1
               PROVE  slots'[At(k)].state = "FULL" /\ slots'[At(k)].msg = taken + k + 1
    BY <1>4 DEF FullInv
  <2>1. CASE k = Held
    BY <1>2, <1>3, <1>6, <2>1
  <2>2. CASE k # Held
    <3>1. At(k) # push_lock /\ k < Held
      BY <1>2, <2>2 DEF Positions
    <3>2. QED
      BY <1>3, <1>5, <3>1 DEF RingInv, FullInv
  <2>3. QED
    BY <2>1, <2>2
<1>8. EmptyInv'
  <2> SUFFICES ASSUME NEW k \in Positions, k >= Held + 1, ~Returning(At(k))
               PROVE  slots'[At(k)].state = "EMPTY"
    BY <1>4 DEF EmptyInv, Returning
  <2>1. At(k) # push_lock
    BY <1>2 DEF Positions
  <2>2. QED
    BY <1>2, <1>3, <1>5, <2>1 DEF RingInv, EmptyInv, Positions
<1>9. HeldInv'
  BY <1>2, <1>4, QueueAssumption DEF HeldInv, Positions
<1>10. ReturnInv'
  <2> SUFFICES ASSUME cpc \in {"release", "drop"}
               PROVE  pop_pos = NextPos(pop_lock) /\ Held + 1 < QueueLen
    BY <1>4 DEF ReturnInv, NextPos
  <2>1. pop_pos = NextPos(pop_lock) /\ pop_lock \in Positions
    BY DEF RingInv, ReturnInv, IInv, TypeOK
  <2>2. At(QueueLen - 1) = pop_lock
    BY <2>1, NextPosWraps, QueueAssumption DEF At, Positions
  <2>3. Held # QueueLen - 1
    BY <1>2, <2>2 DEF Returning
  <2>4. QED
    BY <1>2, <2>1, <2>3, QueueAssumption DEF Positions
<1>11. WriteInv'
  <2>1. \A q \in Producers : ppc'[q] \in {"idle", "published"}
    BY WriterAlone DEF IInv, TypeOK
  <2>2. push_pos = NextPos(At(Held))
    BY <1>2 DEF RingInv, WriteInv
  <2>3. NextPos(At(Held)) = At(Held + 1)
    BY <1>2, NextOfWrap DEF At, IInv, TypeOK
  <2>4. QED
    BY <1>4, <2>1, <2>2, <2>3 DEF WriteInv
<1>12. QED
  BY <1>7, <1>8, <1>9, <1>10, <1>11 DEF RingInv

-----------------------------------------------------------------------------
(* The steps of the consumer. *)

\* A FULL slot that the consumer looks at holds the next message.
LEMMA FullHeadIsNext ==
  ASSUME IInv, RingInv, cpc \notin {"release", "drop"}, slots[pop_pos].state = "FULL"
  PROVE  Held \in 1..QueueLen /\ slots[pop_pos].msg = taken + 1
<1>1. slots[At(0)].state = "FULL" /\ At(0) = pop_pos /\ 0 \in Positions
  BY AtZero, QueueAssumption DEF IInv, Positions
<1>2. ~Returning(At(0))
  BY DEF Returning
<1>3. Held # 0
  BY <1>1, <1>2 DEF RingInv, EmptyInv
<1>4. Held \in 1..QueueLen
  BY <1>3, QueueAssumption DEF RingInv, HeldInv
<1>5. QED
  BY <1>1, <1>4, QueueAssumption DEF RingInv, FullInv, IInv, TypeOK

LEMMA HeadIsNext ==
  ASSUME IInv, RingInv, cpc \in {"next", "hold"}
  PROVE  Held \in 1..QueueLen /\ slots[pop_pos].msg = taken + 1
BY FullHeadIsNext DEF IInv, ReaderSlotFull

LEMMA AdvanceRing ==
  ASSUME IInv, RingInv, cpc \in {"next", "hold"}, cpc' \in {"release", "drop"},
         pop_lock' = pop_pos, pop_pos' = NextPos(pop_pos), taken' = taken + 1,
         UNCHANGED <<slots, producerVars>>
  PROVE  RingInv'
<1> USE DEF producerVars
<1>1. Held \in 1..QueueLen /\ Held' = Held - 1
  BY HeadIsNext DEF Held, IInv, TypeOK
<1>2. pop_pos \in Positions /\ pop_pos' \in Positions
  BY NextPosType DEF IInv, TypeOK
<1>3. \A k \in Positions : At(k)' = IF k = QueueLen - 1 THEN pop_pos ELSE At(k + 1)
  <2> SUFFICES ASSUME NEW k \in Positions
               PROVE  At(k)' = IF k = QueueLen - 1 THEN pop_pos ELSE At(k + 1)
    OBVIOUS
  <2>1. At(k)' = Wrap(NextPos(pop_pos) + k)
    BY DEF At, Wrap
  <2>2. pop_pos + k + 1 = pop_pos + (k + 1)
    BY <1>2, QueueAssumption DEF Positions
  <2>3. QED
    BY <1>2, <2>1, <2>2, NextPosWraps DEF At
<1>4. FullInv'
  <2> SUFFICES ASSUME NEW k \in Positions, k < Held - 1
               PROVE  /\ slots[At(k)'].state = "FULL"
                      /\ slots[At(k)'].msg = taken + 1 + k + 1
    BY <1>1 DEF FullInv
  <2>1. k + 1 \in Positions /\ k + 1 < Held /\ At(k)' = At(k + 1)
    BY <1>1, <1>3, QueueAssumption DEF Positions
  <2>2. slots[At(k + 1)].state = "FULL" /\ slots[At(k + 1)].msg = taken + (k + 1) + 1
    BY <2>1 DEF RingInv, FullInv
  <2>3. taken + (k + 1) + 1 = taken + 1 + k + 1
    BY QueueAssumption DEF IInv, TypeOK, Positions
  <2>4. QED
    BY <2>1, <2>2, <2>3
<1>5. EmptyInv'
  <2> SUFFICES ASSUME NEW k \in Positions, k >= Held - 1, At(k)' # pop_pos
               PROVE  slots[At(k)'].state = "EMPTY"
    BY <1>1 DEF EmptyInv, Returning
  <2>1. k + 1 \in Positions /\ k + 1 >= Held /\ At(k)' = At(k + 1)
    BY <1>1, <1>3, QueueAssumption DEF Positions
  <2>2. ~Returning(At(k + 1))
    BY DEF Returning
  <2>3. QED
    BY <2>1, <2>2 DEF RingInv, EmptyInv
<1>6. HeldInv' /\ ReturnInv'
  BY <1>1, QueueAssumption DEF HeldInv, ReturnInv, NextPos
<1>7. At(Held)' = At(Held)
  <2>1. At(Held)' = Wrap(NextPos(pop_pos) + (Held - 1))
    BY <1>1 DEF At, Wrap
  <2>2. CASE Held = QueueLen
    BY <1>1, <1>2, <2>1, <2>2, AtZero, NextPosWraps, QueueAssumption DEF IInv, Positions
  <2>3. CASE Held # QueueLen
    <3>1. Held - 1 \in Positions /\ Held - 1 # QueueLen - 1
      BY <1>1, <2>3, QueueAssumption DEF Positions
    <3>2. pop_pos + (Held - 1) + 1 = pop_pos + Held
      BY <1>1, <1>2, QueueAssumption DEF Positions
    <3>3. QED
      BY <1>2, <2>1, <3>1, <3>2, NextPosWraps DEF At
  <2>4. QED
    BY <2>2, <2>3
<1>8. WriteInv'
  BY <1>7 DEF RingInv, WriteInv, WriterSlot, NextPos
<1>9. QED
  BY <1>4, <1>5, <1>6, <1>8 DEF RingInv

LEMMA PopReleaseRing ==
  ASSUME IInv, RingInv, PopRelease
  PROVE  RingInv'
<1> USE DEF PopRelease, producerVars
<1>1. pop_pos = NextPos(pop_lock) /\ Held < QueueLen /\ pop_lock \in Positions
  BY DEF RingInv, ReturnInv, IInv, TypeOK
<1>2. At(QueueLen - 1) = pop_lock /\ QueueLen - 1 \in Positions
  BY <1>1, NextPosWraps, QueueAssumption DEF At, Positions
<1>3. \A k \in Positions : At(k) \in Positions
  BY AtType, QueueAssumption DEF IInv, Positions
<1>4. /\ slots'[pop_lock].state = "EMPTY"
      /\ \A i \in Positions : slots'[i].msg = slots[i].msg
      /\ \A i \in Positions : i # pop_lock => slots'[i].state = slots[i].state
  BY <1>1 DEF IInv, TypeOK
<1>5. Held' = Held /\ \A k : At(k)' = At(k)
  BY DEF Held, At, Wrap
<1>6. FullInv'
  <2> SUFFICES ASSUME NEW k \in Positions, k < Held
               PROVE  slots'[At(k)].state = "FULL" /\ slots'[At(k)].msg = taken + k + 1
    BY <1>5 DEF FullInv
  <2>1. k # QueueLen - 1
    BY <1>1, QueueAssumption DEF Positions, RingInv, HeldInv
  <2>2. At(k) # pop_lock
    BY <1>2, <2>1, WrapOneToOne DEF At, IInv, TypeOK
  <2>3. QED
    BY <1>3, <1>4, <2>2 DEF RingInv, FullInv
<1>7. EmptyInv'
  <2> SUFFICES ASSUME NEW k \in Positions, k >= Held
               PROVE  slots'[At(k)].state = "EMPTY"
    BY <1>5 DEF EmptyInv
  <2>1. CASE At(k) = pop_lock
    BY <1>4, <2>1
  <2>2. CASE At(k) # pop_lock
    BY <1>3, <1>4, <2>2 DEF RingInv, EmptyInv, Returning
  <2>3. QED
    BY <2>1, <2>2
<1>8. HeldInv' /\ ReturnInv'
  <2>1. cpc' \notin {"release", "drop"}
    BY DEF IInv, TypeOK
  <2>2. QED
    BY <1>5, <2>1 DEF RingInv, HeldInv, ReturnInv
<1>9. WriteInv'
  <2>1. \A p \in Producers : WriterSlot(p)' = WriterSlot(p) /\ WriterSlot(p) \in Positions
    BY DEF WriterSlot, IInv, TypeOK
  <2>2. QED
    BY <1>4, <1>5, <2>1 DEF RingInv, WriteInv, NextPos
<1>10. QED
  BY <1>6, <1>7, <1>8, <1>9 DEF RingInv

-----------------------------------------------------------------------------
LEMMA NextRing ==
  ASSUME IInv, RingInv, [Next]_vars
  PROVE  RingInv'
<1>1. CASE UNCHANGED vars
  BY <1>1, RingStays DEF vars
<1>2. ASSUME NEW p \in Producers, GetInputBuffer(p) \/ PushNothing(p) \/ PushSignal(p)
      PROVE  RingInv'
  BY <1>2, RingStays
  DEF GetInputBuffer, PushNothing, PushSignal, consumerVars, IInv, TypeOK
<1>3. ASSUME NEW p \in Producers,
             (\E isptr \in BOOLEAN : FillBuffer(p, isptr)) \/ PushAdvance(p) \/ PushPublish(p)
      PROVE  RingInv'
  BY <1>3, FillBufferRing, PushAdvanceRing, PushPublishRing
<1>4. CASE ConsumerCalls \/ PopCheck \/ PopWait \/ \E spurious \in BOOLEAN : PopWake(spurious)
  BY <1>4, RingStays
  DEF ConsumerCalls, PopCall, PopCheck, PopWait, PopWake, producerVars
<1>5. CASE PopCheckNext
  <2>1. CASE cpc' = "drop"
    BY <1>5, <2>1, AdvanceRing DEF PopCheckNext
  <2>2. CASE cpc' = "hold"
    BY <1>5, <2>2, RingStays DEF PopCheckNext, producerVars
  <2>3. QED
    BY <1>5, <2>1, <2>2 DEF PopCheckNext
<1>6. CASE PopAdvance
  BY <1>6, AdvanceRing DEF PopAdvance
<1>7. CASE PopRelease
  BY <1>7, PopReleaseRing
<1>8. QED
  BY <1>1, <1>2, <1>3, <1>4, <1>5, <1>6, <1>7 DEF Next

LEMMA RingHolds == Spec => [](IInv /\ RingInv)
<1>1. IInv /\ RingInv /\ [Next]_vars => IInv' /\ RingInv'
  BY NextIInv, NextRing
<1>2. QED
  BY InitIInv, InitRing, <1>1, PTL DEF Spec

\* The ring as a sequence: the tickets between those taken and those pushed.
LEMMA ContentsAre ==
  ASSUME IInv, RingInv
  PROVE  /\ \A k \in 1..Held : (pop_pos + k - 1) % QueueLen = At(k - 1)
         /\ Contents = [k \in 1..Held |-> taken + k]
<1>1. ASSUME NEW k \in 1..Held
      PROVE  /\ (pop_pos + k - 1) % QueueLen = At(k - 1)
             /\ slots[At(k - 1)].msg = taken + k
  <2>1. k - 1 \in Positions /\ k - 1 < Held
    BY QueueAssumption DEF RingInv, HeldInv, Positions
  <2>2. pop_pos + k - 1 = pop_pos + (k - 1) /\ pop_pos + (k - 1) \in 0..(2 * QueueLen - 1)
    BY <2>1, QueueAssumption DEF IInv, TypeOK, Positions
  <2>3. (pop_pos + k - 1) % QueueLen = At(k - 1)
    BY <2>2, WrapIsModulo DEF At
  <2>4. taken + (k - 1) + 1 = taken + k
    BY <2>1, QueueAssumption DEF IInv, TypeOK, Positions
  <2>5. QED
    BY <2>1, <2>3, <2>4 DEF RingInv, FullInv
<1>2. QED
  BY <1>1 DEF Contents, Held

\* Messages leave in the order in which they were pushed, none twice, none lost, for
\* any number of producers and any length of the ring.
THEOREM QueueInOrder == Spec => []InOrder
<1>1. IInv /\ RingInv => InOrder
  <2> SUFFICES ASSUME IInv, RingInv PROVE InOrder
    OBVIOUS
  <2>1. \A k \in 1..Held : slots[(pop_pos + k - 1) % QueueLen].state = "FULL"
    <3> SUFFICES ASSUME NEW k \in 1..Held
                 PROVE  slots[At(k - 1)].state = "FULL"
      BY ContentsAre
    <3>1. k - 1 \in Positions /\ k - 1 < Held
      BY QueueAssumption DEF RingInv, HeldInv, Positions
    <3>2. QED
      BY <3>1 DEF RingInv, FullInv
  <2>2. QED
    BY <2>1, ContentsAre DEF InOrder, Held, RingInv, HeldInv
<1>2. QED
  BY RingHolds, <1>1, PTL

-----------------------------------------------------------------------------
(* What became of each message. *)

\* The messages in the ring are the queued ones, those beyond are unsent; and the flag
\* of a FULL slot is the one its message was pushed with.
FateInv ==
  /\ \A m \in Tickets : fate[m] = "queued" <=> taken < m /\ m <= pushed
  /\ \A m \in Tickets : fate[m] = "unsent" <=> m > pushed
PtrInv ==
  /\ \A i \in Positions : slots[i].state = "FULL" => slots[i].ptr = slots[i].isptr
  /\ \A p \in Producers : ppc[p] = "advanced" => slots[push_lock].ptr = slots[push_lock].isptr

LEMMA NextFate ==
  ASSUME IInv, RingInv, FateInv, [Next]_vars
  PROVE  FateInv'
<1>1. ASSUME NEW p \in Producers, PushPublish(p)
      PROVE  FateInv'
  <2>1. slots[push_lock].msg = pushed + 1 /\ pushed + 1 \in Tickets
    BY <1>1 DEF PushPublish, RingInv, WriteInv, WriterSlot, IInv, RoomInv, TypeOK, Tickets
  <2>2. fate' = [fate EXCEPT ![pushed + 1] = "queued"] /\ pushed' = pushed + 1 /\ taken' = taken
    BY <1>1, <2>1 DEF PushPublish, consumerVars
  <2>3. taken <= pushed
    BY DEF RingInv, HeldInv, Held, IInv, TypeOK
  <2>4. QED
    BY <2>1, <2>2, <2>3 DEF FateInv, IInv, TypeOK, Tickets
<1>2. ASSUME NEW end \in Fates \ {"queued", "unsent"}, cpc \in {"next", "hold"},
             fate' = [fate EXCEPT ![slots[pop_pos].msg] = end],
             taken' = taken + 1, pushed' = pushed
      PROVE  FateInv'
  <2>1. slots[pop_pos].msg = taken + 1 /\ taken + 1 <= pushed
    BY <1>2, HeadIsNext DEF Held, IInv, TypeOK
  <2>2. QED
    BY <1>2, <2>1 DEF FateInv, IInv, TypeOK, Tickets
<1>3. CASE PopAdvance
  <2> DEFINE end == IF op.kind # "flush" THEN "delivered"
                    ELSE IF slots[pop_pos].ptr THEN "freed" ELSE "discarded"
  <2>1. end \in Fates \ {"queued", "unsent"}
    BY DEF Fates
  <2>2. /\ fate' = [fate EXCEPT ![slots[pop_pos].msg] = end] /\ cpc = "hold"
        /\ taken' = taken + 1 /\ pushed' = pushed
    BY <1>3 DEF PopAdvance, producerVars
  <2> HIDE DEF end
  <2>3. QED
    BY <1>2, <2>1, <2>2
<1>4. CASE PopCheckNext
  BY <1>2, <1>4 DEF PopCheckNext, producerVars, Fates, FateInv
<1>5. CASE UNCHANGED <<fate, pushed, taken>>
  BY <1>5 DEF FateInv
<1>6. QED
  BY <1>1, <1>3, <1>4, <1>5
  DEF Next, vars, GetInputBuffer, FillBuffer, PushNothing, PushAdvance, PushSignal,
      ConsumerCalls, PopCall, PopCheck, PopWait, PopWake, PopRelease, consumerVars, producerVars

LEMMA NextPtr ==
  ASSUME IInv, PtrInv, [Next]_vars
  PROVE  PtrInv'
<1>1. ASSUME NEW p \in Producers, NEW isptr \in BOOLEAN, FillBuffer(p, isptr)
      PROVE  PtrInv'
  <2>1. slots[push_pos].state = "EMPTY" /\ \A q \in Producers : q # p => ppc[q] = "idle"
    BY <1>1, WriterAlone DEF FillBuffer, IInv, WriterSlotEmpty, Writing, WriterSlot
  <2>2. /\ \A i \in Positions : slots'[i].state = slots[i].state
        /\ \A i \in Positions : i # push_pos => slots'[i] = slots[i]
    BY <1>1 DEF FillBuffer, IInv, TypeOK
  <2>3. \A q \in Producers : ppc'[q] # "advanced"
    BY <1>1, <2>1 DEF FillBuffer, IInv, TypeOK
  <2>4. QED
    BY <2>1, <2>2, <2>3 DEF PtrInv
<1>2. ASSUME NEW p \in Producers, PushAdvance(p)
      PROVE  PtrInv'
  <2>1. slots[push_pos].state = "EMPTY" /\ push_pos \in Positions
    BY <1>2 DEF PushAdvance, IInv, WriterSlotEmpty, Writing, WriterSlot, TypeOK
  <2>2. /\ \A i \in Positions : slots'[i].state = slots[i].state
        /\ \A i \in Positions : i # push_pos => slots'[i] = slots[i]
        /\ slots'[push_pos].ptr = slots'[push_pos].isptr
    BY <1>2, <2>1 DEF PushAdvance, IInv, TypeOK
  <2>3. push_lock' = push_pos
    BY <1>2 DEF PushAdvance
  <2>4. QED
    BY <2>1, <2>2, <2>3 DEF PtrInv
<1>3. ASSUME NEW p \in Producers, PushPublish(p)
      PROVE  PtrInv'
  <2>1. /\ \A i \in Positions : slots'[i].ptr = slots[i].ptr /\ slots'[i].isptr = slots[i].isptr
        /\ \A i \in Positions : i # push_lock => slots'[i].state = slots[i].state
    BY <1>3 DEF PushPublish, IInv, TypeOK
  <2>2. slots[push_lock].ptr = slots[push_lock].isptr
    BY <1>3 DEF PushPublish, PtrInv
  <2>3. push_lock' = push_lock /\ push_lock \in Positions
    BY <1>3 DEF PushPublish, IInv, TypeOK
  <2>4. QED
    BY <2>1, <2>2, <2>3 DEF PtrInv
<1>4. CASE PopRelease
  <2>1. /\ \A i \in Positions : slots'[i].ptr = slots[i].ptr /\ slots'[i].isptr = slots[i].isptr
        /\ \A i \in Positions : slots'[i].state = "FULL" => slots[i].state = "FULL"
    BY <1>4 DEF PopRelease, IInv, TypeOK
  <2>2. UNCHANGED <<ppc, push_lock>> /\ push_lock \in Positions
    BY <1>4 DEF PopRelease, producerVars, IInv, TypeOK
  <2>3. QED
    BY <2>1, <2>2 DEF PtrInv
<1>5. CASE /\ UNCHANGED <<slots, push_lock>>
           /\ \A p \in Producers : ppc'[p] = "advanced" => ppc[p] = "advanced"
  BY <1>5 DEF PtrInv
<1>6. ASSUME NEW p \in Producers, GetInputBuffer(p) \/ PushNothing(p) \/ PushSignal(p)
      PROVE  PtrInv'
  BY <1>5, <1>6 DEF GetInputBuffer, PushNothing, PushSignal, IInv, TypeOK
<1>7. QED
  BY <1>1, <1>2, <1>3, <1>4, <1>5, <1>6
  DEF Next, vars, ConsumerCalls, PopCall, PopCheck, PopCheckNext, PopWait, PopWake, PopAdvance,
      producerVars

LEMMA AllHolds == Spec => [](IInv /\ RingInv /\ FateInv /\ PtrInv)
<1>1. Init => FateInv /\ PtrInv
  BY QueueAssumption DEF Init, FateInv, PtrInv, Tickets, Positions
<1>2. IInv /\ RingInv /\ FateInv /\ PtrInv /\ [Next]_vars => FateInv' /\ PtrInv'
  BY NextFate, NextPtr
<1>3. IInv /\ RingInv /\ [Next]_vars => IInv' /\ RingInv'
  BY NextIInv, NextRing
<1>4. QED
  BY InitIInv, InitRing, <1>1, <1>2, <1>3, PTL DEF Spec

\* What the consumer was given is never freed or given again, and Flush frees
\* exactly the pointers.
THEOREM QueueFateIsFinal == Spec => FateIsFinal
<1> DEFINE Final(m) ==
      /\ fate[m] \in {"delivered", "discarded", "freed"} => fate'[m] = fate[m]
      /\ fate[m] = "queued" /\ fate'[m] = "freed" =>
            slots[pop_pos].msg = m /\ slots[pop_pos].isptr
<1>1. ASSUME IInv, RingInv, FateInv, PtrInv, [Next]_vars
      PROVE  [\A m \in Tickets : Final(m)]_vars
  <2>1. ASSUME NEW p \in Producers, PushPublish(p)
        PROVE  \A m \in Tickets : Final(m)
    <3>1. slots[push_lock].msg = pushed + 1 /\ pushed + 1 \in Tickets
      BY <1>1, <2>1 DEF PushPublish, RingInv, WriteInv, WriterSlot, IInv, RoomInv, TypeOK, Tickets
    <3>2. fate[pushed + 1] = "unsent"
      BY <1>1, <3>1 DEF FateInv, IInv, TypeOK
    <3>3. fate' = [fate EXCEPT ![pushed + 1] = "queued"]
      BY <2>1, <3>1 DEF PushPublish
    <3>4. QED
      BY <1>1, <3>1, <3>2, <3>3 DEF IInv, TypeOK
  <2>2. ASSUME cpc \in {"next", "hold"}
        PROVE  /\ taken + 1 \in Tickets /\ fate[taken + 1] = "queued"
               /\ slots[pop_pos].msg = taken + 1
               /\ slots[pop_pos].ptr = slots[pop_pos].isptr
    BY <1>1, <2>2, HeadIsNext
    DEF FateInv, PtrInv, Held, Tickets, IInv, ReaderSlotFull, TypeOK
  <2>3. CASE PopAdvance
    <3>1. /\ \A m \in Tickets : m # taken + 1 => fate'[m] = fate[m]
          /\ fate'[taken + 1] = "freed" => slots[pop_pos].ptr
      BY <1>1, <2>2, <2>3 DEF PopAdvance, IInv, TypeOK
    <3>2. QED
      BY <2>2, <2>3, <3>1 DEF PopAdvance
  <2>4. CASE PopCheckNext
    <3>1. /\ \A m \in Tickets : m # taken + 1 => fate'[m] = fate[m]
          /\ fate'[taken + 1] # "freed"
      BY <1>1, <2>2, <2>4 DEF PopCheckNext, IInv, TypeOK
    <3>2. QED
      BY <2>2, <2>4, <3>1 DEF PopCheckNext
  <2>5. CASE UNCHANGED fate
    BY <2>5
  <2>6. QED
    BY <1>1, <2>1, <2>3, <2>4, <2>5
    DEF Next, vars, GetInputBuffer, FillBuffer, PushNothing, PushAdvance, PushSignal,
        ConsumerCalls, PopCall, PopCheck, PopWait, PopWake, PopRelease, consumerVars, producerVars
<1>2. QED
  BY AllHolds, <1>1, PTL DEF Spec, FateIsFinal

-----------------------------------------------------------------------------
(* The queue implements the abstract FIFO.                                   *)

Interval(a, n) == [k \in 1..n |-> a + k]

LEMMA IntervalSeq ==
  ASSUME NEW a \in Nat, NEW n \in Nat
  PROVE  /\ Interval(a, n) \in Seq(Nat) /\ Len(Interval(a, n)) = n
         /\ Interval(a, 0) = <<>>
         /\ n > 0 => Interval(a, n) # <<>> /\ Head(Interval(a, n)) = a + 1
BY IsASeq DEF Interval

LEMMA IntervalTail ==
  ASSUME NEW a \in Nat, NEW n \in Nat, n > 0
  PROVE  Tail(Interval(a, n)) = Interval(a + 1, n - 1)
<1> DEFINE s == Interval(a, n)
           t == Interval(a + 1, n - 1)
<1>1. s \in Seq(Nat) /\ Len(s) = n /\ s # <<>>
  BY IntervalSeq
<1>2. t \in Seq(Nat) /\ Len(t) = n - 1
  <2>1. a + 1 \in Nat /\ n - 1 \in Nat
    OBVIOUS
  <2>2. QED
    BY <2>1, IntervalSeq
<1>3. Tail(s) \in Seq(Nat) /\ Len(Tail(s)) = n - 1
  BY <1>1, HeadTailProperties
<1>4. \A k \in 1..(n - 1) : Tail(s)[k] = s[k + 1]
  BY <1>1, <1>3, HeadTailProperties
<1>5. \A k \in 1..(n - 1) : Tail(s)[k] = t[k]
  BY <1>4 DEF Interval
<1>6. QED
  BY <1>2, <1>3, <1>5, SeqEqual

LEMMA IntervalAppend ==
  ASSUME NEW a \in Nat, NEW n \in Nat
  PROVE  Append(Interval(a, n), a + n + 1) = Interval(a, n + 1)
<1> DEFINE s == Interval(a, n)
           t == Interval(a, n + 1)
           u == Append(s, a + n + 1)
<1>1. s \in Seq(Nat) /\ Len(s) = n
  BY IntervalSeq
<1>2. t \in Seq(Nat) /\ Len(t) = n + 1
  BY IntervalSeq
<1>3. /\ u \in Seq(Nat) /\ Len(u) = n + 1
      /\ \A k \in 1..n : u[k] = s[k]
      /\ u[n + 1] = a + n + 1
  BY <1>1, AppendProperties
<1>4. \A k \in 1..(n + 1) : u[k] = t[k]
  BY <1>3 DEF Interval
<1>5. QED
  BY <1>2, <1>3, <1>4, SeqEqual

\* The refinement mapping, in terms of what was taken and pushed.
Stored == Interval(taken, Held)
Shown == IF cpc = "hold" THEN taken + 1 ELSE 0

LEMMA MappingIs ==
  ASSUME IInv, RingInv
  PROVE  /\ Contents = Stored
         /\ (IF cpc = "hold" THEN slots[pop_pos].msg ELSE 0) = Shown
         /\ taken \in Nat /\ Held \in Nat /\ Held <= QueueLen
BY ContentsAre, HeadIsNext, QueueAssumption
DEF Stored, Shown, Interval, RingInv, HeldInv, IInv, TypeOK

\* The two sides of the mapping, one invariant.
MappingInv ==
  /\ Contents = Stored
  /\ (IF cpc = "hold" THEN slots[pop_pos].msg ELSE 0) = Shown

\* One step of the queue is one of the FIFO, or none.
FifoStep ==
  \/ \E m \in Tickets : /\ Len(Stored) < QueueLen
                        /\ Stored' = Append(Stored, m)
                        /\ Shown' = Shown
  \/ Shown = 0 /\ Stored # <<>> /\ Shown' = Head(Stored) /\ Stored' = Stored
  \/ Stored # <<>> /\ Shown = Head(Stored) /\ Shown' = 0 /\ Stored' = Tail(Stored)
  \/ Shown = 0 /\ Len(Stored) > 1 /\ Stored' = Tail(Stored) /\ Shown' = Shown
  \/ Stored' = Stored /\ Shown' = Shown

LEMMA PublishPuts ==
  ASSUME IInv, RingInv, NEW p \in Producers, PushPublish(p)
  PROVE  FifoStep
<1>1. Held < QueueLen /\ pushed = taken + Held /\ pushed + 1 \in Tickets
  <2>1. Writing(p)
    BY DEF PushPublish, Writing
  <2>2. Held < QueueLen
    BY <2>1, WriterAtEnd, QueueAssumption DEF Positions
  <2>3. pushed \in Nat /\ taken \in Nat /\ pushed < MaxMsgs
    BY QueueAssumption DEF PushPublish, IInv, RoomInv, TypeOK
  <2>4. QED
    BY <2>2, <2>3, QueueAssumption DEF Held, Tickets
<1>2. taken \in Nat /\ Held \in Nat /\ Held' = Held + 1 /\ taken' = taken /\ cpc' = cpc
  BY MappingIs DEF PushPublish, consumerVars, Held, IInv, TypeOK
<1>3. Len(Stored) < QueueLen /\ Stored' = Append(Stored, pushed + 1)
  BY <1>1, <1>2, IntervalSeq, IntervalAppend DEF Stored, Interval
<1>4. QED
  BY <1>1, <1>2, <1>3 DEF FifoStep, Shown

LEMMA HoldShows ==
  ASSUME IInv, RingInv, cpc \in {"check", "next"}, cpc' = "hold",
         slots[pop_pos].state = "FULL", UNCHANGED <<taken, pushed>>
  PROVE  FifoStep
<1>1. taken \in Nat /\ Held \in Nat /\ Held > 0
  BY FullHeadIsNext, MappingIs
<1>2. Stored # <<>> /\ Head(Stored) = taken + 1 /\ Stored' = Stored
  BY <1>1, IntervalSeq DEF Stored, Interval, Held
<1>3. QED
  BY <1>2 DEF FifoStep, Shown

LEMMA AdvanceRemoves ==
  ASSUME IInv, RingInv, PopAdvance
  PROVE  FifoStep
<1>1. /\ taken \in Nat /\ Held \in Nat /\ Held > 0 /\ Held' = Held - 1 /\ taken' = taken + 1
      /\ cpc = "hold" /\ cpc' # "hold"
  BY HeadIsNext, MappingIs DEF PopAdvance, producerVars, Held, IInv, TypeOK
<1>2. Stored # <<>> /\ Head(Stored) = taken + 1
  BY <1>1, IntervalSeq DEF Stored, Interval
<1>3. Stored' = Tail(Stored)
  <2>1. Stored' = Interval(taken + 1, Held - 1)
    BY <1>1 DEF Stored, Interval
  <2>2. QED
    BY <1>1, <2>1, IntervalTail DEF Stored
<1>4. QED
  BY <1>1, <1>2, <1>3 DEF FifoStep, Shown

\* The slot after the head is another one, so that a message stays.
LEMMA DropDiscards ==
  ASSUME IInv, RingInv, QueueLen > 1, PopCheckNext, cpc' = "drop"
  PROVE  FifoStep
<1>1. cpc = "next" /\ slots[NextPos(pop_pos)].state = "FULL"
  BY DEF PopCheckNext
<1>2. taken \in Nat /\ Held \in Nat /\ Held > 0
  BY <1>1, HeadIsNext, MappingIs
<1>3. Held # 1
  <2>1. At(1) = NextPos(pop_pos) /\ 1 \in Positions
    BY NextPosWraps, QueueAssumption DEF At, Positions, IInv, TypeOK
  <2>2. ~Returning(At(1))
    BY <1>1 DEF Returning
  <2>3. QED
    BY <1>1, <2>1, <2>2 DEF RingInv, EmptyInv
<1>4. Held' = Held - 1 /\ taken' = taken + 1
  BY <1>1, <1>2 DEF PopCheckNext, producerVars, Held, IInv, TypeOK
<1>5. Len(Stored) > 1 /\ Stored' = Tail(Stored)
  BY <1>2, <1>3, <1>4, IntervalSeq, IntervalTail DEF Stored, Interval
<1>6. QED
  BY <1>1, <1>5 DEF FifoStep, Shown

LEMMA StepIsFifoStep ==
  ASSUME IInv, RingInv, QueueLen > 1, [Next]_vars
  PROVE  FifoStep
<1>1. CASE UNCHANGED <<taken, pushed>> /\ (cpc = "hold" <=> cpc' = "hold")
  BY <1>1 DEF FifoStep, Stored, Shown, Interval, Held
<1>2. CASE PopCheck
  <2>1. CASE cpc' = "hold"
    BY <1>2, <2>1, HoldShows DEF PopCheck, producerVars
  <2>2. CASE cpc' # "hold"
    BY <1>1, <1>2, <2>2 DEF PopCheck, producerVars
  <2>3. QED
    BY <2>1, <2>2
<1>3. CASE PopCheckNext
  <2>1. CASE cpc' = "hold"
    BY <1>3, <2>1, HoldShows DEF PopCheckNext, producerVars, IInv, ReaderSlotFull
  <2>2. CASE cpc' = "drop"
    BY <1>3, <2>2, DropDiscards
  <2>3. QED
    BY <1>3, <2>1, <2>2 DEF PopCheckNext
<1>4. CASE ConsumerCalls \/ PopWait \/ PopRelease \/ \E spurious \in BOOLEAN : PopWake(spurious)
  BY <1>1, <1>4 DEF ConsumerCalls, PopCall, PopWait, PopRelease, PopWake, producerVars
<1>5. ASSUME NEW p \in Producers,
             \/ GetInputBuffer(p) \/ PushNothing(p) \/ PushAdvance(p) \/ PushSignal(p)
             \/ \E isptr \in BOOLEAN : FillBuffer(p, isptr)
      PROVE  FifoStep
  BY <1>1, <1>5
  DEF GetInputBuffer, PushNothing, PushAdvance, PushSignal, FillBuffer, consumerVars
<1>6. CASE UNCHANGED vars
  BY <1>1, <1>6 DEF vars
<1>7. QED
  BY <1>2, <1>3, <1>4, <1>5, <1>6, PublishPuts, AdvanceRemoves DEF Next

\* Every behaviour of the queue is one of the bounded FIFO that may skip to the newest
\* message, if the ring has more than one slot.  In a ring of one,
\* MTY_QueueGetLastOutputBuffer takes the only message for an older one and drops it.
THEOREM QueueImplementsFifo ==
  ASSUME QueueLen > 1
  PROVE  Spec => ImplementsFifo
<1> DEFINE S == Contents
           h == IF cpc = "hold" THEN slots[pop_pos].msg ELSE 0
<1>1. Init => Fifo!Init
  <2> SUFFICES ASSUME Init PROVE Fifo!Init
    OBVIOUS
  <2>1. IInv /\ RingInv /\ Held = 0 /\ taken \in Nat /\ cpc # "hold"
    BY InitIInv, InitRing DEF Init, Held
  <2>2. Contents = <<>>
    BY <2>1, MappingIs, IntervalSeq DEF Stored
  <2>3. QED
    BY <2>1, <2>2 DEF Fifo!Init
<1>2. ASSUME IInv, RingInv, MappingInv, MappingInv', [Next]_vars
      PROVE  [Fifo!Next]_<<S, h>>
  <2>1. FifoStep
    BY <1>2, StepIsFifoStep
  <2>2. S = Stored /\ h = Shown /\ S' = Stored' /\ h' = Shown'
    BY <1>2 DEF MappingInv
  <2>3. QED
    BY <2>1, <2>2
    DEF FifoStep, Fifo!Next, Fifo!Put, Fifo!Show, Fifo!Remove, Fifo!Discard
<1>3. IInv /\ RingInv => MappingInv
  BY MappingIs DEF MappingInv
<1>4. QED
  BY RingHolds, <1>1, <1>2, <1>3, PTL DEF Spec, ImplementsFifo, Fifo!Spec
=============================================================================

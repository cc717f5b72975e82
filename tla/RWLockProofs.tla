---------------------------- MODULE RWLockProofs ----------------------------
(***************************************************************************)
(* The reader/writer lock of RWLock excludes, for any set of threads and    *)
(* any depth of recursion, as long as no thread takes the write lock with   *)
(* the read flag of a failed MTY_RWTryLockReader still up.                  *)
(***************************************************************************)
EXTENDS RWLock, FiniteSetTheorems, TLAPS

\* What a thread's record and its program point say of each other.
RecordInv(t) ==
  /\ ~(rw[t].read /\ rw[t].write)
  /\ rw[t].write => pc[t] = "idle" /\ rw[t].taken > 0
  /\ pc[t] \in {"reader", "rdlock", "try", "trylock"} => rw[t].taken = 0
  /\ pc[t] \in {"writer", "wrlock", "retract"} => ~rw[t].read
  /\ pc[t] = "idle" /\ rw[t].taken > 0 => rw[t].read \/ rw[t].write

\* The inductive invariant: the native lock excludes, the records agree with it,
\* and each record is one its thread can have at its program point.
IInv ==
  /\ TypeOK
  /\ native.writer # NoThread => native.readers = {}
  /\ RecordsAgree
  /\ \A t \in Threads : RecordInv(t)

LEMMA InitIInv == Init => IInv
BY RWLockAssumption
DEF Init, IInv, TypeOK, RecordsAgree, RecordInv, Unlocked, NothingHeld

\* Setting or clearing the read flag of one record leaves the records well formed.
LEMMA ReadFlagType ==
  ASSUME rw \in [Threads -> [taken : Nat, read : BOOLEAN, write : BOOLEAN]],
         NEW t \in Threads, NEW b \in BOOLEAN
  PROVE  [rw EXCEPT ![t].read = b] \in
           [Threads -> [taken : Nat, read : BOOLEAN, write : BOOLEAN]]
<1>1. [rw[t] EXCEPT !.read = b] \in [taken : Nat, read : BOOLEAN, write : BOOLEAN]
  OBVIOUS
<1>2. QED
  BY <1>1

LEMMA NextIInv ==
  ASSUME ~WriterAfterFailedTry, IInv, [Next]_vars
  PROVE  IInv'
<1> USE RWLockAssumption DEF IInv, TypeOK, RecordsAgree, RecordInv, Goto, Took
<1>1. ASSUME NEW t \in Threads, ReaderCall(t) \/ TryCall(t)
      PROVE  IInv'
  BY <1>1 DEF ReaderCall, TryCall, CountOrSpin
<1>2. ASSUME NEW t \in Threads, YieldSpin(t)
      PROVE  IInv'
  BY <1>2 DEF YieldSpin
<1>3. ASSUME NEW t \in Threads, ReaderEnter(t)
      PROVE  IInv'
  BY <1>3 DEF ReaderEnter, CanRead
<1>4. ASSUME NEW t \in Threads, TryReader(t)
      PROVE  IInv'
  <2>1. CASE /\ CanRead
             /\ native' = [native EXCEPT !.readers = @ \cup {t}]
             /\ rw' = [rw EXCEPT ![t].read = TRUE, ![t].taken = Took(t)]
    <3>1. /\ native'.readers = native.readers \cup {t}
          /\ native'.writer = NoThread
      BY <1>4, <2>1 DEF CanRead
    <3>2. TypeOK'
      BY <1>4, <2>1 DEF TryReader, CanRead
    <3>3. RecordsAgree'
      BY <1>4, <2>1, <3>1 DEF TryReader, CanRead
    <3>4. \A u \in Threads : RecordInv(u)'
      BY <1>4, <2>1 DEF TryReader
    <3>5. QED
      BY <3>1, <3>2, <3>3, <3>4
  <2>2. CASE /\ rw' = [rw EXCEPT ![t].read = TRUE]
             /\ native' = native
    <3>1. TypeOK'
      BY <1>4, <2>2, ReadFlagType DEF TryReader
    <3>2. RecordsAgree'
      BY <1>4, <2>2 DEF TryReader
    <3>3. \A u \in Threads : RecordInv(u)'
      BY <1>4, <2>2 DEF TryReader
    <3>4. QED
      BY <2>2, <3>1, <3>2, <3>3
  <2>3. QED
    BY <1>4, <2>1, <2>2 DEF TryReader
<1>5. ASSUME NEW t \in Threads, WriterCall(t)
      PROVE  IInv'
  <2>1. CASE rw[t].read
    <3>1. t \in native.readers
      BY <1>5, <2>1 DEF WriterCall, StaleReadFlag
    <3>2. native' = [native EXCEPT !.readers = @ \ {t}]
      <4>1. native' \in UnlockReader(t)
        BY <1>5, <2>1 DEF WriterCall
      <4>2. UnlockReader(t) = {[native EXCEPT !.readers = @ \ {t}]}
        BY <3>1 DEF UnlockReader
      <4>3. QED
        BY <4>1, <4>2
    <3>3. /\ native'.readers = native.readers \ {t}
          /\ native'.writer = NoThread /\ native.writer = NoThread
      BY <1>5, <3>1, <3>2
    <3>4. TypeOK'
      <4>1. rw' = [rw EXCEPT ![t].read = FALSE] /\ pc' = [pc EXCEPT ![t] = "writer"]
        BY <1>5, <2>1 DEF WriterCall
      <4>2. rw' \in [Threads -> [taken : Nat, read : BOOLEAN, write : BOOLEAN]]
        BY <4>1, ReadFlagType
      <4>3. native' \in [readers : SUBSET Threads, writer : Threads \cup {NoThread}]
        BY <3>2
      <4>4. QED
        BY <1>5, <4>1, <4>2, <4>3 DEF WriterCall
    <3>5. RecordsAgree'
      BY <1>5, <2>1, <3>1, <3>3 DEF WriterCall
    <3>6. \A u \in Threads : RecordInv(u)'
      BY <1>5, <2>1 DEF WriterCall
    <3>7. QED
      BY <3>3, <3>4, <3>5, <3>6
  <2>2. CASE ~rw[t].read
    BY <1>5, <2>2 DEF WriterCall
  <2>3. QED BY <2>1, <2>2
<1>6. ASSUME NEW t \in Threads, WriterAnnounce(t)
      PROVE  IInv'
  BY <1>6 DEF WriterAnnounce
<1>7. ASSUME NEW t \in Threads, WriterEnter(t)
      PROVE  IInv'
  BY <1>7 DEF WriterEnter, CanWrite
<1>8. ASSUME NEW t \in Threads, WriterRetract(t)
      PROVE  IInv'
  BY <1>8 DEF WriterRetract
<1>9. ASSUME NEW t \in Threads, Unlock(t)
      PROVE  IInv'
  <2>1. CASE rw[t].taken > 1
    BY <1>9, <2>1 DEF Unlock
  <2>2. CASE rw[t].taken = 1 /\ rw[t].read
    <3>1. native' = [native EXCEPT !.readers = @ \ {t}]
      BY <1>9, <2>2 DEF Unlock, UnlockReader
    <3>2. QED
      BY <1>9, <2>2, <3>1 DEF Unlock
  <2>3. CASE rw[t].taken = 1 /\ ~rw[t].read
    <3>1. native.writer = t
      BY <1>9, <2>3 DEF Unlock
    <3>2. QED
      BY <1>9, <2>3, <3>1 DEF Unlock, UnlockWriter
  <2>4. QED
    BY <1>9, <2>1, <2>2, <2>3 DEF Unlock
<1>10. ASSUME NEW t \in Threads, Recycle(t)
       PROVE  IInv'
  BY <1>10 DEF Recycle, Unlocked, NothingHeld
<1>11. CASE UNCHANGED vars
  BY <1>11 DEF vars
<1>12. QED
  BY <1>1, <1>2, <1>3, <1>4, <1>5, <1>6, <1>7, <1>8, <1>9, <1>10, <1>11 DEF Next

LEMMA IInvExcludes == IInv => MutualExclusion
BY RWLockAssumption
DEF IInv, TypeOK, RecordsAgree, RecordInv, MutualExclusion, HoldsRead, HoldsWrite

LEMMA IInvHolds ==
  ASSUME ~WriterAfterFailedTry
  PROVE  Spec => []IInv
<1>1. IInv /\ [Next]_vars => IInv'
  BY NextIInv
<1>2. QED
  BY InitIInv, <1>1, PTL DEF Spec

\* The state of the lock and of the per-thread records stays well formed.
THEOREM RWLockTypeCorrect ==
  ASSUME ~WriterAfterFailedTry
  PROVE  Spec => []TypeOK
<1>1. IInv => TypeOK
  BY DEF IInv
<1>2. QED
  BY IInvHolds, <1>1, PTL

\* The native lock is held by exactly the threads whose record says so: every
\* unlock gives back a lock its thread holds.
THEOREM RWLockRecordsAgree ==
  ASSUME ~WriterAfterFailedTry
  PROVE  Spec => []RecordsAgree
<1>1. IInv => RecordsAgree
  BY DEF IInv
<1>2. QED
  BY IInvHolds, <1>1, PTL

\* A thread that MTY_RWLockWriter returned to is alone in the lock.
THEOREM RWLockExcludes ==
  ASSUME ~WriterAfterFailedTry
  PROVE  Spec => []MutualExclusion
BY IInvHolds, IInvExcludes, PTL

-----------------------------------------------------------------------------
(* The counter at which readers spin.  No record is involved, so nothing is  *)
(* assumed of failed tries; and threads may be infinitely many, since those  *)
(* that wait never are.                                                      *)

Waiting == {t \in Threads : pc[t] \in {"wrlock", "retract"}}

YieldInv ==
  /\ pc \in [Threads -> {"idle", "reader", "rdlock", "try", "trylock", "writer",
                         "wrlock", "retract"}]
  /\ IsFiniteSet(Waiting)
  /\ yield = Cardinality(Waiting)

LEMMA InitYield == Init => YieldInv
<1> SUFFICES ASSUME Init PROVE YieldInv
  OBVIOUS
<1>1. Waiting = {}
  BY DEF Init, Waiting
<1>2. QED
  BY <1>1, FS_EmptySet DEF Init, YieldInv

\* A step that leaves yield alone and moves a thread within one side of the count.
LEMMA CountStays ==
  ASSUME YieldInv, UNCHANGED yield, Waiting' = Waiting,
         pc' \in [Threads -> {"idle", "reader", "rdlock", "try", "trylock", "writer",
                             "wrlock", "retract"}]
  PROVE  YieldInv'
BY DEF YieldInv

LEMMA NextYield ==
  ASSUME YieldInv, [Next]_vars
  PROVE  YieldInv'
<1> USE DEF Goto
<1>1. ASSUME NEW t \in Threads, ReaderCall(t) \/ TryCall(t)
      PROVE  YieldInv'
  <2>1. /\ UNCHANGED yield /\ Waiting' = Waiting
        /\ pc' \in [Threads -> {"idle", "reader", "rdlock", "try", "trylock", "writer",
                                "wrlock", "retract"}]
    BY <1>1 DEF ReaderCall, TryCall, CountOrSpin, YieldInv, Waiting
  <2>2. QED
    BY <2>1, CountStays
<1>2. ASSUME NEW t \in Threads, YieldSpin(t) \/ ReaderEnter(t) \/ TryReader(t)
      PROVE  YieldInv'
  <2>1. /\ UNCHANGED yield /\ Waiting' = Waiting
        /\ pc' \in [Threads -> {"idle", "reader", "rdlock", "try", "trylock", "writer",
                                "wrlock", "retract"}]
    BY <1>2 DEF YieldSpin, ReaderEnter, TryReader, YieldInv, Waiting
  <2>2. QED
    BY <2>1, CountStays
<1>3. ASSUME NEW t \in Threads, WriterCall(t)
      PROVE  YieldInv'
  <2>1. /\ UNCHANGED yield /\ Waiting' = Waiting
        /\ pc' \in [Threads -> {"idle", "reader", "rdlock", "try", "trylock", "writer",
                                "wrlock", "retract"}]
    BY <1>3 DEF WriterCall, YieldInv, Waiting
  <2>2. QED
    BY <2>1, CountStays
<1>4. ASSUME NEW t \in Threads, WriterAnnounce(t)
      PROVE  YieldInv'
  <2>1. t \notin Waiting /\ Waiting' = Waiting \cup {t}
    BY <1>4 DEF WriterAnnounce, YieldInv, Waiting
  <2>2. IsFiniteSet(Waiting') /\ Cardinality(Waiting') = Cardinality(Waiting) + 1
    BY <2>1, FS_AddElement DEF YieldInv
  <2>3. QED
    BY <1>4, <2>2 DEF WriterAnnounce, YieldInv
<1>5. ASSUME NEW t \in Threads, WriterEnter(t)
      PROVE  YieldInv'
  <2>1. /\ UNCHANGED yield /\ Waiting' = Waiting
        /\ pc' \in [Threads -> {"idle", "reader", "rdlock", "try", "trylock", "writer",
                                "wrlock", "retract"}]
    BY <1>5 DEF WriterEnter, YieldInv, Waiting
  <2>2. QED
    BY <2>1, CountStays
<1>6. ASSUME NEW t \in Threads, WriterRetract(t)
      PROVE  YieldInv'
  <2>1. t \in Waiting /\ Waiting' = Waiting \ {t}
    BY <1>6 DEF WriterRetract, YieldInv, Waiting
  <2>2. IsFiniteSet(Waiting') /\ Cardinality(Waiting') = Cardinality(Waiting) - 1
    BY <2>1, FS_RemoveElement DEF YieldInv
  <2>3. QED
    BY <1>6, <2>2 DEF WriterRetract, YieldInv
<1>7. ASSUME NEW t \in Threads, Unlock(t)
      PROVE  YieldInv'
  BY <1>7, CountStays DEF Unlock, YieldInv, Waiting
<1>8. ASSUME NEW t \in Threads, Recycle(t)
      PROVE  YieldInv'
  <2>1. Waiting = {} /\ Waiting' = {}
    BY <1>8 DEF Recycle, Waiting
  <2>2. QED
    BY <1>8, <2>1, FS_EmptySet DEF Recycle, YieldInv
<1>9. CASE UNCHANGED vars
  BY <1>9 DEF vars, YieldInv, Waiting
<1>10. QED
  BY <1>1, <1>2, <1>3, <1>4, <1>5, <1>6, <1>7, <1>8, <1>9 DEF Next

\* ctx->yield is the number of writers between their announcement and their
\* retraction: readers spin exactly as long as one waits, and it never gets stuck
\* above zero, whatever tries failed before.
THEOREM RWLockYieldCounts == Spec => []YieldCountsWriters
<1>1. YieldInv => YieldCountsWriters
  BY DEF YieldInv, YieldCountsWriters, Waiting
<1>2. YieldInv /\ [Next]_vars => YieldInv'
  BY NextYield
<1>3. QED
  BY InitYield, <1>1, <1>2, PTL DEF Spec
=============================================================================

------------------------------- MODULE RWLock -------------------------------
(***************************************************************************)
(* The MTY_RWLock of src/thread.c: a recursive reader/writer lock built     *)
(* from the native one (pthread_rwlock_t, SRWLOCK), a per-thread record of  *)
(* what the calling thread holds, and an atomic counter, yield, at which    *)
(* readers spin so that waiting writers get in.                             *)
(*                                                                         *)
(* A thread's record is private, so what it does between two accesses to    *)
(* the native lock or to yield is part of the same step.                    *)
(***************************************************************************)
EXTENDS Integers, FiniteSets

CONSTANTS
  Threads,
  NoThread,             \* holder of a lock nobody writes under
  MaxTaken,             \* bound of the model: depth of recursive locking
  WriterAfterFailedTry  \* whether a thread whose MTY_RWTryLockReader failed may
                        \* next take the write lock: see StaleReadFlag

ASSUME RWLockAssumption ==
  /\ NoThread \notin Threads
  /\ MaxTaken \in Nat \ {0}
  /\ WriterAfterFailedTry \in BOOLEAN

VARIABLES
  native,   \* who really holds the native lock: readers, and writer or NoThread
  yield,    \* ctx->yield
  rw,       \* RWLOCK_STATE[ctx->index] of each thread
  pc        \* where each thread is

vars == <<native, yield, rw, pc>>

TypeOK ==
  /\ native \in [readers : SUBSET Threads, writer : Threads \cup {NoThread}]
  /\ yield \in Int
  /\ rw \in [Threads -> [taken : Nat, read : BOOLEAN, write : BOOLEAN]]
  /\ pc \in [Threads -> {"idle", "reader", "rdlock", "try", "trylock", "writer",
                         "wrlock", "retract"}]

Unlocked == [readers |-> {}, writer |-> NoThread]
NothingHeld == [taken |-> 0, read |-> FALSE, write |-> FALSE]

\* MTY_RWLockCreate, in threads that have never used the slot.
Init ==
  /\ native = Unlocked
  /\ yield = 0
  /\ rw = [t \in Threads |-> NothingHeld]
  /\ pc = [t \in Threads |-> "idle"]

-----------------------------------------------------------------------------
(* The native lock. *)

CanRead == native.writer = NoThread
CanWrite == native.writer = NoThread /\ native.readers = {}

\* mty_rwlock_try_reader may also refuse while writers wait (writers preferred).
MayRefuse == ~CanRead \/ \E t \in Threads : pc[t] = "wrlock"

\* mty_rwlock_unlock_reader by t.  The lock counts its readers and does not know
\* them: a thread that holds nothing takes away somebody else's lock.
UnlockReader(t) ==
  IF t \in native.readers THEN {[native EXCEPT !.readers = @ \ {t}]}
  ELSE IF native.readers # {} THEN {[native EXCEPT !.readers = @ \ {r}] : r \in native.readers}
  ELSE {[native EXCEPT !.writer = NoThread]}

UnlockWriter(t) == [native EXCEPT !.writer = NoThread]

-----------------------------------------------------------------------------
Goto(t, at) == pc' = [pc EXCEPT ![t] = at]
\* A mutation of the next definition: the counter goes the wrong way.
TookDown(t) == rw[t].taken - 1
Took(t) == rw[t].taken + 1

\* The start of MTY_RWLockReader and MTY_RWTryLockReader: a thread that holds the
\* lock in any way only counts, any other goes to spin.
CountOrSpin(t, at) ==
  /\ pc[t] = "idle" /\ rw[t].taken < MaxTaken
  /\ IF rw[t].taken = 0
     THEN Goto(t, at) /\ UNCHANGED rw
     ELSE rw' = [rw EXCEPT ![t].taken = Took(t)] /\ UNCHANGED pc
  /\ UNCHANGED <<native, yield>>

ReaderCall(t) == CountOrSpin(t, "reader")
TryCall(t) == CountOrSpin(t, "try")

\* A mutation: readers do not look at ctx->yield.
YieldSpinBlind(t) ==
  /\ pc[t] \in {"reader", "try"}
  /\ Goto(t, IF pc[t] = "reader" THEN "rdlock" ELSE "trylock")
  /\ UNCHANGED <<native, yield, rw>>

\* thread_rwlock_yield returns: the spinning thread saw no writer waiting.
YieldSpin(t) ==
  /\ pc[t] \in {"reader", "try"}
  /\ yield = 0
  /\ Goto(t, IF pc[t] = "reader" THEN "rdlock" ELSE "trylock")
  /\ UNCHANGED <<native, yield, rw>>

ReaderEnter(t) ==
  /\ pc[t] = "rdlock"
  /\ CanRead
  /\ native' = [native EXCEPT !.readers = @ \cup {t}]
  /\ rw' = [rw EXCEPT ![t].read = TRUE, ![t].taken = Took(t)]
  /\ Goto(t, "idle")
  /\ UNCHANGED yield

\* The read flag is set whether or not the lock was acquired.
TryReader(t) ==
  /\ pc[t] = "trylock"
  /\ \/ /\ CanRead
        /\ native' = [native EXCEPT !.readers = @ \cup {t}]
        /\ rw' = [rw EXCEPT ![t].read = TRUE, ![t].taken = Took(t)]
     \/ /\ MayRefuse
        /\ rw' = [rw EXCEPT ![t].read = TRUE]
        /\ UNCHANGED native
  /\ Goto(t, "idle")
  /\ UNCHANGED yield

\* A failed try left the read flag up in a thread that holds nothing.
StaleReadFlag(t) == rw[t].read /\ rw[t].taken = 0

\* A mutation: a reader becomes a writer in place.
WriterCallInPlace(t) ==
  /\ pc[t] = "idle" /\ rw[t].taken < MaxTaken
  /\ StaleReadFlag(t) => WriterAfterFailedTry
  /\ IF rw[t].taken = 0
     THEN Goto(t, "writer") /\ UNCHANGED rw
     ELSE /\ rw' = [rw EXCEPT ![t].taken = Took(t), ![t].read = FALSE, ![t].write = TRUE]
          /\ UNCHANGED pc
  /\ UNCHANGED <<native, yield>>

\* MTY_RWLockWriter: a reader gives its lock up first, and relocks as a writer.
WriterCall(t) ==
  /\ pc[t] = "idle" /\ rw[t].taken < MaxTaken
  /\ StaleReadFlag(t) => WriterAfterFailedTry
  /\ IF rw[t].read
     THEN /\ native' \in UnlockReader(t)
          /\ rw' = [rw EXCEPT ![t].read = FALSE]
          /\ Goto(t, "writer")
     ELSE /\ IF rw[t].taken = 0
             THEN Goto(t, "writer") /\ UNCHANGED rw
             ELSE rw' = [rw EXCEPT ![t].taken = Took(t)] /\ UNCHANGED pc
          /\ UNCHANGED native
  /\ UNCHANGED yield

WriterAnnounce(t) ==
  /\ pc[t] = "writer"
  /\ yield' = yield + 1
  /\ Goto(t, "wrlock")
  /\ UNCHANGED <<native, rw>>

WriterEnter(t) ==
  /\ pc[t] = "wrlock"
  /\ CanWrite
  /\ native' = [native EXCEPT !.writer = t]
  /\ Goto(t, "retract")
  /\ UNCHANGED <<yield, rw>>

\* A mutation: the writer leaves its mark on ctx->yield.
WriterRetractNot(t) ==
  /\ pc[t] = "retract"
  /\ rw' = [rw EXCEPT ![t].write = TRUE, ![t].taken = Took(t)]
  /\ Goto(t, "idle")
  /\ UNCHANGED <<native, yield>>

WriterRetract(t) ==
  /\ pc[t] = "retract"
  /\ yield' = yield - 1
  /\ rw' = [rw EXCEPT ![t].write = TRUE, ![t].taken = Took(t)]
  /\ Goto(t, "idle")
  /\ UNCHANGED native

\* A mutation: the write flag survives the unlock.
UnlockKeepsWrite(t) ==
  /\ pc[t] = "idle" /\ rw[t].taken > 0
  /\ IF rw[t].taken > 1
     THEN rw' = [rw EXCEPT ![t].taken = @ - 1] /\ UNCHANGED native
     ELSE /\ native' \in IF rw[t].read THEN UnlockReader(t) ELSE {UnlockWriter(t)}
          /\ rw' = [rw EXCEPT ![t].taken = 0, ![t].read = FALSE]
  /\ UNCHANGED <<yield, pc>>

\* MTY_RWLockUnlock: the last one gives the native lock back.
Unlock(t) ==
  /\ pc[t] = "idle" /\ rw[t].taken > 0
  /\ IF rw[t].taken > 1
     THEN rw' = [rw EXCEPT ![t].taken = @ - 1] /\ UNCHANGED native
     ELSE IF rw[t].read
     THEN /\ native' \in UnlockReader(t)
          /\ rw' = [rw EXCEPT ![t].taken = 0, ![t].read = FALSE]
     ELSE /\ native' = UnlockWriter(t)
          /\ rw' = [rw EXCEPT ![t].taken = 0, ![t].write = FALSE]
  /\ UNCHANGED <<yield, pc>>

\* MTY_RWLockDestroy by t, and a new lock that gets the same slot: only the
\* record of the calling thread is cleared.  Nobody uses the lock at that time.
Recycle(t) ==
  /\ \A u \in Threads : pc[u] = "idle" /\ rw[u].taken = 0
  /\ native' = Unlocked
  /\ yield' = 0
  /\ rw' = [rw EXCEPT ![t] = NothingHeld]
  /\ UNCHANGED pc

-----------------------------------------------------------------------------
InCall(t) ==
  YieldSpin(t) \/ ReaderEnter(t) \/ TryReader(t) \/ WriterAnnounce(t) \/ WriterRetract(t)

Next ==
  \E t \in Threads :
    \/ ReaderCall(t) \/ TryCall(t) \/ YieldSpin(t) \/ ReaderEnter(t) \/ TryReader(t)
    \/ WriterCall(t) \/ WriterAnnounce(t) \/ WriterEnter(t) \/ WriterRetract(t)
    \/ Unlock(t) \/ Recycle(t)

\* Threads run; a holder leaves its sections, the outermost one included; and the
\* native lock does not pass a waiting writer over for ever when it is free again
\* and again.  Nothing is assumed of a lock that always has a reader.
Spec ==
  /\ Init
  /\ [][Next]_vars
  /\ \A t \in Threads :
       /\ WF_vars(InCall(t))
       /\ WF_vars(Unlock(t))
       /\ SF_vars(Unlock(t) /\ rw[t].taken = 1)
       /\ SF_vars(WriterEnter(t))

-----------------------------------------------------------------------------
(* Properties. *)

\* What a thread may rely on when it is not inside a call.
HoldsRead(t) == pc[t] = "idle" /\ rw[t].taken > 0 /\ rw[t].read
HoldsWrite(t) == pc[t] = "idle" /\ rw[t].taken > 0 /\ ~rw[t].read

\* A thread that was granted the write lock is alone; readers share.  matoya.h:
\* "Acquire a write lock, block other readers and writers."
MutualExclusion ==
  \A t, u \in Threads : t # u /\ HoldsWrite(t) => ~HoldsRead(u) /\ ~HoldsWrite(u)

\* The records of the threads agree with the native lock: it is held exactly by
\* those who will give it back, so that no unlock is missing or one too many.
RecordsAgree ==
  \A t \in Threads :
    /\ t \in native.readers <=> rw[t].read /\ rw[t].taken > 0
    /\ native.writer = t <=> pc[t] = "retract" \/ rw[t].write

\* yield counts the writers that wait, so that readers are held back for exactly
\* as long as one does.
YieldCountsWriters ==
  yield = Cardinality({t \in Threads : pc[t] \in {"wrlock", "retract"}})

\* A writer that waits gets in although readers lock again and again: they yield.
WriterGetsIn == \A t \in Threads : pc[t] = "wrlock" ~> pc[t] # "wrlock"
=============================================================================

------------------------------ MODULE Waitable ------------------------------
(***************************************************************************)
(* The MTY_Waitable of src/thread.c: an auto-reset event made of a flag, a  *)
(* mutex and a condition variable.  Wait and Signal run under the mutex, so *)
(* each operator below is one critical section; the mutex is given up only  *)
(* inside CondWait, which is why Wait has a part before it and one after.   *)
(*                                                                         *)
(* The module has no variables: a waitable is a record, and a component     *)
(* keeps as many of them as its code does.                                  *)
(*   signal    the flag                                                     *)
(*   blocked   threads asleep in CondWait                                   *)
(*   notified  threads CondSignal chose, still to reacquire the mutex       *)
(***************************************************************************)
EXTENDS Integers, FiniteSets

WaitableCreate == [signal |-> FALSE, blocked |-> {}, notified |-> {}]

WaitableSet(T) ==
  [signal : BOOLEAN, blocked : SUBSET T, notified : SUBSET T]

\* What MTY_CondSignal does to the threads asleep: one of them, if there is one.
CondSignal(w) ==
  IF w.blocked = {}
  THEN {w}
  ELSE {[w EXCEPT !.blocked = @ \ {t}, !.notified = @ \cup {t}] : t \in w.blocked}

\* A mutation of the next definition: the flag is set and nobody is woken.
WaitableSignalQuiet(w) == {[w EXCEPT !.signal = TRUE]}

\* MTY_WaitableSignal: the waitables a call may leave behind.
WaitableSignal(w) ==
  IF w.signal THEN {w} ELSE {[v EXCEPT !.signal = TRUE] : v \in CondSignal(w)}

\* MTY_WaitableWait of thread t finds the flag set: it takes it and returns true.
WaitTakes(w) == [w EXCEPT !.signal = FALSE]

\* ... finds it clear: t goes to sleep and gives up the mutex.
WaitBlocks(w, t) == [w EXCEPT !.blocked = @ \cup {t}]

(***************************************************************************)
(* MTY_CondWait may return to t: it was notified, its time is up (only with *)
(* timeout >= 0), or the wakeup is spurious, which pthread_cond_wait and    *)
(* SleepConditionVariableCS both allow.                                     *)
(***************************************************************************)
CondWaitReturns(w, t, timeout, spurious) ==
  \/ t \in w.notified
  \/ /\ t \in w.blocked
     /\ timeout >= 0 \/ spurious

\* The rest of Wait: the call returns w.signal, and the flag is clear after it.
WaitEnds(w, t) ==
  [w EXCEPT !.signal = FALSE, !.blocked = @ \ {t}, !.notified = @ \ {t}]
=============================================================================

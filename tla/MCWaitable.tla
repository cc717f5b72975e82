---------------------------- MODULE MCWaitable -----------------------------
(* One MTY_Waitable with several waiting threads, which the queue does not   *)
(* have: any thread may wait, and one may signal at any time.                *)
EXTENDS Waitable
CONSTANTS w1, w2
Waiters == {w1, w2}

VARIABLES
  sync,     \* the waitable
  asleep,   \* the waiters inside CondWait, each with its timeout
  result    \* what the last call of each waiter returned
vars == <<sync, asleep, result>>

Init ==
  /\ sync = WaitableCreate
  /\ asleep = [t \in Waiters |-> 0]
  /\ result = [t \in Waiters |-> "none"]

Returned(b) == IF b THEN "true" ELSE "false"

\* MTY_WaitableWait with a timeout that never ends (-1) or does (1).
Wait(t, timeout) ==
  /\ asleep[t] = 0
  /\ IF sync.signal
     THEN /\ sync' = WaitTakes(sync)
          /\ result' = [result EXCEPT ![t] = "true"]
          /\ UNCHANGED asleep
     ELSE /\ sync' = WaitBlocks(sync, t)
          /\ asleep' = [asleep EXCEPT ![t] = timeout]
          /\ result' = [result EXCEPT ![t] = "none"]

\* There is no spurious wakeup here.
Wake(t) ==
  /\ asleep[t] # 0
  /\ CondWaitReturns(sync, t, asleep[t], FALSE)
  /\ result' = [result EXCEPT ![t] =
                  IF asleep[t] < 0 /\ ~sync.signal THEN "gave up" ELSE Returned(sync.signal)]
  /\ sync' = WaitEnds(sync, t)
  /\ asleep' = [asleep EXCEPT ![t] = 0]

Signal == sync' \in WaitableSignal(sync) /\ UNCHANGED <<asleep, result>>

Next ==
  \/ \E t \in Waiters : (\E timeout \in {-1, 1} : Wait(t, timeout)) \/ Wake(t)
  \/ Signal

Spec == Init /\ [][Next]_vars

\* matoya.h of MTY_WaitableWait: "If multiple threads are waiting on the waitable
\* object, exactly one thread will become unblocked and return true, the others
\* will continue waiting", and of timeout: "A negative value will not timeout."
OthersContinueWaiting == \A t \in Waiters : result[t] # "gave up"
=============================================================================

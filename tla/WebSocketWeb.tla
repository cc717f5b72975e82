---------------------------- MODULE WebSocketWeb ----------------------------
(***************************************************************************)
(* MTY_WebSocket in the browser.  A worker's call posts a message to the    *)
(* main thread and sleeps until it is answered (src/unix/web/               *)
(* matoya-worker.js); the main thread keeps the browser's WebSockets        *)
(* (src/unix/web/matoya.js) and runs one event at a time.  ctx is           *)
(*   msgs, closeCode  of the browser's object                               *)
(*   waiter           a ws-read in Atomics.waitAsync: none, waiting, woken  *)
(* That the worker is woken is the matter of WebSync.                       *)
(***************************************************************************)
EXTENDS WebSocketPeer

\* mty_ws_connect: onopen resolves with the object, onclose and onerror with null;
\* mty_ws_new gives the object its index.
MTY_WebSocketConnect ==
  /\ call.pc = "start"
  /\ \/ Connected([st |-> "open", msgs |-> <<>>, closeCode |-> 0, waiter |-> "none"])
     \/ NotConnected

\* ws-close: the object is closed, and its index deleted.
MTY_WebSocketDestroy == MayDestroy /\ Destroyed

-----------------------------------------------------------------------------
(* Events of the browser.                                                    *)

onmessage ==
  /\ Open /\ Arrives({"text", "empty", "big"})
  /\ ctx' = [ctx EXCEPT !.msgs = Append(@, Payload(Head(peer.wire))),
               !.waiter = IF @ = "waiting" THEN "woken" ELSE @]
  /\ peer' = Rest
  /\ UNCHANGED <<impl, call, got>>

onclose ==
  /\ Open /\ Arrives({"close", "eof"})
  /\ ctx' = [ctx EXCEPT !.closeCode = IF @ = 0 THEN 1 ELSE @]
  /\ peer' = IF Arrives({"close"}) THEN Rest ELSE peer
  /\ UNCHANGED <<impl, call, got>>

-----------------------------------------------------------------------------
(* MTY_WebSocketRead, ws-read and mty_ws_read.                               *)

MTY_WebSocketRead ==
  /\ MayRead
  /\ At("ws-read")
  /\ UNCHANGED <<impl, ctx, peer, got>>

\* What the worker makes of an answer: an empty text is no message, and one that is too
\* large is an error; in both cases it is gone.
AnswerWith(msg) ==
  IF msg = <<>> THEN Answer("continue") /\ UNCHANGED got
  ELSE IF ~Fits(msg) THEN Answer("error") /\ UNCHANGED got
  ELSE Answer("ok") /\ Deliver(msg)

ws_read ==
  /\ call.pc = "ws-read"
  /\ IF ctx.closeCode # 0 THEN Answer("done") /\ UNCHANGED <<ctx, got>>
     ELSE IF ctx.msgs # <<>> /\ Head(ctx.msgs) # <<>>
     THEN AnswerWith(Head(ctx.msgs)) /\ ctx' = [ctx EXCEPT !.msgs = Tail(@)]
     ELSE /\ At("await")
          /\ ctx' = [ctx EXCEPT !.msgs = IF @ = <<>> THEN @ ELSE Tail(@), !.waiter = "waiting"]
          /\ UNCHANGED got
  /\ UNCHANGED <<impl, peer>>

\* Atomics.waitAsync resolves: woken by onmessage, or timed out.
ws_read_resumes ==
  /\ call.pc = "await"
  /\ ctx' = [ctx EXCEPT !.waiter = "none",
               !.msgs = IF ctx.waiter = "woken" THEN Tail(@) ELSE @]
  /\ IF ctx.waiter = "woken" THEN AnswerWith(Head(ctx.msgs)) ELSE TimedOut /\ UNCHANGED got
  /\ UNCHANGED <<impl, peer>>

Read == ws_read \/ ws_read_resumes
Call == MTY_WebSocketDestroy \/ MTY_WebSocketRead
Step == MTY_WebSocketConnect \/ Call \/ Read \/ onmessage \/ onclose
=============================================================================

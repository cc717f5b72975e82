-------------------------- MODULE WebSocketWindows --------------------------
(***************************************************************************)
(* MTY_WebSocket over WinHTTP (src/windows/ws.c).  WinHTTP runs one receive *)
(* and one send at a time and reports them to ws_async on a thread of its   *)
(* own; the calls wait for the events that ws_async signals.  ctx is        *)
(*   closed, complete, buf, pos   as in struct MTY_WebSocket; buf by parts  *)
(*   read, write                  read_event and write_event are set        *)
(*   receiving, recv              a receive runs, and where it writes to    *)
(*   sending                      a send is running                         *)
(***************************************************************************)
EXTENDS WebSocketPeer

-----------------------------------------------------------------------------
(* Connecting: net_connect, then the two waits and the upgrade.              *)

\* The handles that are opened in this order; the first failure closes them all.
Handles == <<"session", "connect", "request">>

\* net_connect: what is open after it, when `failed` is the first step to fail (1, 2 and 3
\* open the handles, 4 is the upgrade option or the request's sending, 5 is none).
net_connect(failed) == IF failed = 5 THEN Handles ELSE <<>>

\* The request was sent, its response came, it has a status, which is 101, and the upgrade
\* succeeds; the other handles are closed in any case.
Responses == {"unsent", "none", "nostatus", "200", "101", "noupgrade"}

MTY_WebSocketConnect ==
  /\ call.pc = "start"
  /\ \E failed \in 1..5, response \in Responses :
       IF net_connect(failed) = Handles /\ response = "101"
       THEN Connected([st |-> "open", closed |-> FALSE, complete |-> FALSE, buf |-> <<>>,
                       pos |-> 0, read |-> FALSE, write |-> FALSE, receiving |-> FALSE, recv |-> 0,
                       sending |-> FALSE])
       ELSE NotConnected

\* closed is set, the closing handshake is waited for at most a second.
MTY_WebSocketDestroy == MayDestroy /\ Destroyed

-----------------------------------------------------------------------------
(* ws_async.                                                                  *)

\* buf after parts were written at an offset; the rest stays.
Written(buf, at, parts) ==
  [k \in 1..(IF Len(buf) < at + Len(parts) THEN at + Len(parts) ELSE Len(buf)) |->
     IF k \in at + 1..at + Len(parts) THEN parts[k - at] ELSE buf[k]]

\* READ_COMPLETE: pos counts text only, a message's last frame completes it.
ReadComplete(f) ==
  [ctx EXCEPT !.buf = Written(ctx.buf, ctx.recv, Payload(f)),
              !.pos = @ + Len(Payload(f)),
              !.closed = @ \/ f.op = "close",
              !.complete = f.op \in {"text", "empty", "big"} /\ f.fin,
              !.read = TRUE,
              !.receiving = FALSE]

ws_async_read ==
  /\ Open /\ ctx.receiving
  /\ Arrives({"text", "empty", "big", "binary", "close"})
  /\ ctx' = ReadComplete(Head(peer.wire)) /\ peer' = Rest
  /\ UNCHANGED <<impl, call, got>>

\* REQUEST_ERROR of a receive: the event is not signalled.
ws_async_error ==
  /\ Open /\ ctx.receiving /\ Arrives({"eof"})
  /\ ctx' = [ctx EXCEPT !.closed = TRUE, !.receiving = FALSE]
  /\ UNCHANGED <<impl, peer, call, got>>

\* WRITE_COMPLETE, or REQUEST_ERROR of a send.
ws_async_write ==
  /\ Open /\ ctx.sending
  /\ \/ ctx' = [ctx EXCEPT !.sending = FALSE, !.write = TRUE]
     \/ /\ peer.mode = "closed"
        /\ ctx' = [ctx EXCEPT !.sending = FALSE, !.closed = TRUE]
  /\ UNCHANGED <<impl, peer, call, got>>

-----------------------------------------------------------------------------
(* MTY_WebSocketRead: the loop of check, receive and wait.                   *)

MTY_WebSocketRead ==
  /\ MayRead
  /\ At("check")
  /\ UNCHANGED <<impl, ctx, peer, got>>

\* WinHttpWebSocketReceive: refused while one is running; the connection may be gone.
WinHttpWebSocketReceive ==
  IF ctx.receiving THEN {ctx}
  ELSE {[ctx EXCEPT !.receiving = TRUE, !.recv = ctx.pos]}
       \cup (IF Arrives({"eof"}) THEN {[ctx EXCEPT !.closed = TRUE]} ELSE {})

ReadDone ==
  /\ call.pc = "check" /\ ctx.closed
  /\ Answer("done")
  /\ UNCHANGED <<impl, ctx, peer, got>>

\* A mutation of the next definition: pos stays where it was.
ReadMessageNoReset ==
  LET msg == SubSeq(ctx.buf, 1, ctx.pos)
  IN
  /\ call.pc = "check" /\ ~ctx.closed /\ ctx.complete
  /\ IF Fits(msg)
     THEN Answer("ok") /\ Deliver(msg) /\ ctx' = [ctx EXCEPT !.complete = FALSE]
     ELSE Answer("error") /\ UNCHANGED <<ctx, got>>
  /\ UNCHANGED <<impl, peer>>

ReadMessage ==
  LET msg == SubSeq(ctx.buf, 1, ctx.pos)
  IN
  /\ call.pc = "check" /\ ~ctx.closed /\ ctx.complete
  /\ IF Fits(msg)
     THEN Answer("ok") /\ Deliver(msg) /\ ctx' = [ctx EXCEPT !.complete = FALSE, !.pos = 0]
     ELSE Answer("error") /\ UNCHANGED <<ctx, got>>
  /\ UNCHANGED <<impl, peer>>

\* Between the two checks and the receive ws_async may run (Faults, "race").
ReadReceive ==
  \/ /\ call.pc = "check" /\ ~ctx.closed /\ ~ctx.complete
     /\ IF "race" \in Faults
        THEN At("receive") /\ UNCHANGED ctx
        ELSE At("wait") /\ ctx' \in WinHttpWebSocketReceive
     /\ UNCHANGED <<impl, peer, got>>
  \/ /\ call.pc = "receive"
     /\ At("wait") /\ ctx' \in WinHttpWebSocketReceive
     /\ UNCHANGED <<impl, peer, got>>

ReadWait ==
  /\ call.pc = "wait"
  /\ \/ ctx.read /\ ctx' = [ctx EXCEPT !.read = FALSE] /\ At("check")
     \/ ~ctx.read /\ TimedOut /\ UNCHANGED ctx
  /\ UNCHANGED <<impl, peer, got>>

-----------------------------------------------------------------------------
(* MTY_WebSocketWrite: a send that is not through after a second fails.      *)

MTY_WebSocketWrite ==
  /\ MayRead /\ ~ctx.sending /\ peer.extra < MaxExtra
  /\ call' = [call EXCEPT !.pc = "write"]
  /\ ctx' = [ctx EXCEPT !.sending = TRUE]
  /\ peer' = [peer EXCEPT !.extra = @ + 1]
  /\ UNCHANGED <<impl, got>>

WriteEnds ==
  /\ call.pc = "write"
  /\ call' = [call EXCEPT !.pc = "idle"]
  /\ \/ ctx.write /\ ctx' = [ctx EXCEPT !.write = FALSE]
     \/ ~ctx.write /\ UNCHANGED ctx
  /\ UNCHANGED <<impl, peer, got>>

Read == ReadDone \/ ReadMessage \/ ReadReceive \/ ReadWait
Call == MTY_WebSocketDestroy \/ MTY_WebSocketRead
Callback == ws_async_read \/ ws_async_error \/ ws_async_write
Step == MTY_WebSocketConnect \/ Call \/ Read \/ Callback \/ MTY_WebSocketWrite \/ WriteEnds
=============================================================================

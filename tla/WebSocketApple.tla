--------------------------- MODULE WebSocketApple ---------------------------
(***************************************************************************)
(* MTY_WebSocket over NSURLSessionWebSocketTask (src/unix/apple/ws.m).      *)
(* Handlers and delegate methods run one after the other on the session's   *)
(* queue, beside the caller.  ctx is                                         *)
(*   started, error, msg, closed  read_started, read_error, msg, closed     *)
(*   read, conn                   the two waitables are set                 *)
(*   handler                      a receive waits for its message           *)
(*   ping, pong                   as in WebSocketLinux                      *)
(*   invalid                      the session has said it became invalid    *)
(***************************************************************************)
EXTENDS WebSocketPeer

PingInterval == 1                 \* WS_PING_INTERVAL: one minute
PongTimeout == PingInterval * 3   \* WS_PONG_TO
Cap == PongTimeout + 2
Older(age) == IF age < Cap THEN age + 1 ELSE Cap
NoMsg == <<<<0, 0>>>>

New == [st |-> "open", started |-> FALSE, error |-> FALSE, msg |-> NoMsg, closed |-> FALSE,
        read |-> FALSE, conn |-> FALSE, handler |-> FALSE, ping |-> 0, pong |-> 0,
        invalid |-> FALSE]

-----------------------------------------------------------------------------
(* Connecting and destroying share the waitable conn.                        *)

MTY_WebSocketConnect ==
  /\ call.pc = "start"
  /\ ctx' = New
  /\ call' = [call EXCEPT !.pc = "connect"]
  /\ UNCHANGED <<impl, peer, got>>

\* An open that comes after the timeout finds the caller in MTY_WebSocketDestroy.
didOpenWithProtocol ==
  /\ call.pc = "connect" \/ (call.pc = "destroy" /\ call.r = "none" /\ "lateopen" \in Faults)
  /\ ~ctx.conn /\ ~ctx.invalid
  /\ ctx' = [ctx EXCEPT !.conn = TRUE]
  /\ UNCHANGED <<impl, peer, call, got>>

\* The rest of MTY_WebSocketConnect: opened, or destroyed after its timeout.
ConnectEnds ==
  /\ call.pc = "connect"
  /\ IF ctx.conn
     THEN Connected([ctx EXCEPT !.conn = FALSE])
     ELSE /\ call' = [call EXCEPT !.pc = "destroy"]
          /\ UNCHANGED <<impl, ctx, peer, got>>

MTY_WebSocketDestroy ==
  /\ MayDestroy
  /\ call' = [call EXCEPT !.pc = "destroy"]
  /\ UNCHANGED <<impl, ctx, peer, got>>

\* finishTasksAndInvalidate: the last thing the session does.
didBecomeInvalid ==
  /\ call.pc = "destroy" /\ ~ctx.invalid
  /\ ctx' = [ctx EXCEPT !.conn = TRUE, !.invalid = TRUE, !.handler = FALSE]
  /\ UNCHANGED <<impl, peer, call, got>>

\* A mutation of the next definition: the session's end is not waited for.
DestroyEndsAtOnce ==
  /\ call.pc = "destroy"
  /\ ctx' = [Dead EXCEPT !.late = ~ctx.invalid]
  /\ call' = [call EXCEPT !.pc = "gone"]
  /\ UNCHANGED <<impl, peer, got>>

DestroyEnds ==
  /\ call.pc = "destroy" /\ ctx.conn
  /\ ctx' = [Dead EXCEPT !.late = ~ctx.invalid]
  /\ call' = [call EXCEPT !.pc = "gone"]
  /\ UNCHANGED <<impl, peer, got>>

-----------------------------------------------------------------------------
(* The session's queue.                                                      *)

\* The handler of receiveMessage: a text, something else, or an error.
DidReceive ==
  /\ Open /\ ctx.handler
  /\ \/ /\ Arrives({"text", "empty", "big", "binary"})
        /\ ctx' = [ctx EXCEPT !.handler = FALSE, !.read = TRUE,
                     !.msg = IF Arrives({"binary"}) THEN NoMsg ELSE Payload(Head(peer.wire))]
        /\ peer' = Rest
     \/ /\ Arrives({"eof"})
        /\ ctx' = [ctx EXCEPT !.handler = FALSE, !.read = TRUE, !.error = TRUE]
        /\ UNCHANGED peer
  /\ UNCHANGED <<impl, call, got>>

\* The close frame, whatever is still to be received before it.
didCloseWithCode ==
  /\ Open /\ \E k \in DOMAIN peer.wire : peer.wire[k].op = "close"
  /\ ctx' = [ctx EXCEPT !.closed = TRUE]
  /\ peer' = [peer EXCEPT !.wire = <<Control("eof")>>, !.own = <<TRUE>>]
  /\ UNCHANGED <<impl, call, got>>

PongHandler ==
  /\ Open /\ Arrives({"pong"})
  /\ ctx' = [ctx EXCEPT !.pong = 0]
  /\ peer' = Rest
  /\ UNCHANGED <<impl, call, got>>

-----------------------------------------------------------------------------
(* MTY_WebSocketRead.                                                        *)

\* The implicit ping, the pong timeout, the close, and a new receive if none runs.
MTY_WebSocketRead ==
  LET pinged == [ctx EXCEPT !.ping = IF @ > PingInterval THEN 0 ELSE @]
  IN
  /\ MayRead
  /\ peer' = [peer EXCEPT !.pings =
                IF ctx.ping > PingInterval /\ peer.mode = "up" THEN @ + 1 ELSE @]
  /\ IF ctx.pong > PongTimeout THEN Answer("error") /\ ctx' = pinged
     ELSE IF ctx.closed THEN Answer("done") /\ ctx' = pinged
     ELSE /\ At("wait")
          /\ ctx' = IF ctx.started THEN pinged
                    ELSE [pinged EXCEPT !.started = TRUE, !.error = FALSE, !.msg = NoMsg,
                                        !.handler = TRUE]
  /\ UNCHANGED <<impl, got>>

\* The wait ends with the handler's signal, or without.
ReadEnds ==
  /\ call.pc = "wait" /\ ctx.read
  /\ ctx' = [ctx EXCEPT !.read = FALSE, !.started = FALSE,
               !.msg = IF ~ctx.error /\ Fits(ctx.msg) THEN NoMsg ELSE @]
  /\ IF ctx.error THEN Answer("error") /\ UNCHANGED got
     ELSE IF ctx.msg = NoMsg THEN Answer("continue") /\ UNCHANGED got
     ELSE IF ~Fits(ctx.msg) THEN Answer("error") /\ UNCHANGED got
     ELSE Answer("ok") /\ Deliver(ctx.msg)
  /\ UNCHANGED <<impl, peer>>

ReadTimesOut ==
  /\ call.pc = "wait" /\ ~ctx.read
  /\ TimedOut
  /\ UNCHANGED <<impl, ctx, peer, got>>

\* A minute passes, as in WebSocketLinux; the session has handled what came.
Tick ==
  /\ call.pc = "idle" /\ call.quiet
  /\ peer.mode = "up" => peer.pings = 0 /\ peer.wire = <<>>
  /\ ctx' = [ctx EXCEPT !.ping = Older(@), !.pong = Older(@)]
  /\ call' = [call EXCEPT !.quiet = FALSE]
  /\ UNCHANGED <<impl, peer, got>>

Read == ReadEnds \/ ReadTimesOut \/ ConnectEnds \/ DestroyEnds
Call == MTY_WebSocketDestroy \/ MTY_WebSocketRead
Callback == DidReceive \/ PongHandler \/ didBecomeInvalid
Step == MTY_WebSocketConnect \/ Call \/ Read \/ Callback \/ Tick
        \/ didOpenWithProtocol \/ didCloseWithCode
=============================================================================

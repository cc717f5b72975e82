------------------------------ MODULE WebSocket ------------------------------
(***************************************************************************)
(* MTY_WebSocket: the same calls over five implementations, one of which is *)
(* linked into a program.                                                   *)
(***************************************************************************)
EXTENDS WebSocketPeer

Stream  == INSTANCE WebSocketLinux
WinHTTP == INSTANCE WebSocketWindows
Apple   == INSTANCE WebSocketApple
Web     == INSTANCE WebSocketWeb

vars == <<impl, ctx, peer, call, got>>

On(impls) == impl \in impls
Streams == {"linux", "android"}

Server == SendMessage \/ SendExtra
Next ==
  \/ Server \/ AnswerPing
  \/ On(Streams) /\ Stream!Step
  \/ On({"windows"}) /\ WinHTTP!Step
  \/ On({"apple"}) /\ Apple!Step
  \/ On({"web"}) /\ Web!Step

Call ==
  \/ On(Streams) /\ Stream!Call
  \/ On({"windows"}) /\ WinHTTP!Call
  \/ On({"apple"}) /\ Apple!Call
  \/ On({"web"}) /\ Web!Call

\* The waits of a call time out or are answered.
GoOn ==
  \/ On(Streams) /\ Stream!Read
  \/ On({"windows"}) /\ (WinHTTP!Read \/ WinHTTP!WriteEnds)
  \/ On({"apple"}) /\ Apple!Read
  \/ On({"web"}) /\ Web!Read

Callback ==
  \/ On({"apple"}) /\ Apple!Callback
  \/ On({"windows"}) /\ WinHTTP!Callback
  \/ On({"web"}) /\ (Web!onmessage \/ Web!onclose)

Minute == (On(Streams) /\ Stream!Tick) \/ (On({"apple"}) /\ Apple!Tick)

\* The caller keeps reading and destroys what is at its end; its calls go on, callbacks
\* that are due run, time passes.
Spec ==
  /\ Init /\ [][Next]_vars
  /\ WF_vars(Call) /\ WF_vars(GoOn) /\ WF_vars(Callback) /\ SF_vars(Minute)

-----------------------------------------------------------------------------
(* Properties. *)

\* What a caller is given of message m: all of it; but from a byte stream, of a message in
\* fragments, only the first, since what continues it is read as nothing (ws.c:514-535).
Given(m) == IF On(Streams) THEN <<<<m, 1>>>> ELSE Whole(m)

\* The messages that were read are the first ones the server sent, in their order, none of
\* them missing or read again, and each is all of that message which the implementation
\* gives: matoya.h says of MTY_WebSocketRead "MTY_ASYNC_OK means a message has been
\* successfully read into `msg`."
MessagesRead == \A k \in DOMAIN got : got[k] = Given(k)

\* What that sentence promises, fragments or not; the byte stream does not keep it.
MessagesWhole == \A k \in DOMAIN got : got[k] = Whole(k)

\* A message that came before the server's close is read before MTY_ASYNC_DONE.  On
\* Windows a send that fails may end the connection before the message that is complete
\* was read; on Apple and the web the close overtakes all messages that wait.
NothingLost ==
  /\ Open /\ call.r = "done"
  /\ On(Streams) \/ (On({"windows"}) /\ Arrives({"eof"}) /\ ~ctx.complete)
  => Len(got) = peer.sent

\* The session of an MTY_WebSocket that was freed has nothing left to call.
CallbacksDone == ~Open => ~ctx.late

\* A server that answers pings is never given up, however long nothing else comes; a
\* text that is larger than the caller's buffer is an error of its own.
LivePeerKept ==
  [][ (On(Streams) \/ On({"apple"})) /\ peer.mode = "up" /\ call.r # "error" /\ call'.r = "error"
      => Stream!Oversized \/ (On({"apple"}) /\ ~Apple!Fits(ctx.msg)) ]_vars

\* Every call returns; and a server that fell silent is noticed, though its connection
\* never ends.
ReadReturns == call.pc \notin {"start", "idle", "gone"} ~> call.pc \in {"idle", "gone"}
DeadPeerNoticed ==
  (peer.mode = "silent" /\ Open /\ (On(Streams) \/ On({"apple"}))) ~> ~Open
Answers == ReadReturns /\ DeadPeerNoticed
=============================================================================

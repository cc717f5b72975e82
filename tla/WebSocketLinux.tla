--------------------------- MODULE WebSocketLinux ---------------------------
(***************************************************************************)
(* MTY_WebSocket over a byte stream (src/unix/linux/ws.c), with the stream  *)
(* of libcurl (x11/net.c, impl "linux") or of Java (android/net.c, impl     *)
(* "android").  ctx holds struct MTY_WebSocket and its struct net:          *)
(*   ping, pong  minutes since last_ping and last_pong, up to Cap           *)
(*   code        close_code                                                 *)
(*   tls         linux: frames libcurl has decrypted and not handed out     *)
(*   so, timeout android: the socket's SoTimeout and net.timeout            *)
(***************************************************************************)
EXTENDS WebSocketPeer, FiniteSets

PingInterval == 1                 \* WS_PING_INTERVAL: one minute
PongTimeout == PingInterval * 3   \* WS_PONG_TO
Cap == PongTimeout + 2
Older(age) == IF age < Cap THEN age + 1 ELSE Cap

-----------------------------------------------------------------------------
(* HTTP: the server's answer to the upgrade request. *)

\* The answers that differ for the code: the header ends within HTTP_HEADER_MAX and in
\* time, the words of its first line, and its pairs.
Responses ==
  [whole : BOOLEAN, first : {<<"HTTP/1.1">>, <<"HTTP/1.1", "404">>, <<"HTTP/1.1", "101">>},
   pairs : {<<>>, <<<<"accept", "wrong">>, <<"accept", "right">>>>,
            <<<<"upgrade", "websocket">>, <<"accept", "right">>>>}]

http_read_header(h) == h.whole

http_get_status_code(h) == IF Len(h.first) < 2 THEN "none" ELSE h.first[2]

\* The value of the first pair with that key.
http_get_header_str(h, key) ==
  LET at == {k \in 1..Len(h.pairs) : h.pairs[k][1] = key}
  IN IF at = {} THEN "none" ELSE h.pairs[CHOOSE k \in at : \A j \in at : k <= j][2]

\* http_write_request_header parses the URL; mty_http_fix_scheme made ws http.
http_parse_url(scheme) == scheme \in {"http", "https"}
mty_http_fix_scheme(scheme) ==
  CASE scheme = "wss" -> "https" [] scheme = "ws" -> "http" [] OTHER -> scheme

ws_connect(scheme, h) ==
  /\ http_parse_url(scheme)
  /\ http_read_header(h)
  /\ http_get_status_code(h) = "101"
  /\ http_get_header_str(h, "accept") = "right"

-----------------------------------------------------------------------------
(* mty_net_connect: each step may fail, and then everything is undone.        *)

NetConnectLinux(scheme) == {TRUE, FALSE}
NetConnectAndroid(scheme) == IF scheme = "https" THEN {TRUE, FALSE} ELSE {FALSE}
NetConnect(scheme) ==
  IF impl = "linux" THEN NetConnectLinux(scheme) ELSE NetConnectAndroid(scheme)

\* Java's setSoTimeout of the connection does not change net.timeout.
New(timeout) == [st |-> "open", ping |-> 0, pong |-> 0, code |-> 0,
                 tls |-> 0, so |-> timeout, timeout |-> "zero"]

\* MTY_WebSocketConnect; one that fails has not set connected, and sends no close.
MTY_WebSocketConnect ==
  /\ call.pc = "start"
  /\ \E url \in {"wss", "ws", "ftp"}, h \in Responses :
       LET scheme == mty_http_fix_scheme(url)
       IN \E n \in NetConnect(scheme) :
            IF n /\ ws_connect(scheme, h)
            THEN Connected(New(IF impl = "android" THEN "second" ELSE "connect"))
            ELSE NotConnected

\* A mutation of the next definition: the caller goes on with what was freed.
DestroyGoesOn ==
  /\ MayDestroy
  /\ ctx' = Dead /\ Answer("none")
  /\ UNCHANGED <<impl, peer, got>>

\* Sends close (1000) when connected, and ends the connection.
MTY_WebSocketDestroy == MayDestroy /\ Destroyed

-----------------------------------------------------------------------------
(* The stream.                                                               *)

\* mty_net_prep_read: the socket's timeout is set when it seems to differ; to Java,
\* zero means for ever.
mty_net_prep_read(c, t) ==
  IF impl = "android" /\ t # c.timeout THEN [c EXCEPT !.so = t, !.timeout = t] ELSE c

\* mty_net_poll: libcurl's raw socket, or one byte of Java's stream.
Readable == IF impl = "linux" THEN Len(peer.wire) > ctx.tls ELSE peer.wire # <<>>

\* Frames that come with the first one: what is decrypted after reading one frame.
Decrypted ==
  IF ctx.tls > 0 THEN ctx.tls - 1
  ELSE Cardinality({k \in 2..Len(peer.wire) : \A j \in 2..k : ~peer.own[j]})

\* mty_net_write: always taken while the server is there.
WriteResults == IF peer.mode = "closed" THEN BOOLEAN ELSE {TRUE}

-----------------------------------------------------------------------------
(* MTY_WebSocketRead.                                                        *)

\* The implicit ping.
MTY_WebSocketRead(t) ==
  /\ MayRead
  /\ IF ctx.ping > PingInterval
     THEN \E w \in WriteResults :
            IF w
            THEN /\ At("poll")
                 /\ ctx' = mty_net_prep_read([ctx EXCEPT !.ping = 0], t)
                 /\ peer' = [peer EXCEPT !.pings = IF peer.mode = "up" THEN @ + 1 ELSE @]
            ELSE Answer("error") /\ UNCHANGED <<ctx, peer>>
     ELSE At("poll") /\ ctx' = mty_net_prep_read(ctx, t) /\ UNCHANGED peer
  /\ UNCHANGED <<impl, got>>

PongMissing(c) == c.pong > PongTimeout

\* A mutation of the next definition: the wait that times out returns at once.
PollTimesOutUnchecked ==
  /\ call.pc = "poll" /\ ~Readable /\ ctx.so # "zero"
  /\ TimedOut
  /\ UNCHANGED <<impl, ctx, peer, got>>

\* Nothing to read.
PollTimesOut ==
  /\ call.pc = "poll" /\ ~Readable /\ ctx.so # "zero"
  /\ IF PongMissing(ctx) THEN Answer("error") ELSE TimedOut
  /\ UNCHANGED <<impl, ctx, peer, got>>

\* ws_read fails for a frame that is cut off or too large, and at the end.
ws_read(f) == f.op \notin {"partial", "big", "eof"}

\* A mutation of the next definition: texts are not told from other frames.
FrameResultsNoText(f) ==
  CASE f.op = "ping"  -> {IF w THEN "continue" ELSE "error" : w \in WriteResults}
    [] f.op = "close" -> {"done"}
    [] OTHER          -> {"continue"}

\* The result of a frame that was read; a reply that cannot be written is an error.
FrameResults(f) ==
  CASE f.op = "ping"  -> {IF w THEN "continue" ELSE "error" : w \in WriteResults}
    [] f.op = "text"  -> {"ok"}
    [] f.op = "close" -> {"done"}
    [] OTHER          -> {"continue"}

\* A mutation of the next definition: last_pong is set only by the connection.
FrameReadPong(f, c) == IF f.op = "close" THEN [c EXCEPT !.code = 1] ELSE c

FrameRead(f, c) ==
  CASE f.op = "pong"  -> [c EXCEPT !.pong = 0]
    [] f.op = "close" -> [c EXCEPT !.code = 1]
    [] OTHER          -> c

PollReads ==
  LET f == Head(peer.wire)
      c == FrameRead(f, [mty_net_prep_read(ctx, "second") EXCEPT !.tls = Decrypted])
  IN
  /\ call.pc = "poll" /\ Readable
  /\ UNCHANGED impl
  /\ IF ws_read(f)
     THEN \E r \in FrameResults(f) :
            /\ Answer(IF PongMissing(c) THEN "error" ELSE r)
            /\ ctx' = c /\ peer' = Rest
            /\ IF r = "ok" /\ ~PongMissing(c) THEN Deliver(Payload(f)) ELSE UNCHANGED got
     ELSE Answer("error") /\ UNCHANGED <<ctx, peer, got>>

\* A minute passes: the caller has read what there was, and the server has answered.
Tick ==
  /\ call.pc = "idle" /\ call.quiet
  /\ peer.mode = "up" => peer.pings = 0
  /\ ctx' = [ctx EXCEPT !.ping = Older(@), !.pong = Older(@)]
  /\ call' = [call EXCEPT !.quiet = FALSE]
  /\ UNCHANGED <<impl, peer, got>>

Timeouts == IF impl = "android" /\ "poll" \in Faults THEN {"zero", "some"} ELSE {"some"}

Read == PollTimesOut \/ PollReads
Call == MTY_WebSocketDestroy \/ \E t \in Timeouts : MTY_WebSocketRead(t)
Step == MTY_WebSocketConnect \/ Call \/ Read \/ Tick

-----------------------------------------------------------------------------
(* Properties of a live server's connection.                                 *)

Oversized == peer.wire # <<>> /\ Head(peer.wire).op = "big"
=============================================================================

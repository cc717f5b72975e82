--------------------------- MODULE WebSocketPeer ---------------------------
(***************************************************************************)
(* What the four implementations of MTY_WebSocket share: the state of the   *)
(* one connection a caller has, and the server at its other end, which is   *)
(* not part of the repository.  impl says which implementation is linked    *)
(* into the program; ctx is its MTY_WebSocket.                              *)
(***************************************************************************)
EXTENDS Naturals, Sequences

CONSTANTS
  Impls,      \* a subset of linux, android, windows, apple, web
  MaxMsgs,    \* bound: text messages of the server
  MaxExtra,   \* bound: its other frames, ends and silences included
  Fragmented, \* the text messages, by number, that the server sends in two fragments
  Faults      \* what the code does not withstand, and a run may add:
              \*   joined:   two frames in one TLS record (linux)
              \*   race:     a receive completes inside MTY_WebSocketRead (windows)
              \*   lateopen: a connection opens after its timeout (apple)
              \*   poll:     MTY_WebSocketRead with a timeout of 0 (android)

ASSUME BoundsAssumption == MaxMsgs \in Nat /\ MaxExtra \in Nat

VARIABLES
  impl, ctx,
  peer,   \* the server, and wire, what it sent that was not read
  call,   \* the caller: pc, and r, the result of its last call
  got     \* the messages the caller was given, each as its parts

Results == {"ok", "done", "continue", "error", "none"}

\* No MTY_WebSocket; late: a callback that was given it has not run yet.
Dead == [st |-> "none", late |-> FALSE]

\* The frames of a message, as the code reads them: a browser, and Apple's session, have
\* joined fragments when they hand a message over.
Fragments(m) == IF impl \in {"linux", "android", "windows"} /\ m \in Fragmented THEN 2 ELSE 1
Frame(op, m, part, fin) == [op |-> op, msg |-> m, part |-> part, fin |-> fin]
Control(op) == Frame(op, 0, 1, TRUE)
Whole(m) == [k \in 1..Fragments(m) |-> <<m, k>>]

\* Frame k of message m.  On the wire the second has the opcode of a continuation; WinHTTP
\* says of both that they are text, and which is the last.
MessageFrame(m, k) ==
  Frame(IF k = 1 \/ impl = "windows" THEN "text" ELSE "continuation", m, k, k = Fragments(m))

PeerInit == [wire |-> <<>>, own |-> <<>>, sent |-> 0, extra |-> 0, mode |-> "up", pings |-> 0]

Init ==
  /\ impl \in Impls
  /\ ctx = Dead
  /\ peer = PeerInit
  /\ call = [pc |-> "start", r |-> "none", quiet |-> FALSE]
  /\ got = <<>>

TypeOK ==
  /\ impl \in Impls
  /\ ctx.st \in {"none", "open"}
  /\ peer.sent \in 0..MaxMsgs /\ peer.extra \in 0..MaxExtra
  /\ peer.mode \in {"up", "silent", "closed"}
  /\ Len(peer.own) = Len(peer.wire)
  /\ call.r \in Results
  /\ call.pc = "idle" => ctx.st = "open"

-----------------------------------------------------------------------------
(* Calls begin and end. *)

\* quiet: MTY_WebSocketRead waited for nothing since the last minute began.
At(pc) == call' = [call EXCEPT !.pc = pc, !.r = "none"]
Answer(r) == call' = [pc |-> "idle", r |-> r, quiet |-> FALSE]
TimedOut == call' = [pc |-> "idle", r |-> "continue", quiet |-> TRUE]
Deliver(parts) == got' = IF parts = <<>> THEN got ELSE Append(got, parts)

\* What a frame's payload is to the reader: nothing, a part, or more than it has room for.
Payload(f) ==
  CASE f.op = "text" -> <<<<f.msg, f.part>>>>
    [] f.op = "big"  -> <<<<0, 1>>>>
    [] OTHER         -> <<>>
Fits(parts) == \A k \in DOMAIN parts : parts[k] # <<0, 1>>

\* After an error or the end the caller destroys its MTY_WebSocket.
MayRead == call.pc = "idle" /\ call.r \in {"ok", "continue", "none"}
MayDestroy == call.pc = "idle" /\ (call.r \in {"error", "done"} \/ peer.mode # "up")
Connected(c) ==
  /\ ctx' = c
  /\ call' = [call EXCEPT !.pc = "idle"]
  /\ UNCHANGED <<impl, peer, got>>
NotConnected ==
  /\ call' = [call EXCEPT !.pc = "gone"]
  /\ UNCHANGED <<impl, ctx, peer, got>>
Destroyed ==
  /\ ctx' = Dead
  /\ call' = [call EXCEPT !.pc = "gone"]
  /\ UNCHANGED <<impl, peer, got>>

\* The first frame, and the server without it.
Arrives(ops) == peer.wire # <<>> /\ Head(peer.wire).op \in ops
Rest == [peer EXCEPT !.wire = Tail(@), !.own = Tail(@)]

-----------------------------------------------------------------------------
(* The server.  own[k] is TRUE when frame k begins a TLS record. *)

Sends(frames, joined) ==
  [peer EXCEPT !.wire = @ \o frames, !.own = @ \o [k \in 1..Len(frames) |-> ~joined]]

Open == ctx.st = "open"
Joins == IF "joined" \in Faults /\ impl = "linux" /\ peer.wire # <<>>
         THEN BOOLEAN ELSE {FALSE}

SendMessage ==
  /\ Open /\ peer.mode = "up" /\ peer.sent < MaxMsgs
  /\ LET m  == peer.sent + 1
         fs == [k \in 1..Fragments(m) |-> MessageFrame(m, k)]
     IN \E j \in Joins : peer' = [Sends(fs, j) EXCEPT !.sent = m]
  /\ UNCHANGED <<impl, ctx, call, got>>

\* Pings, binary frames, texts that are empty or larger than the caller's buffer; the
\* end of the connection; a frame that is cut off.  Pings are answered by the library
\* on Windows, Apple and the web; there a browser hands a binary frame over as a text.
Extras ==
  CASE impl \in {"linux", "android"} -> {"ping", "binary", "empty", "big"}
    [] impl = "web" -> {"empty", "big"}
    [] OTHER -> {"binary", "empty", "big"}
SendExtra ==
  /\ Open /\ peer.mode = "up" /\ peer.extra < MaxExtra
  /\ \/ \E op \in Extras :
          peer' = [Sends(<<Control(op)>>, FALSE) EXCEPT !.extra = @ + 1]
     \/ \E end \in {<<Control("close"), Control("eof")>>, <<Control("eof")>>} :
          peer' = [Sends(end, FALSE) EXCEPT !.extra = @ + 1, !.mode = "closed"]
     \/ \E cut \in {<<>>, <<Control("partial")>>} :
          peer' = [Sends(cut, FALSE) EXCEPT !.extra = @ + 1, !.mode = "silent"]
  /\ UNCHANGED <<impl, ctx, call, got>>

AnswerPing ==
  /\ Open /\ peer.mode = "up" /\ peer.pings > 0
  /\ peer' = [Sends(<<Control("pong")>>, FALSE) EXCEPT !.pings = @ - 1]
  /\ UNCHANGED <<impl, ctx, call, got>>
=============================================================================

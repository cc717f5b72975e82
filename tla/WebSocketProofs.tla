--------------------------- MODULE WebSocketProofs ---------------------------
(***************************************************************************)
(* What a caller of MTY_WebSocketRead reads, whatever implementation is      *)
(* linked into the program: the server's messages, none missing, each whole  *)
(* (of one in fragments, only the first from a byte stream), and all of them *)
(* before the close; that a freed MTY_WebSocket is not called back; and, at  *)
(* the end, that a server which answers pings is never given up.             *)
(*                                                                         *)
(* First the types of the variables, and what is needed of the wire: a part  *)
(* of a message is a number, its key, and what is no part of a message has   *)
(* the key 0; so the order of what the server sent is that of numbers, and   *)
(* every frame that a server sends or a reader takes keeps it.               *)
(*                                                                         *)
(* Then the messages: what was received and not read yet (b below), and then *)
(* what is on the wire, is a sequence of the parts of the messages after the *)
(* ones that were read, each of them and in their order.                     *)
(***************************************************************************)
EXTENDS WebSocket, FiniteSetTheorems, TLAPS

-----------------------------------------------------------------------------
(* Sequences of keys.                                                        *)

\* b holds the keys K, in order.
InOrder(b, K) ==
  /\ b \in Seq(Nat)
  /\ \A i, j \in 1..Len(b) : i < j /\ b[i] # 0 /\ b[j] # 0 => b[i] < b[j]
  /\ K = {b[i] : i \in 1..Len(b)} \ {0}

\* The same by elements.
LEMMA InOrderFacts ==
  ASSUME NEW b, NEW K, InOrder(b, K)
  PROVE  /\ \A i \in 1..Len(b) : b[i] \in Nat /\ (b[i] # 0 => b[i] \in K)
         /\ \A y \in K : y \in Nat /\ y # 0 /\ \E i \in 1..Len(b) : y = b[i]
BY DEF InOrder

LEMMA InOrderOf ==
  ASSUME NEW b \in Seq(Nat), NEW K,
         \A i \in 1..Len(b) : b[i] # 0 => b[i] \in K,
         \A y \in K : y # 0 /\ \E i \in 1..Len(b) : y = b[i],
         \A i, j \in 1..Len(b) : i < j /\ b[i] # 0 /\ b[j] # 0 => b[i] < b[j]
  PROVE  InOrder(b, K)
BY DEF InOrder

\* Something that is no part comes last.
LEMMA NothingAdded ==
  ASSUME NEW b, NEW K, InOrder(b, K)
  PROVE  InOrder(Append(b, 0), K)
<1> DEFINE t == Append(b, 0)
<1>1. /\ t \in Seq(Nat) /\ Len(t) = Len(b) + 1 /\ Len(b) \in Nat
      /\ t[Len(b) + 1] = 0 /\ \A i \in 1..Len(b) : t[i] = b[i]
  BY DEF InOrder
<1> HIDE DEF t
<1>2. \A i \in 1..Len(t) : t[i] # 0 => i \in 1..Len(b) /\ t[i] = b[i]
  BY <1>1
<1>3. \A i \in 1..Len(b) : i \in 1..Len(t)
  BY <1>1
<1>4. QED
  BY <1>1, <1>2, <1>3 DEF InOrder, t

\* A part comes last that is after all others.
LEMMA AddedLast ==
  ASSUME NEW b, NEW K, InOrder(b, K), NEW x \in Nat \ {0}, \A y \in K : y < x
  PROVE  InOrder(Append(b, x), K \cup {x})
<1> DEFINE t == Append(b, x)
<1>1. /\ t \in Seq(Nat) /\ Len(t) = Len(b) + 1 /\ Len(b) \in Nat
      /\ t[Len(t)] = x /\ \A i \in 1..Len(b) : t[i] = b[i]
  BY DEF InOrder
<1> HIDE DEF t
<1>2. \A i \in 1..Len(t) : i = Len(t) \/ (i \in 1..Len(b) /\ t[i] = b[i])
  BY <1>1
<1>3. Len(t) \in 1..Len(t) /\ \A i \in 1..Len(b) : i \in 1..Len(t)
  BY <1>1
<1>4. \A i \in 1..Len(b) : b[i] # 0 => b[i] \in K
  BY DEF InOrder
<1>5. K \cup {x} = {t[i] : i \in 1..Len(t)} \ {0}
  <2>1. \A y \in K : \E i \in 1..Len(t) : y = t[i] /\ y # 0
    BY <1>1, <1>3 DEF InOrder
  <2>2. \A i \in 1..Len(t) : t[i] # 0 => t[i] \in K \cup {x}
    BY <1>1, <1>2, <1>4
  <2>3. \E i \in 1..Len(t) : x = t[i]
    BY <1>1, <1>3
  <2>4. QED
    BY <2>1, <2>2, <2>3
<1>6. \A i, j \in 1..Len(t) : i < j /\ t[i] # 0 /\ t[j] # 0 => t[i] < t[j]
  <2>1. TAKE i, j \in 1..Len(t)
  <2>2. HAVE i < j /\ t[i] # 0 /\ t[j] # 0
  <2>3. i # Len(t)
    BY <1>1, <2>2
  <2>4. i \in 1..Len(b) /\ t[i] = b[i] /\ b[i] \in K
    BY <1>2, <1>4, <2>2, <2>3
  <2>5. CASE j = Len(t)
    BY <1>1, <2>4, <2>5
  <2>6. CASE j # Len(t)
    BY <1>2, <2>2, <2>4, <2>6 DEF InOrder
  <2>7. QED
    BY <2>5, <2>6
<1>7. QED
  BY <1>1, <1>5, <1>6 DEF InOrder, t

\* What a sequence is without its first element.
LEMMA TailFacts ==
  ASSUME NEW b \in Seq(Nat), b # <<>>
  PROVE  /\ Tail(b) \in Seq(Nat) /\ Len(b) \in Nat \ {0}
         /\ \A i \in 1..Len(Tail(b)) : i + 1 \in 1..Len(b) /\ Tail(b)[i] = b[i + 1]
         /\ \A i \in 1..Len(b) : i # 1 => i - 1 \in 1..Len(Tail(b)) /\ Tail(b)[i - 1] = b[i]
         /\ Head(b) = b[1] /\ 1 \in 1..Len(b)
<1>1. Tail(b) \in Seq(Nat) /\ Len(Tail(b)) = Len(b) - 1 /\ Len(b) \in Nat \ {0}
  OBVIOUS
<1>2. \A i \in 1..Len(Tail(b)) : i + 1 \in 1..Len(b) /\ Tail(b)[i] = b[i + 1]
  BY <1>1
<1>3. \A i \in 1..Len(b) : i # 1 => i - 1 \in 1..Len(Tail(b)) /\ (i - 1) + 1 = i
  BY <1>1
<1>4. QED
  BY <1>1, <1>2, <1>3

\* The first is taken, which is no part.
LEMMA NothingTaken ==
  ASSUME NEW b, NEW K, InOrder(b, K), b # <<>>, Head(b) = 0
  PROVE  InOrder(Tail(b), K)
<1> DEFINE t == Tail(b)
<1>1. /\ t \in Seq(Nat)
      /\ \A i \in 1..Len(t) : i + 1 \in 1..Len(b) /\ t[i] = b[i + 1]
      /\ \A i \in 1..Len(b) : b[i] # 0 => i - 1 \in 1..Len(t) /\ t[i - 1] = b[i]
  BY TailFacts DEF InOrder
<1> HIDE DEF t
<1>2. \A y \in K : y # 0 /\ \E i \in 1..Len(t) : y = t[i]
  <2>1. TAKE y \in K
  <2>2. PICK j \in 1..Len(b) : y = b[j] /\ y # 0
    BY InOrderFacts
  <2>3. j - 1 \in 1..Len(t) /\ t[j - 1] = y
    BY <1>1, <2>2
  <2>4. QED
    BY <2>2, <2>3
<1>3. \A i \in 1..Len(t) : t[i] # 0 => t[i] \in K
  BY <1>1, InOrderFacts
<1>4. \A i, j \in 1..Len(t) : i < j /\ t[i] # 0 /\ t[j] # 0 => t[i] < t[j]
  <2>1. TAKE i, j \in 1..Len(t)
  <2>2. i < j => i + 1 < j + 1
    BY <1>1
  <2>3. i + 1 \in 1..Len(b) /\ t[i] = b[i + 1] /\ j + 1 \in 1..Len(b) /\ t[j] = b[j + 1]
    BY <1>1
  <2>4. QED
    BY <2>2, <2>3 DEF InOrder
<1>5. InOrder(t, K)
  BY <1>1, <1>2, <1>3, <1>4, InOrderOf
<1>6. QED
  BY <1>5 DEF t

\* The first is taken, which is the first part of all.
LEMMA TakenFirst ==
  ASSUME NEW b, NEW K, InOrder(b, K), b # <<>>, Head(b) # 0
  PROVE  /\ Head(b) \in K /\ \A y \in K : Head(b) <= y
         /\ InOrder(Tail(b), K \ {Head(b)})
<1> DEFINE t == Tail(b)
           h == Head(b)
<1>1. /\ t \in Seq(Nat)
      /\ \A i \in 1..Len(t) : i + 1 \in 1..Len(b) /\ t[i] = b[i + 1]
      /\ \A i \in 1..Len(b) : i # 1 => i - 1 \in 1..Len(t) /\ t[i - 1] = b[i]
      /\ h = b[1] /\ 1 \in 1..Len(b) /\ h # 0 /\ b \in Seq(Nat) /\ h \in Nat
  BY TailFacts DEF InOrder
<1> HIDE DEF t, h
<1>2. \A i \in 1..Len(b) : b[i] \in Nat /\ (i # 1 /\ b[i] # 0 => h < b[i])
  BY <1>1 DEF InOrder
<1>3. h \in K /\ \A y \in K : h <= y
  BY <1>1, <1>2 DEF InOrder
<1>4. \A i \in 1..Len(t) : t[i] # h
  <2>1. TAKE i \in 1..Len(t)
  <2>2. i + 1 # 1 /\ i + 1 \in 1..Len(b) /\ t[i] = b[i + 1]
    BY <1>1
  <2>3. b[i + 1] # h
    BY <1>1, <1>2, <2>2
  <2>4. QED
    BY <2>2, <2>3
<1>5. \A y \in K \ {h} : y # 0 /\ \E i \in 1..Len(t) : y = t[i]
  <2>1. TAKE y \in K \ {h}
  <2>2. PICK j \in 1..Len(b) : y = b[j] /\ y # 0
    BY InOrderFacts
  <2>3. j - 1 \in 1..Len(t) /\ t[j - 1] = y
    BY <1>1, <2>2
  <2>4. QED
    BY <2>2, <2>3
<1>6. \A i \in 1..Len(t) : t[i] # 0 => t[i] \in K \ {h}
  <2>1. \A i \in 1..Len(t) : t[i] # 0 => t[i] \in K
    BY <1>1, InOrderFacts
  <2>2. QED
    BY <1>4, <2>1
<1>7. \A i, j \in 1..Len(t) : i < j /\ t[i] # 0 /\ t[j] # 0 => t[i] < t[j]
  <2>1. TAKE i, j \in 1..Len(t)
  <2>2. i < j => i + 1 < j + 1
    BY <1>1
  <2>3. i + 1 \in 1..Len(b) /\ t[i] = b[i + 1] /\ j + 1 \in 1..Len(b) /\ t[j] = b[j + 1]
    BY <1>1
  <2>4. QED
    BY <2>2, <2>3 DEF InOrder
<1>8. InOrder(t, K \ {h})
  <2> DEFINE R == K \ {h}
  <2>1. /\ \A i \in 1..Len(t) : t[i] # 0 => t[i] \in R
        /\ \A y \in R : y # 0 /\ \E i \in 1..Len(t) : y = t[i]
    BY <1>5, <1>6
  <2> HIDE DEF R
  <2>2. InOrder(t, R)
    BY <1>1, <1>7, <2>1, InOrderOf
  <2>3. QED
    BY <2>2 DEF R
<1>9. QED
  BY <1>3, <1>8 DEF t, h

\* Something that is no part comes first.
LEMMA NothingFirst ==
  ASSUME NEW b, NEW K, InOrder(b, K)
  PROVE  InOrder(<<0>> \o b, K)
<1> DEFINE t == <<0>> \o b
<1>1. /\ t \in Seq(Nat) /\ Len(t) = Len(b) + 1 /\ Len(b) \in Nat
      /\ t[1] = 0 /\ \A i \in 1..Len(b) : t[i + 1] = b[i]
  BY DEF InOrder
<1> HIDE DEF t
<1>2. \A i \in 1..Len(t) : t[i] # 0 => i - 1 \in 1..Len(b) /\ t[i] = b[i - 1]
  <2>1. TAKE i \in 1..Len(t)
  <2>2. i # 1 => i - 1 \in 1..Len(b) /\ (i - 1) + 1 = i
    BY <1>1
  <2>3. QED
    BY <1>1, <2>2
<1>3. \A i \in 1..Len(b) : i + 1 \in 1..Len(t) /\ t[i + 1] = b[i]
  BY <1>1
<1>4. \A y \in K : y # 0 /\ \E i \in 1..Len(t) : y = t[i]
  <2>1. TAKE y \in K
  <2>2. PICK j \in 1..Len(b) : y = b[j] /\ y # 0
    BY InOrderFacts
  <2>3. QED
    BY <1>3, <2>2
<1>5. \A i \in 1..Len(t) : t[i] # 0 => t[i] \in K
  BY <1>2, InOrderFacts
<1>6. \A i, j \in 1..Len(t) : i < j /\ t[i] # 0 /\ t[j] # 0 => t[i] < t[j]
  <2>1. TAKE i, j \in 1..Len(t)
  <2>2. i < j => i - 1 < j - 1
    BY <1>1
  <2>3. QED
    BY <1>2, <2>2 DEF InOrder
<1>7. InOrder(t, K)
  BY <1>1, <1>4, <1>5, <1>6, InOrderOf
<1>8. QED
  BY <1>7 DEF t

-----------------------------------------------------------------------------
(* The parts of messages and the frames that carry them.                     *)

Key(m, k) == 2 * m + k - 1

\* How many of a message's parts are given to the caller.
Last(m) == IF On(Streams) THEN 1 ELSE Fragments(m)

\* The parts of the messages after n, up to s.
PartKeys(n, s) ==
  {y \in Nat : \E m \in Nat, k \in {1, 2} : n < m /\ m <= s /\ k <= Last(m) /\ y = Key(m, k)}

Ops == {"text", "continuation", "ping", "pong", "binary", "empty", "big", "close", "eof", "partial"}
Frames == [op : Ops, msg : Nat, part : {1, 2}, fin : BOOLEAN]
FrameKey(f) == IF f.op = "text" THEN Key(f.msg, f.part) ELSE 0
WireKeys == [i \in 1..Len(peer.wire) |-> FrameKey(peer.wire[i])]

LEMMA LastFacts ==
  ASSUME NEW m
  PROVE  /\ Last(m) \in {1, 2} /\ (impl # "windows" => Last(m) = 1)
         /\ Fragments(m) \in {1, 2} /\ (impl = "windows" => Last(m) = Fragments(m))
         /\ Fragments(m) = 1 => Last(m) = 1
BY DEF Last, Fragments, On, Streams

\* Keys tell parts apart and are ordered as the parts are.
LEMMA KeyFacts ==
  ASSUME NEW m \in Nat, NEW k \in {1, 2}, NEW n \in Nat, NEW j \in {1, 2}
  PROVE  /\ Key(m, k) \in Nat /\ (m > 0 => Key(m, k) # 0)
         /\ Key(m, k) = Key(n, j) <=> m = n /\ k = j
         /\ Key(m, k) < Key(n, j) <=> m < n \/ (m = n /\ k < j)
BY DEF Key

\* One more message was sent.
LEMMA PartKeysMore ==
  ASSUME NEW n \in Nat, NEW s \in Nat, n <= s
  PROVE  /\ PartKeys(n, s + 1) = PartKeys(n, s) \cup {Key(s + 1, k) : k \in 1..Last(s + 1)}
         /\ \A y \in PartKeys(n, s) : y \in Nat /\ y # 0 /\ y < Key(s + 1, 1)
<1>1. \A m \in Nat : n < m /\ m <= s + 1 <=> (n < m /\ m <= s) \/ m = s + 1
  OBVIOUS
<1>2. 1..Last(s + 1) = {k \in {1, 2} : k <= Last(s + 1)}
  BY LastFacts
<1>3. \A k \in {1, 2} : Key(s + 1, k) \in Nat
  BY KeyFacts
<1>4. PartKeys(n, s + 1) = PartKeys(n, s) \cup {Key(s + 1, k) : k \in {i \in {1, 2} : i <= Last(s + 1)}}
  BY <1>1, <1>3 DEF PartKeys
<1>5. \A y \in PartKeys(n, s) : y \in Nat /\ y # 0 /\ y < Key(s + 1, 1)
  BY DEF PartKeys, Key
<1>6. QED
  BY <1>2, <1>4, <1>5

\* The least part is the first one of the first message.
LEMMA PartKeysLeast ==
  ASSUME NEW n \in Nat, NEW s \in Nat, NEW x \in PartKeys(n, s),
         \A y \in PartKeys(n, s) : x <= y
  PROVE  n < s /\ x = Key(n + 1, 1)
<1>1. PICK m \in Nat, k \in {1, 2} : n < m /\ m <= s /\ k <= Last(m) /\ x = Key(m, k)
  BY DEF PartKeys
<1>2. n < s /\ n + 1 \in Nat /\ n < n + 1 /\ n + 1 <= s /\ n + 1 <= m
  BY <1>1
<1>3. 1 <= Last(n + 1) /\ Key(n + 1, 1) \in Nat
  BY LastFacts, KeyFacts, <1>2
<1>4. Key(n + 1, 1) \in PartKeys(n, s)
  BY <1>2, <1>3 DEF PartKeys
<1>5. x <= Key(n + 1, 1)
  BY <1>4
<1>6. QED
  BY <1>1, <1>2, <1>5 DEF Key

\* A message of one part, and one of two, were taken.
LEMMA PartKeysLess ==
  ASSUME NEW n \in Nat, NEW s \in Nat
  PROVE  /\ Last(n + 1) = 1 => PartKeys(n, s) \ {Key(n + 1, 1)} = PartKeys(n + 1, s)
         /\ Last(n + 1) = 2 =>
              PartKeys(n, s) \ {Key(n + 1, 1), Key(n + 1, 2)} = PartKeys(n + 1, s)
         /\ PartKeys(n, s) = {} => s <= n
<1>1. \A m \in Nat : n < m <=> m = n + 1 \/ n + 1 < m
  OBVIOUS
<1>2. \A m \in Nat, k, j \in {1, 2} : n + 1 < m => Key(m, k) # Key(n + 1, j)
  BY KeyFacts
<1>3. \A m \in Nat, k \in {1, 2} : n + 1 < m => n < m
  OBVIOUS
<1>4. \A y \in PartKeys(n + 1, s) : y \in PartKeys(n, s) /\ y # Key(n + 1, 1) /\ y # Key(n + 1, 2)
  BY <1>2, <1>3 DEF PartKeys
<1>5. \A y \in PartKeys(n, s) :
        y \in PartKeys(n + 1, s) \/ y = Key(n + 1, 1) \/ (Last(n + 1) = 2 /\ y = Key(n + 1, 2))
  BY <1>1, LastFacts DEF PartKeys
<1>6. n < s => Key(n + 1, 1) \in PartKeys(n, s)
  <2>1. HAVE n < s
  <2>2. n + 1 \in Nat /\ n < n + 1 /\ n + 1 <= s
    BY <2>1
  <2>3. 1 <= Last(n + 1) /\ Key(n + 1, 1) \in Nat
    BY LastFacts, KeyFacts, <2>2
  <2>4. QED
    BY <2>2, <2>3 DEF PartKeys
<1>7. QED
  BY <1>4, <1>5, <1>6

-----------------------------------------------------------------------------
(* The server and the wire.                                                  *)

\* Frame i of w: a text is a part of a message, with the next part behind it when it is not
\* the last; nothing that is read follows the end of the connection.
FrameOK(w, i, mode) ==
  /\ w[i].op = "text" =>
       /\ w[i].msg > 0 /\ w[i].part <= Last(w[i].msg)
       /\ w[i].part < Last(w[i].msg) =>
            /\ i + 1 \in 1..Len(w)
            /\ w[i + 1].op = "text" /\ w[i + 1].msg = w[i].msg /\ w[i + 1].part = 2
  /\ w[i].fin <=> (w[i].op = "text" => w[i].part = Fragments(w[i].msg))
  /\ w[i].op \in {"close", "eof"} =>
       mode = "closed" /\ \A j \in 1..Len(w) : i < j => w[j].op # "text"

Peers == [wire : Seq(Frames), own : Seq(BOOLEAN), sent : 0..MaxMsgs, extra : 0..MaxExtra,
          mode : {"up", "silent", "closed"}, pings : Nat]
PeerInv ==
  /\ peer \in Peers
  /\ Len(peer.own) = Len(peer.wire)
  /\ \A i \in 1..Len(peer.wire) : FrameOK(peer.wire, i, peer.mode)

LEMMA WireFacts ==
  ASSUME PeerInv
  PROVE  /\ WireKeys \in Seq(Nat) /\ Len(WireKeys) = Len(peer.wire)
         /\ peer.wire \in Seq(Frames) /\ Len(peer.wire) \in Nat /\ peer.own \in Seq(BOOLEAN)
         /\ peer.sent \in Nat /\ peer.extra \in Nat /\ peer.pings \in Nat
         /\ \A i \in 1..Len(peer.wire) :
              /\ peer.wire[i] \in Frames /\ WireKeys[i] = FrameKey(peer.wire[i])
              /\ FrameKey(peer.wire[i]) \in Nat
              /\ peer.wire[i].op = "text" <=> FrameKey(peer.wire[i]) # 0
<1>1. /\ peer.wire \in Seq(Frames) /\ Len(peer.wire) \in Nat /\ peer.own \in Seq(BOOLEAN)
      /\ peer.sent \in Nat /\ peer.extra \in Nat /\ peer.pings \in Nat
      /\ \A i \in 1..Len(peer.wire) : peer.wire[i] \in Frames
  BY BoundsAssumption DEF PeerInv, Peers
<1>2. ASSUME NEW i \in 1..Len(peer.wire)
      PROVE  /\ FrameKey(peer.wire[i]) \in Nat
             /\ peer.wire[i].op = "text" <=> FrameKey(peer.wire[i]) # 0
  <2>1. peer.wire[i].msg \in Nat /\ peer.wire[i].part \in {1, 2}
    BY <1>1 DEF Frames
  <2>2. peer.wire[i].op = "text" => peer.wire[i].msg > 0
    BY DEF PeerInv, FrameOK
  <2>3. QED
    BY <2>1, <2>2, KeyFacts DEF FrameKey
<1>3. WireKeys \in Seq(Nat) /\ Len(WireKeys) = Len(peer.wire)
  BY <1>1, <1>2 DEF WireKeys
<1>4. QED
  BY <1>1, <1>2, <1>3 DEF WireKeys

\* What a frame's arrival at the end of the wire adds to the keys.
LEMMA OneSent ==
  ASSUME NEW w \in Seq(Frames), NEW f \in Frames
  PROVE  [i \in 1..Len(Append(w, f)) |-> FrameKey(Append(w, f)[i])]
           = Append([i \in 1..Len(w) |-> FrameKey(w[i])], FrameKey(f))
<1>1. \A g \in Frames : FrameKey(g) \in Nat
  BY KeyFacts DEF FrameKey, Frames
<1> DEFINE u == [i \in 1..Len(w) |-> FrameKey(w[i])]
           v == Append(u, FrameKey(f))
           x == Append(w, f)
<1>2. u \in Seq(Nat) /\ Len(u) = Len(w) /\ \A i \in 1..Len(w) : u[i] = FrameKey(w[i])
  BY <1>1
<1> HIDE DEF u
<1>3. /\ v \in Seq(Nat) /\ Len(v) = Len(w) + 1 /\ v[Len(w) + 1] = FrameKey(f)
      /\ \A i \in 1..Len(w) : v[i] = u[i]
  BY <1>1, <1>2
<1>4. /\ Len(x) = Len(w) + 1 /\ x[Len(w) + 1] = f /\ \A i \in 1..Len(w) : x[i] = w[i]
      /\ Len(w) \in Nat
  OBVIOUS
<1> HIDE DEF v, x
<1>5. DOMAIN v = 1..Len(x) /\ v = [i \in 1..Len(x) |-> v[i]]
  BY <1>3, <1>4
<1>6. \A i \in 1..Len(x) : v[i] = FrameKey(x[i])
  <2>1. TAKE i \in 1..Len(x)
  <2>2. i \in 1..Len(w) \/ i = Len(w) + 1
    BY <1>4
  <2>3. QED
    BY <1>2, <1>3, <1>4, <2>2
<1>7. QED
  BY <1>5, <1>6 DEF v, x, u

\* The same behind what was received before.
LEMMA BehindKeys ==
  ASSUME NEW b \in Seq(Nat), NEW u \in Seq(Nat), NEW x \in Nat
  PROVE  b \o Append(u, x) = Append(b \o u, x)
OBVIOUS

LEMMA MessageFrameFacts ==
  ASSUME NEW m \in Nat, NEW k \in {1, 2}
  PROVE  /\ MessageFrame(m, k) \in Frames
         /\ MessageFrame(m, k).msg = m /\ MessageFrame(m, k).part = k
         /\ MessageFrame(m, k).fin <=> k = Fragments(m)
         /\ k = 1 \/ impl = "windows" =>
              MessageFrame(m, k).op = "text" /\ FrameKey(MessageFrame(m, k)) = Key(m, k)
         /\ ~(k = 1 \/ impl = "windows") =>
              MessageFrame(m, k).op = "continuation" /\ FrameKey(MessageFrame(m, k)) = 0
<1> DEFINE fin == k = Fragments(m)
           op == IF k = 1 \/ impl = "windows" THEN "text" ELSE "continuation"
<1>1. fin \in BOOLEAN
  OBVIOUS
<1>2. MessageFrame(m, k) = [op |-> op, msg |-> m, part |-> k, fin |-> fin]
  BY DEF MessageFrame, Frame
<1>3. fin <=> k = Fragments(m)
  OBVIOUS
<1>4. /\ op \in Ops
      /\ k = 1 \/ impl = "windows" => op = "text"
      /\ ~(k = 1 \/ impl = "windows") => op = "continuation"
  BY DEF Ops
<1> HIDE DEF fin, op
<1>5. /\ MessageFrame(m, k) \in Frames
      /\ MessageFrame(m, k).op = op /\ MessageFrame(m, k).msg = m
      /\ MessageFrame(m, k).part = k /\ MessageFrame(m, k).fin = fin
  BY <1>1, <1>2, <1>4 DEF Frames
<1>6. FrameKey(MessageFrame(m, k)) = IF op = "text" THEN Key(m, k) ELSE 0
  BY <1>5 DEF FrameKey
<1>7. QED
  BY <1>3, <1>4, <1>5, <1>6

\* What a message's sending does.
LEMMA MessageSent ==
  ASSUME PeerInv, SendMessage, NEW m, m = peer.sent + 1
  PROVE  /\ m \in Nat /\ m > 0 /\ peer.mode = "up" /\ UNCHANGED <<impl, ctx, call, got>>
         /\ peer'.wire = IF Fragments(m) = 1 THEN Append(peer.wire, MessageFrame(m, 1))
                         ELSE Append(Append(peer.wire, MessageFrame(m, 1)), MessageFrame(m, 2))
         /\ peer'.sent = m /\ peer'.mode = "up"
         /\ peer' \in Peers /\ Len(peer'.own) = Len(peer'.wire)
<1> DEFINE fs == [k \in 1..Fragments(m) |-> MessageFrame(m, k)]
<1>1. PICK j \in Joins : peer' = [Sends(fs, j) EXCEPT !.sent = m]
  BY DEF SendMessage
<1>2. m \in Nat /\ m > 0 /\ peer.mode = "up" /\ m \in 0..MaxMsgs
  BY WireFacts, BoundsAssumption DEF SendMessage
<1>3. j \in BOOLEAN
  BY DEF Joins
<1>4. MessageFrame(m, 1) \in Frames /\ MessageFrame(m, 2) \in Frames
  BY <1>2, MessageFrameFacts
<1>5. Fragments(m) \in {1, 2}
  BY LastFacts
<1>6. fs = [k \in 1..Fragments(m) |-> MessageFrame(m, k)]
  OBVIOUS
<1> HIDE DEF fs
<1>7. fs \in Seq(Frames) /\ Len(fs) = Fragments(m)
  <2>1. \A k \in 1..Fragments(m) : MessageFrame(m, k) \in Frames
    BY <1>4, <1>5
  <2>2. QED
    BY <1>5, <1>6, <2>1
<1>8. fs = IF Fragments(m) = 1 THEN <<MessageFrame(m, 1)>> ELSE <<MessageFrame(m, 1), MessageFrame(m, 2)>>
  BY <1>5, <1>6, <1>7
<1> DEFINE first == ~j
           os == [k \in 1..Len(fs) |-> first]
<1>9. os \in Seq(BOOLEAN) /\ Len(os) = Len(fs)
  <2>1. first \in BOOLEAN
    BY <1>3
  <2>2. Len(fs) \in Nat
    BY <1>5, <1>7
  <2> HIDE DEF first
  <2>3. QED
    BY <2>1, <2>2
<1>10. peer' = [[peer EXCEPT !.wire = @ \o fs, !.own = @ \o os] EXCEPT !.sent = m]
  BY <1>1 DEF Sends
<1> HIDE DEF os
<1>11. /\ peer \in Peers /\ Len(peer.own) = Len(peer.wire)
       /\ peer.wire \in Seq(Frames) /\ peer.own \in Seq(BOOLEAN)
  BY DEF PeerInv, Peers
<1>12. /\ peer'.wire = peer.wire \o fs /\ peer'.own = peer.own \o os /\ peer'.sent = m
       /\ peer'.mode = peer.mode
       /\ peer'.extra = peer.extra /\ peer'.pings = peer.pings
       /\ DOMAIN peer' = DOMAIN peer
  BY <1>10, <1>11 DEF Peers
<1>13. peer.wire \o fs \in Seq(Frames) /\ peer.own \o os \in Seq(BOOLEAN)
       /\ Len(peer.wire \o fs) = Len(peer.own \o os)
  <2>1. Len(peer.wire \o fs) = Len(peer.wire) + Len(fs)
    BY <1>7, <1>11
  <2>2. Len(peer.own \o os) = Len(peer.own) + Len(os)
    BY <1>9, <1>11
  <2>3. QED
    BY <1>7, <1>9, <1>11, <2>1, <2>2
<1>14. peer' \in Peers
  BY <1>2, <1>10, <1>11, <1>13 DEF Peers
<1>15. peer.wire \o fs = IF Fragments(m) = 1 THEN Append(peer.wire, MessageFrame(m, 1))
                          ELSE Append(Append(peer.wire, MessageFrame(m, 1)), MessageFrame(m, 2))
  <2>1. \A f \in Frames : peer.wire \o <<f>> = Append(peer.wire, f)
    BY <1>11
  <2>2. \A f, g \in Frames : peer.wire \o <<f, g>> = Append(Append(peer.wire, f), g)
    BY <1>11
  <2>3. QED
    BY <1>4, <1>5, <1>8, <2>1, <2>2
<1>16. UNCHANGED <<impl, ctx, call, got>>
  BY DEF SendMessage
<1>17. QED
  BY <1>2, <1>12, <1>13, <1>14, <1>15, <1>16

\* Nothing of this depends on what changes: the implementation stays.
LEMMA ImplStays ==
  ASSUME impl' = impl
  PROVE  /\ \A m : Last(m)' = Last(m) /\ Fragments(m)' = Fragments(m)
         /\ \A n, s : PartKeys(n, s)' = PartKeys(n, s)
<1>1. \A m : Last(m)' = Last(m) /\ Fragments(m)' = Fragments(m)
  BY DEF Last, Fragments, On
<1>2. QED
  BY <1>1 DEF PartKeys

LEMMA PeerKept ==
  ASSUME impl' = impl, peer' \in Peers, Len(peer'.own) = Len(peer'.wire),
         \A i \in 1..Len(peer'.wire) : FrameOK(peer'.wire, i, peer'.mode)
  PROVE  PeerInv'
<1>1. \A i \in 1..Len(peer'.wire) : FrameOK(peer.wire, i, peer.mode)'
  BY ImplStays DEF FrameOK
<1>2. peer.wire' = peer'.wire /\ peer.own' = peer'.own /\ Peers' = Peers
  BY DEF Peers, Frames
<1>3. QED
  BY <1>1, <1>2 DEF PeerInv

\* A message's frames are in order at the end of the wire.
LEMMA MessageFrames ==
  ASSUME PeerInv, SendMessage
  PROVE  PeerInv'
<1> DEFINE m == peer.sent + 1
           f == MessageFrame(m, 1)
           g == MessageFrame(m, 2)
           w == peer.wire
           v == peer'.wire
<1>1. /\ m \in Nat /\ m > 0 /\ peer.mode = "up" /\ impl' = impl
      /\ v = IF Fragments(m) = 1 THEN Append(w, f) ELSE Append(Append(w, f), g)
      /\ peer' \in Peers /\ Len(peer'.own) = Len(v) /\ peer'.mode = "up"
  BY MessageSent
<1>2. Fragments(m) \in {1, 2} /\ Last(m) \in 1..Fragments(m) /\ w \in Seq(Frames) /\ Len(w) \in Nat
  BY LastFacts, WireFacts
<1>3. /\ f.op = "text" /\ f.msg = m /\ f.part = 1 /\ (f.fin <=> 1 = Fragments(m)) /\ f \in Frames
      /\ g.msg = m /\ g.part = 2 /\ (g.fin <=> 2 = Fragments(m)) /\ g \in Frames
      /\ g.op = "text" => Last(m) = Fragments(m)
      /\ 1 < Last(m) => g.op = "text"
      /\ g.op \in {"text", "continuation"}
  BY <1>1, MessageFrameFacts, LastFacts
<1>4. \A i \in 1..Len(w) : FrameOK(w, i, "up")
  BY <1>1 DEF PeerInv
<1> HIDE DEF f, g, m
<1>5. /\ Len(v) = Len(w) + Fragments(m) /\ v[Len(w) + 1] = f
      /\ Fragments(m) = 2 => v[Len(w) + 2] = g
      /\ \A i \in 1..Len(w) : v[i] = w[i]
  BY <1>1, <1>2, <1>3
<1> HIDE DEF v, w
<1>6. ASSUME NEW i \in 1..Len(w) PROVE FrameOK(v, i, "up")
  <2>1. FrameOK(w, i, "up") /\ v[i] = w[i]
    BY <1>4, <1>5
  <2>2. i + 1 \in 1..Len(w) => i + 1 \in 1..Len(v) /\ v[i + 1] = w[i + 1]
    BY <1>2, <1>5
  <2>3. w[i].op \notin {"close", "eof"}
    BY <2>1 DEF FrameOK
  <2>4. QED
    BY <2>1, <2>2, <2>3 DEF FrameOK
<1>7. FrameOK(v, Len(w) + 1, "up")
  <2>1. Fragments(m) = 2 => (Len(w) + 1) + 1 \in 1..Len(v) /\ v[(Len(w) + 1) + 1] = g
    BY <1>2, <1>5
  <2>2. v[Len(w) + 1] = f
    BY <1>5
  <2>3. 1 <= Last(m) /\ (1 < Last(m) => Fragments(m) = 2)
    BY <1>2
  <2>4. QED
    BY <1>1, <1>3, <2>1, <2>2, <2>3 DEF FrameOK
<1>8. Fragments(m) = 2 => FrameOK(v, Len(w) + 2, "up")
  BY <1>1, <1>3, <1>5 DEF FrameOK
<1>9. \A i \in 1..Len(v) : i \in 1..Len(w) \/ i = Len(w) + 1 \/ (Fragments(m) = 2 /\ i = Len(w) + 2)
  BY <1>2, <1>5
<1>10. \A i \in 1..Len(v) : FrameOK(v, i, "up")
  BY <1>6, <1>7, <1>8, <1>9
<1>11. QED
  BY <1>1, <1>10, PeerKept DEF v

\* The parts that were not read, from what was received before.
LEMMA MessageKeys ==
  ASSUME PeerInv, SendMessage, NEW b \in Seq(Nat), NEW K, InOrder(b \o WireKeys, K),
         \A y \in K : y < Key(peer.sent + 1, 1)
  PROVE  InOrder(b \o WireKeys', K \cup {Key(peer.sent + 1, k) : k \in 1..Last(peer.sent + 1)})
<1> DEFINE m == peer.sent + 1
           f == MessageFrame(m, 1)
           g == MessageFrame(m, 2)
           w == peer.wire
           v == peer'.wire
           x == Key(m, 1)
           y == Key(m, 2)
<1>1. m \in Nat /\ m > 0
      /\ v = IF Fragments(m) = 1 THEN Append(w, f) ELSE Append(Append(w, f), g)
  BY MessageSent
<1>2. Last(m) \in {1, 2} /\ Fragments(m) \in {1, 2} /\ w \in Seq(Frames) /\ WireKeys \in Seq(Nat)
  BY LastFacts, WireFacts
<1>3. /\ f \in Frames /\ g \in Frames /\ FrameKey(f) = x
      /\ FrameKey(g) = IF impl = "windows" THEN y ELSE 0
      /\ impl = "windows" => Last(m) = Fragments(m)
      /\ impl # "windows" => Last(m) = 1
      /\ Fragments(m) = 1 => Last(m) = 1
  BY <1>1, MessageFrameFacts, LastFacts
<1>4. x \in Nat \ {0} /\ y \in Nat \ {0} /\ x < y
  BY <1>1 DEF Key
<1>5. WireKeys' = [i \in 1..Len(v) |-> FrameKey(v[i])]
  BY DEF WireKeys, FrameKey, Key
<1>6. WireKeys = [i \in 1..Len(w) |-> FrameKey(w[i])]
  BY DEF WireKeys
<1> HIDE DEF f, g, v, w, x, y, m
<1>7. [i \in 1..Len(Append(w, f)) |-> FrameKey(Append(w, f)[i])] = Append(WireKeys, x)
  BY <1>2, <1>3, <1>6, OneSent
<1>8. InOrder(b \o Append(WireKeys, x), K \cup {x})
  <2>1. InOrder(Append(b \o WireKeys, x), K \cup {x})
    BY <1>4, AddedLast DEF m, x
  <2>2. QED
    BY <1>2, <1>4, <2>1, BehindKeys
<1>9. CASE Fragments(m) = 1
  <2>1. WireKeys' = Append(WireKeys, x) /\ {Key(m, k) : k \in 1..Last(m)} = {x}
    BY <1>1, <1>3, <1>5, <1>7, <1>9 DEF x
  <2>2. QED
    BY <1>8, <2>1 DEF m
<1>10. CASE Fragments(m) = 2
  <2> DEFINE u == Append(w, f)
             L == K \cup {x}
             c == Append(WireKeys, x)
  <2>1. u \in Seq(Frames)
    BY <1>2, <1>3
  <2>2. c \in Seq(Nat)
    BY <1>2, <1>4
  <2>3. [i \in 1..Len(u) |-> FrameKey(u[i])] = c
    BY <1>7
  <2>4. v = Append(u, g)
    BY <1>1, <1>10
  <2>5. InOrder(b \o c, L)
    BY <1>8
  <2>6. \A z \in L : z < y
    <3>1. \A z \in K : z \in Nat /\ z < x
      BY InOrderFacts DEF m, x
    <3>2. QED
      BY <1>4, <3>1
  <2>7. /\ impl = "windows" => {Key(m, k) : k \in 1..Last(m)} = {x, y}
        /\ impl # "windows" => {Key(m, k) : k \in 1..Last(m)} = {x}
    BY <1>3, <1>10 DEF x, y
  <2>8. L \cup {y} = K \cup {x, y}
    OBVIOUS
  <2>9. L = K \cup {x}
    OBVIOUS
  <2> HIDE DEF u, L, c
  <2>10. WireKeys' = Append(c, FrameKey(g))
    BY <1>3, <1>5, <2>1, <2>3, <2>4, OneSent
  <2>11. CASE impl = "windows"
    <3>1. InOrder(Append(b \o c, y), L \cup {y})
      BY <1>4, <2>5, <2>6, AddedLast
    <3>2. b \o Append(c, y) = Append(b \o c, y)
      BY <1>4, <2>2, BehindKeys
    <3>3. QED
      BY <1>3, <2>7, <2>8, <2>10, <2>11, <3>1, <3>2 DEF m
  <2>12. CASE impl # "windows"
    <3>1. InOrder(Append(b \o c, 0), L)
      BY <2>5, NothingAdded
    <3>2. b \o Append(c, 0) = Append(b \o c, 0)
      BY <2>2, BehindKeys
    <3>3. QED
      BY <1>3, <2>7, <2>9, <2>10, <2>12, <3>1, <3>2 DEF m
  <2>13. QED
    BY <2>11, <2>12
<1>11. QED
  BY <1>2, <1>9, <1>10

\* What the sending of other frames does.
LEMMA FramesJoined ==
  ASSUME PeerInv, NEW fs \in Seq(Frames)
  PROVE  LET p == Sends(fs, FALSE)
         IN /\ p \in Peers /\ Len(p.own) = Len(p.wire) /\ p.wire = peer.wire \o fs
            /\ p.sent = peer.sent /\ p.mode = peer.mode /\ p.extra = peer.extra
            /\ p.pings = peer.pings
<1> DEFINE first == ~FALSE
           os == [k \in 1..Len(fs) |-> first]
           p == Sends(fs, FALSE)
<1>1. first \in BOOLEAN /\ Len(fs) \in Nat
  OBVIOUS
<1>2. os \in Seq(BOOLEAN) /\ Len(os) = Len(fs)
  <2> HIDE DEF first
  <2>1. QED
    BY <1>1
<1>3. p = [peer EXCEPT !.wire = @ \o fs, !.own = @ \o os]
  BY DEF Sends
<1> HIDE DEF os, p
<1>4. /\ peer \in Peers /\ Len(peer.own) = Len(peer.wire)
      /\ peer.wire \in Seq(Frames) /\ peer.own \in Seq(BOOLEAN)
  BY DEF PeerInv, Peers
<1>5. /\ peer.wire \o fs \in Seq(Frames) /\ Len(peer.wire \o fs) = Len(peer.wire) + Len(fs)
  BY <1>4
<1>6. peer.own \o os \in Seq(BOOLEAN) /\ Len(peer.own \o os) = Len(peer.own) + Len(os)
  <2> DEFINE B == BOOLEAN
  <2>1. os \in Seq(B) /\ peer.own \in Seq(B)
    BY <1>2, <1>4
  <2> HIDE DEF B
  <2>2. peer.own \o os \in Seq(B) /\ Len(peer.own \o os) = Len(peer.own) + Len(os)
    BY <2>1
  <2>3. QED
    BY <2>2 DEF B
<1>7. /\ p.wire = peer.wire \o fs /\ p.own = peer.own \o os
      /\ p.sent = peer.sent /\ p.mode = peer.mode /\ p.extra = peer.extra
      /\ p.pings = peer.pings
  BY <1>3, <1>4 DEF Peers
<1>8. p \in Peers
  BY <1>3, <1>4, <1>5, <1>6 DEF Peers
<1>9. QED
  BY <1>2, <1>4, <1>5, <1>6, <1>7, <1>8 DEF p

Others == Ops \ {"text"}

LEMMA ControlFacts ==
  ASSUME NEW op \in Others
  PROVE  /\ Control(op) \in Frames /\ Control(op).op = op /\ Control(op).fin
         /\ FrameKey(Control(op)) = 0
<1>1. Control(op) = [op |-> op, msg |-> 0, part |-> 1, fin |-> TRUE] /\ op \in Ops /\ op # "text"
  BY DEF Control, Frame, Others
<1>2. Control(op) \in Frames /\ Control(op).op = op /\ Control(op).fin
  BY <1>1 DEF Frames
<1>3. QED
  BY <1>1, <1>2 DEF FrameKey

LEMMA OthersSent ==
  ASSUME PeerInv, SendExtra \/ AnswerPing
  PROVE  /\ peer.mode = "up" /\ UNCHANGED <<impl, ctx, call, got>>
         /\ peer' \in Peers /\ Len(peer'.own) = Len(peer'.wire) /\ peer'.sent = peer.sent
         /\ \/ peer'.wire = peer.wire
            \/ \E op \in Others :
                 /\ peer'.wire = Append(peer.wire, Control(op))
                 /\ op \in {"close", "eof"} => peer'.mode = "closed"
            \/ /\ peer'.wire = Append(Append(peer.wire, Control("close")), Control("eof"))
               /\ peer'.mode = "closed"
<1>1. /\ peer.mode = "up" /\ UNCHANGED <<impl, ctx, call, got>>
  BY DEF SendExtra, AnswerPing
<1>2. peer.wire \in Seq(Frames) /\ peer.extra \in Nat /\ peer.pings \in Nat
  BY WireFacts
<1>3. /\ \A f \in Frames : <<f>> \in Seq(Frames) /\ peer.wire \o <<f>> = Append(peer.wire, f)
      /\ \A f, g \in Frames :
           <<f, g>> \in Seq(Frames) /\ peer.wire \o <<f, g>> = Append(Append(peer.wire, f), g)
      /\ <<>> \in Seq(Frames) /\ peer.wire \o <<>> = peer.wire
  BY <1>2
<1>4. {"eof", "partial", "pong", "close"} \subseteq Others /\ Extras \subseteq Others \ {"close", "eof"}
  BY DEF Others, Ops, Extras
<1> DEFINE Goes(fs, mode) ==
             /\ peer' \in Peers /\ Len(peer'.own) = Len(peer'.wire) /\ peer'.sent = peer.sent
             /\ peer'.wire = peer.wire \o fs /\ peer'.mode = mode
<1>5. ASSUME NEW fs \in Seq(Frames), NEW mode \in {"up", "silent", "closed"},
             peer.extra + 1 \in 0..MaxExtra,
             \/ peer' = [Sends(fs, FALSE) EXCEPT !.extra = @ + 1] /\ mode = "up"
             \/ peer' = [Sends(fs, FALSE) EXCEPT !.extra = @ + 1, !.mode = mode]
      PROVE  Goes(fs, mode)
  <2> DEFINE q == Sends(fs, FALSE)
  <2>1. /\ q \in Peers /\ Len(q.own) = Len(q.wire) /\ q.wire = peer.wire \o fs
        /\ q.sent = peer.sent /\ q.mode = "up" /\ q.extra = peer.extra
    BY <1>1, FramesJoined
  <2>2. \/ peer' = [q EXCEPT !.extra = @ + 1] /\ mode = "up"
        \/ peer' = [q EXCEPT !.extra = @ + 1, !.mode = mode]
    BY <1>5
  <2> HIDE DEF q
  <2>3. /\ peer' \in Peers /\ peer'.own = q.own /\ peer'.sent = q.sent
        /\ peer'.wire = q.wire /\ peer'.mode = mode
    <3>1. CASE peer' = [q EXCEPT !.extra = @ + 1] /\ mode = "up"
      BY <1>5, <2>1, <3>1 DEF Peers
    <3>2. CASE peer' = [q EXCEPT !.extra = @ + 1, !.mode = mode]
      BY <1>5, <2>1, <3>2 DEF Peers
    <3>3. QED
      BY <2>2, <3>1, <3>2
  <2>4. QED
    BY <2>1, <2>3
<1>6. ASSUME NEW fs \in Seq(Frames), peer.pings > 0,
             peer' = [Sends(fs, FALSE) EXCEPT !.pings = @ - 1]
      PROVE  Goes(fs, "up")
  <2> DEFINE q == Sends(fs, FALSE)
  <2>1. /\ q \in Peers /\ Len(q.own) = Len(q.wire) /\ q.wire = peer.wire \o fs
        /\ q.sent = peer.sent /\ q.mode = "up" /\ q.pings = peer.pings
    BY <1>1, FramesJoined
  <2>2. peer' = [q EXCEPT !.pings = @ - 1] /\ peer.pings - 1 \in Nat
    BY <1>2, <1>6
  <2> HIDE DEF q
  <2>3. /\ peer' \in Peers /\ peer'.own = q.own /\ peer'.sent = q.sent
        /\ peer'.wire = q.wire /\ peer'.mode = "up"
    BY <2>1, <2>2 DEF Peers
  <2>4. QED
    BY <2>1, <2>3
<1> HIDE DEF Goes
<1>7. CASE SendExtra
  <2>1. peer.extra + 1 \in 0..MaxExtra
    BY <1>2, <1>7, BoundsAssumption DEF SendExtra
  <2>2. ASSUME NEW op \in Extras,
               peer' = [Sends(<<Control(op)>>, FALSE) EXCEPT !.extra = @ + 1]
        PROVE  op \in Others \ {"close", "eof"} /\ Goes(<<Control(op)>>, "up")
    <3>1. op \in Others \ {"close", "eof"} /\ <<Control(op)>> \in Seq(Frames)
      BY <1>3, <1>4, ControlFacts
    <3>2. QED
      BY <1>5, <2>1, <2>2, <3>1
  <2>3. ASSUME NEW end \in {<<Control("close"), Control("eof")>>, <<Control("eof")>>},
               peer' = [Sends(end, FALSE) EXCEPT !.extra = @ + 1, !.mode = "closed"]
        PROVE  Goes(end, "closed")
    <3>1. Control("close") \in Frames /\ Control("eof") \in Frames
      BY <1>4, ControlFacts
    <3>2. end \in Seq(Frames)
      BY <1>3, <3>1
    <3>3. QED
      BY <1>5, <2>1, <2>3, <3>2
  <2>4. ASSUME NEW cut \in {<<>>, <<Control("partial")>>},
               peer' = [Sends(cut, FALSE) EXCEPT !.extra = @ + 1, !.mode = "silent"]
        PROVE  Goes(cut, "silent")
    <3>1. cut \in Seq(Frames)
      BY <1>3, <1>4, ControlFacts
    <3>2. QED
      BY <1>5, <2>1, <2>4, <3>1
  <2>5. \/ \E op \in Others \ {"close", "eof"} : \E mode : Goes(<<Control(op)>>, mode)
        \/ \E mode : Goes(<<>>, mode)
        \/ Goes(<<Control("eof")>>, "closed")
        \/ Goes(<<Control("close"), Control("eof")>>, "closed")
    BY <1>4, <1>7, <2>2, <2>3, <2>4 DEF SendExtra
  <2>6. QED
    BY <1>1, <1>3, <1>4, <2>5, ControlFacts DEF Goes
<1>8. CASE AnswerPing
  <2>1. <<Control("pong")>> \in Seq(Frames) /\ Control("pong") \in Frames
    BY <1>3, <1>4, ControlFacts
  <2>2. Goes(<<Control("pong")>>, "up")
    BY <1>6, <1>8, <2>1 DEF AnswerPing
  <2>3. QED
    BY <1>1, <1>3, <1>4, <2>1, <2>2 DEF Goes
<1>9. QED
  BY <1>7, <1>8

LEMMA OtherFrames ==
  ASSUME PeerInv, SendExtra \/ AnswerPing
  PROVE  PeerInv'
<1> DEFINE w == peer.wire
           v == peer'.wire
           mode == peer'.mode
           f == Control("close")
           g == Control("eof")
<1>1. /\ peer.mode = "up" /\ impl' = impl /\ peer' \in Peers /\ Len(peer'.own) = Len(v)
      /\ \/ v = w
         \/ \E op \in Others :
              v = Append(w, Control(op)) /\ (op \in {"close", "eof"} => mode = "closed")
         \/ v = Append(Append(w, f), g) /\ mode = "closed"
  BY OthersSent
<1>2. w \in Seq(Frames) /\ Len(w) \in Nat
  BY WireFacts
<1>3. \A i \in 1..Len(w) : FrameOK(w, i, "up")
  BY <1>1 DEF PeerInv
<1> HIDE DEF v, w, mode
<1>4. ASSUME NEW x \in Seq(Frames), Len(x) >= Len(w), \A i \in 1..Len(w) : x[i] = w[i],
             NEW i \in 1..Len(w)
      PROVE  FrameOK(x, i, mode)
  <2>1. FrameOK(w, i, "up") /\ x[i] = w[i]
    BY <1>3, <1>4
  <2>2. i + 1 \in 1..Len(w) => i + 1 \in 1..Len(x) /\ x[i + 1] = w[i + 1]
    BY <1>2, <1>4
  <2>3. w[i].op \notin {"close", "eof"}
    BY <2>1 DEF FrameOK
  <2>4. QED
    BY <2>1, <2>2, <2>3 DEF FrameOK
<1>5. ASSUME v = w
      PROVE  \A i \in 1..Len(v) : FrameOK(v, i, mode)
  BY <1>2, <1>4, <1>5
<1>6. ASSUME NEW op \in Others, v = Append(w, Control(op)),
             op \in {"close", "eof"} => mode = "closed"
      PROVE  \A i \in 1..Len(v) : FrameOK(v, i, mode)
  <2>1. Control(op) \in Frames /\ Control(op).op = op /\ Control(op).fin /\ op # "text"
    BY ControlFacts DEF Others
  <2>2. /\ v \in Seq(Frames) /\ Len(v) = Len(w) + 1 /\ v[Len(v)] = Control(op)
        /\ \A i \in 1..Len(w) : v[i] = w[i]
    BY <1>2, <1>6, <2>1
  <2>3. FrameOK(v, Len(v), mode)
    BY <1>2, <1>6, <2>1, <2>2 DEF FrameOK
  <2>4. \A i \in 1..Len(v) : i \in 1..Len(w) \/ i = Len(v)
    BY <1>2, <2>2
  <2>5. QED
    BY <1>2, <1>4, <2>2, <2>3, <2>4
<1>7. ASSUME v = Append(Append(w, f), g), mode = "closed"
      PROVE  \A i \in 1..Len(v) : FrameOK(v, i, mode)
  <2>1. /\ f \in Frames /\ f.op = "close" /\ f.fin
        /\ g \in Frames /\ g.op = "eof" /\ g.fin
    BY ControlFacts DEF Others, Ops
  <2> HIDE DEF f, g
  <2>2. /\ v \in Seq(Frames) /\ Len(v) = Len(w) + 2 /\ v[Len(w) + 1] = f /\ v[Len(w) + 2] = g
        /\ \A i \in 1..Len(w) : v[i] = w[i]
    BY <1>2, <1>7, <2>1
  <2>3. FrameOK(v, Len(w) + 2, mode)
    BY <1>2, <1>7, <2>1, <2>2 DEF FrameOK
  <2>4. \A j \in 1..Len(v) : Len(w) + 1 < j => j = Len(w) + 2
    BY <1>2, <2>2
  <2>5. FrameOK(v, Len(w) + 1, mode)
    BY <1>2, <1>7, <2>1, <2>2, <2>4 DEF FrameOK
  <2>6. \A i \in 1..Len(v) : i \in 1..Len(w) \/ i = Len(w) + 1 \/ i = Len(w) + 2
    BY <1>2, <2>2
  <2>7. QED
    BY <1>2, <1>4, <2>2, <2>3, <2>5, <2>6
<1>8. \A i \in 1..Len(v) : FrameOK(v, i, mode)
  BY <1>1, <1>5, <1>6, <1>7
<1>9. QED
  BY <1>1, <1>8, PeerKept DEF v, mode

LEMMA OtherKeys ==
  ASSUME PeerInv, SendExtra \/ AnswerPing, NEW b \in Seq(Nat), NEW K, InOrder(b \o WireKeys, K)
  PROVE  InOrder(b \o WireKeys', K)
<1> DEFINE w == peer.wire
           v == peer'.wire
           f == Control("close")
           g == Control("eof")
<1>1. \/ v = w
      \/ \E op \in Others : v = Append(w, Control(op))
      \/ v = Append(Append(w, f), g)
  BY OthersSent
<1>2. w \in Seq(Frames) /\ WireKeys \in Seq(Nat)
  BY WireFacts
<1>3. /\ WireKeys' = [i \in 1..Len(v) |-> FrameKey(v[i])]
      /\ WireKeys = [i \in 1..Len(w) |-> FrameKey(w[i])]
  BY DEF WireKeys, FrameKey, Key
<1>4. \A op \in Others : Control(op) \in Frames /\ FrameKey(Control(op)) = 0
  BY ControlFacts
<1>5. f \in Frames /\ FrameKey(f) = 0 /\ g \in Frames /\ FrameKey(g) = 0
  BY <1>4 DEF Others, Ops
<1> HIDE DEF f, g, v, w
<1>6. ASSUME NEW h \in Frames, FrameKey(h) = 0
      PROVE  /\ [i \in 1..Len(Append(w, h)) |-> FrameKey(Append(w, h)[i])] = Append(WireKeys, 0)
             /\ InOrder(b \o Append(WireKeys, 0), K)
  <2>1. InOrder(Append(b \o WireKeys, 0), K)
    BY NothingAdded
  <2>2. b \o Append(WireKeys, 0) = Append(b \o WireKeys, 0)
    BY <1>2, BehindKeys
  <2>3. [i \in 1..Len(Append(w, h)) |-> FrameKey(Append(w, h)[i])] = Append(WireKeys, 0)
    BY <1>2, <1>3, <1>6, OneSent
  <2>4. QED
    BY <2>1, <2>2, <2>3
<1>7. CASE v = w
  BY <1>3, <1>7
<1>8. ASSUME NEW op \in Others, v = Append(w, Control(op))
      PROVE  InOrder(b \o WireKeys', K)
  BY <1>3, <1>4, <1>6, <1>8
<1>9. CASE v = Append(Append(w, f), g)
  <2> DEFINE u == Append(w, f)
             c == Append(WireKeys, 0)
  <2>1. /\ u \in Seq(Frames) /\ c \in Seq(Nat) /\ v = Append(u, g)
        /\ [i \in 1..Len(u) |-> FrameKey(u[i])] = c /\ InOrder(b \o c, K)
    BY <1>2, <1>5, <1>6, <1>9
  <2> HIDE DEF u, c
  <2>2. WireKeys' = Append(c, 0)
    BY <1>3, <1>5, <2>1, OneSent
  <2>3. InOrder(Append(b \o c, 0), K)
    BY <2>1, NothingAdded
  <2>4. QED
    BY <2>1, <2>2, <2>3, BehindKeys
<1>10. QED
  BY <1>1, <1>7, <1>8, <1>9

\* The first frame is taken.
LEMMA FrameTaken ==
  ASSUME PeerInv, peer.wire # <<>>, impl' = impl, peer' = Rest
  PROVE  /\ PeerInv' /\ peer'.sent = peer.sent /\ peer'.mode = peer.mode
         /\ peer'.wire = Tail(peer.wire)
         /\ WireKeys' = Tail(WireKeys) /\ WireKeys # <<>>
         /\ Head(WireKeys) = FrameKey(Head(peer.wire)) /\ FrameOK(peer.wire, 1, peer.mode)
         /\ Head(peer.wire) = peer.wire[1] /\ Head(peer.wire) \in Frames
<1> DEFINE w == peer.wire
           o == peer.own
           v == Tail(w)
<1>1. /\ peer \in Peers /\ w \in Seq(Frames) /\ o \in Seq(BOOLEAN) /\ Len(o) = Len(w)
      /\ \A i \in 1..Len(w) : FrameOK(w, i, peer.mode)
  BY DEF PeerInv, Peers
<1>2. peer' = [peer EXCEPT !.wire = v, !.own = Tail(o)]
  BY DEF Rest
<1> HIDE DEF w, o
<1>3. /\ Len(w) \in Nat \ {0} /\ v \in Seq(Frames) /\ Len(v) = Len(w) - 1
      /\ \A i \in 1..Len(v) : v[i] = w[i + 1]
      /\ Head(w) = w[1] /\ w[1] \in Frames /\ 1 \in 1..Len(w)
  BY <1>1 DEF w
<1>4. Tail(o) \in Seq(BOOLEAN) /\ Len(Tail(o)) = Len(o) - 1
  <2> DEFINE B == BOOLEAN
  <2>1. o \in Seq(B) /\ o # <<>>
    BY <1>1, <1>3
  <2> HIDE DEF B
  <2>2. Tail(o) \in Seq(B) /\ Len(Tail(o)) = Len(o) - 1
    BY <2>1
  <2>3. QED
    BY <2>2 DEF B
<1> HIDE DEF v
<1>5. /\ peer'.wire = v /\ peer'.own = Tail(o) /\ peer'.sent = peer.sent
      /\ peer'.mode = peer.mode /\ peer' \in Peers
  BY <1>1, <1>2, <1>3, <1>4 DEF Peers
<1>6. ASSUME NEW i \in 1..Len(v) PROVE FrameOK(v, i, peer.mode)
  <2>1. i + 1 \in 1..Len(w) /\ v[i] = w[i + 1] /\ FrameOK(w, i + 1, peer.mode)
    BY <1>1, <1>3
  <2>2. (i + 1) + 1 \in 1..Len(w) => i + 1 \in 1..Len(v) /\ v[i + 1] = w[(i + 1) + 1]
    BY <1>3
  <2>3. \A j \in 1..Len(v) : i < j => j + 1 \in 1..Len(w) /\ i + 1 < j + 1 /\ v[j] = w[j + 1]
    BY <1>3
  <2>4. QED
    BY <2>1, <2>2, <2>3 DEF FrameOK
<1>7. PeerInv'
  BY <1>1, <1>3, <1>4, <1>5, <1>6, PeerKept
<1>8. WireKeys' = Tail(WireKeys) /\ WireKeys # <<>> /\ Head(WireKeys) = FrameKey(w[1])
  <2>1. WireKeys' = [i \in 1..Len(v) |-> FrameKey(v[i])]
    BY <1>5 DEF WireKeys, FrameKey, Key
  <2>2. /\ WireKeys \in Seq(Nat) /\ Len(WireKeys) = Len(w)
        /\ \A i \in 1..Len(w) : WireKeys[i] = FrameKey(w[i])
    BY WireFacts DEF w
  <2> DEFINE t == Tail(WireKeys)
  <2>3. /\ t \in Seq(Nat) /\ Len(t) = Len(v) /\ \A i \in 1..Len(v) : t[i] = WireKeys[i + 1]
        /\ WireKeys # <<>> /\ Head(WireKeys) = WireKeys[1]
    BY <1>3, <2>2
  <2> HIDE DEF t
  <2>4. \A i \in 1..Len(v) : t[i] = FrameKey(v[i])
    <3>1. \A i \in 1..Len(v) : i + 1 \in 1..Len(w)
      BY <1>3
    <3>2. QED
      BY <1>3, <2>2, <2>3, <3>1
  <2>5. DOMAIN t = 1..Len(v) /\ t = [i \in 1..Len(v) |-> t[i]]
    BY <2>3
  <2>6. t = [i \in 1..Len(v) |-> FrameKey(v[i])]
    BY <2>4, <2>5
  <2>7. QED
    BY <1>3, <2>1, <2>2, <2>3, <2>6 DEF t
<1>9. QED
  BY <1>1, <1>3, <1>5, <1>7, <1>8 DEF v, w

\* A ping, or a write of the caller's.
LEMMA WireStays ==
  ASSUME PeerInv, impl' = impl, peer' \in Peers,
         peer'.wire = peer.wire, peer'.own = peer.own, peer'.mode = peer.mode
  PROVE  PeerInv' /\ WireKeys' = WireKeys
<1>1. PeerInv'
  BY PeerKept DEF PeerInv
<1>2. QED
  BY <1>1 DEF WireKeys, FrameKey, Key

\* The caller has no more to read of what the connection's end follows.
LEMMA EndFrames ==
  ASSUME PeerInv, NEW K, InOrder(WireKeys, K), Arrives({"close", "eof"})
  PROVE  K = {} /\ peer.mode = "closed"
<1>1. peer.wire # <<>> /\ peer.wire \in Seq(Frames)
  BY WireFacts DEF Arrives
<1>2. /\ 1 \in 1..Len(peer.wire) /\ peer.wire[1].op \in {"close", "eof"}
      /\ \A i \in 1..Len(peer.wire) : i = 1 \/ 1 < i
  BY <1>1 DEF Arrives
<1>3. peer.mode = "closed" /\ \A i \in 1..Len(peer.wire) : 1 < i => peer.wire[i].op # "text"
  BY <1>2 DEF PeerInv, FrameOK
<1>4. \A i \in 1..Len(peer.wire) : peer.wire[i].op # "text"
  BY <1>2, <1>3
<1>5. \A i \in 1..Len(WireKeys) : WireKeys[i] = 0
  BY <1>4, WireFacts
<1>6. QED
  BY <1>3, <1>5, InOrderFacts

\* Apple's close takes everything that was not read.
LEMMA WireClosed ==
  ASSUME PeerInv, impl' = impl, \E k \in DOMAIN peer.wire : peer.wire[k].op = "close",
         peer' = [peer EXCEPT !.wire = <<Control("eof")>>, !.own = <<TRUE>>]
  PROVE  PeerInv' /\ peer.mode = "closed" /\ peer'.mode = "closed" /\ peer'.sent = peer.sent
<1> DEFINE w == <<Control("eof")>>
           o == <<TRUE>>
<1>1. PICK k \in 1..Len(peer.wire) : peer.wire[k].op = "close"
  <2>1. DOMAIN peer.wire = 1..Len(peer.wire)
    BY WireFacts
  <2>2. QED
    BY <2>1
<1>2. peer.mode = "closed"
  BY <1>1 DEF PeerInv, FrameOK
<1>3. Control("eof") \in Frames /\ Control("eof").op = "eof" /\ Control("eof").fin
  BY ControlFacts DEF Control, Frame, Frames, Ops
<1>4. w \in Seq(Frames) /\ Len(w) = 1 /\ w[1] = Control("eof")
  BY <1>3
<1>5. o \in Seq(BOOLEAN) /\ Len(o) = 1
  <2> DEFINE B == BOOLEAN
  <2>1. TRUE \in B
    OBVIOUS
  <2> HIDE DEF B
  <2>2. \A b \in B : <<b>> \in Seq(B) /\ Len(<<b>>) = 1
    OBVIOUS
  <2>3. QED
    BY <2>1, <2>2 DEF B
<1> HIDE DEF w, o
<1>6. /\ peer' \in Peers /\ peer'.wire = w /\ peer'.own = o /\ peer'.mode = "closed"
      /\ peer'.sent = peer.sent
  BY <1>2, <1>4, <1>5 DEF PeerInv, Peers, w, o
<1>7. \A i \in 1..Len(w) : i = 1 /\ ~ \E j \in 1..Len(w) : i < j
  BY <1>4
<1>8. \A i \in 1..Len(w) : FrameOK(w, i, "closed")
  BY <1>3, <1>4, <1>7 DEF FrameOK
<1>9. QED
  BY <1>2, <1>4, <1>5, <1>6, <1>8, PeerKept

-----------------------------------------------------------------------------
(* Types.                                                                    *)

Pieces == Seq(Nat \X Nat)
Times == {"zero", "second", "connect", "some"}
Points == {"start", "gone", "idle", "poll", "connect", "destroy", "wait", "check", "receive",
           "write", "ws-read", "await"}

StreamCtxs == [st : {"open"}, ping : Nat, pong : Nat, code : Nat, tls : Nat,
               so : Times, timeout : Times]
WinHTTPFields ==
  [st : {"open"}, closed : BOOLEAN, complete : BOOLEAN, buf : Pieces, pos : Nat,
   read : BOOLEAN, write : BOOLEAN, receiving : BOOLEAN, recv : Nat, sending : BOOLEAN]
WinHTTPCtxs ==
  {c \in WinHTTPFields :
     /\ c.pos <= Len(c.buf) /\ c.recv <= Len(c.buf)
     /\ c.receiving => c.pos <= c.recv}
AppleCtxs == [st : {"open"}, started : BOOLEAN, error : BOOLEAN, msg : Pieces,
              closed : BOOLEAN, read : BOOLEAN, conn : BOOLEAN, handler : BOOLEAN,
              ping : Nat, pong : Nat, invalid : BOOLEAN]
WebCtxs == [st : {"open"}, msgs : Seq(Pieces), closeCode : Nat,
            waiter : {"none", "waiting", "woken"}]
Deads == [st : {"none"}, late : BOOLEAN]

OpenCtx(i, c) ==
  \/ i \in Streams /\ c \in StreamCtxs
  \/ i = "windows" /\ c \in WinHTTPCtxs
  \/ i = "apple" /\ c \in AppleCtxs
  \/ i = "web" /\ c \in WebCtxs
CtxInv == ctx \in Deads \/ OpenCtx(impl, ctx)
Calls == [pc : Points, r : Results, quiet : BOOLEAN]

\* A call that failed or found the end is the last one; before the first there is nothing.
CallInv ==
  /\ call \in Calls
  /\ call.r \in {"error", "done"} => call.pc \in {"idle", "gone", "destroy"}
  /\ call.pc \in {"start", "gone"} <=> ctx \in Deads
  /\ call.pc = "start" => peer.wire = <<>> /\ peer.sent = 0 /\ got = <<>>

TypeInv ==
  /\ impl \in Impls
  /\ PeerInv /\ CtxInv /\ CallInv
  /\ got \in Seq(Pieces)

\* A ws-read that sleeps is the caller's, and there is a message when it is woken.
WebInv ==
  impl = "web" /\ Open =>
    /\ ctx.waiter # "none" => call.pc = "await"
    /\ ctx.waiter = "woken" => ctx.msgs # <<>>

LEMMA CtxFacts ==
  ASSUME CtxInv
  PROVE  /\ ctx \in Deads <=> ~Open
         /\ Open => OpenCtx(impl, ctx)
         /\ impl \in Streams /\ Open => ctx \in StreamCtxs
         /\ impl = "windows" /\ Open => ctx \in WinHTTPCtxs
         /\ impl = "apple" /\ Open => ctx \in AppleCtxs
         /\ impl = "web" /\ Open => ctx \in WebCtxs
BY DEF CtxInv, OpenCtx, Deads, StreamCtxs, WinHTTPCtxs, WinHTTPFields, AppleCtxs, WebCtxs,
       Open, Streams

\* How calls begin and end.
LEMMA CallSteps ==
  ASSUME call \in Calls
  PROVE  /\ \A pc \in Points :
              call' = [call EXCEPT !.pc = pc] => call' \in Calls /\ call'.pc = pc /\ call'.r = call.r
         /\ \A pc \in Points : At(pc) => call' \in Calls /\ call'.pc = pc /\ call'.r = "none"
         /\ \A r \in Results : Answer(r) => call' \in Calls /\ call'.pc = "idle" /\ call'.r = r
         /\ TimedOut => call' \in Calls /\ call'.pc = "idle" /\ call'.r = "continue"
<1>1. \A pc \in Points :
        call' = [call EXCEPT !.pc = pc] => call' \in Calls /\ call'.pc = pc /\ call'.r = call.r
  BY DEF Calls
<1>2. \A pc \in Points : At(pc) => call' \in Calls /\ call'.pc = pc /\ call'.r = "none"
  BY DEF At, Results, Calls
<1>3. \A r \in Results : Answer(r) => call' \in Calls /\ call'.pc = "idle" /\ call'.r = r
  BY DEF Answer, Points, Calls
<1>4. TimedOut => call' \in Calls /\ call'.pc = "idle" /\ call'.r = "continue"
  BY DEF TimedOut, Points, Results, Calls
<1>5. QED
  BY <1>1, <1>2, <1>3, <1>4

\* A step of the caller or of its implementation that leaves the server alone.
LEMMA PeerAlone ==
  ASSUME TypeInv, UNCHANGED <<impl, peer>>, CtxInv', CallInv', got' \in Seq(Pieces)
  PROVE  TypeInv'
BY WireStays DEF TypeInv, PeerInv

\* One that leaves the connection open.
LEMMA OpenKept ==
  ASSUME impl' = impl, OpenCtx(impl, ctx'), call' \in Calls, call'.pc \notin {"start", "gone"},
         call'.r \in {"error", "done"} => call'.pc \in {"idle", "destroy"}
  PROVE  CtxInv' /\ CallInv'
<1>1. ctx' \notin Deads
  BY DEF OpenCtx, Deads, StreamCtxs, WinHTTPCtxs, WinHTTPFields, AppleCtxs, WebCtxs
<1>2. CtxInv'
  BY DEF CtxInv, OpenCtx, Streams, StreamCtxs, WinHTTPCtxs, WinHTTPFields, AppleCtxs, WebCtxs,
         Times, Pieces
<1>3. Calls' = Calls /\ Deads' = Deads
  BY DEF Calls, Points, Results, Deads
<1>4. QED
  BY <1>1, <1>2, <1>3 DEF CallInv

\* The beginning of MTY_WebSocketConnect.
LEMMA ConnectTypes ==
  ASSUME TypeInv, call.pc = "start", UNCHANGED <<impl, peer, got>>,
         \/ /\ OpenCtx(impl, ctx')
            /\ \E pc \in {"idle", "connect"} : call' = [call EXCEPT !.pc = pc]
         \/ ctx' = ctx /\ call' = [call EXCEPT !.pc = "gone"]
  PROVE  TypeInv'
<1>1. call \in Calls /\ call.r \notin {"error", "done"} /\ ctx \in Deads
  BY DEF TypeInv, CallInv
<1>2. ASSUME OpenCtx(impl, ctx'), NEW pc \in {"idle", "connect"}, call' = [call EXCEPT !.pc = pc]
      PROVE  CtxInv' /\ CallInv'
  <2>1. call' \in Calls /\ call'.pc = pc /\ call'.r = call.r
    BY <1>1, <1>2, CallSteps DEF Points
  <2>2. QED
    BY <1>1, <1>2, <2>1, OpenKept
<1>3. ASSUME ctx' = ctx, call' = [call EXCEPT !.pc = "gone"]
      PROVE  CtxInv' /\ CallInv'
  <2>1. call' \in Calls /\ call'.pc = "gone" /\ call'.r = call.r
    BY <1>1, <1>3, CallSteps DEF Points
  <2>2. Calls' = Calls /\ Deads' = Deads
    BY DEF Calls, Points, Results, Deads
  <2>3. QED
    BY <1>1, <1>3, <2>1, <2>2 DEF CtxInv, CallInv
<1>4. QED
  BY <1>2, <1>3, PeerAlone DEF TypeInv

\* The end of MTY_WebSocketDestroy.
LEMMA DestroyTypes ==
  ASSUME TypeInv, ctx' \in Deads, call' = [call EXCEPT !.pc = "gone"], UNCHANGED <<impl, peer, got>>
  PROVE  TypeInv'
<1>1. call' \in Calls /\ call'.pc = "gone"
  BY CallSteps DEF TypeInv, CallInv, Points
<1>2. Calls' = Calls /\ Deads' = Deads
  BY DEF Calls, Points, Results, Deads
<1>3. CtxInv' /\ CallInv'
  BY <1>1, <1>2 DEF CtxInv, CallInv
<1>4. QED
  BY <1>3, PeerAlone DEF TypeInv

LEMMA ServerTypes ==
  ASSUME TypeInv, Server \/ AnswerPing
  PROVE  TypeInv'
<1>1. /\ PeerInv' /\ UNCHANGED <<impl, ctx, call, got>> /\ Open
  BY MessageSent, OthersSent, MessageFrames, OtherFrames
  DEF TypeInv, Server, SendMessage, SendExtra, AnswerPing
<1>2. ctx \notin Deads
  BY <1>1, CtxFacts DEF TypeInv
<1>3. CtxInv' /\ CallInv'
  BY <1>1, <1>2 DEF TypeInv, CtxInv, OpenCtx, CallInv
<1>4. QED
  BY <1>1, <1>3 DEF TypeInv

LEMMA PayloadFacts ==
  ASSUME NEW f \in Frames
  PROVE  /\ Payload(f) \in Pieces /\ Len(Payload(f)) \in {0, 1}
         /\ f.op = "text" => Payload(f) = <<<<f.msg, f.part>>>>
         /\ f.op = "big" => Payload(f) = <<<<0, 1>>>>
         /\ f.op \notin {"text", "big"} => Payload(f) = <<>>
BY DEF Payload, Frames, Pieces

\* libcurl's buffer is finite.
LEMMA DecryptedType ==
  ASSUME PeerInv, ctx \in StreamCtxs
  PROVE  Stream!Decrypted \in Nat
<1> DEFINE W == 2..Len(peer.wire)
           S == {k \in W : \A j \in 2..k : ~peer.own[j]}
<1>1. Len(peer.wire) \in Nat /\ ctx.tls \in Nat
  BY WireFacts DEF StreamCtxs
<1>2. IsFiniteSet(W)
  BY <1>1, FS_Interval
<1>3. IsFiniteSet(S) /\ S \subseteq W
  BY <1>2, FS_Subset
<1>4. Cardinality(S) \in Nat
  BY <1>3, FS_CardinalityType
<1>5. Stream!Decrypted = IF ctx.tls > 0 THEN ctx.tls - 1 ELSE Cardinality(S)
  BY DEF Stream!Decrypted, Stream!Cardinality, Cardinality
<1> HIDE DEF S, W
<1>6. QED
  BY <1>1, <1>4, <1>5

\* The byte stream's steps.
LEMMA StreamTypes ==
  ASSUME TypeInv, On(Streams), Stream!Step
  PROVE  TypeInv'
<1>1. /\ impl \in Streams /\ PeerInv /\ CtxInv /\ CallInv /\ got \in Seq(Pieces)
      /\ call \in Calls /\ impl' = impl
  BY DEF TypeInv, On, CallInv, Stream!Step, Stream!MTY_WebSocketConnect, Stream!Connected,
         Stream!NotConnected, Stream!Call, Stream!MTY_WebSocketDestroy, Stream!Destroyed,
         Stream!MTY_WebSocketRead, Stream!Read, Stream!PollTimesOut, Stream!PollReads, Stream!Tick
<1>2. Open <=> call.pc \notin {"start", "gone"}
  BY <1>1, CtxFacts DEF CallInv
<1>3. Open => ctx \in StreamCtxs /\ ctx \notin Deads
  BY <1>1, CtxFacts
<1>4. \A c \in StreamCtxs : OpenCtx(impl, c)
  BY <1>1 DEF OpenCtx
<1>5. CASE Stream!MTY_WebSocketConnect
  <2>1. call.pc = "start" /\ UNCHANGED <<impl, peer, got>>
    BY <1>5 DEF Stream!MTY_WebSocketConnect, Stream!Connected, Stream!NotConnected
  <2>2. \/ \E so \in {"second", "connect"} :
             ctx' = Stream!New(so) /\ call' = [call EXCEPT !.pc = "idle"]
        \/ ctx' = ctx /\ call' = [call EXCEPT !.pc = "gone"]
    BY <1>5 DEF Stream!MTY_WebSocketConnect, Stream!Connected, Stream!NotConnected
  <2>3. \A so \in {"second", "connect"} : Stream!New(so) \in StreamCtxs
    BY DEF Stream!New, StreamCtxs, Times
  <2>4. QED
    BY <1>4, <2>1, <2>2, <2>3, ConnectTypes
<1>6. CASE Stream!MTY_WebSocketDestroy
  BY <1>6, DestroyTypes
  DEF Stream!MTY_WebSocketDestroy, Stream!Destroyed, Stream!Dead, Deads
<1>7. ASSUME NEW t \in {"zero", "some"}, Stream!MTY_WebSocketRead(t)
      PROVE  TypeInv'
  <2>1. call.pc = "idle" /\ UNCHANGED <<impl, got>> /\ ctx \in StreamCtxs
    BY <1>2, <1>3, <1>7 DEF Stream!MTY_WebSocketRead, Stream!MayRead
  <2>2. \A c \in StreamCtxs : Stream!mty_net_prep_read(c, t) \in StreamCtxs
    BY <1>7 DEF Stream!mty_net_prep_read, StreamCtxs, Times
  <2>3. [ctx EXCEPT !.ping = 0] \in StreamCtxs
    BY <2>1 DEF StreamCtxs
  <2>4. /\ ctx' \in StreamCtxs
        /\ At("poll") \/ Answer("error")
        /\ peer' = peer \/ peer' = [peer EXCEPT !.pings = IF peer.mode = "up" THEN @ + 1 ELSE @]
    BY <1>7, <2>1, <2>2, <2>3
    DEF Stream!MTY_WebSocketRead, Stream!At, Stream!Answer, At, Answer
  <2>5. /\ call' \in Calls /\ call'.pc \notin {"start", "gone"}
        /\ call'.r \in {"error", "done"} => call'.pc = "idle"
    BY <1>1, <2>4, CallSteps DEF Points, Results
  <2>6. CtxInv' /\ CallInv'
    BY <1>1, <1>4, <2>4, <2>5, OpenKept
  <2>7. PeerInv'
    <3>1. peer.pings \in Nat /\ peer \in Peers
      BY <1>1, WireFacts DEF PeerInv
    <3>2. /\ peer' \in Peers /\ peer'.wire = peer.wire /\ peer'.own = peer.own
          /\ peer'.mode = peer.mode
      BY <2>4, <3>1 DEF Peers
    <3>3. QED
      BY <1>1, <3>2, WireStays
  <2>8. QED
    BY <1>1, <2>1, <2>6, <2>7 DEF TypeInv
<1>8. CASE Stream!PollTimesOut
  <2>1. /\ call.pc = "poll" /\ UNCHANGED <<impl, ctx, peer, got>>
        /\ Answer("error") \/ TimedOut
    BY <1>8 DEF Stream!PollTimesOut, Stream!Answer, Answer, Stream!TimedOut, TimedOut
  <2>2. /\ call' \in Calls /\ call'.pc \notin {"start", "gone"}
        /\ call'.r \in {"error", "done"} => call'.pc = "idle"
    BY <1>1, <2>1, CallSteps DEF Results
  <2>3. ctx \in StreamCtxs
    BY <1>2, <1>3, <2>1
  <2>4. CtxInv' /\ CallInv'
    BY <1>1, <1>4, <2>1, <2>2, <2>3, OpenKept
  <2>5. QED
    BY <1>1, <2>1, <2>4, PeerAlone
<1>9. CASE Stream!PollReads
  <2> DEFINE f == Head(peer.wire)
             c == Stream!FrameRead(f, [Stream!mty_net_prep_read(ctx, "second") EXCEPT
                                         !.tls = Stream!Decrypted])
  <2>1. call.pc = "poll" /\ Stream!Readable /\ impl' = impl /\ ctx \in StreamCtxs
    BY <1>2, <1>3, <1>9 DEF Stream!PollReads
  <2>2. peer.wire # <<>>
    BY <1>1, <2>1, WireFacts DEF Stream!Readable, StreamCtxs
  <2>3. f \in Frames
    BY <1>1, <2>2, WireFacts
  <2>4. c \in StreamCtxs
    <3>1. Stream!mty_net_prep_read(ctx, "second") \in StreamCtxs
      BY <2>1 DEF Stream!mty_net_prep_read, StreamCtxs, Times
    <3>2. Stream!Decrypted \in Nat
      BY <1>1, <2>1, DecryptedType
    <3>3. [Stream!mty_net_prep_read(ctx, "second") EXCEPT !.tls = Stream!Decrypted] \in StreamCtxs
      BY <3>1, <3>2 DEF StreamCtxs
    <3>4. QED
      BY <3>3 DEF Stream!FrameRead, StreamCtxs
  <2> HIDE DEF c
  <2>5. \/ /\ \E r \in {"ok", "done", "continue", "error"} : Answer(r)
           /\ ctx' = c /\ peer' = Rest
           /\ got' = got \/ got' = Append(got, Payload(f))
        \/ Answer("error") /\ UNCHANGED <<ctx, peer, got>>
    <3>1. \A r \in Stream!FrameResults(f) : r \in {"ok", "done", "continue", "error"}
      BY DEF Stream!FrameResults
    <3>2. \/ /\ \E r \in Stream!FrameResults(f) :
                  /\ Answer(IF Stream!PongMissing(c) THEN "error" ELSE r)
                  /\ ctx' = c /\ peer' = Rest
                  /\ IF r = "ok" /\ ~Stream!PongMissing(c) THEN Deliver(Payload(f)) ELSE got' = got
          \/ Answer("error") /\ UNCHANGED <<ctx, peer, got>>
      BY <1>9
      DEF Stream!PollReads, Stream!Answer, Answer, Stream!Rest, Rest, Stream!Deliver, Deliver,
          Stream!Payload, Payload, c
    <3>3. QED
      BY <3>1, <3>2 DEF Deliver
  <2>6. /\ call' \in Calls /\ call'.pc \notin {"start", "gone"} /\ ctx' \in StreamCtxs
        /\ call'.r \in {"error", "done"} => call'.pc = "idle"
    BY <1>1, <2>1, <2>4, <2>5, CallSteps DEF Results
  <2>7. CtxInv' /\ CallInv'
    BY <1>1, <1>4, <2>6, OpenKept
  <2>8. got' \in Seq(Pieces)
    <3>1. Payload(f) \in Pieces
      BY <2>3, PayloadFacts
    <3>2. got' = got \/ got' = Append(got, Payload(f))
      BY <2>5
    <3> HIDE DEF f
    <3>3. QED
      BY <1>1, <3>1, <3>2
  <2>9. PeerInv'
    BY <1>1, <2>2, <2>5, FrameTaken, PeerKept DEF PeerInv
  <2>10. QED
    BY <1>1, <2>7, <2>8, <2>9 DEF TypeInv
<1>10. CASE Stream!Tick
  <2>1. /\ call.pc = "idle" /\ UNCHANGED <<impl, peer, got>> /\ ctx \in StreamCtxs
        /\ ctx' = [ctx EXCEPT !.ping = Stream!Older(@), !.pong = Stream!Older(@)]
        /\ call' = [call EXCEPT !.quiet = FALSE]
    BY <1>2, <1>3, <1>10 DEF Stream!Tick
  <2>2. \A n \in Nat : Stream!Older(n) \in Nat
    BY DEF Stream!Older, Stream!Cap, Stream!PongTimeout, Stream!PingInterval
  <2>3. ctx' \in StreamCtxs
    BY <2>1, <2>2 DEF StreamCtxs
  <2>4. call' \in Calls /\ call'.pc = "idle"
    BY <1>1, <2>1 DEF Calls
  <2>5. CtxInv' /\ CallInv'
    BY <1>1, <1>4, <2>1, <2>3, <2>4, OpenKept
  <2>6. QED
    BY <1>1, <2>1, <2>5, PeerAlone
<1>11. QED
  BY <1>5, <1>6, <1>7, <1>8, <1>9, <1>10
  DEF Stream!Step, Stream!Call, Stream!Read, Stream!Timeouts

\* WinHTTP's.
LEMMA WrittenType ==
  ASSUME NEW buf \in Pieces, NEW at \in Nat, NEW parts \in Pieces, at <= Len(buf)
  PROVE  /\ WinHTTP!Written(buf, at, parts) \in Pieces
         /\ Len(WinHTTP!Written(buf, at, parts)) =
              IF Len(buf) < at + Len(parts) THEN at + Len(parts) ELSE Len(buf)
         /\ \A k \in 1..at : WinHTTP!Written(buf, at, parts)[k] = buf[k]
         /\ \A k \in 1..Len(parts) : WinHTTP!Written(buf, at, parts)[at + k] = parts[k]
<1> DEFINE n == IF Len(buf) < at + Len(parts) THEN at + Len(parts) ELSE Len(buf)
           v == WinHTTP!Written(buf, at, parts)
           P == Nat \X Nat
<1>1. buf \in Seq(P) /\ parts \in Seq(P)
  BY DEF Pieces
<1> HIDE DEF P
<1>2. n \in Nat /\ Len(buf) \in Nat /\ Len(parts) \in Nat /\ n >= at + Len(parts) /\ n >= Len(buf)
  BY <1>1
<1>3. v = [k \in 1..n |-> IF k \in at + 1..at + Len(parts) THEN parts[k - at] ELSE buf[k]]
  BY DEF WinHTTP!Written
<1>4. \A k \in 1..n : k \in at + 1..at + Len(parts) => k - at \in 1..Len(parts)
  BY <1>2
<1>5. \A k \in 1..n : k \notin at + 1..at + Len(parts) => k \in 1..Len(buf)
  BY <1>2
<1> HIDE DEF n
<1>6. \A k \in 1..n : v[k] \in P
  BY <1>1, <1>3, <1>4, <1>5
<1>7. v \in Seq(P) /\ Len(v) = n
  BY <1>2, <1>3, <1>6
<1>8. \A k \in 1..at : k \in 1..n /\ k \notin at + 1..at + Len(parts)
  BY <1>2
<1>9. \A k \in 1..Len(parts) :
        at + k \in 1..n /\ at + k \in at + 1..at + Len(parts) /\ (at + k) - at = k
  BY <1>2
<1>10. QED
  BY <1>3, <1>7, <1>8, <1>9 DEF n, P, Pieces

\* What leaves buf, pos and recv alone, or forgets the message that was read.
LEMMA WinHTTPKept ==
  ASSUME NEW c \in WinHTTPCtxs, NEW d \in WinHTTPFields, d.buf = c.buf, d.recv = c.recv,
         d.pos \in {0, c.pos}, d.receiving => c.receiving
  PROVE  d \in WinHTTPCtxs
<1>1. /\ c.buf \in Pieces /\ c.pos \in Nat /\ c.recv \in Nat /\ Len(c.buf) \in Nat
      /\ c.pos <= Len(c.buf) /\ c.recv <= Len(c.buf) /\ (c.receiving => c.pos <= c.recv)
  BY DEF WinHTTPCtxs, WinHTTPFields, Pieces
<1>2. /\ d.pos <= Len(d.buf) /\ d.recv <= Len(d.buf) /\ (d.receiving => d.pos <= d.recv)
  BY <1>1
<1>3. QED
  BY <1>2 DEF WinHTTPCtxs

LEMMA WinHTTPSteps ==
  ASSUME NEW c \in WinHTTPCtxs
  PROVE  /\ [c EXCEPT !.closed = TRUE] \in WinHTTPCtxs
         /\ [c EXCEPT !.read = FALSE] \in WinHTTPCtxs
         /\ [c EXCEPT !.write = FALSE] \in WinHTTPCtxs
         /\ [c EXCEPT !.sending = TRUE] \in WinHTTPCtxs
         /\ [c EXCEPT !.complete = FALSE, !.pos = 0] \in WinHTTPCtxs
         /\ [c EXCEPT !.receiving = TRUE, !.recv = c.pos] \in WinHTTPCtxs
         /\ [c EXCEPT !.closed = TRUE, !.receiving = FALSE] \in WinHTTPCtxs
         /\ [c EXCEPT !.sending = FALSE, !.write = TRUE] \in WinHTTPCtxs
         /\ [c EXCEPT !.sending = FALSE, !.closed = TRUE] \in WinHTTPCtxs
<1>1. c \in WinHTTPFields
  BY DEF WinHTTPCtxs
<1>2. [c EXCEPT !.closed = TRUE] \in WinHTTPCtxs
  BY <1>1, WinHTTPKept DEF WinHTTPFields
<1>3. [c EXCEPT !.read = FALSE] \in WinHTTPCtxs
  BY <1>1, WinHTTPKept DEF WinHTTPFields
<1>4. [c EXCEPT !.write = FALSE] \in WinHTTPCtxs
  BY <1>1, WinHTTPKept DEF WinHTTPFields
<1>5. [c EXCEPT !.sending = TRUE] \in WinHTTPCtxs
  BY <1>1, WinHTTPKept DEF WinHTTPFields
<1>6. [c EXCEPT !.complete = FALSE, !.pos = 0] \in WinHTTPCtxs
  BY <1>1, WinHTTPKept DEF WinHTTPFields
<1>7. [c EXCEPT !.receiving = TRUE, !.recv = c.pos] \in WinHTTPCtxs
  <2> DEFINE d == [c EXCEPT !.receiving = TRUE, !.recv = c.pos]
  <2>1. d \in WinHTTPFields /\ d.buf = c.buf /\ d.pos = c.pos /\ d.recv = c.pos
    BY <1>1 DEF WinHTTPFields
  <2>2. c.pos <= Len(c.buf) /\ c.pos \in Nat
    BY DEF WinHTTPCtxs, WinHTTPFields
  <2> HIDE DEF d
  <2>3. d \in WinHTTPCtxs
    BY <2>1, <2>2 DEF WinHTTPCtxs
  <2>4. QED
    BY <2>3 DEF d
<1>8. [c EXCEPT !.closed = TRUE, !.receiving = FALSE] \in WinHTTPCtxs
  BY <1>1, WinHTTPKept DEF WinHTTPFields
<1>9. [c EXCEPT !.sending = FALSE, !.write = TRUE] \in WinHTTPCtxs
  BY <1>1, WinHTTPKept DEF WinHTTPFields
<1>10. [c EXCEPT !.sending = FALSE, !.closed = TRUE] \in WinHTTPCtxs
  BY <1>1, WinHTTPKept DEF WinHTTPFields
<1>11. QED
  BY <1>2, <1>3, <1>4, <1>5, <1>6, <1>7, <1>8, <1>9, <1>10

\* The handlers of a receive's end.
LEMMA WinHTTPRead ==
  ASSUME NEW c \in WinHTTPCtxs, c.receiving, NEW parts \in Pieces,
         NEW complete \in BOOLEAN, NEW closed \in BOOLEAN
  PROVE  [c EXCEPT !.buf = WinHTTP!Written(c.buf, c.recv, parts), !.pos = c.pos + Len(parts),
                   !.closed = closed, !.complete = complete, !.read = TRUE,
                   !.receiving = FALSE] \in WinHTTPCtxs
<1> DEFINE buf == WinHTTP!Written(c.buf, c.recv, parts)
           n == Len(parts)
           d == [c EXCEPT !.buf = buf, !.pos = c.pos + n, !.closed = closed,
                          !.complete = complete, !.read = TRUE, !.receiving = FALSE]
<1>1. /\ c \in WinHTTPFields /\ c.buf \in Pieces /\ c.recv \in Nat /\ c.pos \in Nat
      /\ c.recv <= Len(c.buf) /\ c.pos <= c.recv /\ Len(c.buf) \in Nat /\ n \in Nat
  BY DEF WinHTTPCtxs, WinHTTPFields, Pieces
<1>2. buf \in Pieces /\ Len(buf) = IF Len(c.buf) < c.recv + n THEN c.recv + n ELSE Len(c.buf)
  BY <1>1, WrittenType
<1> HIDE DEF buf, n
<1>3. c.pos + n \in Nat /\ c.pos + n <= Len(buf) /\ c.recv <= Len(buf)
  BY <1>1, <1>2
<1>4. /\ d \in WinHTTPFields /\ d.buf = buf /\ d.pos = c.pos + n /\ d.recv = c.recv
      /\ d.receiving = FALSE
  BY <1>1, <1>2, <1>3 DEF WinHTTPFields
<1> HIDE DEF d
<1>5. d \in WinHTTPCtxs
  BY <1>3, <1>4 DEF WinHTTPCtxs
<1>6. QED
  BY <1>5 DEF d, buf, n

LEMMA WinHTTPTypes ==
  ASSUME TypeInv, On({"windows"}), WinHTTP!Step
  PROVE  TypeInv'
<1>1. /\ impl = "windows" /\ PeerInv /\ CtxInv /\ CallInv /\ got \in Seq(Pieces)
      /\ call \in Calls /\ impl' = impl
  BY DEF TypeInv, On, CallInv, WinHTTP!Step, WinHTTP!MTY_WebSocketConnect, WinHTTP!Connected,
         WinHTTP!NotConnected, WinHTTP!Call, WinHTTP!MTY_WebSocketDestroy, WinHTTP!Destroyed,
         WinHTTP!MTY_WebSocketRead, WinHTTP!Read, WinHTTP!ReadDone, WinHTTP!ReadMessage,
         WinHTTP!ReadReceive, WinHTTP!ReadWait, WinHTTP!Callback, WinHTTP!ws_async_read,
         WinHTTP!ws_async_error, WinHTTP!ws_async_write, WinHTTP!MTY_WebSocketWrite,
         WinHTTP!WriteEnds
<1>2. Open <=> call.pc \notin {"start", "gone"}
  BY <1>1, CtxFacts DEF CallInv
<1>3. Open => ctx \in WinHTTPCtxs
  BY <1>1, CtxFacts
<1>4. \A c \in WinHTTPCtxs : OpenCtx(impl, c)
  BY <1>1 DEF OpenCtx
<1>5. CASE WinHTTP!MTY_WebSocketConnect
  <2> DEFINE New == [st |-> "open", closed |-> FALSE, complete |-> FALSE, buf |-> <<>>,
                     pos |-> 0, read |-> FALSE, write |-> FALSE, receiving |-> FALSE,
                     recv |-> 0, sending |-> FALSE]
  <2>1. /\ call.pc = "start" /\ UNCHANGED <<impl, peer, got>>
        /\ \/ ctx' = New /\ call' = [call EXCEPT !.pc = "idle"]
           \/ ctx' = ctx /\ call' = [call EXCEPT !.pc = "gone"]
    BY <1>5 DEF WinHTTP!MTY_WebSocketConnect, WinHTTP!Connected, WinHTTP!NotConnected
  <2>2. New \in WinHTTPCtxs
    <3>1. <<>> \in Pieces /\ Len(<<>>) = 0
      BY DEF Pieces
    <3>2. QED
      BY <3>1 DEF WinHTTPCtxs, WinHTTPFields
  <2> HIDE DEF New
  <2>3. QED
    BY <1>4, <2>1, <2>2, ConnectTypes
<1>6. CASE WinHTTP!MTY_WebSocketDestroy
  BY <1>6, DestroyTypes
  DEF WinHTTP!MTY_WebSocketDestroy, WinHTTP!Destroyed, WinHTTP!Dead, Deads
<1>7. ASSUME ctx' \in WinHTTPCtxs, UNCHANGED <<peer, got>>, call' \in Calls,
             call'.pc \notin {"start", "gone"}, call'.r \in {"error", "done"} => call'.pc = "idle"
      PROVE  TypeInv'
  BY <1>1, <1>4, <1>7, OpenKept, PeerAlone
<1>8. CASE WinHTTP!MTY_WebSocketRead \/ WinHTTP!ReadDone
  <2>1. Open /\ UNCHANGED <<ctx, peer, got>> /\ (At("check") \/ Answer("done"))
    BY <1>2, <1>8
    DEF WinHTTP!MTY_WebSocketRead, WinHTTP!ReadDone, WinHTTP!MayRead, WinHTTP!At, At,
        WinHTTP!Answer, Answer
  <2>2. /\ call' \in Calls /\ call'.pc \notin {"start", "gone"}
        /\ call'.r \in {"error", "done"} => call'.pc = "idle"
    BY <1>1, <2>1, CallSteps DEF Results, Points
  <2>3. QED
    BY <1>3, <1>7, <2>1, <2>2
<1>9. CASE WinHTTP!ReadMessage
  <2> DEFINE msg == SubSeq(ctx.buf, 1, ctx.pos)
  <2>1. Open /\ UNCHANGED <<impl, peer>>
        /\ \/ /\ Answer("ok") /\ Deliver(msg)
              /\ ctx' = [ctx EXCEPT !.complete = FALSE, !.pos = 0]
           \/ Answer("error") /\ UNCHANGED <<ctx, got>>
    BY <1>2, <1>9 DEF WinHTTP!ReadMessage, WinHTTP!Answer, Answer, WinHTTP!Deliver, Deliver
  <2>2. ctx \in WinHTTPCtxs /\ ctx' \in WinHTTPCtxs /\ msg \in Pieces
    <3>1. /\ ctx \in WinHTTPCtxs /\ ctx.buf \in Pieces /\ ctx.pos \in Nat
          /\ ctx.pos <= Len(ctx.buf) /\ Len(ctx.buf) \in Nat
      BY <1>3, <2>1 DEF WinHTTPCtxs, WinHTTPFields, Pieces
    <3>2. ctx' = ctx \/ ctx' = [ctx EXCEPT !.complete = FALSE, !.pos = 0]
      BY <2>1
    <3>3. ctx' \in WinHTTPCtxs
      BY <3>1, <3>2, WinHTTPSteps
    <3>4. msg \in Pieces
      BY <3>1 DEF Pieces
    <3>5. QED
      BY <3>1, <3>3, <3>4
  <2> HIDE DEF msg
  <2>3. /\ call' \in Calls /\ call'.pc \notin {"start", "gone"}
        /\ call'.r \in {"error", "done"} => call'.pc = "idle"
    BY <1>1, <2>1, CallSteps DEF Results
  <2>4. got' \in Seq(Pieces)
    BY <1>1, <2>1, <2>2 DEF Deliver
  <2>5. QED
    BY <1>1, <1>4, <2>1, <2>2, <2>3, <2>4, OpenKept, PeerAlone
<1>10. CASE WinHTTP!ReadReceive
  <2>1. Open /\ UNCHANGED <<peer, got>>
    BY <1>2, <1>10 DEF WinHTTP!ReadReceive
  <2>2. /\ At("receive") \/ At("wait")
        /\ \/ ctx' = ctx \/ ctx' = [ctx EXCEPT !.closed = TRUE]
           \/ ctx' = [ctx EXCEPT !.receiving = TRUE, !.recv = ctx.pos]
    BY <1>10 DEF WinHTTP!ReadReceive, WinHTTP!WinHttpWebSocketReceive, WinHTTP!At, At
  <2>3. ctx' \in WinHTTPCtxs
    BY <1>3, <2>1, <2>2, WinHTTPSteps
  <2>4. /\ call' \in Calls /\ call'.pc \notin {"start", "gone"}
        /\ call'.r \in {"error", "done"} => call'.pc = "idle"
    BY <1>1, <2>2, CallSteps DEF Results, Points
  <2>5. QED
    BY <1>7, <2>1, <2>3, <2>4
<1>11. CASE WinHTTP!ReadWait
  <2>1. Open /\ UNCHANGED <<peer, got>>
    BY <1>2, <1>11 DEF WinHTTP!ReadWait
  <2>2. /\ At("check") \/ TimedOut
        /\ ctx' = ctx \/ ctx' = [ctx EXCEPT !.read = FALSE]
    BY <1>11 DEF WinHTTP!ReadWait, WinHTTP!At, At, WinHTTP!TimedOut, TimedOut
  <2>3. ctx' \in WinHTTPCtxs
    BY <1>3, <2>1, <2>2, WinHTTPSteps
  <2>4. /\ call' \in Calls /\ call'.pc \notin {"start", "gone"}
        /\ call'.r \in {"error", "done"} => call'.pc = "idle"
    BY <1>1, <2>2, CallSteps DEF Results, Points
  <2>5. QED
    BY <1>7, <2>1, <2>3, <2>4
<1>12. CASE WinHTTP!ws_async_read
  <2> DEFINE f == Head(peer.wire)
             buf == WinHTTP!Written(ctx.buf, ctx.recv, Payload(f))
  <2>1. /\ Open /\ ctx.receiving /\ peer.wire # <<>> /\ UNCHANGED <<impl, call, got>>
        /\ peer' = Rest
        /\ ctx' = [ctx EXCEPT !.buf = buf, !.pos = @ + Len(Payload(f)),
                              !.closed = @ \/ f.op = "close",
                              !.complete = f.op \in {"text", "empty", "big"} /\ f.fin,
                              !.read = TRUE, !.receiving = FALSE]
    BY <1>12 DEF WinHTTP!ws_async_read, WinHTTP!ReadComplete, WinHTTP!Arrives, WinHTTP!Rest, Rest,
                 WinHTTP!Open, Open, WinHTTP!Payload, Payload
  <2>2. PeerInv' /\ f \in Frames
    BY <1>1, <2>1, FrameTaken
  <2> DEFINE parts == Payload(f)
             complete == f.op \in {"text", "empty", "big"} /\ f.fin
             closed == ctx.closed \/ f.op = "close"
  <2>3. parts \in Pieces /\ Len(parts) \in Nat /\ complete \in BOOLEAN /\ closed \in BOOLEAN
    BY <2>2, PayloadFacts
  <2>6. ctx' = [ctx EXCEPT !.buf = buf, !.pos = ctx.pos + Len(parts), !.closed = closed,
                           !.complete = complete, !.read = TRUE, !.receiving = FALSE]
    BY <2>1
  <2>4. ctx \in WinHTTPCtxs
    BY <1>3, <2>1
  <2> HIDE DEF parts, complete, closed
  <2>7. ctx' \in WinHTTPCtxs
    <3>1. [ctx EXCEPT !.buf = WinHTTP!Written(ctx.buf, ctx.recv, parts),
                      !.pos = ctx.pos + Len(parts), !.closed = closed, !.complete = complete,
                      !.read = TRUE, !.receiving = FALSE] \in WinHTTPCtxs
      BY <2>1, <2>3, <2>4, WinHTTPRead
    <3>2. buf = WinHTTP!Written(ctx.buf, ctx.recv, parts)
      BY DEF parts
    <3> HIDE DEF buf
    <3>3. QED
      BY <2>6, <3>1, <3>2
  <2>8. CtxInv' /\ CallInv'
    BY <1>1, <1>2, <1>4, <2>1, <2>7, OpenKept DEF CallInv
  <2>9. QED
    BY <1>1, <2>1, <2>2, <2>8 DEF TypeInv
<1>13. CASE WinHTTP!ws_async_error \/ WinHTTP!ws_async_write
  <2>1. /\ Open /\ UNCHANGED <<impl, peer, call, got>>
        /\ \/ ctx' = [ctx EXCEPT !.closed = TRUE, !.receiving = FALSE]
           \/ ctx' = [ctx EXCEPT !.sending = FALSE, !.write = TRUE]
           \/ ctx' = [ctx EXCEPT !.sending = FALSE, !.closed = TRUE]
    BY <1>13 DEF WinHTTP!ws_async_error, WinHTTP!ws_async_write, WinHTTP!Open, Open
  <2>2. ctx' \in WinHTTPCtxs
    BY <1>3, <2>1, WinHTTPSteps
  <2>3. CtxInv' /\ CallInv'
    BY <1>1, <1>2, <1>4, <2>1, <2>2, OpenKept DEF CallInv
  <2>4. QED
    BY <1>1, <2>1, <2>3, PeerAlone
<1>14. CASE WinHTTP!MTY_WebSocketWrite
  <2>1. /\ call.pc = "idle" /\ call.r \notin {"error", "done"} /\ UNCHANGED <<impl, got>>
        /\ peer.extra < MaxExtra /\ call' = [call EXCEPT !.pc = "write"]
        /\ ctx' = [ctx EXCEPT !.sending = TRUE] /\ peer' = [peer EXCEPT !.extra = @ + 1]
    BY <1>14 DEF WinHTTP!MTY_WebSocketWrite, WinHTTP!MayRead
  <2>2. ctx' \in WinHTTPCtxs
    BY <1>2, <1>3, <2>1, WinHTTPSteps
  <2>3. call' \in Calls /\ call'.pc = "write" /\ call'.r = call.r
    BY <1>1, <2>1, CallSteps DEF Points
  <2>4. peer \in Peers /\ peer.extra + 1 \in 0..MaxExtra
    BY <1>1, <2>1, WireFacts, BoundsAssumption DEF PeerInv
  <2>5. PeerInv'
    <3>1. /\ peer' \in Peers /\ peer'.wire = peer.wire /\ peer'.own = peer.own
          /\ peer'.mode = peer.mode
      BY <2>1, <2>4 DEF Peers
    <3>2. QED
      BY <1>1, <3>1, WireStays
  <2>6. QED
    BY <1>1, <1>4, <2>1, <2>2, <2>3, <2>5, OpenKept DEF TypeInv
<1>15. CASE WinHTTP!WriteEnds
  <2>1. /\ call.pc = "write" /\ UNCHANGED <<impl, peer, got>>
        /\ call' = [call EXCEPT !.pc = "idle"]
        /\ ctx' = ctx \/ ctx' = [ctx EXCEPT !.write = FALSE]
    BY <1>15 DEF WinHTTP!WriteEnds
  <2>2. ctx' \in WinHTTPCtxs
    BY <1>2, <1>3, <2>1, WinHTTPSteps
  <2>3. call' \in Calls /\ call'.pc = "idle"
    BY <1>1, <2>1, CallSteps DEF Points
  <2>4. QED
    BY <1>7, <2>1, <2>2, <2>3
<1>16. QED
  BY <1>5, <1>6, <1>8, <1>9, <1>10, <1>11, <1>12, <1>13, <1>14, <1>15
  DEF WinHTTP!Step, WinHTTP!Call, WinHTTP!Read, WinHTTP!Callback

\* NSURLSession's.  A step replaces some fields of ctx, each by one of its kind.
LEMMA AppleSteps ==
  ASSUME NEW c \in AppleCtxs
  PROVE  /\ \A a \in BOOLEAN : [c EXCEPT !.conn = a] \in AppleCtxs
         /\ [c EXCEPT !.conn = TRUE, !.invalid = TRUE, !.handler = FALSE] \in AppleCtxs
         /\ \A m \in Pieces : [c EXCEPT !.handler = FALSE, !.read = TRUE, !.msg = m] \in AppleCtxs
         /\ [c EXCEPT !.handler = FALSE, !.read = TRUE, !.error = TRUE] \in AppleCtxs
         /\ [c EXCEPT !.closed = TRUE] \in AppleCtxs
         /\ [c EXCEPT !.pong = 0] \in AppleCtxs
         /\ \A n \in Nat : [c EXCEPT !.ping = n] \in AppleCtxs
         /\ \A n, o \in Nat : [c EXCEPT !.ping = n, !.pong = o] \in AppleCtxs
         /\ \A m \in Pieces :
              [c EXCEPT !.started = TRUE, !.error = FALSE, !.msg = m, !.handler = TRUE] \in AppleCtxs
         /\ \A m \in Pieces : [c EXCEPT !.read = FALSE, !.started = FALSE, !.msg = m] \in AppleCtxs
<1>1. \A a \in BOOLEAN : [c EXCEPT !.conn = a] \in AppleCtxs
  BY DEF AppleCtxs
<1>2. [c EXCEPT !.conn = TRUE, !.invalid = TRUE, !.handler = FALSE] \in AppleCtxs
  BY DEF AppleCtxs
<1>3. \A m \in Pieces : [c EXCEPT !.handler = FALSE, !.read = TRUE, !.msg = m] \in AppleCtxs
  BY DEF AppleCtxs
<1>4. [c EXCEPT !.handler = FALSE, !.read = TRUE, !.error = TRUE] \in AppleCtxs
  BY DEF AppleCtxs
<1>5. [c EXCEPT !.closed = TRUE] \in AppleCtxs /\ [c EXCEPT !.pong = 0] \in AppleCtxs
  BY DEF AppleCtxs
<1>6. \A n \in Nat : [c EXCEPT !.ping = n] \in AppleCtxs
  BY DEF AppleCtxs
<1>7. \A n, o \in Nat : [c EXCEPT !.ping = n, !.pong = o] \in AppleCtxs
  BY DEF AppleCtxs
<1>8. \A m \in Pieces :
        [c EXCEPT !.started = TRUE, !.error = FALSE, !.msg = m, !.handler = TRUE] \in AppleCtxs
  BY DEF AppleCtxs
<1>9. \A m \in Pieces : [c EXCEPT !.read = FALSE, !.started = FALSE, !.msg = m] \in AppleCtxs
  BY DEF AppleCtxs
<1>10. QED
  BY <1>1, <1>2, <1>3, <1>4, <1>5, <1>6, <1>7, <1>8, <1>9

LEMMA AppleTypes ==
  ASSUME TypeInv, On({"apple"}), Apple!Step
  PROVE  TypeInv'
<1>1. /\ impl = "apple" /\ PeerInv /\ CtxInv /\ CallInv /\ got \in Seq(Pieces)
      /\ call \in Calls /\ impl' = impl
  BY DEF TypeInv, On, CallInv, Apple!Step, Apple!MTY_WebSocketConnect, Apple!Connected,
         Apple!Call, Apple!MTY_WebSocketDestroy, Apple!MTY_WebSocketRead, Apple!Read,
         Apple!ReadEnds, Apple!ReadTimesOut, Apple!ConnectEnds, Apple!DestroyEnds,
         Apple!Callback, Apple!DidReceive, Apple!PongHandler, Apple!didBecomeInvalid, Apple!Tick,
         Apple!didOpenWithProtocol, Apple!didCloseWithCode
<1>2. Open <=> call.pc \notin {"start", "gone"}
  BY <1>1, CtxFacts DEF CallInv
<1>3. Open => ctx \in AppleCtxs
  BY <1>1, CtxFacts
<1>4. \A c \in AppleCtxs : OpenCtx(impl, c)
  BY <1>1 DEF OpenCtx
<1>5. Apple!NoMsg \in Pieces
  BY DEF Apple!NoMsg, Pieces
<1>6. ASSUME ctx' \in AppleCtxs, UNCHANGED <<peer, got>>, call' \in Calls,
             call'.pc \notin {"start", "gone"},
             call'.r \in {"error", "done"} => call'.pc \in {"idle", "destroy"}
      PROVE  TypeInv'
  BY <1>1, <1>4, <1>6, OpenKept, PeerAlone
<1>7. CASE Apple!MTY_WebSocketConnect
  <2>1. /\ call.pc = "start" /\ UNCHANGED <<impl, peer, got>>
        /\ ctx' = Apple!New /\ call' = [call EXCEPT !.pc = "connect"]
    BY <1>7 DEF Apple!MTY_WebSocketConnect
  <2>2. Apple!New \in AppleCtxs
    BY <1>5 DEF Apple!New, AppleCtxs
  <2>3. QED
    BY <1>4, <2>1, <2>2, ConnectTypes
<1>8. CASE Apple!DestroyEnds
  BY <1>3, <1>8, DestroyTypes
  DEF Apple!DestroyEnds, Apple!Dead, Deads, AppleCtxs
<1>9. CASE Apple!ConnectEnds \/ Apple!MTY_WebSocketDestroy
  <2>1. /\ call.pc \in {"connect", "idle"} /\ UNCHANGED <<impl, peer, got>>
        /\ \/ ctx' = [ctx EXCEPT !.conn = FALSE] /\ call' = [call EXCEPT !.pc = "idle"]
           \/ ctx' = ctx /\ call' = [call EXCEPT !.pc = "destroy"]
    BY <1>9
    DEF Apple!ConnectEnds, Apple!MTY_WebSocketDestroy, Apple!Connected, Apple!MayDestroy
  <2>2. ctx' \in AppleCtxs
    BY <1>2, <1>3, <2>1, AppleSteps
  <2>3. call' \in Calls /\ call'.pc \in {"idle", "destroy"}
    BY <1>1, <2>1, CallSteps DEF Points
  <2>4. QED
    BY <1>6, <2>1, <2>2, <2>3
<1>10. CASE Apple!didOpenWithProtocol \/ Apple!didBecomeInvalid
  <2>1. /\ call.pc \in {"connect", "destroy"} /\ UNCHANGED <<impl, peer, call, got>>
        /\ \/ ctx' = [ctx EXCEPT !.conn = TRUE]
           \/ ctx' = [ctx EXCEPT !.conn = TRUE, !.invalid = TRUE, !.handler = FALSE]
    BY <1>10 DEF Apple!didOpenWithProtocol, Apple!didBecomeInvalid
  <2>2. ctx' \in AppleCtxs
    BY <1>2, <1>3, <2>1, AppleSteps
  <2>3. QED
    BY <1>1, <1>6, <2>1, <2>2 DEF CallInv
<1>11. CASE Apple!DidReceive
  <2>1. /\ Open /\ UNCHANGED <<impl, call, got>>
        /\ \/ /\ peer.wire # <<>> /\ peer' = Rest
              /\ ctx' = [ctx EXCEPT !.handler = FALSE, !.read = TRUE, !.msg = Apple!NoMsg]
           \/ /\ peer.wire # <<>> /\ peer' = Rest
              /\ ctx' = [ctx EXCEPT !.handler = FALSE, !.read = TRUE,
                                    !.msg = Payload(Head(peer.wire))]
           \/ /\ peer' = peer
              /\ ctx' = [ctx EXCEPT !.handler = FALSE, !.read = TRUE, !.error = TRUE]
    BY <1>11
    DEF Apple!DidReceive, Apple!Open, Open, Apple!Arrives, Apple!Rest, Rest, Apple!Payload, Payload
  <2>2. peer.wire # <<>> => Payload(Head(peer.wire)) \in Pieces
    BY <1>1, WireFacts, PayloadFacts
  <2>3. ctx' \in AppleCtxs
    BY <1>3, <1>5, <2>1, <2>2, AppleSteps
  <2>4. PeerInv'
    BY <1>1, <2>1, FrameTaken, PeerKept DEF PeerInv
  <2>5. CtxInv' /\ CallInv'
    BY <1>1, <1>2, <1>4, <2>1, <2>3, OpenKept DEF CallInv
  <2>6. QED
    BY <1>1, <2>1, <2>4, <2>5 DEF TypeInv
<1>12. CASE Apple!didCloseWithCode
  <2>1. /\ Open /\ \E k \in DOMAIN peer.wire : peer.wire[k].op = "close"
        /\ ctx' = [ctx EXCEPT !.closed = TRUE] /\ UNCHANGED <<impl, call, got>>
        /\ peer' = [peer EXCEPT !.wire = <<Control("eof")>>, !.own = <<TRUE>>]
    BY <1>12 DEF Apple!didCloseWithCode, Apple!Open, Open, Apple!Control, Control,
                 Apple!Frame, Frame
  <2>2. ctx' \in AppleCtxs
    BY <1>3, <2>1, AppleSteps
  <2>3. PeerInv'
    BY <1>1, <2>1, WireClosed
  <2>4. CtxInv' /\ CallInv'
    BY <1>1, <1>2, <1>4, <2>1, <2>2, OpenKept DEF CallInv
  <2>5. QED
    BY <1>1, <2>1, <2>3, <2>4 DEF TypeInv
<1>13. CASE Apple!PongHandler
  <2>1. /\ Open /\ peer.wire # <<>> /\ peer' = Rest /\ UNCHANGED <<impl, call, got>>
        /\ ctx' = [ctx EXCEPT !.pong = 0]
    BY <1>13 DEF Apple!PongHandler, Apple!Open, Open, Apple!Arrives, Apple!Rest, Rest
  <2>2. ctx' \in AppleCtxs
    BY <1>3, <2>1, AppleSteps
  <2>3. PeerInv'
    BY <1>1, <2>1, FrameTaken
  <2>4. CtxInv' /\ CallInv'
    BY <1>1, <1>2, <1>4, <2>1, <2>2, OpenKept DEF CallInv
  <2>5. QED
    BY <1>1, <2>1, <2>3, <2>4 DEF TypeInv
<1>14. CASE Apple!MTY_WebSocketRead
  <2> DEFINE ping == IF ctx.ping > Apple!PingInterval THEN 0 ELSE ctx.ping
             pinged == [ctx EXCEPT !.ping = ping]
  <2>1. /\ call.pc = "idle" /\ UNCHANGED <<impl, got>>
        /\ peer' = [peer EXCEPT !.pings = IF ctx.ping > Apple!PingInterval /\ peer.mode = "up"
                                          THEN @ + 1 ELSE @]
        /\ At("wait") \/ Answer("error") \/ Answer("done")
        /\ \/ ctx' = pinged
           \/ ctx' = [pinged EXCEPT !.started = TRUE, !.error = FALSE, !.msg = Apple!NoMsg,
                                    !.handler = TRUE]
    BY <1>14 DEF Apple!MTY_WebSocketRead, Apple!MayRead, Apple!At, At, Apple!Answer, Answer
  <2>2. ctx \in AppleCtxs /\ ping \in Nat
    BY <1>2, <1>3, <2>1 DEF AppleCtxs
  <2> HIDE DEF ping
  <2>3. pinged \in AppleCtxs
    BY <2>2, AppleSteps
  <2> HIDE DEF pinged
  <2>4. ctx' \in AppleCtxs
    BY <1>5, <2>1, <2>3, AppleSteps
  <2>5. /\ call' \in Calls /\ call'.pc \in {"wait", "idle"}
        /\ call'.r \in {"error", "done"} => call'.pc = "idle"
    BY <1>1, <2>1, CallSteps DEF Results, Points
  <2>6. PeerInv'
    <3>1. peer.pings \in Nat /\ peer \in Peers
      BY <1>1, WireFacts DEF PeerInv
    <3>2. /\ peer' \in Peers /\ peer'.wire = peer.wire /\ peer'.own = peer.own
          /\ peer'.mode = peer.mode
      BY <2>1, <3>1 DEF Peers
    <3>3. QED
      BY <1>1, <3>2, WireStays
  <2>7. CtxInv' /\ CallInv'
    BY <1>1, <1>4, <2>4, <2>5, OpenKept
  <2>8. QED
    BY <1>1, <2>1, <2>6, <2>7 DEF TypeInv
<1>15. CASE Apple!ReadEnds
  <2>1. /\ call.pc = "wait" /\ UNCHANGED <<impl, peer>>
        /\ \/ Answer("error") /\ got' = got
           \/ Answer("continue") /\ got' = got
           \/ Answer("ok") /\ Deliver(ctx.msg)
        /\ \/ ctx' = [ctx EXCEPT !.read = FALSE, !.started = FALSE, !.msg = ctx.msg]
           \/ ctx' = [ctx EXCEPT !.read = FALSE, !.started = FALSE, !.msg = Apple!NoMsg]
    BY <1>15 DEF Apple!ReadEnds, Apple!Answer, Answer, Apple!Deliver, Deliver
  <2>2. ctx \in AppleCtxs /\ ctx.msg \in Pieces
    BY <1>2, <1>3, <2>1 DEF AppleCtxs
  <2>3. ctx' \in AppleCtxs
    BY <1>5, <2>1, <2>2, AppleSteps
  <2>4. /\ call' \in Calls /\ call'.pc = "idle"
    BY <1>1, <2>1, CallSteps DEF Results
  <2>5. got' \in Seq(Pieces)
    BY <1>1, <2>1, <2>2 DEF Deliver
  <2>6. CtxInv' /\ CallInv'
    BY <1>1, <1>4, <2>3, <2>4, OpenKept
  <2>7. QED
    BY <1>1, <2>1, <2>5, <2>6, PeerAlone
<1>16. CASE Apple!ReadTimesOut
  <2>1. call.pc = "wait" /\ TimedOut /\ UNCHANGED <<impl, ctx, peer, got>>
    BY <1>16 DEF Apple!ReadTimesOut, Apple!TimedOut, TimedOut
  <2>2. call' \in Calls /\ call'.pc = "idle"
    BY <1>1, <2>1, CallSteps
  <2>3. QED
    BY <1>2, <1>3, <1>6, <2>1, <2>2
<1>17. CASE Apple!Tick
  <2>1. /\ call.pc = "idle" /\ UNCHANGED <<impl, peer, got>> /\ ctx \in AppleCtxs
        /\ ctx' = [ctx EXCEPT !.ping = Apple!Older(ctx.ping), !.pong = Apple!Older(ctx.pong)]
        /\ call' = [call EXCEPT !.quiet = FALSE]
    BY <1>2, <1>3, <1>17 DEF Apple!Tick
  <2>2. Apple!Older(ctx.ping) \in Nat /\ Apple!Older(ctx.pong) \in Nat
    BY <2>1 DEF Apple!Older, Apple!Cap, Apple!PongTimeout, Apple!PingInterval, AppleCtxs
  <2>3. ctx' \in AppleCtxs
    BY <2>1, <2>2, AppleSteps
  <2>4. call' \in Calls /\ call'.pc = "idle"
    BY <1>1, <2>1 DEF Calls
  <2>5. QED
    BY <1>6, <2>1, <2>3, <2>4
<1>18. QED
  BY <1>7, <1>8, <1>9, <1>10, <1>11, <1>12, <1>13, <1>14, <1>15, <1>16, <1>17
  DEF Apple!Step, Apple!Call, Apple!Read, Apple!Callback

\* The browser's.
LEMMA WebTypes ==
  ASSUME TypeInv, WebInv, On({"web"}), Web!Step
  PROVE  TypeInv'
<1>1. /\ impl = "web" /\ PeerInv /\ CtxInv /\ CallInv /\ got \in Seq(Pieces)
      /\ call \in Calls /\ impl' = impl
  BY DEF TypeInv, On, CallInv, Web!Step, Web!MTY_WebSocketConnect, Web!Connected,
         Web!NotConnected, Web!Call, Web!MTY_WebSocketDestroy, Web!Destroyed,
         Web!MTY_WebSocketRead, Web!Read, Web!ws_read, Web!ws_read_resumes, Web!onmessage,
         Web!onclose
<1>2. Open <=> call.pc \notin {"start", "gone"}
  BY <1>1, CtxFacts DEF CallInv
<1>3. Open => ctx \in WebCtxs
  BY <1>1, CtxFacts
<1>4. \A c \in WebCtxs : OpenCtx(impl, c)
  BY <1>1 DEF OpenCtx
<1>5. CASE Web!MTY_WebSocketConnect
  <2> DEFINE New == [st |-> "open", msgs |-> <<>>, closeCode |-> 0, waiter |-> "none"]
  <2>1. /\ call.pc = "start" /\ UNCHANGED <<impl, peer, got>>
        /\ \/ ctx' = New /\ call' = [call EXCEPT !.pc = "idle"]
           \/ ctx' = ctx /\ call' = [call EXCEPT !.pc = "gone"]
    BY <1>5 DEF Web!MTY_WebSocketConnect, Web!Connected, Web!NotConnected
  <2>2. New \in WebCtxs
    BY DEF WebCtxs
  <2> HIDE DEF New
  <2>3. QED
    BY <1>4, <2>1, <2>2, ConnectTypes
<1>6. CASE Web!MTY_WebSocketDestroy
  BY <1>6, DestroyTypes DEF Web!MTY_WebSocketDestroy, Web!Destroyed, Web!Dead, Deads
<1>7. CASE Web!onmessage
  <2> DEFINE m == Payload(Head(peer.wire))
             ms == Append(ctx.msgs, m)
             w == IF ctx.waiter = "waiting" THEN "woken" ELSE ctx.waiter
  <2>1. /\ Open /\ peer.wire # <<>> /\ peer' = Rest /\ UNCHANGED <<impl, call, got>>
        /\ ctx' = [ctx EXCEPT !.msgs = ms, !.waiter = w]
    BY <1>7 DEF Web!onmessage, Web!Open, Open, Web!Arrives, Web!Rest, Rest, Web!Payload, Payload
  <2>2. m \in Pieces
    BY <1>1, <2>1, WireFacts, PayloadFacts
  <2> HIDE DEF m
  <2>3. ctx \in WebCtxs /\ ms \in Seq(Pieces) /\ w \in {"none", "waiting", "woken"}
    BY <1>3, <2>1, <2>2 DEF WebCtxs
  <2> HIDE DEF ms, w
  <2>4. ctx' \in WebCtxs
    BY <2>1, <2>3 DEF WebCtxs
  <2>5. PeerInv'
    BY <1>1, <2>1, FrameTaken
  <2>6. CtxInv' /\ CallInv'
    BY <1>1, <1>2, <1>4, <2>1, <2>4, OpenKept DEF CallInv
  <2>7. QED
    BY <1>1, <2>1, <2>5, <2>6 DEF TypeInv
<1>8. CASE Web!onclose
  <2>1. /\ Open /\ peer.wire # <<>> /\ (peer' = Rest \/ peer' = peer)
        /\ UNCHANGED <<impl, call, got>>
        /\ ctx' = [ctx EXCEPT !.closeCode = IF @ = 0 THEN 1 ELSE @]
    BY <1>8 DEF Web!onclose, Web!Open, Open, Web!Arrives, Web!Rest, Rest
  <2>2. ctx' \in WebCtxs
    BY <1>3, <2>1 DEF WebCtxs
  <2>3. PeerInv'
    BY <1>1, <2>1, FrameTaken, PeerKept DEF PeerInv
  <2>4. CtxInv' /\ CallInv'
    BY <1>1, <1>2, <1>4, <2>1, <2>2, OpenKept DEF CallInv
  <2>5. QED
    BY <1>1, <2>1, <2>3, <2>4 DEF TypeInv
<1>9. CASE Web!MTY_WebSocketRead
  <2>1. Open /\ UNCHANGED <<impl, ctx, peer, got>> /\ At("ws-read")
    BY <1>2, <1>9 DEF Web!MTY_WebSocketRead, Web!MayRead, Web!At, At
  <2>2. call' \in Calls /\ call'.pc = "ws-read" /\ call'.r = "none"
    BY <1>1, <2>1, CallSteps DEF Points
  <2>3. CtxInv' /\ CallInv'
    BY <1>1, <1>3, <1>4, <2>1, <2>2, OpenKept
  <2>4. QED
    BY <1>1, <2>1, <2>3, PeerAlone
<1>10. CASE Web!Read
  <2>1. call.pc \in {"ws-read", "await"} /\ UNCHANGED <<impl, peer>>
    BY <1>10 DEF Web!Read, Web!ws_read, Web!ws_read_resumes
  <2>2. /\ ctx \in WebCtxs /\ ctx.msgs \in Seq(Pieces)
        /\ ctx.waiter = "woken" => ctx.msgs # <<>>
    BY <1>1, <1>2, <1>3, <2>1 DEF WebInv, WebCtxs
  <2>3. \/ ctx' = ctx /\ got' = got /\ Answer("done")
        \/ /\ ctx.msgs # <<>>
           /\ \E w \in {"none", ctx.waiter} : ctx' = [ctx EXCEPT !.msgs = Tail(ctx.msgs), !.waiter = w]
           /\ \/ (Answer("continue") \/ Answer("error")) /\ got' = got
              \/ Answer("ok") /\ Deliver(Head(ctx.msgs))
        \/ /\ got' = got /\ (At("await") \/ TimedOut)
           /\ \E w \in {"none", "waiting"} :
                \/ ctx' = [ctx EXCEPT !.msgs = ctx.msgs, !.waiter = w]
                \/ ctx.msgs # <<>> /\ ctx' = [ctx EXCEPT !.msgs = Tail(ctx.msgs), !.waiter = w]
    <3>1. CASE Web!ws_read
      <4>1. CASE ctx.closeCode # 0
        BY <3>1, <4>1 DEF Web!ws_read, Web!Answer, Answer
      <4>2. CASE ctx.closeCode = 0 /\ ctx.msgs # <<>> /\ Head(ctx.msgs) # <<>>
        <5>1. ctx' = [ctx EXCEPT !.msgs = Tail(ctx.msgs), !.waiter = ctx.waiter]
          BY <2>2, <3>1, <4>2 DEF Web!ws_read, WebCtxs
        <5>2. \/ (Answer("continue") \/ Answer("error")) /\ got' = got
              \/ Answer("ok") /\ Deliver(Head(ctx.msgs))
          BY <3>1, <4>2
          DEF Web!ws_read, Web!AnswerWith, Web!Answer, Answer, Web!Deliver, Deliver
        <5>3. QED
          BY <4>2, <5>1, <5>2
      <4>3. CASE ctx.closeCode = 0 /\ ~ (ctx.msgs # <<>> /\ Head(ctx.msgs) # <<>>)
        BY <3>1, <4>3 DEF Web!ws_read, Web!At, At
      <4>4. QED
        BY <4>1, <4>2, <4>3
    <3>2. CASE Web!ws_read_resumes
      <4>1. CASE ctx.waiter = "woken"
        <5>1. ctx' = [ctx EXCEPT !.msgs = Tail(ctx.msgs), !.waiter = "none"]
          BY <2>2, <3>2, <4>1 DEF Web!ws_read_resumes, WebCtxs
        <5>2. \/ (Answer("continue") \/ Answer("error")) /\ got' = got
              \/ Answer("ok") /\ Deliver(Head(ctx.msgs))
          BY <3>2, <4>1
          DEF Web!ws_read_resumes, Web!AnswerWith, Web!Answer, Answer, Web!Deliver, Deliver
        <5>3. QED
          BY <2>2, <4>1, <5>1, <5>2
      <4>2. CASE ctx.waiter # "woken"
        <5>1. ctx' = [ctx EXCEPT !.msgs = ctx.msgs, !.waiter = "none"]
          BY <2>2, <3>2, <4>2 DEF Web!ws_read_resumes, WebCtxs
        <5>2. got' = got /\ TimedOut
          BY <3>2, <4>2 DEF Web!ws_read_resumes, Web!TimedOut, TimedOut
        <5>3. QED
          BY <5>1, <5>2
      <4>3. QED
        BY <4>1, <4>2
    <3>3. QED
      BY <1>10, <3>1, <3>2 DEF Web!Read
  <2>4. /\ call' \in Calls /\ call'.pc \in {"idle", "await"}
        /\ call'.r \in {"error", "done"} => call'.pc = "idle"
    BY <1>1, <2>3, CallSteps DEF Results, Points
  <2>5. ctx.msgs # <<>> => Tail(ctx.msgs) \in Seq(Pieces) /\ Head(ctx.msgs) \in Pieces
    BY <2>2
  <2>6. ctx' \in WebCtxs
    <3>1. \A ms \in Seq(Pieces), w \in {"none", "waiting", "woken"} :
            [ctx EXCEPT !.msgs = ms, !.waiter = w] \in WebCtxs
      BY <2>2 DEF WebCtxs
    <3>2. ctx.waiter \in {"none", "waiting", "woken"}
      BY <2>2 DEF WebCtxs
    <3>3. \/ ctx' = ctx
          \/ \E ms \in Seq(Pieces), w \in {"none", "waiting", "woken"} :
               ctx' = [ctx EXCEPT !.msgs = ms, !.waiter = w]
      <4>1. CASE ctx' = ctx
        BY <4>1
      <4>2. CASE \E w \in {"none", ctx.waiter} :
                   ctx.msgs # <<>> /\ ctx' = [ctx EXCEPT !.msgs = Tail(ctx.msgs), !.waiter = w]
        BY <2>5, <3>2, <4>2
      <4>3. CASE \E w \in {"none", "waiting"} : ctx' = [ctx EXCEPT !.msgs = ctx.msgs, !.waiter = w]
        BY <2>2, <4>3
      <4>4. CASE \E w \in {"none", "waiting"} :
                   ctx.msgs # <<>> /\ ctx' = [ctx EXCEPT !.msgs = Tail(ctx.msgs), !.waiter = w]
        BY <2>5, <4>4
      <4>5. QED
        BY <2>3, <4>1, <4>2, <4>3, <4>4
    <3>4. QED
      BY <2>2, <3>1, <3>3
  <2>7. got' \in Seq(Pieces)
    <3>1. got' = got \/ (got' = Append(got, Head(ctx.msgs)) /\ ctx.msgs # <<>>)
      BY <2>3 DEF Deliver
    <3>2. QED
      BY <1>1, <2>5, <3>1
  <2>8. CtxInv' /\ CallInv'
    BY <1>1, <1>4, <2>4, <2>6, OpenKept
  <2>9. QED
    BY <1>1, <2>1, <2>7, <2>8, PeerAlone
<1>11. QED
  BY <1>5, <1>6, <1>7, <1>8, <1>9, <1>10 DEF Web!Step, Web!Call

-----------------------------------------------------------------------------
(* Type correctness.                                                         *)

LEMMA InitTypes ==
  ASSUME Init
  PROVE  TypeInv /\ WebInv
<1>1. /\ impl \in Impls /\ got = <<>> /\ ctx \in Deads /\ ~Open
      /\ call \in Calls /\ call.pc = "start" /\ call.r = "none"
  BY DEF Init, Dead, Deads, Open, Calls, Points, Results
<1>2. /\ peer \in Peers /\ peer.wire = <<>> /\ peer.own = <<>> /\ peer.sent = 0
  BY BoundsAssumption DEF Init, PeerInit, Peers
<1>3. PeerInv
  BY <1>2 DEF PeerInv
<1>4. QED
  BY <1>1, <1>2, <1>3 DEF TypeInv, WebInv, CtxInv, CallInv

\* The server's steps leave the caller alone, each implementation's leave the others alone.
LEMMA WebWaits ==
  ASSUME TypeInv, WebInv, Next
  PROVE  WebInv'
<1>1. CASE Server \/ AnswerPing
  BY <1>1 DEF WebInv, Server, SendMessage, SendExtra, AnswerPing, Open
<1>2. CASE impl # "web" /\ ~ (Server \/ AnswerPing)
  <2>1. impl' = impl
    BY <1>2 DEF Next, On, Stream!Step, Stream!MTY_WebSocketConnect, Stream!Connected,
         Stream!NotConnected, Stream!Call, Stream!MTY_WebSocketDestroy, Stream!Destroyed,
         Stream!MTY_WebSocketRead, Stream!Read, Stream!PollTimesOut, Stream!PollReads, Stream!Tick,
         WinHTTP!Step, WinHTTP!MTY_WebSocketConnect, WinHTTP!Connected,
         WinHTTP!NotConnected, WinHTTP!Call, WinHTTP!MTY_WebSocketDestroy, WinHTTP!Destroyed,
         WinHTTP!MTY_WebSocketRead, WinHTTP!Read, WinHTTP!ReadDone, WinHTTP!ReadMessage,
         WinHTTP!ReadReceive, WinHTTP!ReadWait, WinHTTP!Callback, WinHTTP!ws_async_read,
         WinHTTP!ws_async_error, WinHTTP!ws_async_write, WinHTTP!MTY_WebSocketWrite,
         WinHTTP!WriteEnds,
         Apple!Step, Apple!MTY_WebSocketConnect, Apple!Connected,
         Apple!Call, Apple!MTY_WebSocketDestroy, Apple!MTY_WebSocketRead, Apple!Read,
         Apple!ReadEnds, Apple!ReadTimesOut, Apple!ConnectEnds, Apple!DestroyEnds,
         Apple!Callback, Apple!DidReceive, Apple!PongHandler, Apple!didBecomeInvalid, Apple!Tick,
         Apple!didOpenWithProtocol, Apple!didCloseWithCode
  <2>2. QED
    BY <1>2, <2>1 DEF WebInv
<1>3. CASE impl = "web" /\ Web!Step
  <2>1. Open => ctx \in WebCtxs
    BY <1>3, CtxFacts DEF TypeInv
  <2>2. Open <=> call.pc \notin {"start", "gone"}
    BY CtxFacts DEF TypeInv, CallInv
  <2>3. CASE Web!MTY_WebSocketConnect
    BY <1>3, <2>2, <2>3
    DEF WebInv, Web!MTY_WebSocketConnect, Web!Connected, Web!NotConnected, Open
  <2>4. CASE Web!MTY_WebSocketDestroy
    BY <2>4 DEF WebInv, Web!MTY_WebSocketDestroy, Web!Destroyed, Web!Dead, Open
  <2>5. CASE Web!onmessage
    <3>1. Open /\ ctx \in WebCtxs /\ call' = call
      BY <2>1, <2>5 DEF Web!onmessage, Web!Open, Open
    <3>2. PICK m : ctx' = [ctx EXCEPT !.msgs = Append(ctx.msgs, m),
                                     !.waiter = IF @ = "waiting" THEN "woken" ELSE @]
      BY <2>5 DEF Web!onmessage
    <3>3. /\ ctx'.waiter # "none" => ctx.waiter # "none"
          /\ ctx'.msgs = Append(ctx.msgs, m) /\ ctx.msgs \in Seq(Pieces)
      BY <3>1, <3>2 DEF WebCtxs
    <3>4. ctx'.msgs # <<>>
      BY <3>3
    <3>5. QED
      BY <1>3, <3>1, <3>3, <3>4 DEF WebInv
  <2>6. CASE Web!onclose
    <3>1. Open /\ ctx \in WebCtxs /\ call' = call
      BY <2>1, <2>6 DEF Web!onclose, Web!Open, Open
    <3>2. ctx'.waiter = ctx.waiter /\ ctx'.msgs = ctx.msgs
      BY <2>6, <3>1 DEF Web!onclose, WebCtxs
    <3>3. QED
      BY <1>3, <3>1, <3>2 DEF WebInv
  <2>7. CASE Web!MTY_WebSocketRead
    BY <1>3, <2>2, <2>7 DEF WebInv, Web!MTY_WebSocketRead, Web!MayRead, Open
  <2>8. CASE Web!ws_read
    <3>1. Open /\ ctx \in WebCtxs /\ ctx.waiter = "none"
      BY <1>3, <2>1, <2>2, <2>8 DEF WebInv, Web!ws_read
    <3>2. \/ ctx'.waiter = "none"
          \/ ctx'.waiter = "waiting" /\ call'.pc = "await"
      <4>1. call \in Calls
        BY DEF TypeInv, CallInv
      <4>2. QED
        BY <2>8, <3>1, <4>1 DEF Web!ws_read, Web!At, WebCtxs, Calls
    <3>3. QED
      BY <3>2 DEF WebInv
  <2>9. CASE Web!ws_read_resumes
    <3>1. Open /\ ctx \in WebCtxs
      BY <2>1, <2>2, <2>9 DEF Web!ws_read_resumes
    <3>2. ctx'.waiter = "none"
      BY <2>9, <3>1 DEF Web!ws_read_resumes, WebCtxs
    <3>3. QED
      BY <3>2 DEF WebInv
  <2>10. QED
    BY <1>3, <2>3, <2>4, <2>5, <2>6, <2>7, <2>8, <2>9 DEF Web!Step, Web!Call, Web!Read
<1>4. QED
  BY <1>1, <1>2, <1>3 DEF Next, On, Streams

LEMMA NextTypes ==
  ASSUME TypeInv, WebInv, [Next]_vars
  PROVE  TypeInv' /\ WebInv'
<1>1. CASE Next
  BY <1>1, ServerTypes, StreamTypes, WinHTTPTypes, AppleTypes, WebTypes, WebWaits DEF Next
<1>2. CASE UNCHANGED vars
  <2>1. UNCHANGED <<impl, peer, ctx, call, got>>
    BY <1>2 DEF vars
  <2>2. Open <=> call.pc \notin {"start", "gone"}
    BY CtxFacts DEF TypeInv, CallInv
  <2>3. CtxInv' /\ CallInv' /\ WebInv'
    BY <2>1 DEF TypeInv, WebInv, CtxInv, OpenCtx, CallInv, Open
  <2>4. QED
    BY <2>1, <2>3, PeerAlone DEF TypeInv
<1>3. QED
  BY <1>1, <1>2

\* Whatever a call, a callback or the server does, the state stays one that the code has a
\* case for: a caller that may read has an open connection, every frame on the wire has its
\* place in a TLS record, and the server stays within its bounds.
THEOREM TypeCorrect == Spec => []TypeOK
<1>1. Init => TypeInv /\ WebInv
  BY InitTypes
<1>2. TypeInv /\ WebInv /\ [Next]_vars => (TypeInv /\ WebInv)'
  BY NextTypes
<1>3. TypeInv /\ WebInv => TypeOK
  <2>1. SUFFICES ASSUME TypeInv, WebInv PROVE TypeOK
    OBVIOUS
  <2>2. /\ impl \in Impls /\ call.r \in Results
        /\ peer.sent \in 0..MaxMsgs /\ peer.extra \in 0..MaxExtra
        /\ peer.mode \in {"up", "silent", "closed"} /\ Len(peer.own) = Len(peer.wire)
    BY <2>1 DEF TypeInv, CallInv, PeerInv, Peers, Calls
  <2>3. ctx.st \in {"none", "open"}
    BY <2>1 DEF TypeInv, CtxInv, OpenCtx, Deads, StreamCtxs, WinHTTPCtxs, WinHTTPFields, AppleCtxs,
                WebCtxs
  <2>4. call.pc = "idle" => ctx.st = "open"
    BY <2>1, CtxFacts DEF TypeInv, CallInv, Open
  <2>5. QED
    BY <2>2, <2>3, <2>4 DEF TypeOK
<1>4. QED
  BY <1>1, <1>2, <1>3, PTL DEF Spec

-----------------------------------------------------------------------------
(* Callbacks.                                                                *)

\* When conn is set after MTY_WebSocketConnect, the session has said that it is invalid; so
\* MTY_WebSocketDestroy has waited for that when it frees ctx.
LateInv ==
  /\ ~Open => ~ctx.late
  /\ impl = "apple" /\ Open /\ call.pc # "connect" /\ ctx.conn => ctx.invalid

LEMMA AppleLate ==
  ASSUME "lateopen" \notin Faults, TypeInv, LateInv, On({"apple"}), Apple!Step
  PROVE  LateInv'
<1>1. impl = "apple" /\ call \in Calls /\ (Open => ctx \in AppleCtxs)
  BY CtxFacts DEF TypeInv, CallInv, On
<1>2. Open <=> call.pc \notin {"start", "gone"}
  BY CtxFacts DEF TypeInv, CallInv
<1>3. CASE Apple!MTY_WebSocketConnect
  BY <1>1, <1>3 DEF Apple!MTY_WebSocketConnect, Apple!New, LateInv, Open, Calls
<1>4. CASE Apple!didOpenWithProtocol
  <2>1. call.pc = "connect" /\ call' = call /\ ctx' = [ctx EXCEPT !.conn = TRUE] /\ Open
    BY <1>2, <1>4 DEF Apple!didOpenWithProtocol
  <2>2. ctx'.st = "open"
    BY <1>1, <2>1 DEF AppleCtxs
  <2>3. QED
    BY <2>1, <2>2 DEF LateInv, Open
<1>5. CASE Apple!ConnectEnds
  <2>1. /\ call.pc = "connect" /\ Open
        /\ \/ ctx' = [ctx EXCEPT !.conn = FALSE]
           \/ ctx' = ctx /\ ~ctx.conn
    BY <1>2, <1>5 DEF Apple!ConnectEnds, Apple!Connected
  <2>2. ctx'.st = "open" /\ ~ctx'.conn
    BY <1>1, <2>1 DEF AppleCtxs
  <2>3. QED
    BY <2>2 DEF LateInv, Open
<1>6. CASE Apple!didBecomeInvalid
  <2>1. /\ Open /\ ctx' = [ctx EXCEPT !.conn = TRUE, !.invalid = TRUE, !.handler = FALSE]
    BY <1>2, <1>6 DEF Apple!didBecomeInvalid
  <2>2. ctx'.st = "open" /\ ctx'.invalid
    BY <1>1, <2>1 DEF AppleCtxs
  <2>3. QED
    BY <2>2 DEF LateInv, Open
<1>7. CASE Apple!DestroyEnds
  <2>1. Open /\ ctx.conn /\ ctx.invalid /\ ctx' = [Apple!Dead EXCEPT !.late = ~ctx.invalid]
    BY <1>1, <1>2, <1>7 DEF Apple!DestroyEnds, LateInv
  <2>2. ctx'.st = "none" /\ ctx'.late = FALSE
    BY <2>1 DEF Apple!Dead
  <2>3. QED
    BY <2>2 DEF LateInv, Open
<1>8. ASSUME Open, call.pc # "connect", ctx'.st = "open", ctx'.conn = ctx.conn,
             ctx'.invalid = ctx.invalid
      PROVE  LateInv'
  BY <1>1, <1>8 DEF LateInv, Open
<1>9. CASE Apple!MTY_WebSocketDestroy \/ Apple!ReadTimesOut
  <2>1. call.pc \in {"idle", "wait"} /\ ctx' = ctx
    BY <1>9 DEF Apple!MTY_WebSocketDestroy, Apple!MayDestroy, Apple!ReadTimesOut
  <2>2. QED
    BY <1>2, <1>8, <2>1 DEF Open
<1>10. CASE Apple!MTY_WebSocketRead \/ Apple!Tick \/ Apple!ReadEnds
  <2>1. call.pc \in {"idle", "wait"} /\ Open /\ ctx \in AppleCtxs
    BY <1>1, <1>2, <1>10
    DEF Apple!MTY_WebSocketRead, Apple!MayRead, Apple!Tick, Apple!ReadEnds
  <2>2. CASE Apple!MTY_WebSocketRead
    BY <1>8, <2>1, <2>2 DEF Apple!MTY_WebSocketRead, AppleCtxs
  <2>3. CASE Apple!Tick \/ Apple!ReadEnds
    BY <1>8, <2>1, <2>3 DEF Apple!Tick, Apple!ReadEnds, AppleCtxs
  <2>4. QED
    BY <1>10, <2>2, <2>3
<1>11. CASE Apple!DidReceive \/ Apple!PongHandler \/ Apple!didCloseWithCode
  <2>1. /\ Open /\ call' = call /\ ctx \in AppleCtxs
        /\ ctx'.st = "open" /\ ctx'.conn = ctx.conn /\ ctx'.invalid = ctx.invalid
    BY <1>1, <1>11
    DEF Apple!DidReceive, Apple!PongHandler, Apple!didCloseWithCode, Apple!Open, Open, AppleCtxs
  <2>2. QED
    BY <1>1, <2>1 DEF LateInv, Open
<1>12. QED
  BY <1>3, <1>4, <1>5, <1>6, <1>7, <1>9, <1>10, <1>11
  DEF Apple!Step, Apple!Call, Apple!Read, Apple!Callback

LEMMA NextLate ==
  ASSUME "lateopen" \notin Faults, TypeInv, WebInv, LateInv, [Next]_vars
  PROVE  LateInv'
<1>1. CASE On({"apple"}) /\ Apple!Step
  BY <1>1, AppleLate
<1>2. CASE Server \/ AnswerPing \/ UNCHANGED vars
  BY <1>2 DEF vars, Server, SendMessage, SendExtra, AnswerPing, LateInv, Open
<1>3. CASE /\ impl # "apple" /\ impl' = impl
           /\ (~Open' => ctx' = Dead \/ ctx' = ctx)
  <2>1. ~Open' => ~ctx'.late
    BY <1>3 DEF LateInv, Open, Dead
  <2>2. QED
    BY <1>3, <2>1 DEF LateInv
<1>4. TypeInv'
  BY NextTypes
<1>5. call \in Calls /\ (Open' <=> call'.pc \notin {"start", "gone"})
  BY <1>4
  DEF TypeInv, CallInv, CtxInv, OpenCtx, Deads, StreamCtxs, WinHTTPCtxs, WinHTTPFields, AppleCtxs,
      WebCtxs, Open
<1>6. CASE On(Streams) /\ Stream!Step
  <2>1. impl # "apple" /\ impl' = impl
    BY <1>6 DEF On, Streams, Stream!Step, Stream!MTY_WebSocketConnect, Stream!Connected,
         Stream!NotConnected, Stream!Call, Stream!MTY_WebSocketDestroy, Stream!Destroyed,
         Stream!MTY_WebSocketRead, Stream!Read, Stream!PollTimesOut, Stream!PollReads, Stream!Tick
  <2>2. CASE Stream!MTY_WebSocketConnect \/ Stream!MTY_WebSocketDestroy
    BY <1>3, <2>1, <2>2
    DEF Stream!MTY_WebSocketConnect, Stream!Connected, Stream!NotConnected, Stream!New,
        Stream!MTY_WebSocketDestroy, Stream!Destroyed, Stream!Dead, Dead, Open
  <2>3. CASE Stream!Read \/ \E t \in {"zero", "some"} : Stream!MTY_WebSocketRead(t)
    <3>1. \/ At("poll") \/ TimedOut
          \/ \E r \in {"error", "done", "continue", "ok"} : Answer(r)
      BY <2>3
      DEF Stream!Read, Stream!MTY_WebSocketRead, Stream!PollTimesOut, Stream!PollReads, Stream!At,
          At, Stream!TimedOut, TimedOut, Stream!Answer, Answer, Stream!FrameResults
    <3>2. call'.pc \in {"poll", "idle"}
      BY <1>5, <3>1, CallSteps DEF Points, Results
    <3>3. QED
      BY <1>3, <1>5, <2>1, <3>2
  <2>4. CASE Stream!Tick
    <3>1. call'.pc = "idle"
      BY <1>5, <2>4 DEF Stream!Tick, Calls
    <3>2. QED
      BY <1>3, <1>5, <2>1, <3>1
  <2>5. QED
    BY <1>6, <2>2, <2>3, <2>4 DEF Stream!Step, Stream!Call, Stream!Timeouts
<1>7. CASE On({"windows"}) /\ WinHTTP!Step
  <2>1. impl # "apple" /\ impl' = impl
    BY <1>7 DEF On, WinHTTP!Step, WinHTTP!MTY_WebSocketConnect, WinHTTP!Connected,
         WinHTTP!NotConnected, WinHTTP!Call, WinHTTP!MTY_WebSocketDestroy, WinHTTP!Destroyed,
         WinHTTP!MTY_WebSocketRead, WinHTTP!Read, WinHTTP!ReadDone, WinHTTP!ReadMessage,
         WinHTTP!ReadReceive, WinHTTP!ReadWait, WinHTTP!Callback, WinHTTP!ws_async_read,
         WinHTTP!ws_async_error, WinHTTP!ws_async_write, WinHTTP!MTY_WebSocketWrite,
         WinHTTP!WriteEnds
  <2>2. CASE WinHTTP!MTY_WebSocketConnect \/ WinHTTP!MTY_WebSocketDestroy
    BY <1>3, <2>1, <2>2
    DEF WinHTTP!MTY_WebSocketConnect, WinHTTP!Connected, WinHTTP!NotConnected,
        WinHTTP!MTY_WebSocketDestroy, WinHTTP!Destroyed, WinHTTP!Dead, Dead, Open
  <2>3. CASE WinHTTP!MTY_WebSocketRead \/ WinHTTP!Read
    <3>1. At("check") \/ At("receive") \/ At("wait") \/ TimedOut \/ Answer("ok") \/ Answer("error")
          \/ Answer("done")
      BY <2>3
      DEF WinHTTP!MTY_WebSocketRead, WinHTTP!Read, WinHTTP!ReadDone, WinHTTP!ReadMessage,
          WinHTTP!ReadReceive, WinHTTP!ReadWait, WinHTTP!At, At, WinHTTP!TimedOut, TimedOut,
          WinHTTP!Answer, Answer
    <3>2. call'.pc \in {"check", "receive", "wait", "idle"}
      BY <1>5, <3>1, CallSteps DEF Points, Results
    <3>3. QED
      BY <1>3, <1>5, <2>1, <3>2
  <2>4. CASE WinHTTP!Callback
    <3>1. Open /\ ctx \in WinHTTPCtxs /\ call' = call
      BY <1>7, <2>4, CtxFacts
      DEF TypeInv, On, WinHTTP!Callback, WinHTTP!ws_async_read, WinHTTP!ws_async_error,
          WinHTTP!ws_async_write, WinHTTP!Open, Open
    <3>2. call.pc \notin {"start", "gone"}
      BY <3>1, CtxFacts DEF TypeInv, CallInv
    <3>3. QED
      BY <1>3, <1>5, <2>1, <3>1, <3>2
  <2>5. CASE WinHTTP!MTY_WebSocketWrite \/ WinHTTP!WriteEnds
    <3>1. call'.pc \in {"write", "idle"}
      BY <1>5, <2>5 DEF WinHTTP!MTY_WebSocketWrite, WinHTTP!WriteEnds, Calls
    <3>2. QED
      BY <1>3, <1>5, <2>1, <3>1
  <2>6. QED
    BY <1>7, <2>2, <2>3, <2>4, <2>5 DEF WinHTTP!Step, WinHTTP!Call
<1>8. CASE On({"web"}) /\ Web!Step
  <2>1. impl # "apple" /\ impl' = impl
    BY <1>8 DEF On, Web!Step, Web!MTY_WebSocketConnect, Web!Connected,
         Web!NotConnected, Web!Call, Web!MTY_WebSocketDestroy, Web!Destroyed,
         Web!MTY_WebSocketRead, Web!Read, Web!ws_read, Web!ws_read_resumes, Web!onmessage,
         Web!onclose
  <2>2. CASE Web!MTY_WebSocketConnect \/ Web!MTY_WebSocketDestroy
    BY <1>3, <2>1, <2>2
    DEF Web!MTY_WebSocketConnect, Web!Connected, Web!NotConnected,
        Web!MTY_WebSocketDestroy, Web!Destroyed, Web!Dead, Dead, Open
  <2>3. CASE Web!MTY_WebSocketRead \/ Web!Read
    <3>1. At("ws-read") \/ At("await") \/ TimedOut \/ Answer("ok") \/ Answer("error")
          \/ Answer("done") \/ Answer("continue")
      BY <2>3
      DEF Web!MTY_WebSocketRead, Web!Read, Web!ws_read, Web!ws_read_resumes, Web!AnswerWith,
          Web!At, At, Web!TimedOut, TimedOut, Web!Answer, Answer
    <3>2. call'.pc \in {"ws-read", "await", "idle"}
      BY <1>5, <3>1, CallSteps DEF Points, Results
    <3>3. QED
      BY <1>3, <1>5, <2>1, <3>2
  <2>4. CASE Web!onmessage \/ Web!onclose
    <3>1. Open /\ call' = call
      BY <2>4 DEF Web!onmessage, Web!onclose, Web!Open, Open
    <3>2. call.pc \notin {"start", "gone"}
      BY <3>1, CtxFacts DEF TypeInv, CallInv
    <3>3. QED
      BY <1>3, <1>5, <2>1, <3>1, <3>2
  <2>5. QED
    BY <1>8, <2>2, <2>3, <2>4 DEF Web!Step, Web!Call
<1>9. QED
  BY <1>1, <1>2, <1>6, <1>7, <1>8 DEF Next

\* When every connection that opens does so before its timeout, MTY_WebSocketDestroy frees
\* ctx only after the last callback that was given it: for Apple that its wait for conn
\* cannot be ended by the signal of the open, which shares conn.
THEOREM CallbacksAreDone ==
  ASSUME "lateopen" \notin Faults
  PROVE  Spec => []CallbacksDone
<1>1. Init => TypeInv /\ WebInv /\ LateInv
  BY InitTypes DEF Init, Dead, Open, LateInv
<1>2. TypeInv /\ WebInv /\ LateInv /\ [Next]_vars => (TypeInv /\ WebInv /\ LateInv)'
  BY NextTypes, NextLate
<1>3. TypeInv /\ WebInv /\ LateInv => CallbacksDone
  BY DEF LateInv, CallbacksDone
<1>4. QED
  BY <1>1, <1>2, <1>3, PTL DEF Spec


-----------------------------------------------------------------------------
(* What was received and what is on the wire, one behind the other.          *)

LEMMA SameSeq ==
  ASSUME NEW u \in Seq(Nat), NEW v \in Seq(Nat), Len(u) = Len(v), \A i \in 1..Len(u) : u[i] = v[i]
  PROVE  u = v
<1>1. u = [i \in 1..Len(u) |-> u[i]] /\ v = [i \in 1..Len(u) |-> v[i]]
  OBVIOUS
<1>2. QED
  BY <1>1

LEMMA JoinFacts ==
  ASSUME NEW a \in Seq(Nat), NEW b \in Seq(Nat)
  PROVE  /\ a \o b \in Seq(Nat) /\ <<>> \o b = b
         /\ a # <<>> => /\ a \o b # <<>> /\ Head(a \o b) = Head(a)
                        /\ Tail(a \o b) = Tail(a) \o b /\ Tail(a) \in Seq(Nat)
         /\ b # <<>> => Append(a, Head(b)) \o Tail(b) = a \o b /\ Tail(b) \in Seq(Nat)
<1>1. a \o b \in Seq(Nat) /\ <<>> \o b = b
  OBVIOUS
<1>2. a # <<>> => a \o b # <<>> /\ Head(a \o b) = Head(a) /\ Tail(a) \in Seq(Nat)
  OBVIOUS
<1>3. a # <<>> => Tail(a \o b) = Tail(a) \o b
  <2> DEFINE u == Tail(a \o b)
             v == Tail(a) \o b
  <2>1. HAVE a # <<>>
  <2>2. /\ u \in Seq(Nat) /\ v \in Seq(Nat) /\ Len(u) = Len(a) + Len(b) - 1 /\ Len(v) = Len(u)
        /\ Len(a) \in Nat \ {0} /\ Len(b) \in Nat
    BY <2>1
  <2>3. \A i \in 1..Len(u) : u[i] = v[i]
    <3>1. TAKE i \in 1..Len(u)
    <3>2. u[i] = (a \o b)[i + 1] /\ i \in Nat
      BY <2>1, <2>2
    <3>3. CASE i < Len(a)
      BY <2>1, <2>2, <3>2, <3>3
    <3>4. CASE i >= Len(a)
      BY <2>1, <2>2, <3>2, <3>4
    <3>5. QED
      BY <2>2, <3>2, <3>3, <3>4
  <2> HIDE DEF u, v
  <2>4. u = v
    BY <2>2, <2>3, SameSeq
  <2>5. QED
    BY <2>4 DEF u, v
<1>4. b # <<>> => Append(a, Head(b)) \o Tail(b) = a \o b /\ Tail(b) \in Seq(Nat)
  <2> DEFINE u == Append(a, Head(b)) \o Tail(b)
             v == a \o b
  <2>1. HAVE b # <<>>
  <2>2. /\ u \in Seq(Nat) /\ v \in Seq(Nat) /\ Len(u) = Len(a) + Len(b) /\ Len(v) = Len(u)
        /\ Len(b) \in Nat \ {0} /\ Len(a) \in Nat /\ Tail(b) \in Seq(Nat)
    BY <2>1
  <2>3. \A i \in 1..Len(u) : u[i] = v[i]
    <3>1. TAKE i \in 1..Len(u)
    <3>2. CASE i <= Len(a)
      BY <2>1, <2>2, <3>2
    <3>3. CASE i = Len(a) + 1
      BY <2>1, <2>2, <3>3
    <3>4. CASE i > Len(a) + 1
      BY <2>1, <2>2, <3>4
    <3>5. QED
      BY <2>2, <3>2, <3>3, <3>4
  <2> HIDE DEF u, v
  <2>4. u = v
    BY <2>2, <2>3, SameSeq
  <2>5. QED
    BY <2>2, <2>4 DEF u, v
<1>5. QED
  BY <1>1, <1>2, <1>3, <1>4

\* The first of the wire is taken, which is no part, whatever was received before.
LEMMA NothingMiddle ==
  ASSUME NEW a \in Seq(Nat), NEW b \in Seq(Nat), NEW K, InOrder(a \o b, K), b # <<>>, Head(b) = 0
  PROVE  InOrder(a \o Tail(b), K)
<1> DEFINE s == a \o b
           t == a \o Tail(b)
           n == Len(a)
           up(i) == IF i <= n THEN i ELSE i + 1
<1>1. /\ n \in Nat /\ Len(b) \in Nat \ {0} /\ s \in Seq(Nat) /\ Len(s) = n + Len(b)
      /\ \A i \in 1..n : s[i] = a[i]
      /\ \A i \in 1..Len(b) : s[n + i] = b[i]
  OBVIOUS
<1>2. /\ t \in Seq(Nat) /\ Len(t) = n + Len(b) - 1
      /\ \A i \in 1..n : t[i] = a[i]
      /\ \A i \in 1..Len(b) - 1 : t[n + i] = b[i + 1]
  OBVIOUS
<1>3. b[1] = 0 /\ s[n + 1] = 0
  BY <1>1
<1> HIDE DEF s, t, n
<1>4. \A i \in 1..Len(t) : up(i) \in 1..Len(s) /\ t[i] = s[up(i)]
  <2>1. TAKE i \in 1..Len(t)
  <2>2. CASE i <= n
    BY <1>1, <1>2, <2>2
  <2>3. CASE i > n
    <3>1. i - n \in 1..Len(b) - 1 /\ n + (i - n) = i /\ (i - n) + 1 \in 1..Len(b)
          /\ n + ((i - n) + 1) = i + 1 /\ i + 1 <= Len(s)
      BY <1>1, <1>2, <2>3
    <3>2. t[n + (i - n)] = b[(i - n) + 1] /\ s[n + ((i - n) + 1)] = b[(i - n) + 1]
      BY <1>1, <1>2, <3>1
    <3>3. QED
      BY <1>1, <2>3, <3>1, <3>2
  <2>4. QED
    BY <1>1, <2>2, <2>3
<1>5. \A j \in 1..Len(s) : j # n + 1 => \E i \in 1..Len(t) : up(i) = j
  <2>1. TAKE j \in 1..Len(s)
  <2>2. CASE j <= n
    <3>1. j \in 1..Len(t) /\ up(j) = j
      BY <1>1, <1>2, <2>2
    <3>2. QED
      BY <3>1
  <2>3. CASE j > n + 1
    <3>1. j - 1 \in 1..Len(t) /\ up(j - 1) = j
      BY <1>1, <1>2, <2>3
    <3>2. QED
      BY <3>1
  <2>4. QED
    BY <1>1, <2>2, <2>3
<1>6. \A i, j \in 1..Len(t) : i < j => up(i) < up(j)
  <2>1. TAKE i, j \in 1..Len(t)
  <2>2. i \in Nat /\ j \in Nat
    BY <1>1, <1>2
  <2>3. QED
    BY <1>1, <2>2
<1> HIDE DEF up
<1>7. InOrder(s, K)
  BY DEF s
<1>8. \A i \in 1..Len(t) : t[i] # 0 => t[i] \in K
  BY <1>4, <1>7, InOrderFacts
<1>9. \A y \in K : y # 0 /\ \E i \in 1..Len(t) : y = t[i]
  <2>1. TAKE y \in K
  <2>2. PICK j \in 1..Len(s) : y = s[j] /\ y # 0
    BY <1>7, InOrderFacts
  <2>3. PICK i \in 1..Len(t) : up(i) = j
    BY <1>3, <1>5, <2>2
  <2>4. QED
    BY <1>4, <2>2, <2>3
<1>10. \A i, j \in 1..Len(t) : i < j /\ t[i] # 0 /\ t[j] # 0 => t[i] < t[j]
  BY <1>4, <1>6, <1>7 DEF InOrder
<1>11. InOrder(t, K)
  BY <1>2, <1>8, <1>9, <1>10, InOrderOf
<1>12. QED
  BY <1>11 DEF t

-----------------------------------------------------------------------------
(* The messages that are not read yet.                                       *)

\* b and then the wire are the messages after n, up to last.
Backlog(b, n, last) == InOrder(b \o WireKeys, PartKeys(n, last))
Read == Len(got)

\* What the caller was given is a prefix of what was sent.
GotInv == MessagesRead /\ Read <= peer.sent

LEMMA ReadFacts ==
  ASSUME TypeInv, GotInv
  PROVE  /\ Read \in Nat /\ peer.sent \in Nat /\ Read <= peer.sent /\ got \in Seq(Pieces)
         /\ PeerInv /\ WireKeys \in Seq(Nat)
BY WireFacts DEF TypeInv, GotInv, Read

\* What is given of a message does not change while the implementation stays.
LEMMA BacklogNext ==
  ASSUME impl' = impl, NEW b, NEW n, NEW last, InOrder(b \o WireKeys', PartKeys(n, last))
  PROVE  Backlog(b, n, last)'
BY DEF Backlog, InOrder, PartKeys, Last, Fragments, On, Key

LEMMA GivenFacts ==
  ASSUME NEW m \in Nat
  PROVE  /\ Last(m) = 1 => Given(m) = <<<<m, 1>>>>
         /\ Last(m) = 2 => Given(m) = <<<<m, 1>>, <<m, 2>>>>
         /\ Given(m) \in Pieces /\ Given(m) # <<>> /\ Len(Given(m)) = Last(m)
         /\ \A k \in 1..Last(m) : Given(m)[k] = <<m, k>>
<1>1. Last(m) \in {1, 2} /\ Given(m) = [k \in 1..Last(m) |-> <<m, k>>]
  <2>1. CASE On(Streams)
    <3>1. Last(m) = 1 /\ Given(m) = <<<<m, 1>>>>
      BY <2>1 DEF Last, Given
    <3>2. <<<<m, 1>>>> = [k \in 1..1 |-> <<m, k>>]
      OBVIOUS
    <3>3. QED
      BY <3>1, <3>2
  <2>2. CASE ~On(Streams)
    BY <2>2, LastFacts DEF Last, Given, Whole
  <2>3. QED
    BY <2>1, <2>2
<1>2. /\ Given(m) = [k \in 1..Last(m) |-> <<m, k>>] /\ Last(m) \in {1, 2}
  BY <1>1
<1>3. Last(m) = 1 => Given(m) = <<<<m, 1>>>>
  BY <1>2
<1>4. Last(m) = 2 => Given(m) = <<<<m, 1>>, <<m, 2>>>>
  BY <1>2
<1>5. Given(m) \in Pieces
  <2> DEFINE P == Nat \X Nat
  <2>1. <<m, 1>> \in P /\ <<m, 2>> \in P
    OBVIOUS
  <2> HIDE DEF P
  <2>2. \A x, y \in P : <<x>> \in Seq(P) /\ <<x, y>> \in Seq(P)
    OBVIOUS
  <2>3. QED
    BY <1>2, <1>3, <1>4, <2>1, <2>2 DEF Pieces, P
<1>6. Len(Given(m)) = Last(m) /\ \A k \in 1..Last(m) : Given(m)[k] = <<m, k>>
  BY <1>2
<1>7. Given(m) # <<>>
  BY <1>2
<1>8. QED
  BY <1>3, <1>4, <1>5, <1>6, <1>7

LEMMA GotKept ==
  ASSUME GotInv, impl' = impl, got' = got, peer'.sent = peer.sent \/ peer'.sent = peer.sent + 1,
         peer.sent \in Nat, Read \in Nat
  PROVE  GotInv'
<1>1. MessagesRead'
  BY DEF GotInv, MessagesRead, Given, Whole, Fragments, On
<1>2. QED
  BY <1>1 DEF GotInv, Read

\* The next message is given to the caller.
LEMMA GotNext ==
  ASSUME GotInv, impl' = impl, got \in Seq(Pieces), got' = Append(got, Given(Read + 1)),
         peer.sent \in Nat, Read < peer.sent, peer'.sent = peer.sent
  PROVE  GotInv' /\ Read' = Read + 1
<1> DEFINE w == Given(Read + 1)
<1>1. \A m : Given(m)' = Given(m)
  BY DEF Given, Whole, Fragments, On
<1>2. Read \in Nat /\ Read = Len(got)
  BY DEF Read
<1>3. w \in Pieces
  BY <1>2, GivenFacts
<1> HIDE DEF w
<1>4. /\ Len(got') = Len(got) + 1 /\ got'[Len(got) + 1] = w /\ DOMAIN got' = 1..Len(got) + 1
      /\ \A k \in 1..Len(got) : got'[k] = got[k]
      /\ DOMAIN got = 1..Len(got)
  BY <1>3 DEF w
<1>5. \A k \in DOMAIN got' : got'[k] = Given(k)
  <2>1. TAKE k \in DOMAIN got'
  <2>2. k \in 1..Len(got) \/ k = Len(got) + 1
    BY <1>2, <1>4
  <2>3. QED
    BY <1>2, <1>4, <2>2 DEF GotInv, MessagesRead, w
<1>6. MessagesRead'
  BY <1>5 DEF MessagesRead, Given, Whole, Fragments, On
<1>7. QED
  BY <1>2, <1>4, <1>6 DEF GotInv, Read

\* The server's steps.
LEMMA ServerBacklog ==
  ASSUME PeerInv, Server \/ AnswerPing, NEW b \in Seq(Nat), NEW n \in Nat, n <= peer.sent,
         Backlog(b, n, peer.sent)
  PROVE  InOrder(b \o WireKeys', PartKeys(n, peer'.sent))
<1>1. peer.sent \in Nat
  BY WireFacts
<1>2. CASE SendMessage
  <2> DEFINE K == PartKeys(n, peer.sent)
  <2>1. \A y \in K : y < Key(peer.sent + 1, 1)
    BY <1>1, PartKeysMore
  <2>2. InOrder(b \o WireKeys, K)
    BY DEF Backlog
  <2> HIDE DEF K
  <2>3. InOrder(b \o WireKeys', K \cup {Key(peer.sent + 1, k) : k \in 1..Last(peer.sent + 1)})
    BY <1>2, <2>1, <2>2, MessageKeys
  <2>4. peer'.sent = peer.sent + 1
    BY <1>2, MessageSent
  <2>5. PartKeys(n, peer.sent + 1) = K \cup {Key(peer.sent + 1, k) : k \in 1..Last(peer.sent + 1)}
    BY <1>1, PartKeysMore DEF K
  <2>6. QED
    BY <2>3, <2>4, <2>5
<1>3. CASE SendExtra \/ AnswerPing
  <2> DEFINE K == PartKeys(n, peer.sent)
  <2>1. InOrder(b \o WireKeys, K)
    BY DEF Backlog
  <2> HIDE DEF K
  <2>2. InOrder(b \o WireKeys', K)
    BY <1>3, <2>1, OtherKeys
  <2>3. peer'.sent = peer.sent
    BY <1>3, OthersSent
  <2>4. QED
    BY <2>2, <2>3 DEF K
<1>4. QED
  BY <1>2, <1>3 DEF Server

\* What the server's steps leave alone.
LEMMA ServerLeaves ==
  ASSUME PeerInv, Server \/ AnswerPing
  PROVE  /\ UNCHANGED <<impl, ctx, call, got>> /\ peer.mode = "up"
         /\ peer'.sent = peer.sent \/ peer'.sent = peer.sent + 1
         /\ peer.wire # <<>> => peer'.wire # <<>> /\ Head(peer'.wire) = Head(peer.wire)
<1>1. peer.wire \in Seq(Frames)
  BY WireFacts
<1>2. \A f \in Frames : /\ Append(peer.wire, f) \in Seq(Frames)
                        /\ Append(peer.wire, f) # <<>>
                        /\ peer.wire # <<>> => Head(Append(peer.wire, f)) = Head(peer.wire)
  <2> DEFINE w == peer.wire
             F == Frames
  <2>1. w \in Seq(F)
    BY <1>1
  <2> HIDE DEF w, F
  <2>2. \A f \in F : \A v \in Seq(F) : /\ Append(v, f) \in Seq(F) /\ Append(v, f) # <<>>
                                      /\ v # <<>> => Head(Append(v, f)) = Head(v)
    OBVIOUS
  <2>3. \A f \in F : /\ Append(w, f) \in Seq(F) /\ Append(w, f) # <<>>
                     /\ w # <<>> => Head(Append(w, f)) = Head(w)
    BY <2>1, <2>2
  <2>4. QED
    BY <2>3 DEF w, F
<1>3. \A f, g \in Frames :
        peer.wire # <<>> => /\ Append(Append(peer.wire, f), g) # <<>>
                            /\ Head(Append(Append(peer.wire, f), g)) = Head(peer.wire)
  <2> DEFINE w == peer.wire
             F == Frames
  <2>1. w \in Seq(F)
    BY <1>1
  <2> HIDE DEF w, F
  <2>2. \A f \in F : \A v \in Seq(F) : /\ Append(v, f) \in Seq(F) /\ Append(v, f) # <<>>
                                      /\ v # <<>> => Head(Append(v, f)) = Head(v)
    OBVIOUS
  <2>3. QED
    BY <2>1, <2>2 DEF w, F
<1>4. CASE SendMessage
  <2> DEFINE m == peer.sent + 1
  <2>1. /\ m \in Nat /\ peer.mode = "up" /\ UNCHANGED <<impl, ctx, call, got>> /\ peer'.sent = m
        /\ \/ peer'.wire = Append(peer.wire, MessageFrame(m, 1))
           \/ peer'.wire = Append(Append(peer.wire, MessageFrame(m, 1)), MessageFrame(m, 2))
    BY <1>4, MessageSent
  <2> HIDE DEF m
  <2>2. MessageFrame(m, 1) \in Frames /\ MessageFrame(m, 2) \in Frames
    BY <2>1, MessageFrameFacts
  <2>3. QED
    BY <1>2, <1>3, <2>1, <2>2 DEF m
<1>5. CASE SendExtra \/ AnswerPing
  <2>1. \A op \in Others : Control(op) \in Frames
    BY ControlFacts
  <2>2. Control("close") \in Frames /\ Control("eof") \in Frames
    BY <2>1 DEF Others, Ops
  <2>3. QED
    BY <1>2, <1>3, <1>5, <2>1, <2>2, OthersSent
<1>6. QED
  BY <1>4, <1>5 DEF Server

\* A part that comes first is the first one of the next message.
LEMMA PartFirst ==
  ASSUME NEW b, NEW n \in Nat, NEW s \in Nat, InOrder(b, PartKeys(n, s)), b # <<>>,
         NEW m \in Nat, m > 0, NEW k \in {1, 2}, Head(b) = Key(m, k)
  PROVE  /\ m = n + 1 /\ k = 1 /\ n < s
         /\ InOrder(Tail(b), PartKeys(n, s) \ {Key(n + 1, 1)})
         /\ Last(n + 1) = 1 => InOrder(Tail(b), PartKeys(n + 1, s))
<1> DEFINE K == PartKeys(n, s)
<1>1. Head(b) # 0
  BY KeyFacts
<1>2. Head(b) \in K /\ (\A y \in K : Head(b) <= y) /\ InOrder(Tail(b), K \ {Head(b)})
  BY <1>1, TakenFirst
<1>3. n < s /\ Head(b) = Key(n + 1, 1)
  BY <1>2, PartKeysLeast
<1>4. m = n + 1 /\ k = 1
  <2>1. n + 1 \in Nat /\ Key(m, k) = Key(n + 1, 1) /\ 1 \in {1, 2}
    BY <1>3
  <2>2. QED
    BY ONLY <2>1, KeyFacts, m \in Nat, k \in {1, 2}
<1>5. InOrder(Tail(b), K \ {Key(n + 1, 1)})
  BY <1>2, <1>3
<1>6. Last(n + 1) = 1 => K \ {Key(n + 1, 1)} = PartKeys(n + 1, s)
  BY PartKeysLess
<1>7. QED
  BY <1>3, <1>4, <1>5, <1>6

-----------------------------------------------------------------------------
(* The byte stream: what is on the wire was not received.                    *)

StreamSafe ==
  impl \in Streams /\ Open =>
    /\ call.r # "error" => Backlog(<<>>, Read, peer.sent)
    /\ call.r = "done" => peer.mode = "closed" /\ Read = peer.sent

\* The connection begins with nothing.
LEMMA NothingYet ==
  ASSUME TypeInv, call.pc = "start"
  PROVE  WireKeys = <<>> /\ Read = 0 /\ peer.sent = 0 /\ PartKeys(0, 0) = {} /\ InOrder(<<>>, {})
<1>1. peer.wire = <<>> /\ peer.sent = 0 /\ got = <<>>
  BY DEF TypeInv, CallInv
<1>2. WireKeys = <<>> /\ Read = 0
  BY <1>1 DEF WireKeys, Read
<1>3. PartKeys(0, 0) = {}
  BY DEF PartKeys
<1>4. InOrder(<<>>, {})
  BY DEF InOrder
<1>5. QED
  BY <1>1, <1>2, <1>3, <1>4

\* The backlog stays with the wire and what was sent.
LEMMA BacklogStays ==
  ASSUME PeerInv, impl' = impl, peer'.wire = peer.wire, peer'.sent = peer.sent, Read' = Read,
         NEW b, NEW n, NEW last, Backlog(b, n, last)
  PROVE  Backlog(b, n, last)' /\ WireKeys' = WireKeys
<1>1. WireKeys' = WireKeys
  BY DEF WireKeys, FrameKey, Key
<1>2. QED
  BY <1>1, BacklogNext DEF Backlog

\* The frame that is read next.
LEMMA FirstFrame ==
  ASSUME PeerInv, peer.wire # <<>>
  PROVE  /\ WireKeys # <<>> /\ Head(WireKeys) = FrameKey(Head(peer.wire))
         /\ Head(peer.wire) = peer.wire[1] /\ Head(peer.wire) \in Frames
         /\ FrameOK(peer.wire, 1, peer.mode) /\ 1 \in 1..Len(peer.wire)
<1> DEFINE w == peer.wire
           u == WireKeys
<1>1. /\ w \in Seq(Frames) /\ w # <<>> /\ u \in Seq(Nat) /\ Len(u) = Len(w)
      /\ \A i \in 1..Len(w) : u[i] = FrameKey(w[i])
  BY WireFacts
<1>2. \A i \in 1..Len(w) : FrameOK(w, i, peer.mode)
  BY DEF PeerInv
<1> HIDE DEF w, u
<1>3. 1 \in 1..Len(w) /\ Head(w) = w[1] /\ w[1] \in Frames /\ Head(u) = u[1] /\ u # <<>>
  BY <1>1
<1>4. QED
  BY <1>1, <1>2, <1>3 DEF w, u

LEMMA StreamReads ==
  ASSUME TypeInv, GotInv, StreamSafe, On(Streams), Stream!Step
  PROVE  GotInv' /\ StreamSafe'
<1>1. /\ impl \in Streams /\ impl' = impl /\ call \in Calls /\ PeerInv
      /\ Open => ctx \in StreamCtxs
  BY CtxFacts
  DEF TypeInv, CallInv, On, Stream!Step, Stream!MTY_WebSocketConnect, Stream!Connected,
      Stream!NotConnected, Stream!Call, Stream!MTY_WebSocketDestroy, Stream!Destroyed,
      Stream!MTY_WebSocketRead, Stream!Read, Stream!PollTimesOut, Stream!PollReads, Stream!Tick
<1>2. Open <=> call.pc \notin {"start", "gone"}
  BY CtxFacts DEF TypeInv, CallInv
<1>3. /\ Read \in Nat /\ peer.sent \in Nat /\ Read <= peer.sent /\ got \in Seq(Pieces)
      /\ WireKeys \in Seq(Nat)
  BY ReadFacts
<1>4. ASSUME Open, UNCHANGED got, peer'.wire = peer.wire, peer'.sent = peer.sent,
             peer'.mode = peer.mode, call'.r # "error" => call.r # "error",
             call'.r = "done" => call.r = "done"
      PROVE  GotInv' /\ StreamSafe'
  <2>1. GotInv' /\ Read' = Read
    BY <1>1, <1>3, <1>4, GotKept DEF Read
  <2>2. call'.r # "error" => Backlog(<<>>, Read, peer.sent)'
    BY <1>1, <1>4, <2>1, BacklogStays DEF StreamSafe
  <2>3. call'.r = "done" => peer'.mode = "closed" /\ Read' = peer'.sent
    BY <1>1, <1>4, <2>1 DEF StreamSafe
  <2>4. QED
    BY <2>1, <2>2, <2>3 DEF StreamSafe
<1>5. CASE Stream!MTY_WebSocketConnect
  <2>1. /\ call.pc = "start" /\ UNCHANGED <<impl, peer, got>> /\ call'.r = call.r
    BY <1>1, <1>5 DEF Stream!MTY_WebSocketConnect, Stream!Connected, Stream!NotConnected, Calls
  <2>2. GotInv' /\ Read' = Read
    BY <1>1, <1>3, <2>1, GotKept DEF Read
  <2>3. call'.r # "done"
    BY <2>1 DEF TypeInv, CallInv
  <2>4. Backlog(<<>>, Read, peer.sent)
    <3>1. /\ WireKeys = <<>> /\ PartKeys(Read, peer.sent) = {} /\ InOrder(<<>>, {})
          /\ <<>> \o WireKeys = WireKeys
      BY <1>3, <2>1, NothingYet, JoinFacts
    <3>2. QED
      BY <3>1 DEF Backlog
  <2>5. Backlog(<<>>, Read, peer.sent)'
    BY <1>1, <2>1, <2>2, <2>4, BacklogStays
  <2>6. QED
    BY <2>2, <2>3, <2>5 DEF StreamSafe
<1>6. CASE Stream!MTY_WebSocketDestroy
  <2>1. ~Open' /\ UNCHANGED <<impl, peer, got>>
    BY <1>6 DEF Stream!MTY_WebSocketDestroy, Stream!Destroyed, Stream!Dead, Open
  <2>2. QED
    BY <1>1, <1>3, <2>1, GotKept DEF StreamSafe
<1>7. ASSUME NEW t \in {"zero", "some"}, Stream!MTY_WebSocketRead(t)
      PROVE  GotInv' /\ StreamSafe'
  <2>1. /\ call.pc = "idle" /\ UNCHANGED <<impl, got>> /\ call.r \notin {"error", "done"}
        /\ At("poll") \/ Answer("error")
        /\ peer' = peer \/ peer' = [peer EXCEPT !.pings = IF peer.mode = "up" THEN @ + 1 ELSE @]
    BY <1>7 DEF Stream!MTY_WebSocketRead, Stream!MayRead, Stream!At, Stream!Answer, At, Answer
  <2>2. peer'.wire = peer.wire /\ peer'.sent = peer.sent /\ peer'.mode = peer.mode
    BY <1>1, <2>1 DEF PeerInv, Peers
  <2>3. call'.r \in {"none", "error"}
    BY <1>1, <2>1, CallSteps DEF Points, Results
  <2>4. QED
    BY <1>2, <1>4, <2>1, <2>2, <2>3
<1>8. CASE Stream!PollTimesOut
  <2>1. /\ call.pc = "poll" /\ UNCHANGED <<impl, ctx, peer, got>>
        /\ Answer("error") \/ TimedOut
    BY <1>8 DEF Stream!PollTimesOut, Stream!Answer, Answer, Stream!TimedOut, TimedOut
  <2>2. call.r # "error" /\ call'.r \in {"error", "continue"}
    BY <1>1, <2>1, CallSteps DEF Results, TypeInv, CallInv
  <2>3. QED
    BY <1>2, <1>4, <2>1, <2>2
<1>9. CASE Stream!Tick
  <2>1. call.pc = "idle" /\ UNCHANGED <<impl, peer, got>> /\ call'.r = call.r
    BY <1>1, <1>9 DEF Stream!Tick, Calls
  <2>2. QED
    BY <1>2, <1>4, <2>1
<1>10. CASE Stream!PollReads
  <2> DEFINE f == Head(peer.wire)
             c == Stream!FrameRead(f, [Stream!mty_net_prep_read(ctx, "second") EXCEPT
                                         !.tls = Stream!Decrypted])
  <2>1. /\ call.pc = "poll" /\ Stream!Readable /\ impl' = impl /\ ctx \in StreamCtxs /\ Open
        /\ call.r \notin {"error", "done"}
    BY <1>1, <1>2, <1>10 DEF Stream!PollReads, TypeInv, CallInv
  <2>2. peer.wire # <<>>
    BY <1>1, <2>1, WireFacts DEF Stream!Readable, StreamCtxs
  <2>3. /\ WireKeys # <<>> /\ Head(WireKeys) = FrameKey(f) /\ f \in Frames
        /\ FrameOK(peer.wire, 1, peer.mode) /\ f = peer.wire[1]
    BY <1>1, <2>2, FirstFrame
  <2>4. CASE Answer("error") /\ UNCHANGED <<peer, got>>
    <3>1. call'.r = "error"
      BY <1>1, <2>4, CallSteps DEF Results
    <3>2. QED
      BY <1>4, <2>1, <2>4, <3>1
  <2>5. CASE Answer("error") /\ peer' = Rest /\ got' = got
    <3>1. call'.r = "error" /\ peer'.sent = peer.sent
      BY <1>1, <2>2, <2>5, CallSteps, FrameTaken DEF Results
    <3>2. QED
      BY <1>1, <1>3, <2>5, <3>1, GotKept DEF StreamSafe
  <2>6. ASSUME NEW r \in Stream!FrameResults(f), Answer(r), peer' = Rest,
               IF r = "ok" THEN Deliver(Payload(f)) ELSE got' = got
        PROVE  GotInv' /\ StreamSafe'
    <3>1. /\ r \in Results /\ call'.r = r
          /\ r = "ok" <=> f.op = "text"
          /\ r = "done" <=> f.op = "close"
      <4>1. /\ r = "ok" <=> f.op = "text"
            /\ r = "done" <=> f.op = "close"
            /\ r \in Results
        BY <2>6 DEF Stream!FrameResults, Results
      <4>2. QED
        BY <1>1, <2>6, <4>1, CallSteps
    <3>2. /\ peer'.sent = peer.sent /\ peer'.mode = peer.mode /\ WireKeys' = Tail(WireKeys)
      BY <1>1, <2>1, <2>2, <2>6, FrameTaken
    <3>3. /\ InOrder(WireKeys, PartKeys(Read, peer.sent)) /\ Tail(WireKeys) \in Seq(Nat)
          /\ <<>> \o Tail(WireKeys) = Tail(WireKeys)
      BY <1>1, <1>3, <2>1, <2>3, JoinFacts DEF StreamSafe, Backlog
    <3>4. CASE f.op = "text"
      <4>1. /\ f.msg \in Nat /\ f.msg > 0 /\ f.part \in {1, 2}
            /\ Head(WireKeys) = Key(f.msg, f.part)
        BY <2>3, <3>4 DEF FrameOK, FrameKey, Frames
      <4>2. Last(Read + 1) = 1
        BY <1>1, LastFacts DEF Streams
      <4>3. /\ f.msg = Read + 1 /\ f.part = 1 /\ Read < peer.sent
            /\ InOrder(Tail(WireKeys), PartKeys(Read + 1, peer.sent))
        <5>1. ASSUME NEW m \in Nat, m > 0, NEW k \in {1, 2}, Head(WireKeys) = Key(m, k)
              PROVE  /\ m = Read + 1 /\ k = 1 /\ Read < peer.sent
                     /\ InOrder(Tail(WireKeys), PartKeys(Read + 1, peer.sent))
          BY <1>3, <2>3, <3>3, <4>2, <5>1, PartFirst
        <5>2. QED
          BY <4>1, <5>1
      <4>4. Payload(f) = Given(Read + 1) /\ Payload(f) # <<>>
        <5>1. Given(Read + 1) = <<<<Read + 1, 1>>>>
          BY <1>3, <4>2, GivenFacts
        <5>2. Payload(f) = <<<<f.msg, f.part>>>>
          BY <2>3, <3>4, PayloadFacts
        <5>3. Given(Read + 1) # <<>> /\ f.msg = Read + 1 /\ f.part = 1
          BY <1>3, <4>3, GivenFacts
        <5> HIDE DEF f
        <5>4. QED
          BY <5>1, <5>2, <5>3
      <4>5. got' = Append(got, Given(Read + 1))
        BY <2>6, <3>1, <3>4, <4>4 DEF Deliver
      <4>6. GotInv' /\ Read' = Read + 1
        BY <1>1, <1>3, <3>2, <4>3, <4>5, GotNext
      <4>7. Backlog(<<>>, Read, peer.sent)'
        BY <1>1, <3>2, <3>3, <4>3, <4>6, BacklogNext DEF Backlog
      <4>8. QED
        BY <3>1, <3>4, <4>6, <4>7 DEF StreamSafe
    <3>5. CASE f.op # "text"
      <4>1. InOrder(Tail(WireKeys), PartKeys(Read, peer.sent))
        BY <2>3, <3>3, <3>5, NothingTaken DEF FrameKey
      <4>2. got' = got
        BY <2>6, <3>1, <3>5
      <4>3. GotInv' /\ Read' = Read
        BY <1>1, <1>3, <3>2, <4>2, GotKept DEF Read
      <4>4. Backlog(<<>>, Read, peer.sent)'
        BY <1>1, <3>2, <3>3, <4>1, <4>3, BacklogNext DEF Backlog
      <4>5. f.op = "close" => peer.mode = "closed" /\ Read = peer.sent
        <5>1. HAVE f.op = "close"
        <5>2. PartKeys(Read, peer.sent) = {} /\ peer.mode = "closed"
          BY <1>1, <2>2, <3>3, <5>1, EndFrames DEF Arrives
        <5>3. peer.sent <= Read
          BY <1>3, <5>2, PartKeysLess
        <5>4. QED
          BY <1>3, <5>2, <5>3
      <4>6. QED
        BY <3>1, <3>2, <4>3, <4>4, <4>5 DEF StreamSafe
    <3>6. QED
      BY <3>4, <3>5
  <2>7. \/ /\ \E r \in Stream!FrameResults(f) :
                /\ Answer(IF Stream!PongMissing(c) THEN "error" ELSE r)
                /\ peer' = Rest
                /\ IF r = "ok" /\ ~Stream!PongMissing(c) THEN Deliver(Payload(f)) ELSE got' = got
        \/ Answer("error") /\ UNCHANGED <<ctx, peer, got>>
    BY <1>10
    DEF Stream!PollReads, Stream!Answer, Answer, Stream!Rest, Rest, Stream!Deliver, Deliver,
        Stream!Payload, Payload
  <2> HIDE DEF c, f
  <2>8. QED
    BY <2>4, <2>5, <2>6, <2>7
<1>11. QED
  BY <1>5, <1>6, <1>7, <1>8, <1>9, <1>10
  DEF Stream!Step, Stream!Call, Stream!Read, Stream!Timeouts

-----------------------------------------------------------------------------
(* WinHTTP: what is in the buffer, up to pos.                                *)

\* Nothing; the first of two parts; the next message; more than the caller has room for.
Empty == ctx.pos = 0 /\ Backlog(<<>>, Read, peer.sent)
Half ==
  /\ ~ctx.complete /\ ctx.pos = 1 /\ ctx.buf[1] = <<Read + 1, 1>> /\ Last(Read + 1) = 2
  /\ Read < peer.sent /\ Backlog(<<Key(Read + 1, 1)>>, Read, peer.sent)
  /\ peer.wire # <<>> /\ Head(peer.wire).op = "text"
  /\ Head(peer.wire).msg = Read + 1 /\ Head(peer.wire).part = 2
Full ==
  /\ ctx.complete /\ ctx.pos = Last(Read + 1)
  /\ \A k \in 1..Last(Read + 1) : ctx.buf[k] = <<Read + 1, k>>
  /\ Read < peer.sent /\ Backlog(<<>>, Read + 1, peer.sent)
Large == ctx.complete /\ ctx.pos = 1 /\ ctx.buf[1] = <<0, 1>> /\ Backlog(<<>>, Read, peer.sent)

\* A receive writes behind what is there, and none runs while a message is complete.
WinHTTPSafe ==
  impl = "windows" /\ Open =>
    /\ ctx.receiving => ~ctx.complete /\ ctx.recv = ctx.pos
    /\ call.pc # "receive"
    /\ Empty \/ Half \/ Full \/ Large

\* How the buffer's state is found after a step.
LEMMA BufferNext ==
  ASSUME impl' = impl, NEW n \in Nat, Read' = n
  PROVE  /\ ctx'.pos = 0 /\ InOrder(<<>> \o WireKeys', PartKeys(n, peer'.sent)) => Empty'
         /\ /\ ~ctx'.complete /\ ctx'.pos = 1 /\ ctx'.buf[1] = <<n + 1, 1>> /\ Last(n + 1) = 2
            /\ n < peer'.sent
            /\ InOrder(<<Key(n + 1, 1)>> \o WireKeys', PartKeys(n, peer'.sent))
            /\ peer'.wire # <<>> /\ Head(peer'.wire).op = "text"
            /\ Head(peer'.wire).msg = n + 1 /\ Head(peer'.wire).part = 2
            => Half'
         /\ /\ ctx'.complete /\ ctx'.pos = Last(n + 1)
            /\ \A k \in 1..Last(n + 1) : ctx'.buf[k] = <<n + 1, k>>
            /\ n < peer'.sent /\ InOrder(<<>> \o WireKeys', PartKeys(n + 1, peer'.sent))
            => Full'
         /\ /\ ctx'.complete /\ ctx'.pos = 1 /\ ctx'.buf[1] = <<0, 1>>
            /\ InOrder(<<>> \o WireKeys', PartKeys(n, peer'.sent))
            => Large'
<1>1. \A m : Last(m)' = Last(m)
  BY DEF Last, Fragments, On
<1>2. Last(Read + 1)' = Last(n + 1) /\ Last(Read + 1)' = Last(Read' + 1)
  BY DEF Last, Fragments, On
<1>3. \A b, m : InOrder(b \o WireKeys', PartKeys(m, peer'.sent)) => Backlog(b, m, peer.sent)'
  BY BacklogNext
<1>4. ctx'.pos = 0 /\ InOrder(<<>> \o WireKeys', PartKeys(n, peer'.sent)) => Empty'
  BY <1>3 DEF Empty
<1>5. /\ ~ctx'.complete /\ ctx'.pos = 1 /\ ctx'.buf[1] = <<n + 1, 1>> /\ Last(n + 1) = 2
      /\ n < peer'.sent
      /\ InOrder(<<Key(n + 1, 1)>> \o WireKeys', PartKeys(n, peer'.sent))
      /\ peer'.wire # <<>> /\ Head(peer'.wire).op = "text"
      /\ Head(peer'.wire).msg = n + 1 /\ Head(peer'.wire).part = 2
      => Half'
  BY <1>2, <1>3 DEF Half, Key
<1>6. /\ ctx'.complete /\ ctx'.pos = Last(n + 1)
      /\ \A k \in 1..Last(n + 1) : ctx'.buf[k] = <<n + 1, k>>
      /\ n < peer'.sent /\ InOrder(<<>> \o WireKeys', PartKeys(n + 1, peer'.sent))
      => Full'
  BY <1>2, <1>3 DEF Full
<1>7. /\ ctx'.complete /\ ctx'.pos = 1 /\ ctx'.buf[1] = <<0, 1>>
      /\ InOrder(<<>> \o WireKeys', PartKeys(n, peer'.sent))
      => Large'
  BY <1>3 DEF Large
<1>8. QED
  BY <1>4, <1>5, <1>6, <1>7

\* A step that leaves the buffer and the wire alone.
LEMMA BufferStays ==
  ASSUME PeerInv, impl' = impl, got' = got, Read \in Nat,
         peer'.wire = peer.wire, peer'.sent = peer.sent,
         ctx'.pos = ctx.pos, ctx'.buf = ctx.buf, ctx'.complete = ctx.complete,
         Empty \/ Half \/ Full \/ Large
  PROVE  Empty' \/ Half' \/ Full' \/ Large'
<1>1. Read' = Read /\ WireKeys' = WireKeys
  BY DEF Read, WireKeys, FrameKey, Key
<1>2. CASE Empty
  BY <1>1, <1>2, BufferNext DEF Empty, Backlog
<1>3. CASE Half
  BY <1>1, <1>3, BufferNext DEF Half, Backlog
<1>4. CASE Full
  BY <1>1, <1>4, BufferNext DEF Full, Backlog
<1>5. CASE Large
  BY <1>1, <1>5, BufferNext DEF Large, Backlog
<1>6. QED
  BY <1>2, <1>3, <1>4, <1>5

\* READ_COMPLETE: the frame's part is the one that the buffer waits for.
LEMMA ReceiveSafe ==
  ASSUME TypeInv, GotInv, WinHTTPSafe, On({"windows"}), WinHTTP!ws_async_read
  PROVE  GotInv' /\ WinHTTPSafe'
<1> DEFINE f == Head(peer.wire)
           parts == Payload(f)
           buf == WinHTTP!Written(ctx.buf, ctx.recv, parts)
<1>1. /\ impl = "windows" /\ impl' = impl /\ PeerInv /\ Open /\ ctx \in WinHTTPCtxs
      /\ ctx.receiving /\ peer.wire # <<>> /\ UNCHANGED <<call, got>> /\ peer' = Rest
      /\ f.op \in {"text", "empty", "big", "binary", "close"}
      /\ ctx' = [ctx EXCEPT !.buf = buf, !.pos = @ + Len(parts),
                            !.closed = @ \/ f.op = "close",
                            !.complete = f.op \in {"text", "empty", "big"} /\ f.fin,
                            !.read = TRUE, !.receiving = FALSE]
  BY CtxFacts
  DEF TypeInv, On, WinHTTP!ws_async_read, WinHTTP!ReadComplete, WinHTTP!Arrives, WinHTTP!Rest, Rest,
      WinHTTP!Open, Open, WinHTTP!Payload, Payload
<1>2. /\ Read \in Nat /\ peer.sent \in Nat /\ Read <= peer.sent /\ WireKeys \in Seq(Nat)
  BY ReadFacts
<1>3. /\ WireKeys # <<>> /\ Head(WireKeys) = FrameKey(f) /\ f \in Frames
      /\ FrameOK(peer.wire, 1, peer.mode) /\ f = peer.wire[1] /\ 1 \in 1..Len(peer.wire)
  BY <1>1, FirstFrame
<1>4. /\ peer'.sent = peer.sent /\ WireKeys' = Tail(WireKeys) /\ peer'.wire = Tail(peer.wire)
      /\ <<>> \o Tail(WireKeys) = Tail(WireKeys) /\ <<>> \o WireKeys = WireKeys
  BY <1>1, <1>2, <1>3, FrameTaken, JoinFacts
<1>5. GotInv' /\ Read' = Read
  BY <1>1, <1>2, <1>4, GotKept DEF Read
<1>6. /\ ~ctx.complete /\ ctx.recv = ctx.pos /\ call.pc # "receive"
      /\ Empty \/ Half
  BY <1>1 DEF WinHTTPSafe, Full, Large
<1>7. /\ parts \in Pieces /\ Len(parts) \in {0, 1}
      /\ f.op = "text" => parts = <<<<f.msg, f.part>>>>
      /\ f.op = "big" => parts = <<<<0, 1>>>>
      /\ f.op \notin {"text", "big"} => parts = <<>>
  BY <1>3, PayloadFacts
<1>8. /\ ctx.buf \in Pieces /\ ctx.pos \in Nat /\ ctx.pos <= Len(ctx.buf)
  BY <1>1 DEF WinHTTPCtxs, WinHTTPFields
<1>9. /\ \A k \in 1..ctx.pos : buf[k] = ctx.buf[k]
      /\ \A k \in 1..Len(parts) : buf[ctx.pos + k] = parts[k]
  BY <1>6, <1>7, <1>8, WrittenType
<1>10. /\ ctx'.buf = buf /\ ctx'.pos = ctx.pos + Len(parts) /\ ctx'.receiving = FALSE
       /\ ctx'.complete <=> f.op \in {"text", "empty", "big"} /\ f.fin
  BY <1>1 DEF WinHTTPCtxs, WinHTTPFields
<1> HIDE DEF parts, buf
<1>11. ASSUME Empty' \/ Half' \/ Full' \/ Large'
       PROVE  GotInv' /\ WinHTTPSafe'
  BY <1>1, <1>5, <1>6, <1>10, <1>11 DEF WinHTTPSafe
<1>12. CASE Empty
  <2>1. ctx.pos = 0 /\ InOrder(WireKeys, PartKeys(Read, peer.sent))
    BY <1>4, <1>12 DEF Empty, Backlog
  <2>2. CASE f.op \in {"empty", "binary", "close"}
    <3>1. InOrder(Tail(WireKeys), PartKeys(Read, peer.sent))
      BY <1>3, <2>1, <2>2, NothingTaken DEF FrameKey
    <3>2. ctx'.pos = 0
      BY <1>7, <1>10, <2>1, <2>2
    <3>3. Empty'
      BY <1>1, <1>2, <1>4, <1>5, <3>1, <3>2, BufferNext
    <3>4. QED
      BY <1>11, <3>3
  <2>3. CASE f.op = "big"
    <3>1. InOrder(Tail(WireKeys), PartKeys(Read, peer.sent))
      BY <1>3, <2>1, <2>3, NothingTaken DEF FrameKey
    <3>2. f.fin
      BY <1>3, <2>3 DEF FrameOK
    <3>3. parts = <<<<0, 1>>>> /\ Len(parts) = 1 /\ parts[1] = <<0, 1>>
      BY <1>7, <2>3
    <3>4. ctx'.pos = 1 /\ ctx'.complete /\ ctx'.buf[1] = <<0, 1>>
      BY <1>9, <1>10, <2>1, <2>3, <3>2, <3>3
    <3>5. Large'
      BY <1>1, <1>2, <1>4, <1>5, <3>1, <3>4, BufferNext
    <3>6. QED
      BY <1>11, <3>5
  <2>4. CASE f.op = "text"
    <3>1. /\ f.msg \in Nat /\ f.msg > 0 /\ f.part \in {1, 2}
          /\ Head(WireKeys) = Key(f.msg, f.part)
      BY <1>3, <2>4 DEF FrameOK, FrameKey, Frames
    <3>2. /\ f.msg = Read + 1 /\ f.part = 1 /\ Read < peer.sent
          /\ InOrder(Tail(WireKeys), PartKeys(Read, peer.sent) \ {Key(Read + 1, 1)})
          /\ Last(Read + 1) = 1 => InOrder(Tail(WireKeys), PartKeys(Read + 1, peer.sent))
      <4>1. ASSUME NEW m \in Nat, m > 0, NEW k \in {1, 2}, Head(WireKeys) = Key(m, k)
            PROVE  /\ m = Read + 1 /\ k = 1 /\ Read < peer.sent
                   /\ InOrder(Tail(WireKeys), PartKeys(Read, peer.sent) \ {Key(Read + 1, 1)})
                   /\ Last(Read + 1) = 1 => InOrder(Tail(WireKeys), PartKeys(Read + 1, peer.sent))
        <5>1. WireKeys # <<>> /\ InOrder(WireKeys, PartKeys(Read, peer.sent))
          BY <1>3, <2>1
        <5>2. m = Read + 1 /\ k = 1 /\ Read < peer.sent
          BY <1>2, <4>1, <5>1, PartFirst
        <5>3. InOrder(Tail(WireKeys), PartKeys(Read, peer.sent) \ {Key(Read + 1, 1)})
          BY <1>2, <4>1, <5>1, PartFirst
        <5>4. Last(Read + 1) = 1 => InOrder(Tail(WireKeys), PartKeys(Read + 1, peer.sent))
          BY <1>2, <4>1, <5>1, PartFirst
        <5>5. QED
          BY <5>2, <5>3, <5>4
      <4>2. QED
        BY <3>1, <4>1
    <3>3. parts = <<<<Read + 1, 1>>>>
      <4>1. f.msg = Read + 1 /\ f.part = 1 /\ parts = <<<<f.msg, f.part>>>>
        BY <1>7, <2>4, <3>2
      <4> HIDE DEF f
      <4>2. QED
        BY <4>1
    <3>4. Len(parts) = 1 /\ parts[1] = <<Read + 1, 1>>
      BY <3>3
    <3>5. ctx'.pos = 1 /\ ctx'.buf[1] = <<Read + 1, 1>>
      BY <1>9, <1>10, <2>1, <3>4
    <3>6. f.fin <=> Last(Read + 1) = 1
      BY <1>1, <1>3, <2>4, <3>2, LastFacts DEF FrameOK
    <3>7. CASE Last(Read + 1) = 1
      <4>1. ctx'.complete /\ ctx'.pos = Last(Read + 1)
        BY <1>10, <2>4, <3>5, <3>6, <3>7
      <4>2. \A k \in 1..Last(Read + 1) : ctx'.buf[k] = <<Read + 1, k>>
        BY <3>5, <3>7
      <4>3. Full'
        BY <1>1, <1>2, <1>4, <1>5, <3>2, <3>7, <4>1, <4>2, BufferNext
      <4>4. QED
        BY <1>11, <4>3
    <3>8. CASE Last(Read + 1) # 1
      <4>1. Last(Read + 1) = 2 /\ ~ctx'.complete
        BY <1>10, <3>6, <3>8, LastFacts
      <4>2. /\ 2 \in 1..Len(peer.wire) /\ peer.wire[2].op = "text"
            /\ peer.wire[2].msg = Read + 1 /\ peer.wire[2].part = 2
        BY <1>3, <2>4, <3>2, <4>1 DEF FrameOK
      <4>3. /\ peer'.wire # <<>> /\ Head(peer'.wire) = peer.wire[2]
        <5> DEFINE w == peer.wire
        <5>1. w \in Seq(Frames) /\ Len(w) >= 2
          BY <1>1, <4>2, WireFacts
        <5> HIDE DEF w
        <5>2. Tail(w) \in Seq(Frames) /\ Len(Tail(w)) >= 1 /\ Tail(w)[1] = w[2]
          BY <5>1
        <5>3. \A v \in Seq(Frames) : Len(v) >= 1 => v # <<>> /\ Head(v) = v[1]
          OBVIOUS
        <5>4. QED
          BY <1>4, <5>2, <5>3 DEF w
      <4>4. InOrder(<<Key(Read + 1, 1)>> \o Tail(WireKeys), PartKeys(Read, peer.sent))
        <5>1. <<Key(f.msg, f.part)>> \o Tail(WireKeys) = WireKeys
          <6>1. Append(<<>>, Head(WireKeys)) \o Tail(WireKeys) = <<>> \o WireKeys
            BY <1>2, <1>3, JoinFacts
          <6>2. Append(<<>>, Head(WireKeys)) = <<Head(WireKeys)>>
            OBVIOUS
          <6>3. QED
            BY <1>4, <3>1, <6>1, <6>2
        <5>2. <<Key(Read + 1, 1)>> \o Tail(WireKeys) = WireKeys
          BY <3>2, <5>1
        <5>3. QED
          BY <2>1, <5>2
      <4>5. Half'
        BY <1>1, <1>2, <1>4, <1>5, <3>2, <3>5, <4>1, <4>2, <4>3, <4>4, BufferNext
      <4>6. QED
        BY <1>11, <4>5
    <3>9. QED
      BY <3>7, <3>8
  <2>5. QED
    BY <1>1, <2>2, <2>3, <2>4
<1>13. CASE Half
  <2>1. /\ ctx.pos = 1 /\ ctx.buf[1] = <<Read + 1, 1>> /\ Last(Read + 1) = 2 /\ Read < peer.sent
        /\ InOrder(<<Key(Read + 1, 1)>> \o WireKeys, PartKeys(Read, peer.sent))
        /\ f.op = "text" /\ f.msg = Read + 1 /\ f.part = 2
    BY <1>13 DEF Half, Backlog
  <2>2. parts = <<<<Read + 1, 2>>>>
    <3>1. f.msg = Read + 1 /\ f.part = 2 /\ parts = <<<<f.msg, f.part>>>>
      BY <1>7, <2>1
    <3> HIDE DEF f
    <3>2. QED
      BY <3>1
  <2>3. Len(parts) = 1 /\ parts[1] = <<Read + 1, 2>>
    BY <2>2
  <2>4. ctx'.pos = 2 /\ ctx'.buf[1] = <<Read + 1, 1>> /\ ctx'.buf[2] = <<Read + 1, 2>>
    BY <1>9, <1>10, <2>1, <2>3
  <2>5. ctx'.complete
    <3>1. Fragments(Read + 1) = 2
      BY <1>1, <2>1, LastFacts
    <3>2. f.fin
      BY <1>3, <2>1, <3>1 DEF FrameOK
    <3>3. QED
      BY <1>10, <2>1, <3>2
  <2>6. InOrder(Tail(WireKeys), PartKeys(Read + 1, peer.sent))
    <3> DEFINE x == Key(Read + 1, 1)
               y == Key(Read + 1, 2)
               K == PartKeys(Read, peer.sent)
    <3>1. /\ x \in Nat /\ x # 0 /\ y # 0 /\ x # y /\ Head(WireKeys) = y
      <4>1. Head(WireKeys) = y
        BY <1>3, <2>1 DEF FrameKey
      <4>2. Read + 1 \in Nat /\ Read + 1 > 0 /\ 1 \in {1, 2} /\ 2 \in {1, 2} /\ 1 # 2
        BY <1>2
      <4>3. QED
        BY <4>1, <4>2, KeyFacts
    <3>2. InOrder(<<x>> \o WireKeys, K)
      BY <2>1
    <3>3. K \ {x, y} = PartKeys(Read + 1, peer.sent)
      BY <1>2, <2>1, PartKeysLess
    <3> HIDE DEF x, y, K
    <3>4. <<x>> \in Seq(Nat) /\ <<x>> # <<>> /\ Head(<<x>>) = x /\ Tail(<<x>>) = <<>>
      BY <3>1
    <3>5. /\ <<x>> \o WireKeys # <<>> /\ Head(<<x>> \o WireKeys) = x
          /\ Tail(<<x>> \o WireKeys) = WireKeys
      BY <1>2, <1>4, <3>4, JoinFacts
    <3>6. InOrder(WireKeys, K \ {x})
      BY <3>1, <3>2, <3>5, TakenFirst
    <3>7. InOrder(Tail(WireKeys), (K \ {x}) \ {y})
      BY <1>3, <3>1, <3>6, TakenFirst
    <3>8. (K \ {x}) \ {y} = K \ {x, y}
      OBVIOUS
    <3>9. QED
      BY <3>3, <3>7, <3>8
  <2>7. \A k \in 1..Last(Read + 1) : ctx'.buf[k] = <<Read + 1, k>>
    <3>1. \A k \in 1..Last(Read + 1) : k = 1 \/ k = 2
      BY <2>1
    <3>2. QED
      BY <2>4, <3>1
  <2>8. Full'
    BY <1>1, <1>2, <1>4, <1>5, <2>1, <2>4, <2>5, <2>6, <2>7, BufferNext
  <2>9. QED
    BY <1>11, <2>8
<1>14. QED
  BY <1>6, <1>12, <1>13

LEMMA WinHTTPReads ==
  ASSUME "race" \notin Faults, TypeInv, GotInv, WinHTTPSafe, On({"windows"}), WinHTTP!Step
  PROVE  GotInv' /\ WinHTTPSafe'
<1>1. /\ impl = "windows" /\ impl' = impl /\ PeerInv /\ call \in Calls
      /\ Open => ctx \in WinHTTPCtxs
  BY CtxFacts
  DEF TypeInv, On, CallInv, WinHTTP!Step, WinHTTP!MTY_WebSocketConnect, WinHTTP!Connected,
      WinHTTP!NotConnected, WinHTTP!Call, WinHTTP!MTY_WebSocketDestroy, WinHTTP!Destroyed,
      WinHTTP!MTY_WebSocketRead, WinHTTP!Read, WinHTTP!ReadDone, WinHTTP!ReadMessage,
      WinHTTP!ReadReceive, WinHTTP!ReadWait, WinHTTP!Callback, WinHTTP!ws_async_read,
      WinHTTP!ws_async_error, WinHTTP!ws_async_write, WinHTTP!MTY_WebSocketWrite,
      WinHTTP!WriteEnds
<1>2. Open <=> call.pc \notin {"start", "gone"}
  BY CtxFacts DEF TypeInv, CallInv
<1>3. /\ Read \in Nat /\ peer.sent \in Nat /\ Read <= peer.sent /\ got \in Seq(Pieces)
      /\ WireKeys \in Seq(Nat)
  BY ReadFacts
<1>4. ASSUME Open, UNCHANGED got, peer'.wire = peer.wire, peer'.sent = peer.sent,
             ctx'.pos = ctx.pos, ctx'.buf = ctx.buf, ctx'.complete = ctx.complete,
             ctx'.receiving => (ctx.receiving /\ ctx'.recv = ctx.recv)
                               \/ (~ctx.complete /\ ctx'.recv = ctx.pos),
             call'.pc # "receive"
      PROVE  GotInv' /\ WinHTTPSafe'
  <2>1. GotInv'
    BY <1>1, <1>3, <1>4, GotKept
  <2>2. /\ ctx.receiving => ~ctx.complete /\ ctx.recv = ctx.pos
        /\ Empty \/ Half \/ Full \/ Large
    BY <1>1, <1>4 DEF WinHTTPSafe
  <2>3. Empty' \/ Half' \/ Full' \/ Large'
    BY <1>1, <1>3, <1>4, <2>2, BufferStays
  <2>4. ctx'.receiving => ~ctx'.complete /\ ctx'.recv = ctx'.pos
    BY <1>4, <2>2
  <2>5. QED
    BY <1>4, <2>1, <2>3, <2>4 DEF WinHTTPSafe
<1>5. CASE WinHTTP!MTY_WebSocketConnect
  <2>1. /\ call.pc = "start" /\ UNCHANGED <<impl, peer, got>>
        /\ \/ ctx'.receiving = FALSE /\ ctx'.pos = 0 /\ call'.pc = "idle"
           \/ ctx' = ctx
    BY <1>1, <1>5
    DEF WinHTTP!MTY_WebSocketConnect, WinHTTP!Connected, WinHTTP!NotConnected, Calls
  <2>2. GotInv' /\ Read' = Read /\ ~Open
    BY <1>1, <1>2, <1>3, <2>1, GotKept DEF Read
  <2>3. ctx' = ctx => ~Open'
    BY <2>2 DEF Open
  <2>4. /\ WireKeys = <<>> /\ PartKeys(Read, peer.sent) = {} /\ InOrder(<<>>, {})
        /\ <<>> \o WireKeys = WireKeys /\ WireKeys' = WireKeys
    BY <1>3, <2>1, NothingYet, JoinFacts DEF WireKeys, FrameKey, Key
  <2>5. InOrder(<<>> \o WireKeys', PartKeys(Read, peer'.sent))
    BY <2>1, <2>4
  <2>6. ctx'.pos = 0 => Empty'
    BY <1>1, <1>3, <2>2, <2>5, BufferNext
  <2>7. QED
    BY <2>1, <2>2, <2>3, <2>6 DEF WinHTTPSafe
<1>6. CASE WinHTTP!MTY_WebSocketDestroy
  <2>1. ~Open' /\ UNCHANGED <<impl, peer, got>>
    BY <1>6 DEF WinHTTP!MTY_WebSocketDestroy, WinHTTP!Destroyed, WinHTTP!Dead, Open
  <2>2. QED
    BY <1>1, <1>3, <2>1, GotKept DEF WinHTTPSafe
<1>7. CASE WinHTTP!MTY_WebSocketRead \/ WinHTTP!ReadDone
  <2>1. Open /\ UNCHANGED <<ctx, peer, got>> /\ (At("check") \/ Answer("done"))
    BY <1>2, <1>7
    DEF WinHTTP!MTY_WebSocketRead, WinHTTP!ReadDone, WinHTTP!MayRead, WinHTTP!At, At,
        WinHTTP!Answer, Answer
  <2>2. call'.pc # "receive"
    BY <1>1, <2>1, CallSteps DEF Results, Points
  <2>3. QED
    BY <1>4, <2>1, <2>2
<1>8. CASE WinHTTP!ReadReceive
  <2>1. Open /\ UNCHANGED <<impl, peer, got>> /\ ctx \in WinHTTPCtxs
    BY <1>1, <1>2, <1>8 DEF WinHTTP!ReadReceive
  <2>2. /\ call.pc = "check" /\ ~ctx.complete /\ At("wait")
        /\ \/ ctx' = ctx \/ ctx' = [ctx EXCEPT !.closed = TRUE]
           \/ ctx' = [ctx EXCEPT !.receiving = TRUE, !.recv = ctx.pos]
    BY <1>1, <1>8, <2>1
    DEF WinHTTP!ReadReceive, WinHTTP!WinHttpWebSocketReceive, WinHTTP!At, At, WinHTTPSafe
  <2>3. /\ ctx'.pos = ctx.pos /\ ctx'.buf = ctx.buf /\ ctx'.complete = ctx.complete
        /\ ctx'.receiving => (ctx.receiving /\ ctx'.recv = ctx.recv)
                             \/ (~ctx.complete /\ ctx'.recv = ctx.pos)
    BY <2>1, <2>2 DEF WinHTTPCtxs, WinHTTPFields
  <2>4. call'.pc # "receive"
    BY <1>1, <2>2, CallSteps DEF Points
  <2>5. QED
    BY <1>4, <2>1, <2>3, <2>4
<1>9. CASE WinHTTP!ReadWait
  <2>1. /\ Open /\ UNCHANGED <<impl, peer, got>> /\ ctx \in WinHTTPCtxs
        /\ At("check") \/ TimedOut
        /\ ctx' = ctx \/ ctx' = [ctx EXCEPT !.read = FALSE]
    BY <1>1, <1>2, <1>9 DEF WinHTTP!ReadWait, WinHTTP!At, At, WinHTTP!TimedOut, TimedOut
  <2>2. /\ ctx'.pos = ctx.pos /\ ctx'.buf = ctx.buf /\ ctx'.complete = ctx.complete
        /\ ctx'.receiving = ctx.receiving /\ ctx'.recv = ctx.recv
    BY <2>1 DEF WinHTTPCtxs, WinHTTPFields
  <2>3. call'.pc # "receive"
    BY <1>1, <2>1, CallSteps DEF Points
  <2>4. QED
    BY <1>4, <2>1, <2>2, <2>3
<1>10. CASE WinHTTP!ws_async_read
  BY <1>10, ReceiveSafe
<1>11. CASE WinHTTP!ws_async_error \/ WinHTTP!ws_async_write
  <2>1. /\ Open /\ UNCHANGED <<impl, peer, call, got>> /\ ctx \in WinHTTPCtxs
        /\ \/ ctx' = [ctx EXCEPT !.closed = TRUE, !.receiving = FALSE]
           \/ ctx' = [ctx EXCEPT !.sending = FALSE, !.write = TRUE]
           \/ ctx' = [ctx EXCEPT !.sending = FALSE, !.closed = TRUE]
    BY <1>1, <1>11 DEF WinHTTP!ws_async_error, WinHTTP!ws_async_write, WinHTTP!Open, Open
  <2>2. /\ ctx'.pos = ctx.pos /\ ctx'.buf = ctx.buf /\ ctx'.complete = ctx.complete
        /\ ctx'.receiving => ctx.receiving /\ ctx'.recv = ctx.recv
    BY <2>1 DEF WinHTTPCtxs, WinHTTPFields
  <2>3. call'.pc # "receive"
    BY <1>1, <2>1 DEF WinHTTPSafe
  <2>4. QED
    BY <1>4, <2>1, <2>2, <2>3
<1>12. CASE WinHTTP!MTY_WebSocketWrite
  <2>1. /\ call.pc = "idle" /\ UNCHANGED <<impl, got>> /\ call' = [call EXCEPT !.pc = "write"]
        /\ ctx' = [ctx EXCEPT !.sending = TRUE] /\ peer' = [peer EXCEPT !.extra = @ + 1]
    BY <1>12 DEF WinHTTP!MTY_WebSocketWrite, WinHTTP!MayRead
  <2>2. /\ ctx'.pos = ctx.pos /\ ctx'.buf = ctx.buf /\ ctx'.complete = ctx.complete
        /\ ctx'.receiving = ctx.receiving /\ ctx'.recv = ctx.recv
    BY <1>1, <1>2, <2>1 DEF WinHTTPCtxs, WinHTTPFields
  <2>3. peer'.wire = peer.wire /\ peer'.sent = peer.sent /\ call'.pc # "receive"
    BY <1>1, <2>1 DEF PeerInv, Peers, Calls
  <2>4. QED
    BY <1>2, <1>4, <2>1, <2>2, <2>3
<1>13. CASE WinHTTP!WriteEnds
  <2>1. /\ call.pc = "write" /\ UNCHANGED <<impl, peer, got>>
        /\ call' = [call EXCEPT !.pc = "idle"]
        /\ ctx' = ctx \/ ctx' = [ctx EXCEPT !.write = FALSE]
    BY <1>13 DEF WinHTTP!WriteEnds
  <2>2. /\ ctx'.pos = ctx.pos /\ ctx'.buf = ctx.buf /\ ctx'.complete = ctx.complete
        /\ ctx'.receiving = ctx.receiving /\ ctx'.recv = ctx.recv
    BY <1>1, <1>2, <2>1 DEF WinHTTPCtxs, WinHTTPFields
  <2>3. call'.pc # "receive"
    BY <1>1, <2>1 DEF Calls
  <2>4. QED
    BY <1>2, <1>4, <2>1, <2>2, <2>3
<1>14. CASE WinHTTP!ReadMessage
  <2> DEFINE msg == SubSeq(ctx.buf, 1, ctx.pos)
  <2>1. /\ Open /\ UNCHANGED <<impl, peer>> /\ ctx \in WinHTTPCtxs /\ ctx.complete
        /\ IF Fits(msg)
           THEN Answer("ok") /\ Deliver(msg) /\ ctx' = [ctx EXCEPT !.complete = FALSE, !.pos = 0]
           ELSE Answer("error") /\ UNCHANGED <<ctx, got>>
    BY <1>1, <1>2, <1>14
    DEF WinHTTP!ReadMessage, WinHTTP!Answer, Answer, WinHTTP!Deliver, Deliver, WinHTTP!Fits, Fits
  <2>2. /\ ctx.buf \in Pieces /\ ctx.pos \in Nat /\ ctx.pos <= Len(ctx.buf)
        /\ ctx.complete /\ ~ctx.receiving /\ (Empty \/ Full \/ Large)
    BY <1>1, <2>1 DEF WinHTTPCtxs, WinHTTPFields, WinHTTPSafe, Half
  <2>3. /\ msg \in Pieces /\ Len(msg) = ctx.pos /\ \A k \in 1..ctx.pos : msg[k] = ctx.buf[k]
        /\ DOMAIN msg = 1..ctx.pos
    <3> DEFINE P == Nat \X Nat
    <3>1. ctx.buf \in Seq(P) /\ ctx.pos \in Nat /\ ctx.pos <= Len(ctx.buf)
      BY <2>2 DEF Pieces
    <3> HIDE DEF P
    <3>2. /\ msg \in Seq(P) /\ Len(msg) = ctx.pos /\ \A k \in 1..ctx.pos : msg[k] = ctx.buf[k]
      BY <3>1
    <3>3. QED
      BY <3>2 DEF P, Pieces
  <2>4. WireKeys' = WireKeys /\ peer'.sent = peer.sent
    BY <2>1, <1>1 DEF WireKeys, FrameKey, Key
  <2>5. call'.pc = "idle"
    BY <1>1, <2>1, CallSteps DEF Results
  <2> HIDE DEF msg
  <2>6. CASE Large
    <3>1. ctx.pos = 1 /\ ctx.buf[1] = <<0, 1>>
      BY <2>6 DEF Large
    <3>2. ~Fits(msg)
      BY <2>3, <3>1 DEF Fits
    <3>3. QED
      BY <1>4, <2>1, <2>5, <3>2
  <2>7. CASE Empty
    <3>1. ctx.pos = 0 /\ InOrder(<<>> \o WireKeys, PartKeys(Read, peer.sent))
      BY <2>7 DEF Empty, Backlog
    <3>2. msg = <<>> /\ Fits(msg)
      BY <2>3, <3>1 DEF Fits
    <3>3. got' = got /\ ctx' = [ctx EXCEPT !.complete = FALSE, !.pos = 0]
      BY <2>1, <3>2 DEF Deliver
    <3>4. ctx'.pos = 0 /\ ctx'.receiving = ctx.receiving
      BY <2>1, <3>3 DEF WinHTTPCtxs, WinHTTPFields
    <3>5. GotInv' /\ Read' = Read
      BY <1>1, <1>3, <2>4, <3>3, GotKept DEF Read
    <3>6. Empty'
      BY <1>1, <1>3, <2>4, <3>1, <3>4, <3>5, BufferNext
    <3>7. QED
      BY <2>2, <2>5, <3>4, <3>5, <3>6 DEF WinHTTPSafe
  <2>8. CASE Full
    <3>1. /\ ctx.pos = Last(Read + 1) /\ Read < peer.sent
          /\ \A k \in 1..Last(Read + 1) : ctx.buf[k] = <<Read + 1, k>>
          /\ InOrder(<<>> \o WireKeys, PartKeys(Read + 1, peer.sent))
      BY <2>8 DEF Full, Backlog
    <3>2. /\ Given(Read + 1) \in Pieces /\ Given(Read + 1) # <<>>
          /\ Len(Given(Read + 1)) = Last(Read + 1)
          /\ \A k \in 1..Last(Read + 1) : Given(Read + 1)[k] = <<Read + 1, k>>
      <4>1. \A m \in Nat : /\ Given(m) \in Pieces /\ Given(m) # <<>>
                           /\ Len(Given(m)) = Last(m)
                           /\ \A k \in 1..Last(m) : Given(m)[k] = <<m, k>>
        BY GivenFacts
      <4>2. Read + 1 \in Nat
        BY <1>3
      <4>3. QED
        BY <4>1, <4>2
    <3>3. msg = Given(Read + 1)
      <4> DEFINE w == Given(Read + 1)
                 P == Nat \X Nat
      <4>1. msg \in Seq(P) /\ w \in Seq(P) /\ Len(msg) = Len(w)
        BY <2>3, <3>1, <3>2 DEF Pieces
      <4>2. \A k \in 1..Len(msg) : msg[k] = w[k]
        BY <2>3, <3>1, <3>2
      <4> HIDE DEF w, P
      <4>3. msg = [k \in 1..Len(msg) |-> msg[k]] /\ w = [k \in 1..Len(msg) |-> w[k]]
        BY <4>1
      <4>4. QED
        BY <4>2, <4>3 DEF w
    <3>4. Fits(msg)
      <4>1. \A k \in 1..Last(Read + 1) : <<Read + 1, k>> # <<0, 1>>
        BY <1>3
      <4>2. QED
        BY <2>3, <3>1, <4>1 DEF Fits
    <3>5. /\ got' = Append(got, Given(Read + 1))
          /\ ctx' = [ctx EXCEPT !.complete = FALSE, !.pos = 0]
      BY <2>1, <3>2, <3>3, <3>4 DEF Deliver
    <3>6. ctx'.pos = 0 /\ ctx'.receiving = ctx.receiving
      BY <2>1, <3>5 DEF WinHTTPCtxs, WinHTTPFields
    <3>7. GotInv' /\ Read' = Read + 1 /\ Read + 1 \in Nat
      BY <1>1, <1>3, <2>4, <3>1, <3>5, GotNext
    <3>8. Empty'
      BY <1>1, <2>4, <3>1, <3>6, <3>7, BufferNext
    <3>9. QED
      BY <2>2, <2>5, <3>6, <3>7, <3>8 DEF WinHTTPSafe
  <2>9. QED
    BY <2>2, <2>6, <2>7, <2>8
<1>15. QED
  BY <1>5, <1>6, <1>7, <1>8, <1>9, <1>10, <1>11, <1>12, <1>13, <1>14
  DEF WinHTTP!Step, WinHTTP!Call, WinHTTP!Read, WinHTTP!Callback

-----------------------------------------------------------------------------
(* NSURLSession: the message of the receive that is not read yet.            *)

\* A message's part, or what is none: no text, an empty one, or more than there is room for.
MsgOK(msg) ==
  \/ msg \in {Apple!NoMsg, <<>>, <<<<0, 1>>>>}
  \/ \E m \in Nat \ {0}, k \in {1, 2} : msg = <<<<m, k>>>>
MsgKey(msg) == IF msg # <<>> /\ msg[1][1] > 0 THEN Key(msg[1][1], msg[1][2]) ELSE 0

\* A receive ends before the next one begins, and its message is read in between; the close
\* takes what was sent and not received.
AppleSafe ==
  impl = "apple" /\ Open /\ call.r # "error" =>
    /\ MsgOK(ctx.msg)
    /\ ctx.handler => ctx.started /\ ~ctx.read /\ MsgKey(ctx.msg) = 0
    /\ ctx.read => ctx.started
    /\ ~ctx.started => MsgKey(ctx.msg) = 0
    /\ \E last \in Nat : /\ Read <= last /\ last <= peer.sent
                         /\ peer.mode # "closed" => last = peer.sent
                         /\ Backlog(<<MsgKey(ctx.msg)>>, Read, last)

LEMMA MsgFacts ==
  /\ MsgOK(Apple!NoMsg) /\ MsgKey(Apple!NoMsg) = 0 /\ Fits(Apple!NoMsg)
  /\ MsgOK(<<>>) /\ MsgKey(<<>>) = 0 /\ Fits(<<>>) /\ <<>> # Apple!NoMsg
  /\ MsgOK(<<<<0, 1>>>>) /\ MsgKey(<<<<0, 1>>>>) = 0 /\ ~Fits(<<<<0, 1>>>>)
  /\ <<<<0, 1>>>> # Apple!NoMsg
  /\ \A m \in Nat \ {0}, k \in {1, 2} :
       /\ MsgOK(<<<<m, k>>>>) /\ MsgKey(<<<<m, k>>>>) = Key(m, k) /\ Key(m, k) # 0
       /\ Fits(<<<<m, k>>>>) /\ <<<<m, k>>>> # Apple!NoMsg
<1>1. MsgOK(Apple!NoMsg) /\ MsgKey(Apple!NoMsg) = 0 /\ Fits(Apple!NoMsg)
  <2>1. <<0, 0>> # <<0, 1>> /\ DOMAIN Apple!NoMsg = 1..1 /\ \A i \in 1..1 : Apple!NoMsg[i] = <<0, 0>>
    BY DEF Apple!NoMsg
  <2>2. QED
    BY <2>1 DEF MsgOK, MsgKey, Fits, Apple!NoMsg
<1>2. MsgOK(<<>>) /\ MsgKey(<<>>) = 0 /\ Fits(<<>>) /\ <<>> # Apple!NoMsg
  BY DEF MsgOK, MsgKey, Fits, Apple!NoMsg
<1>3. MsgOK(<<<<0, 1>>>>) /\ MsgKey(<<<<0, 1>>>>) = 0 /\ ~Fits(<<<<0, 1>>>>)
      /\ <<<<0, 1>>>> # Apple!NoMsg
  <2>1. <<0, 0>> # <<0, 1>>
    OBVIOUS
  <2>2. QED
    BY <2>1 DEF MsgOK, MsgKey, Fits, Apple!NoMsg
<1>4. ASSUME NEW m \in Nat \ {0}, NEW k \in {1, 2}
      PROVE  /\ MsgOK(<<<<m, k>>>>) /\ MsgKey(<<<<m, k>>>>) = Key(m, k) /\ Key(m, k) # 0
             /\ Fits(<<<<m, k>>>>) /\ <<<<m, k>>>> # Apple!NoMsg
  <2> DEFINE s == <<<<m, k>>>>
  <2>1. /\ s # <<>> /\ s[1] = <<m, k>> /\ s[1][1] = m /\ s[1][2] = k /\ m > 0
        /\ \A i \in DOMAIN s : s[i] = <<m, k>>
    OBVIOUS
  <2>2. MsgOK(s)
    BY DEF MsgOK
  <2>3. Key(m, k) # 0
    BY KeyFacts
  <2>4. <<m, k>> # <<0, 1>> /\ <<m, k>> # <<0, 0>>
    OBVIOUS
  <2>5. s # Apple!NoMsg
    BY <2>1, <2>4 DEF Apple!NoMsg
  <2> HIDE DEF s
  <2>6. MsgKey(s) = Key(m, k) /\ Fits(s)
    BY <2>1, <2>4 DEF MsgKey, Fits
  <2>7. QED
    BY <2>2, <2>3, <2>5, <2>6 DEF s
<1>5. QED
  BY <1>1, <1>2, <1>3, <1>4

\* What a frame gives its reader has the frame's key.
LEMMA FrameMsg ==
  ASSUME NEW f \in Frames, f.op = "text" => f.msg > 0
  PROVE  /\ MsgOK(Payload(f)) /\ Payload(f) # Apple!NoMsg
         /\ MsgKey(Payload(f)) = FrameKey(f) /\ FrameKey(f) \in Nat
<1>1. CASE f.op = "text"
  <2>1. /\ f.msg \in Nat \ {0} /\ f.part \in {1, 2} /\ Payload(f) = <<<<f.msg, f.part>>>>
        /\ FrameKey(f) = Key(f.msg, f.part)
    BY <1>1, PayloadFacts DEF Frames, FrameKey
  <2>2. \A m \in Nat \ {0}, k \in {1, 2} :
          /\ MsgOK(<<<<m, k>>>>) /\ MsgKey(<<<<m, k>>>>) = Key(m, k)
          /\ <<<<m, k>>>> # Apple!NoMsg
    BY MsgFacts
  <2>3. \A m \in Nat \ {0}, k \in {1, 2} : Key(m, k) \in Nat
    BY DEF Key
  <2>4. QED
    BY <2>1, <2>2, <2>3
<1>2. CASE f.op = "big"
  BY <1>2, PayloadFacts, MsgFacts DEF FrameKey
<1>3. CASE f.op \notin {"text", "big"}
  BY <1>3, PayloadFacts, MsgFacts DEF FrameKey
<1>4. QED
  BY <1>1, <1>2, <1>3

LEMMA MsgKeyNat ==
  ASSUME NEW msg, MsgOK(msg)
  PROVE  MsgKey(msg) \in Nat
<1>1. CASE msg \in {Apple!NoMsg, <<>>, <<<<0, 1>>>>}
  BY <1>1, MsgFacts
<1>2. ASSUME NEW m \in Nat \ {0}, NEW j \in {1, 2}, msg = <<<<m, j>>>> PROVE MsgKey(msg) \in Nat
  <2>1. \A i \in Nat \ {0}, x \in {1, 2} : MsgKey(<<<<i, x>>>>) = Key(i, x)
    BY MsgFacts
  <2>2. MsgKey(msg) = Key(m, j)
    BY <1>2, <2>1
  <2>3. QED
    BY <2>2 DEF Key
<1>3. QED
  BY <1>1, <1>2 DEF MsgOK

\* A message that is handed to the caller is the next one, or nothing.
LEMMA MsgRead ==
  ASSUME TypeInv, GotInv, impl # "windows", impl' = impl, peer'.sent = peer.sent,
         NEW msg, MsgOK(msg), msg # Apple!NoMsg, Fits(msg), Deliver(msg),
         NEW b \in Seq(Nat), b # <<>>, Head(b) = MsgKey(msg), NEW last \in Nat, Read <= last,
         last <= peer.sent, InOrder(b, PartKeys(Read, last))
  PROVE  /\ GotInv' /\ Read' \in Nat /\ Read' <= last
         /\ InOrder(Tail(b), PartKeys(Read', last))
<1>1. Read \in Nat /\ peer.sent \in Nat /\ got \in Seq(Pieces)
  BY ReadFacts
<1>2. CASE msg = <<>>
  <2>1. GotInv' /\ Read' = Read
    BY <1>1, <1>2, GotKept DEF Deliver, Read
  <2>2. Head(b) = 0
    BY <1>2, MsgFacts
  <2>3. InOrder(Tail(b), PartKeys(Read, last))
    BY <2>2, NothingTaken
  <2>4. QED
    BY <1>1, <2>1, <2>3
<1>3. ASSUME NEW m \in Nat \ {0}, NEW k \in {1, 2}, msg = <<<<m, k>>>>
      PROVE  /\ GotInv' /\ Read' \in Nat /\ Read' <= last
             /\ InOrder(Tail(b), PartKeys(Read', last))
  <2>1. Head(b) = Key(m, k) /\ m > 0 /\ Last(Read + 1) = 1
    <3>1. \A i \in Nat \ {0}, j \in {1, 2} : MsgKey(<<<<i, j>>>>) = Key(i, j)
      BY MsgFacts
    <3>2. Head(b) = Key(m, k)
      BY <1>3, <3>1
    <3>3. Last(Read + 1) = 1
      BY LastFacts
    <3>4. QED
      BY <3>2, <3>3
  <2>2. m = Read + 1 /\ k = 1 /\ Read < last /\ InOrder(Tail(b), PartKeys(Read + 1, last))
    BY <1>1, <2>1, PartFirst
  <2>3. msg = Given(Read + 1) /\ msg # <<>>
    <3>1. Given(Read + 1) = <<<<Read + 1, 1>>>>
      BY <1>1, <2>1, GivenFacts
    <3>2. msg # <<>>
      BY <1>3
    <3>3. QED
      BY <1>3, <2>2, <3>1, <3>2
  <2>4. got' = Append(got, Given(Read + 1)) /\ Read < peer.sent
    BY <1>1, <2>2, <2>3 DEF Deliver
  <2>5. GotInv' /\ Read' = Read + 1
    BY <1>1, <2>4, GotNext
  <2>6. QED
    BY <1>1, <2>2, <2>5
<1>4. QED
  BY <1>2, <1>3, MsgFacts DEF MsgOK

LEMMA AppleNext ==
  ASSUME impl' = impl, MsgOK(ctx'.msg), ctx'.handler => ctx'.started /\ ~ctx'.read,
         ctx'.read => ctx'.started, ctx'.handler \/ ~ctx'.started => MsgKey(ctx'.msg) = 0,
         NEW last \in Nat, Read' <= last, last <= peer'.sent,
         peer'.mode # "closed" => last = peer'.sent,
         InOrder(<<MsgKey(ctx'.msg)>> \o WireKeys', PartKeys(Read', last))
  PROVE  AppleSafe'
<1>1. \A b, n : InOrder(b \o WireKeys', PartKeys(n, last)) => Backlog(b, n, last)'
  BY BacklogNext
<1>2. Backlog(<<MsgKey(ctx.msg)>>, Read, last)'
  BY <1>1
<1>3. MsgOK(ctx.msg)'
  BY DEF MsgOK, Apple!NoMsg
<1>4. MsgKey(ctx.msg)' = MsgKey(ctx'.msg)
  BY DEF MsgKey, Key
<1>5. QED
  BY <1>2, <1>3, <1>4 DEF AppleSafe

\* What the step of an open connection begins with.
LEMMA AppleNow ==
  ASSUME TypeInv, GotInv, AppleSafe, impl = "apple", Open, call.r # "error"
  PROVE  /\ MsgOK(ctx.msg) /\ MsgKey(ctx.msg) \in Nat
         /\ ctx.handler => ctx.started /\ ~ctx.read /\ MsgKey(ctx.msg) = 0
         /\ ctx.read => ctx.started
         /\ ~ctx.started => MsgKey(ctx.msg) = 0
         /\ <<MsgKey(ctx.msg)>> \in Seq(Nat) /\ <<MsgKey(ctx.msg)>> # <<>>
         /\ Head(<<MsgKey(ctx.msg)>>) = MsgKey(ctx.msg) /\ Tail(<<MsgKey(ctx.msg)>>) = <<>>
         /\ <<0>> \in Seq(Nat) /\ <<0>> # <<>> /\ Head(<<0>>) = 0 /\ Tail(<<0>>) = <<>>
         /\ \E last \in Nat : /\ Read <= last /\ last <= peer.sent
                              /\ peer.mode # "closed" => last = peer.sent
                              /\ InOrder(<<MsgKey(ctx.msg)>> \o WireKeys, PartKeys(Read, last))
<1> DEFINE k == MsgKey(ctx.msg)
<1>1. MsgOK(ctx.msg)
  BY DEF AppleSafe
<1>2. k \in Nat
  BY <1>1, MsgKeyNat
<1>3. \A x \in Nat : <<x>> \in Seq(Nat) /\ <<x>> # <<>> /\ Head(<<x>>) = x /\ Tail(<<x>>) = <<>>
  OBVIOUS
<1>4. \E last \in Nat : /\ Read <= last /\ last <= peer.sent
                        /\ peer.mode # "closed" => last = peer.sent
                        /\ InOrder(<<k>> \o WireKeys, PartKeys(Read, last))
  BY DEF AppleSafe, Backlog
<1>5. /\ ctx.handler => ctx.started /\ ~ctx.read /\ k = 0
      /\ ctx.read => ctx.started
      /\ ~ctx.started => k = 0
  BY DEF AppleSafe
<1> HIDE DEF k
<1>6. QED
  BY <1>1, <1>2, <1>3, <1>4, <1>5 DEF k

LEMMA AppleReads ==
  ASSUME TypeInv, GotInv, AppleSafe, On({"apple"}), Apple!Step
  PROVE  GotInv' /\ AppleSafe'
<1>1. /\ impl = "apple" /\ impl' = impl /\ PeerInv /\ call \in Calls
      /\ Open => ctx \in AppleCtxs
  BY CtxFacts
  DEF TypeInv, On, CallInv, Apple!Step, Apple!MTY_WebSocketConnect, Apple!Connected,
      Apple!Call, Apple!MTY_WebSocketDestroy, Apple!MTY_WebSocketRead, Apple!Read,
      Apple!ReadEnds, Apple!ReadTimesOut, Apple!ConnectEnds, Apple!DestroyEnds,
      Apple!Callback, Apple!DidReceive, Apple!PongHandler, Apple!didBecomeInvalid, Apple!Tick,
      Apple!didOpenWithProtocol, Apple!didCloseWithCode
<1>2. Open <=> call.pc \notin {"start", "gone"}
  BY CtxFacts DEF TypeInv, CallInv
<1>3. /\ Read \in Nat /\ peer.sent \in Nat /\ Read <= peer.sent /\ got \in Seq(Pieces)
      /\ WireKeys \in Seq(Nat)
  BY ReadFacts
<1>4. ASSUME Open, UNCHANGED got, peer'.wire = peer.wire, peer'.sent = peer.sent,
             peer'.mode = peer.mode, ctx'.msg = ctx.msg, ctx'.handler => ctx.handler,
             ctx'.started = ctx.started, ctx'.read = ctx.read,
             call'.r # "error" => call.r # "error"
      PROVE  GotInv' /\ AppleSafe'
  <2>1. GotInv' /\ Read' = Read
    BY <1>1, <1>3, <1>4, GotKept DEF Read
  <2>2. WireKeys' = WireKeys
    BY <1>4 DEF WireKeys, FrameKey, Key
  <2>3. CASE call.r # "error"
    <3>1. PICK last \in Nat : /\ Read <= last /\ last <= peer.sent
                              /\ peer.mode # "closed" => last = peer.sent
                              /\ InOrder(<<MsgKey(ctx.msg)>> \o WireKeys, PartKeys(Read, last))
      BY <1>1, <1>4, <2>3, AppleNow
    <3>2. /\ MsgOK(ctx'.msg) /\ (ctx'.handler => ctx'.started /\ ~ctx'.read)
          /\ ctx'.read => ctx'.started
          /\ ctx'.handler \/ ~ctx'.started => MsgKey(ctx'.msg) = 0
      BY <1>1, <1>4, <2>3, AppleNow
    <3>3. AppleSafe'
      BY <1>1, <1>4, <2>1, <2>2, <3>1, <3>2, AppleNext
    <3>4. QED
      BY <2>1, <3>3
  <2>4. CASE call.r = "error"
    BY <1>4, <2>1, <2>4 DEF AppleSafe
  <2>5. QED
    BY <2>3, <2>4
<1>5. CASE Apple!MTY_WebSocketConnect
  <2>1. /\ call.pc = "start" /\ UNCHANGED <<impl, peer, got>>
        /\ ctx'.msg = Apple!NoMsg /\ ~ctx'.handler /\ ~ctx'.started /\ ~ctx'.read
    BY <1>5 DEF Apple!MTY_WebSocketConnect, Apple!New
  <2>2. GotInv' /\ Read' = Read
    BY <1>1, <1>3, <2>1, GotKept DEF Read
  <2>3. /\ WireKeys = <<>> /\ Read = 0 /\ peer.sent = 0 /\ PartKeys(0, 0) = {} /\ InOrder(<<>>, {})
        /\ WireKeys' = WireKeys
    BY <2>1, NothingYet DEF WireKeys, FrameKey, Key
  <2>4. InOrder(<<0>> \o WireKeys', PartKeys(Read', 0))
    BY <2>2, <2>3, NothingFirst
  <2>5. MsgOK(ctx'.msg) /\ MsgKey(ctx'.msg) = 0
    BY <2>1, MsgFacts
  <2>6. AppleSafe'
    BY <1>1, <2>1, <2>2, <2>3, <2>4, <2>5, AppleNext
  <2>7. QED
    BY <2>2, <2>6
<1>6. CASE Apple!DestroyEnds
  <2>1. ctx'.st = "none" /\ UNCHANGED <<impl, peer, got>>
    BY <1>6 DEF Apple!DestroyEnds, Apple!Dead
  <2>2. QED
    BY <1>1, <1>3, <2>1, GotKept DEF AppleSafe, Open
<1>7. CASE \/ Apple!didOpenWithProtocol \/ Apple!didBecomeInvalid \/ Apple!ConnectEnds
           \/ Apple!MTY_WebSocketDestroy
  <2>1. /\ call.pc \in {"connect", "destroy", "idle"} /\ UNCHANGED <<impl, peer, got>>
        /\ call'.r = call.r
        /\ \/ ctx' = [ctx EXCEPT !.conn = TRUE]
           \/ ctx' = [ctx EXCEPT !.conn = FALSE]
           \/ ctx' = [ctx EXCEPT !.conn = TRUE, !.invalid = TRUE, !.handler = FALSE]
           \/ ctx' = ctx
    BY <1>1, <1>7
    DEF Apple!didOpenWithProtocol, Apple!didBecomeInvalid, Apple!ConnectEnds, Apple!Connected,
        Apple!MTY_WebSocketDestroy, Apple!MayDestroy, Calls
  <2>2. Open /\ ctx \in AppleCtxs
    BY <1>1, <1>2, <2>1
  <2>3. /\ ctx'.msg = ctx.msg /\ (ctx'.handler => ctx.handler) /\ ctx'.started = ctx.started
        /\ ctx'.read = ctx.read
    BY <2>1, <2>2 DEF AppleCtxs
  <2>4. QED
    BY <1>4, <2>1, <2>2, <2>3
<1>8. CASE Apple!ReadTimesOut
  <2>1. call.pc = "wait" /\ UNCHANGED <<impl, ctx, peer, got>>
    BY <1>8 DEF Apple!ReadTimesOut
  <2>2. call.r # "error"
    BY <2>1 DEF TypeInv, CallInv
  <2>3. QED
    BY <1>2, <1>4, <2>1, <2>2
<1>9. CASE Apple!Tick
  <2>1. /\ call.pc = "idle" /\ UNCHANGED <<impl, peer, got>> /\ call'.r = call.r
        /\ ctx' = [ctx EXCEPT !.ping = Apple!Older(@), !.pong = Apple!Older(@)]
    BY <1>1, <1>9 DEF Apple!Tick, Calls
  <2>2. Open /\ ctx \in AppleCtxs
    BY <1>1, <1>2, <2>1
  <2>3. /\ ctx'.msg = ctx.msg /\ ctx'.handler = ctx.handler /\ ctx'.started = ctx.started
        /\ ctx'.read = ctx.read
    BY <2>1, <2>2 DEF AppleCtxs
  <2>4. QED
    BY <1>4, <2>1, <2>2, <2>3
<1>10. CASE Apple!MTY_WebSocketRead
  <2> DEFINE pinged == [ctx EXCEPT !.ping = IF @ > Apple!PingInterval THEN 0 ELSE @]
  <2>1. /\ call.pc = "idle" /\ call.r \notin {"error", "done"} /\ UNCHANGED <<impl, got>>
        /\ peer' = [peer EXCEPT !.pings = IF ctx.ping > Apple!PingInterval /\ peer.mode = "up"
                                          THEN @ + 1 ELSE @]
        /\ \/ ctx' = pinged
           \/ ~ctx.started /\ ctx' = [pinged EXCEPT !.started = TRUE, !.error = FALSE,
                                                   !.msg = Apple!NoMsg, !.handler = TRUE]
    BY <1>10 DEF Apple!MTY_WebSocketRead, Apple!MayRead
  <2>2. Open /\ ctx \in AppleCtxs
    BY <1>1, <1>2, <2>1
  <2>3. /\ peer'.wire = peer.wire /\ peer'.sent = peer.sent /\ peer'.mode = peer.mode
    BY <1>1, <2>1 DEF PeerInv, Peers
  <2>4. /\ pinged.msg = ctx.msg /\ pinged.handler = ctx.handler /\ pinged.started = ctx.started
        /\ pinged.read = ctx.read /\ pinged \in AppleCtxs
    BY <2>2 DEF AppleCtxs
  <2> HIDE DEF pinged
  <2>5. CASE ctx' = pinged
    BY <1>4, <2>1, <2>2, <2>3, <2>4, <2>5
  <2>6. CASE ~ctx.started /\ ctx' = [pinged EXCEPT !.started = TRUE, !.error = FALSE,
                                                  !.msg = Apple!NoMsg, !.handler = TRUE]
    <3>1. ctx'.msg = Apple!NoMsg /\ ctx'.handler /\ ctx'.started /\ ctx'.read = ctx.read
      BY <2>4, <2>6 DEF AppleCtxs
    <3>2. ~ctx.read /\ MsgKey(ctx.msg) = 0
      BY <1>1, <2>1, <2>2, <2>6, AppleNow
    <3>3. GotInv' /\ Read' = Read
      BY <1>1, <1>3, <2>1, <2>3, GotKept DEF Read
    <3>4. WireKeys' = WireKeys
      BY <2>3 DEF WireKeys, FrameKey, Key
    <3>5. PICK last \in Nat : /\ Read <= last /\ last <= peer.sent
                              /\ peer.mode # "closed" => last = peer.sent
                              /\ InOrder(<<MsgKey(ctx.msg)>> \o WireKeys, PartKeys(Read, last))
      BY <1>1, <2>1, <2>2, AppleNow
    <3>6. MsgOK(ctx'.msg) /\ MsgKey(ctx'.msg) = 0
      BY <3>1, MsgFacts
    <3>7. AppleSafe'
      BY <1>1, <2>3, <3>1, <3>2, <3>3, <3>4, <3>5, <3>6, AppleNext
    <3>8. QED
      BY <3>3, <3>7
  <2>7. QED
    BY <2>1, <2>5, <2>6
<1>11. CASE Apple!ReadEnds
  <2> DEFINE msg == IF ~ctx.error /\ Fits(ctx.msg) THEN Apple!NoMsg ELSE ctx.msg
             k == MsgKey(ctx.msg)
  <2>1. /\ call.pc = "wait" /\ ctx.read /\ UNCHANGED <<impl, peer>>
        /\ ctx' = [ctx EXCEPT !.read = FALSE, !.started = FALSE, !.msg = msg]
        /\ \/ Answer("error") /\ got' = got
           \/ /\ ~ctx.error /\ ctx.msg = Apple!NoMsg /\ got' = got
           \/ /\ ~ctx.error /\ ctx.msg # Apple!NoMsg /\ Fits(ctx.msg) /\ Deliver(ctx.msg)
    BY <1>11 DEF Apple!ReadEnds, Apple!Answer, Answer, Apple!Deliver, Deliver, Apple!Fits, Fits
  <2>2. Open /\ ctx \in AppleCtxs /\ call.r # "error"
    BY <1>1, <1>2, <2>1 DEF TypeInv, CallInv
  <2>3. WireKeys' = WireKeys /\ peer'.sent = peer.sent /\ peer'.mode = peer.mode
    BY <2>1 DEF WireKeys, FrameKey, Key
  <2>4. /\ MsgOK(ctx.msg) /\ k \in Nat /\ ctx.started /\ ~ctx.handler
        /\ <<k>> \in Seq(Nat) /\ <<k>> # <<>> /\ Head(<<k>>) = k /\ Tail(<<k>>) = <<>>
    BY <1>1, <2>1, <2>2, AppleNow
  <2>5. PICK last \in Nat : /\ Read <= last /\ last <= peer.sent
                            /\ peer.mode # "closed" => last = peer.sent
                            /\ InOrder(<<k>> \o WireKeys, PartKeys(Read, last))
    BY <1>1, <2>2, AppleNow
  <2>6. ctx'.msg = msg /\ ~ctx'.handler /\ ~ctx'.started /\ ~ctx'.read
    BY <2>1, <2>2, <2>4 DEF AppleCtxs
  <2>7. CASE Answer("error") /\ got' = got
    <3>1. call'.r = "error"
      BY <1>1, <2>7, CallSteps DEF Results
    <3>2. GotInv'
      BY <1>1, <1>3, <2>3, <2>7, GotKept
    <3>3. QED
      BY <3>1, <3>2 DEF AppleSafe
  <2>8. ASSUME ~ctx.error, Fits(ctx.msg), GotInv', Read' \in Nat, Read' <= last,
               InOrder(WireKeys, PartKeys(Read', last))
        PROVE  GotInv' /\ AppleSafe'
    <3>1. ctx'.msg = Apple!NoMsg
      BY <2>6, <2>8
    <3>2. MsgOK(ctx'.msg) /\ MsgKey(ctx'.msg) = 0
      BY <3>1, MsgFacts
    <3>3. InOrder(<<0>> \o WireKeys', PartKeys(Read', last))
      BY <2>3, <2>8, NothingFirst
    <3>4. AppleSafe'
      BY <1>1, <2>3, <2>5, <2>6, <2>8, <3>2, <3>3, AppleNext
    <3>5. QED
      BY <2>8, <3>4
  <2>9. /\ <<k>> \o WireKeys \in Seq(Nat) /\ <<k>> \o WireKeys # <<>>
        /\ Head(<<k>> \o WireKeys) = k /\ Tail(<<k>> \o WireKeys) = WireKeys
    BY <1>3, <2>4, JoinFacts
  <2>10. CASE ~ctx.error /\ ctx.msg = Apple!NoMsg /\ got' = got
    <3>1. k = 0 /\ Fits(ctx.msg)
      BY <2>10, MsgFacts
    <3>2. GotInv' /\ Read' = Read
      BY <1>1, <1>3, <2>3, <2>10, GotKept DEF Read
    <3> HIDE DEF k
    <3>3. InOrder(WireKeys, PartKeys(Read, last))
      BY <2>5, <2>9, <3>1, NothingTaken
    <3>4. QED
      BY <1>3, <2>5, <2>8, <2>10, <3>1, <3>2, <3>3
  <2>11. CASE ~ctx.error /\ ctx.msg # Apple!NoMsg /\ Fits(ctx.msg) /\ Deliver(ctx.msg)
    <3>1. /\ GotInv' /\ Read' \in Nat /\ Read' <= last
          /\ InOrder(Tail(<<k>> \o WireKeys), PartKeys(Read', last))
      BY <1>1, <2>3, <2>4, <2>5, <2>9, <2>11, MsgRead
    <3>2. QED
      BY <2>8, <2>9, <2>11, <3>1
  <2>12. QED
    BY <2>1, <2>7, <2>10, <2>11
<1>12. CASE Apple!DidReceive
  <2> DEFINE f == Head(peer.wire)
             msg == IF f.op = "binary" THEN Apple!NoMsg ELSE Payload(f)
  <2>1. /\ Open /\ ctx.handler /\ UNCHANGED <<impl, call, got>> /\ ctx \in AppleCtxs
        /\ \/ /\ peer.wire # <<>> /\ peer' = Rest
              /\ ctx' = [ctx EXCEPT !.handler = FALSE, !.read = TRUE, !.msg = msg]
           \/ /\ peer' = peer
              /\ ctx' = [ctx EXCEPT !.handler = FALSE, !.read = TRUE, !.error = TRUE]
    BY <1>1, <1>12
    DEF Apple!DidReceive, Apple!Open, Open, Apple!Arrives, Apple!Rest, Rest, Apple!Payload, Payload
  <2>2. peer'.sent = peer.sent /\ peer'.mode = peer.mode
    BY <1>1, <2>1, FrameTaken
  <2>3. GotInv' /\ Read' = Read
    BY <1>1, <1>3, <2>1, <2>2, GotKept DEF Read
  <2>4. CASE call.r = "error"
    BY <2>1, <2>3, <2>4 DEF AppleSafe
  <2>5. CASE call.r # "error"
    <3>1. /\ MsgOK(ctx.msg) /\ MsgKey(ctx.msg) = 0 /\ ctx.started
          /\ <<0>> \in Seq(Nat) /\ <<0>> # <<>> /\ Head(<<0>>) = 0 /\ Tail(<<0>>) = <<>>
      BY <1>1, <2>1, <2>5, AppleNow
    <3>2. PICK last \in Nat : /\ Read <= last /\ last <= peer.sent
                              /\ peer.mode # "closed" => last = peer.sent
                              /\ InOrder(<<0>> \o WireKeys, PartKeys(Read, last))
      BY <1>1, <2>1, <2>5, <3>1, AppleNow
    <3>3. CASE /\ peer' = peer
               /\ ctx' = [ctx EXCEPT !.handler = FALSE, !.read = TRUE, !.error = TRUE]
      <4>1. ctx'.msg = ctx.msg /\ ~ctx'.handler /\ ctx'.started /\ ctx'.read
        BY <2>1, <3>1, <3>3 DEF AppleCtxs
      <4>2. WireKeys' = WireKeys
        BY <3>3 DEF WireKeys, FrameKey, Key
      <4>3. AppleSafe'
        BY <1>1, <2>2, <2>3, <3>1, <3>2, <4>1, <4>2, AppleNext
      <4>4. QED
        BY <2>3, <4>3
    <3>4. CASE /\ peer.wire # <<>> /\ peer' = Rest
               /\ ctx' = [ctx EXCEPT !.handler = FALSE, !.read = TRUE, !.msg = msg]
      <4>1. ctx'.msg = msg /\ ~ctx'.handler /\ ctx'.started /\ ctx'.read
        BY <2>1, <3>1, <3>4 DEF AppleCtxs
      <4>2. /\ WireKeys # <<>> /\ Head(WireKeys) = FrameKey(f) /\ f \in Frames
            /\ f.op = "text" => f.msg > 0
        BY <1>1, <3>4, FirstFrame DEF FrameOK
      <4>3. WireKeys' = Tail(WireKeys)
        BY <1>1, <3>4, FrameTaken
      <4>4. MsgOK(msg) /\ MsgKey(msg) = FrameKey(f) /\ FrameKey(f) \in Nat
        <5>1. CASE f.op = "binary"
          BY <5>1, MsgFacts DEF FrameKey
        <5>2. CASE f.op # "binary"
          BY <4>2, <5>2, FrameMsg
        <5>3. QED
          BY <5>1, <5>2
      <4>5. InOrder(WireKeys, PartKeys(Read, last))
        <5>1. /\ <<0>> \o WireKeys # <<>> /\ Head(<<0>> \o WireKeys) = 0
              /\ Tail(<<0>> \o WireKeys) = WireKeys
          BY <1>3, <3>1, JoinFacts
        <5>2. QED
          BY <3>2, <5>1, NothingTaken
      <4>6. <<FrameKey(f)>> \o WireKeys' = WireKeys
        <5>1. Append(<<>>, Head(WireKeys)) \o Tail(WireKeys) = <<>> \o WireKeys
              /\ <<>> \o WireKeys = WireKeys
          BY <1>3, <4>2, JoinFacts
        <5>2. Append(<<>>, Head(WireKeys)) = <<Head(WireKeys)>>
          OBVIOUS
        <5>3. QED
          BY <4>2, <4>3, <5>1, <5>2
      <4> HIDE DEF msg, f
      <4>7. InOrder(<<MsgKey(ctx'.msg)>> \o WireKeys', PartKeys(Read', last)) /\ MsgOK(ctx'.msg)
        BY <2>3, <4>1, <4>4, <4>5, <4>6
      <4>8. AppleSafe'
        BY <1>1, <2>2, <2>3, <3>2, <4>1, <4>7, AppleNext
      <4>9. QED
        BY <2>3, <4>8
    <3>5. QED
      BY <2>1, <3>3, <3>4
  <2>6. QED
    BY <2>4, <2>5
<1>13. CASE Apple!didCloseWithCode
  <2> DEFINE k == MsgKey(ctx.msg)
  <2>1. /\ Open /\ \E i \in DOMAIN peer.wire : peer.wire[i].op = "close"
        /\ ctx' = [ctx EXCEPT !.closed = TRUE] /\ UNCHANGED <<impl, call, got>>
        /\ peer' = [peer EXCEPT !.wire = <<Control("eof")>>, !.own = <<TRUE>>]
    BY <1>13 DEF Apple!didCloseWithCode, Apple!Open, Open, Apple!Control, Control,
                 Apple!Frame, Frame
  <2>2. peer.mode = "closed" /\ peer'.mode = "closed" /\ peer'.sent = peer.sent
    BY <1>1, <2>1, WireClosed
  <2>3. GotInv' /\ Read' = Read
    BY <1>1, <1>3, <2>1, <2>2, GotKept DEF Read
  <2>4. WireKeys' = <<0>>
    <3>1. peer'.wire = <<Control("eof")>>
      BY <1>1, <2>1 DEF PeerInv, Peers
    <3>2. FrameKey(Control("eof")) = 0
      BY DEF FrameKey, Control, Frame
    <3> DEFINE w == <<Control("eof")>>
    <3>3. WireKeys' = [i \in 1..Len(w) |-> FrameKey(w[i])]
      BY <3>1 DEF WireKeys, FrameKey, Key
    <3>4. Len(w) = 1 /\ w[1] = Control("eof")
      OBVIOUS
    <3> HIDE DEF w
    <3>5. WireKeys' = [i \in 1..1 |-> 0]
      BY <3>2, <3>3, <3>4
    <3>6. QED
      BY <3>5
  <2>5. CASE call.r = "error"
    BY <2>1, <2>3, <2>5 DEF AppleSafe
  <2>6. CASE call.r # "error"
    <3>1. /\ MsgOK(ctx.msg) /\ k \in Nat
          /\ ctx.handler => ctx.started /\ ~ctx.read /\ k = 0
          /\ ctx.read => ctx.started
          /\ ~ctx.started => k = 0
          /\ <<k>> \in Seq(Nat) /\ <<k>> # <<>> /\ Head(<<k>>) = k
      BY <1>1, <2>1, <2>6, AppleNow
    <3>2. PICK last \in Nat : /\ Read <= last /\ last <= peer.sent
                              /\ InOrder(<<k>> \o WireKeys, PartKeys(Read, last))
      BY <1>1, <2>1, <2>6, AppleNow
    <3>3. /\ ctx'.msg = ctx.msg /\ ctx'.handler = ctx.handler /\ ctx'.started = ctx.started
          /\ ctx'.read = ctx.read
      BY <1>1, <2>1 DEF AppleCtxs
    <3> HIDE DEF k
    <3>4. InOrder(<<>>, {})
      BY DEF InOrder
    <3>5. <<k>> \o <<0>> = Append(<<k>>, 0) /\ <<k>> = Append(<<>>, k)
      BY <3>1
    <3>6. PartKeys(Read, Read) = {}
      BY <1>3 DEF PartKeys
    <3>7. CASE k = 0
      <4>1. InOrder(<<k>> \o WireKeys', PartKeys(Read', Read))
        BY <2>3, <2>4, <3>4, <3>5, <3>6, <3>7, NothingAdded
      <4>2. AppleSafe'
        BY <1>1, <1>3, <2>2, <2>3, <3>1, <3>3, <4>1, AppleNext DEF k
      <4>3. QED
        BY <2>3, <4>2
    <3>8. CASE k # 0
      <4>1. <<k>> \o WireKeys # <<>> /\ Head(<<k>> \o WireKeys) = k
        BY <1>3, <3>1, JoinFacts
      <4>2. k \in PartKeys(Read, last) /\ \A y \in PartKeys(Read, last) : k <= y
        BY <3>2, <3>8, <4>1, TakenFirst
      <4>3. Read < last /\ k = Key(Read + 1, 1)
        BY <1>3, <4>2, PartKeysLeast
      <4>4. Last(Read + 1) = 1
        BY <1>1, LastFacts
      <4>5. PartKeys(Read, Read + 1) = {k}
        <5>1. PartKeys(Read, Read + 1)
                = PartKeys(Read, Read) \cup {Key(Read + 1, j) : j \in 1..Last(Read + 1)}
          BY <1>3, PartKeysMore
        <5>2. 1..1 = {1}
          OBVIOUS
        <5>3. QED
          BY <3>6, <4>3, <4>4, <5>1, <5>2
      <4>6. InOrder(<<k>>, {} \cup {k})
        BY <3>1, <3>4, <3>5, <3>8, AddedLast
      <4>7. InOrder(<<k>> \o WireKeys', PartKeys(Read', Read + 1))
        <5>1. {} \cup {k} = {k}
          OBVIOUS
        <5>2. QED
          BY <2>3, <2>4, <3>5, <4>5, <4>6, <5>1, NothingAdded
      <4>8. Read + 1 \in Nat /\ Read <= Read + 1 /\ Read + 1 <= peer.sent
        BY <1>3, <3>2, <4>3
      <4>9. AppleSafe'
        BY <1>1, <2>2, <2>3, <3>1, <3>3, <4>7, <4>8, AppleNext DEF k
      <4>10. QED
        BY <2>3, <4>9
    <3>9. QED
      BY <3>7, <3>8
  <2>7. QED
    BY <2>5, <2>6
<1>14. CASE Apple!PongHandler
  <2> DEFINE k == MsgKey(ctx.msg)
  <2>1. /\ Open /\ peer.wire # <<>> /\ peer' = Rest /\ UNCHANGED <<impl, call, got>>
        /\ ctx' = [ctx EXCEPT !.pong = 0] /\ Head(peer.wire).op = "pong"
    BY <1>14 DEF Apple!PongHandler, Apple!Open, Open, Apple!Arrives, Apple!Rest, Rest
  <2>2. /\ peer'.sent = peer.sent /\ peer'.mode = peer.mode /\ WireKeys' = Tail(WireKeys)
    BY <1>1, <2>1, FrameTaken
  <2>3. GotInv' /\ Read' = Read
    BY <1>1, <1>3, <2>1, <2>2, GotKept DEF Read
  <2>4. WireKeys # <<>> /\ Head(WireKeys) = 0
    BY <1>1, <2>1, FirstFrame DEF FrameKey
  <2>5. CASE call.r = "error"
    BY <2>1, <2>3, <2>5 DEF AppleSafe
  <2>6. CASE call.r # "error"
    <3>1. /\ MsgOK(ctx.msg) /\ k \in Nat
          /\ ctx.handler => ctx.started /\ ~ctx.read /\ k = 0
          /\ ctx.read => ctx.started
          /\ ~ctx.started => k = 0
          /\ <<k>> \in Seq(Nat)
      BY <1>1, <2>1, <2>6, AppleNow
    <3>2. PICK last \in Nat : /\ Read <= last /\ last <= peer.sent
                              /\ peer.mode # "closed" => last = peer.sent
                              /\ InOrder(<<k>> \o WireKeys, PartKeys(Read, last))
      BY <1>1, <2>1, <2>6, AppleNow
    <3>3. /\ ctx'.msg = ctx.msg /\ ctx'.handler = ctx.handler /\ ctx'.started = ctx.started
          /\ ctx'.read = ctx.read
      BY <1>1, <2>1 DEF AppleCtxs
    <3> HIDE DEF k
    <3>4. InOrder(<<k>> \o WireKeys', PartKeys(Read', last))
      BY <1>3, <2>2, <2>3, <2>4, <3>1, <3>2, NothingMiddle
    <3>5. AppleSafe'
      BY <1>1, <2>2, <2>3, <3>1, <3>2, <3>3, <3>4, AppleNext DEF k
    <3>6. QED
      BY <2>3, <3>5
  <2>7. QED
    BY <2>5, <2>6
<1>15. QED
  BY <1>5, <1>6, <1>7, <1>8, <1>9, <1>10, <1>11, <1>12, <1>13, <1>14
  DEF Apple!Step, Apple!Call, Apple!Read, Apple!Callback

-----------------------------------------------------------------------------
(* The browser: the messages of its object.                                  *)

TextOK(msg) == MsgOK(msg) /\ msg # Apple!NoMsg
MsgKeys(ms) == [i \in 1..Len(ms) |-> MsgKey(ms[i])]

WebSafe ==
  impl = "web" /\ Open =>
    /\ \A i \in 1..Len(ctx.msgs) : TextOK(ctx.msgs[i])
    /\ Backlog(MsgKeys(ctx.msgs), Read, peer.sent)

LEMMA MsgKeysFacts ==
  ASSUME NEW ms \in Seq(Pieces), \A i \in 1..Len(ms) : TextOK(ms[i])
  PROVE  /\ MsgKeys(ms) \in Seq(Nat)
         /\ ms # <<>> =>
              /\ MsgKeys(ms) # <<>> /\ Head(MsgKeys(ms)) = MsgKey(Head(ms))
              /\ Tail(MsgKeys(ms)) = MsgKeys(Tail(ms))
              /\ TextOK(Head(ms)) /\ \A i \in 1..Len(Tail(ms)) : TextOK(Tail(ms)[i])
<1> DEFINE K == MsgKeys(ms)
<1>1. \A i \in 1..Len(ms) : MsgKey(ms[i]) \in Nat
  BY MsgKeyNat DEF TextOK
<1>2. K \in Seq(Nat) /\ Len(K) = Len(ms) /\ \A i \in 1..Len(ms) : K[i] = MsgKey(ms[i])
  BY <1>1 DEF MsgKeys
<1>3. ASSUME ms # <<>>
      PROVE  /\ K # <<>> /\ Head(K) = MsgKey(Head(ms)) /\ Tail(K) = MsgKeys(Tail(ms))
             /\ TextOK(Head(ms)) /\ \A i \in 1..Len(Tail(ms)) : TextOK(Tail(ms)[i])
  <2> DEFINE t == Tail(ms)
             u == MsgKeys(t)
  <2>1. /\ Len(ms) \in Nat \ {0} /\ t \in Seq(Pieces) /\ Len(t) = Len(ms) - 1
        /\ Head(ms) = ms[1] /\ \A i \in 1..Len(t) : i + 1 \in 1..Len(ms) /\ t[i] = ms[i + 1]
    BY <1>3
  <2> HIDE DEF K, t
  <2>2. /\ K # <<>> /\ Head(K) = K[1] /\ 1 \in 1..Len(ms) /\ Tail(K) \in Seq(Nat)
        /\ Len(Tail(K)) = Len(ms) - 1 /\ \A i \in 1..Len(Tail(K)) : Tail(K)[i] = K[i + 1]
    BY <1>2, <2>1
  <2>3. \A i \in 1..Len(t) : TextOK(t[i]) /\ MsgKey(t[i]) \in Nat
    BY <1>1, <2>1
  <2>4. u \in Seq(Nat) /\ Len(u) = Len(t) /\ \A i \in 1..Len(t) : u[i] = MsgKey(t[i])
    BY <2>1, <2>3 DEF MsgKeys
  <2> HIDE DEF u
  <2>5. \A i \in 1..Len(Tail(K)) : Tail(K)[i] = u[i]
    BY <1>2, <2>1, <2>2, <2>4
  <2>6. Tail(K) = u
    BY <2>1, <2>2, <2>4, <2>5, SameSeq
  <2>7. QED
    BY <1>2, <2>1, <2>2, <2>3, <2>6 DEF t, u
<1>4. QED
  BY <1>2, <1>3

LEMMA MsgKeysMore ==
  ASSUME NEW ms \in Seq(Pieces), \A i \in 1..Len(ms) : TextOK(ms[i]), NEW m \in Pieces, TextOK(m)
  PROVE  /\ MsgKeys(Append(ms, m)) = Append(MsgKeys(ms), MsgKey(m))
         /\ \A i \in 1..Len(Append(ms, m)) : TextOK(Append(ms, m)[i])
<1> DEFINE t == Append(ms, m)
           u == MsgKeys(t)
           v == Append(MsgKeys(ms), MsgKey(m))
<1>1. MsgKeys(ms) \in Seq(Nat) /\ MsgKey(m) \in Nat /\ Len(MsgKeys(ms)) = Len(ms)
      /\ \A i \in 1..Len(ms) : MsgKeys(ms)[i] = MsgKey(ms[i])
  BY MsgKeysFacts, MsgKeyNat DEF MsgKeys, TextOK
<1>2. /\ t \in Seq(Pieces) /\ Len(t) = Len(ms) + 1 /\ Len(ms) \in Nat
      /\ \A i \in 1..Len(t) : t[i] = IF i <= Len(ms) THEN ms[i] ELSE m
  OBVIOUS
<1> HIDE DEF t
<1>3. \A i \in 1..Len(t) : TextOK(t[i]) /\ MsgKey(t[i]) \in Nat
  BY <1>2, MsgKeyNat DEF TextOK
<1>4. u \in Seq(Nat) /\ Len(u) = Len(t) /\ \A i \in 1..Len(t) : u[i] = MsgKey(t[i])
  BY <1>2, <1>3 DEF MsgKeys
<1>5. /\ v \in Seq(Nat) /\ Len(v) = Len(ms) + 1
      /\ \A i \in 1..Len(ms) : v[i] = MsgKey(ms[i])
      /\ v[Len(ms) + 1] = MsgKey(m)
  BY <1>1
<1> HIDE DEF u, v
<1>6. \A i \in 1..Len(u) : u[i] = v[i]
  <2>1. TAKE i \in 1..Len(u)
  <2>2. u[i] = MsgKey(t[i]) /\ t[i] = IF i <= Len(ms) THEN ms[i] ELSE m
    BY <1>2, <1>4
  <2>3. CASE i <= Len(ms)
    <3>1. v[i] = MsgKey(ms[i]) /\ t[i] = ms[i]
      BY <1>2, <1>4, <1>5, <2>2, <2>3
    <3>2. QED
      BY <2>2, <3>1
  <2>4. CASE i > Len(ms)
    <3>1. i = Len(ms) + 1 /\ t[i] = m
      BY <1>2, <1>4, <2>2, <2>4
    <3>2. QED
      BY <1>5, <2>2, <3>1
  <2>5. QED
    BY <1>2, <1>4, <2>3, <2>4
<1>7. u = v
  BY <1>2, <1>4, <1>5, <1>6, SameSeq
<1>8. QED
  BY <1>3, <1>7 DEF t, u, v

LEMMA WebNext ==
  ASSUME impl' = impl, \A i \in 1..Len(ctx'.msgs) : TextOK(ctx'.msgs[i]),
         InOrder(MsgKeys(ctx'.msgs) \o WireKeys', PartKeys(Read', peer'.sent))
  PROVE  WebSafe'
<1>1. \A b, n, last : InOrder(b \o WireKeys', PartKeys(n, last)) => Backlog(b, n, last)'
  BY BacklogNext
<1>2. MsgKeys(ctx.msgs)' = MsgKeys(ctx'.msgs)
  BY DEF MsgKeys, MsgKey, Key
<1>3. Backlog(MsgKeys(ctx.msgs), Read, peer.sent)'
  BY <1>1, <1>2 DEF Backlog
<1>4. (\A i \in 1..Len(ctx.msgs) : TextOK(ctx.msgs[i]))'
  BY DEF TextOK, MsgOK, Apple!NoMsg
<1>5. QED
  BY <1>3, <1>4 DEF WebSafe

LEMMA WebReads ==
  ASSUME TypeInv, WebInv, GotInv, WebSafe, On({"web"}), Web!Step
  PROVE  GotInv' /\ WebSafe'
<1>1. /\ impl = "web" /\ impl' = impl /\ PeerInv /\ call \in Calls
      /\ Open => ctx \in WebCtxs
  BY CtxFacts
  DEF TypeInv, On, CallInv, Web!Step, Web!MTY_WebSocketConnect, Web!Connected,
      Web!NotConnected, Web!Call, Web!MTY_WebSocketDestroy, Web!Destroyed,
      Web!MTY_WebSocketRead, Web!Read, Web!ws_read, Web!ws_read_resumes, Web!onmessage,
      Web!onclose
<1>2. Open <=> call.pc \notin {"start", "gone"}
  BY CtxFacts DEF TypeInv, CallInv
<1>3. /\ Read \in Nat /\ peer.sent \in Nat /\ Read <= peer.sent /\ got \in Seq(Pieces)
      /\ WireKeys \in Seq(Nat)
  BY ReadFacts
<1> DEFINE B == MsgKeys(ctx.msgs)
<1>4. ASSUME Open
      PROVE  /\ ctx.msgs \in Seq(Pieces) /\ \A i \in 1..Len(ctx.msgs) : TextOK(ctx.msgs[i])
             /\ B \in Seq(Nat) /\ InOrder(B \o WireKeys, PartKeys(Read, peer.sent))
  <2>1. ctx.msgs \in Seq(Pieces) /\ \A i \in 1..Len(ctx.msgs) : TextOK(ctx.msgs[i])
    BY <1>1, <1>4 DEF WebSafe, WebCtxs
  <2>2. \A ms \in Seq(Pieces) : (\A i \in 1..Len(ms) : TextOK(ms[i])) => MsgKeys(ms) \in Seq(Nat)
    BY MsgKeysFacts
  <2>3. InOrder(B \o WireKeys, PartKeys(Read, peer.sent))
    BY <1>1, <1>4 DEF WebSafe, Backlog
  <2>4. QED
    BY <2>1, <2>2, <2>3
<1>5. ASSUME Open, UNCHANGED <<got, peer>>, ctx'.msgs = ctx.msgs
      PROVE  GotInv' /\ WebSafe'
  <2>1. GotInv' /\ Read' = Read
    BY <1>1, <1>3, <1>5, GotKept DEF Read
  <2>2. WireKeys' = WireKeys
    BY <1>5 DEF WireKeys, FrameKey, Key
  <2>3. WebSafe'
    BY <1>1, <1>4, <1>5, <2>1, <2>2, WebNext
  <2>4. QED
    BY <2>1, <2>3
\* The first message of the object is taken: given to the caller, or no message.
<1>6. ASSUME Open, peer' = peer, ctx.msgs # <<>>, ctx'.msgs = Tail(ctx.msgs),
             \/ got' = got /\ (Head(ctx.msgs) = <<>> \/ ~Fits(Head(ctx.msgs)))
             \/ Fits(Head(ctx.msgs)) /\ Deliver(Head(ctx.msgs))
      PROVE  GotInv' /\ WebSafe'
  <2> DEFINE msg == Head(ctx.msgs)
             A == B \o WireKeys
  <2>1. /\ B # <<>> /\ Head(B) = MsgKey(msg) /\ Tail(B) = MsgKeys(Tail(ctx.msgs)) /\ TextOK(msg)
        /\ \A i \in 1..Len(Tail(ctx.msgs)) : TextOK(Tail(ctx.msgs)[i])
    <3>1. \A ms \in Seq(Pieces) : ms # <<>> /\ (\A i \in 1..Len(ms) : TextOK(ms[i])) =>
            /\ MsgKeys(ms) # <<>> /\ Head(MsgKeys(ms)) = MsgKey(Head(ms))
            /\ Tail(MsgKeys(ms)) = MsgKeys(Tail(ms))
            /\ TextOK(Head(ms)) /\ \A i \in 1..Len(Tail(ms)) : TextOK(Tail(ms)[i])
      BY MsgKeysFacts
    <3>2. QED
      BY <1>4, <1>6, <3>1
  <2>2. A \in Seq(Nat) /\ A # <<>> /\ Head(A) = MsgKey(msg) /\ Tail(A) = Tail(B) \o WireKeys
        /\ InOrder(A, PartKeys(Read, peer.sent))
    <3>1. \A b \in Seq(Nat) : b # <<>> => /\ b \o WireKeys \in Seq(Nat) /\ b \o WireKeys # <<>>
                                            /\ Head(b \o WireKeys) = Head(b)
                                            /\ Tail(b \o WireKeys) = Tail(b) \o WireKeys
      BY <1>3, JoinFacts
    <3> HIDE DEF B
    <3>2. QED
      BY <1>4, <1>6, <2>1, <3>1
  <2>3. WireKeys' = WireKeys /\ peer'.sent = peer.sent
    BY <1>6 DEF WireKeys, FrameKey, Key
  <2>4. MsgOK(msg) /\ msg # Apple!NoMsg
    BY <2>1 DEF TextOK
  <2> HIDE DEF A, B, msg
  <2>5. ASSUME GotInv', InOrder(Tail(A), PartKeys(Read', peer.sent))
        PROVE  GotInv' /\ WebSafe'
    <3>1. InOrder(MsgKeys(ctx'.msgs) \o WireKeys', PartKeys(Read', peer'.sent))
      BY <1>6, <2>1, <2>2, <2>3, <2>5
    <3>2. \A i \in 1..Len(ctx'.msgs) : TextOK(ctx'.msgs[i])
      BY <1>6, <2>1
    <3>3. WebSafe'
      BY <1>1, <3>1, <3>2, WebNext
    <3>4. QED
      BY <2>5, <3>3
  <2>6. CASE got' = got /\ (msg = <<>> \/ ~Fits(msg))
    <3>1. MsgKey(msg) = 0
      <4>1. msg \in {<<>>, <<<<0, 1>>>>}
        BY <2>4, <2>6, MsgFacts DEF MsgOK
      <4>2. QED
        BY <4>1, MsgFacts
    <3>2. GotInv' /\ Read' = Read
      BY <1>1, <1>3, <2>3, <2>6, GotKept DEF Read
    <3>3. InOrder(Tail(A), PartKeys(Read, peer.sent))
      BY <2>2, <3>1, NothingTaken
    <3>4. QED
      BY <2>5, <3>2, <3>3
  <2>7. CASE Fits(msg) /\ Deliver(msg)
    <3>1. GotInv' /\ InOrder(Tail(A), PartKeys(Read', peer.sent))
      BY <1>1, <1>3, <2>2, <2>3, <2>4, <2>7, MsgRead
    <3>2. QED
      BY <2>5, <3>1
  <2>8. QED
    BY <1>6, <2>6, <2>7 DEF msg
<1>7. CASE Web!MTY_WebSocketConnect
  <2>1. /\ call.pc = "start" /\ UNCHANGED <<impl, peer, got>>
        /\ (ctx'.msgs = <<>>) \/ ctx' = ctx
    BY <1>7 DEF Web!MTY_WebSocketConnect, Web!Connected, Web!NotConnected
  <2>2. GotInv' /\ Read' = Read
    BY <1>1, <1>3, <2>1, GotKept DEF Read
  <2>3. CASE ctx' = ctx
    <3>1. ~Open
      BY <1>2, <2>1
    <3>2. QED
      BY <2>2, <2>3, <3>1 DEF WebSafe, Open
  <2>4. CASE ctx'.msgs = <<>>
    <3>1. /\ WireKeys = <<>> /\ Read = 0 /\ peer.sent = 0 /\ PartKeys(0, 0) = {} /\ InOrder(<<>>, {})
          /\ WireKeys' = WireKeys
      BY <2>1, NothingYet DEF WireKeys, FrameKey, Key
    <3>2. Len(ctx'.msgs) = 0 /\ \A i \in 1..Len(ctx'.msgs) : TextOK(ctx'.msgs[i])
      BY <2>4
    <3>3. MsgKeys(ctx'.msgs) = <<>>
      BY <3>2 DEF MsgKeys
    <3>4. InOrder(MsgKeys(ctx'.msgs) \o WireKeys', PartKeys(Read', peer'.sent))
      <4>1. <<>> \o <<>> = <<>>
        OBVIOUS
      <4>2. QED
        BY <2>1, <2>2, <3>1, <3>3, <4>1
    <3>5. WebSafe'
      BY <1>1, <3>2, <3>4, WebNext
    <3>6. QED
      BY <2>2, <3>5
  <2>5. QED
    BY <2>1, <2>3, <2>4
<1>8. CASE Web!MTY_WebSocketDestroy
  <2>1. ctx'.st = "none" /\ UNCHANGED <<impl, peer, got>>
    BY <1>8 DEF Web!MTY_WebSocketDestroy, Web!Destroyed, Web!Dead
  <2>2. QED
    BY <1>1, <1>3, <2>1, GotKept DEF WebSafe, Open
<1>9. CASE Web!MTY_WebSocketRead
  <2>1. Open /\ UNCHANGED <<impl, ctx, peer, got>>
    BY <1>2, <1>9 DEF Web!MTY_WebSocketRead, Web!MayRead
  <2>2. QED
    BY <1>5, <2>1
<1>10. CASE Web!onmessage
  <2> DEFINE f == Head(peer.wire)
             m == Payload(f)
  <2>1. /\ Open /\ peer.wire # <<>> /\ peer' = Rest /\ UNCHANGED <<impl, call, got>>
        /\ ctx'.msgs = Append(ctx.msgs, m)
    BY <1>1, <1>10
    DEF Web!onmessage, Web!Open, Open, Web!Arrives, Web!Rest, Rest, Web!Payload, Payload, WebCtxs
  <2>2. /\ peer'.sent = peer.sent /\ WireKeys' = Tail(WireKeys) /\ WireKeys # <<>>
        /\ Head(WireKeys) = FrameKey(f) /\ f \in Frames /\ (f.op = "text" => f.msg > 0)
    BY <1>1, <2>1, FrameTaken DEF FrameOK
  <2>3. m \in Pieces /\ TextOK(m) /\ MsgKey(m) = FrameKey(f)
    BY <2>2, FrameMsg, PayloadFacts DEF TextOK
  <2>4. GotInv' /\ Read' = Read
    BY <1>1, <1>3, <2>1, <2>2, GotKept DEF Read
  <2> HIDE DEF f, m
  <2>5. /\ MsgKeys(ctx'.msgs) = Append(B, Head(WireKeys))
        /\ \A i \in 1..Len(ctx'.msgs) : TextOK(ctx'.msgs[i])
    <3>1. \A ms \in Seq(Pieces) : (\A i \in 1..Len(ms) : TextOK(ms[i])) =>
            /\ MsgKeys(Append(ms, m)) = Append(MsgKeys(ms), MsgKey(m))
            /\ \A i \in 1..Len(Append(ms, m)) : TextOK(Append(ms, m)[i])
      BY <2>3, MsgKeysMore
    <3>2. QED
      BY <1>4, <2>1, <2>2, <2>3, <3>1
  <2>6. Append(B, Head(WireKeys)) \o Tail(WireKeys) = B \o WireKeys
    <3>1. \A b \in Seq(Nat) : Append(b, Head(WireKeys)) \o Tail(WireKeys) = b \o WireKeys
      BY <1>3, <2>2, JoinFacts
    <3>2. QED
      BY <1>4, <2>1, <3>1
  <2> HIDE DEF B
  <2>7. InOrder(MsgKeys(ctx'.msgs) \o WireKeys', PartKeys(Read', peer'.sent))
    BY <1>4, <2>1, <2>2, <2>4, <2>5, <2>6
  <2>8. WebSafe'
    BY <1>1, <2>5, <2>7, WebNext
  <2>9. QED
    BY <2>4, <2>8
<1>11. CASE Web!onclose
  <2>1. /\ Open /\ UNCHANGED <<impl, call, got>> /\ ctx'.msgs = ctx.msgs
        /\ peer' = peer \/ (peer' = Rest /\ peer.wire # <<>> /\ Head(peer.wire).op = "close")
    BY <1>1, <1>11 DEF Web!onclose, Web!Open, Open, Web!Arrives, Web!Rest, Rest, WebCtxs
  <2>2. CASE peer' = peer
    BY <1>5, <2>1, <2>2
  <2>3. CASE peer' = Rest /\ peer.wire # <<>> /\ Head(peer.wire).op = "close"
    <3>1. /\ peer'.sent = peer.sent /\ WireKeys' = Tail(WireKeys) /\ WireKeys # <<>>
          /\ Head(WireKeys) = 0
      BY <1>1, <2>3, FrameTaken DEF FrameKey
    <3>2. GotInv' /\ Read' = Read
      BY <1>1, <1>3, <2>1, <3>1, GotKept DEF Read
    <3> HIDE DEF B
    <3>3. InOrder(B \o Tail(WireKeys), PartKeys(Read, peer.sent))
      BY <1>3, <1>4, <2>1, <3>1, NothingMiddle
    <3>4. InOrder(MsgKeys(ctx'.msgs) \o WireKeys', PartKeys(Read', peer'.sent))
      BY <2>1, <3>1, <3>2, <3>3 DEF B
    <3>5. WebSafe'
      BY <1>1, <1>4, <2>1, <3>4, WebNext
    <3>6. QED
      BY <3>2, <3>5
  <2>4. QED
    BY <2>1, <2>2, <2>3
<1>12. CASE Web!Read
  <2>1. call.pc \in {"ws-read", "await"} /\ UNCHANGED <<impl, peer>>
    BY <1>12 DEF Web!Read, Web!ws_read, Web!ws_read_resumes
  <2>2. Open /\ ctx \in WebCtxs /\ (ctx.waiter = "woken" => ctx.msgs # <<>>)
    BY <1>1, <1>2, <2>1 DEF WebInv
  <2>3. \/ ctx'.msgs = ctx.msgs /\ got' = got
        \/ /\ ctx.msgs # <<>> /\ ctx'.msgs = Tail(ctx.msgs)
           /\ \/ got' = got /\ (Head(ctx.msgs) = <<>> \/ ~Fits(Head(ctx.msgs)))
              \/ Fits(Head(ctx.msgs)) /\ Deliver(Head(ctx.msgs))
    <3>1. ASSUME NEW msg, Web!AnswerWith(msg)
          PROVE  (got' = got /\ (msg = <<>> \/ ~Fits(msg))) \/ (Fits(msg) /\ Deliver(msg))
      BY <3>1 DEF Web!AnswerWith, Web!Fits, Fits, Web!Deliver, Deliver
    <3>2. CASE Web!ws_read
      <4>1. CASE ctx.closeCode # 0
        BY <3>2, <4>1 DEF Web!ws_read
      <4>2. CASE ctx.closeCode = 0 /\ ctx.msgs # <<>> /\ Head(ctx.msgs) # <<>>
        <5>1. ctx'.msgs = Tail(ctx.msgs)
          BY <2>2, <3>2, <4>2 DEF Web!ws_read, WebCtxs
        <5>2. Web!AnswerWith(Head(ctx.msgs))
          BY <3>2, <4>2 DEF Web!ws_read
        <5>3. QED
          BY <3>1, <4>2, <5>1, <5>2
      <4>3. CASE ctx.closeCode = 0 /\ ~ (ctx.msgs # <<>> /\ Head(ctx.msgs) # <<>>)
        <5>1. got' = got /\ ctx'.msgs = IF ctx.msgs = <<>> THEN ctx.msgs ELSE Tail(ctx.msgs)
          BY <2>2, <3>2, <4>3 DEF Web!ws_read, WebCtxs
        <5>2. QED
          BY <4>3, <5>1
      <4>4. QED
        BY <4>1, <4>2, <4>3
    <3>3. CASE Web!ws_read_resumes
      <4>1. CASE ctx.waiter = "woken"
        <5>1. ctx'.msgs = Tail(ctx.msgs)
          BY <2>2, <3>3, <4>1 DEF Web!ws_read_resumes, WebCtxs
        <5>2. Web!AnswerWith(Head(ctx.msgs))
          BY <3>3, <4>1 DEF Web!ws_read_resumes
        <5>3. QED
          BY <2>2, <3>1, <4>1, <5>1, <5>2
      <4>2. CASE ctx.waiter # "woken"
        BY <2>2, <3>3, <4>2 DEF Web!ws_read_resumes, WebCtxs
      <4>3. QED
        BY <4>1, <4>2
    <3>4. QED
      BY <1>12, <3>2, <3>3 DEF Web!Read
  <2>4. QED
    BY <1>5, <1>6, <2>1, <2>2, <2>3
<1>13. QED
  BY <1>7, <1>8, <1>9, <1>10, <1>11, <1>12 DEF Web!Step, Web!Call

-----------------------------------------------------------------------------
(* All of them, whatever the server sends.                                   *)

SafeInv == TypeInv /\ WebInv /\ GotInv /\ StreamSafe /\ WinHTTPSafe /\ AppleSafe /\ WebSafe

\* More on the wire keeps in order what was received.
LEMMA ServerKeeps ==
  ASSUME SafeInv, Server \/ AnswerPing
  PROVE  GotInv' /\ StreamSafe' /\ WinHTTPSafe' /\ AppleSafe' /\ WebSafe'
<1>1. /\ UNCHANGED <<impl, ctx, call, got>> /\ peer.mode = "up"
      /\ peer'.sent = peer.sent \/ peer'.sent = peer.sent + 1
      /\ peer.wire # <<>> => peer'.wire # <<>> /\ Head(peer'.wire) = Head(peer.wire)
  BY ServerLeaves DEF SafeInv, TypeInv
<1>2. /\ Read \in Nat /\ peer.sent \in Nat /\ Read <= peer.sent /\ got \in Seq(Pieces)
      /\ PeerInv
  BY ReadFacts DEF SafeInv
<1>3. GotInv' /\ Read' = Read
  BY <1>1, <1>2, GotKept DEF SafeInv, Read
<1>4. \A b \in Seq(Nat), n \in Nat : n <= peer.sent /\ Backlog(b, n, peer.sent)
        => InOrder(b \o WireKeys', PartKeys(n, peer'.sent))
  BY <1>2, ServerBacklog
<1>5. peer'.sent \in Nat /\ peer.sent <= peer'.sent
  BY <1>1, <1>2
<1>6. <<>> \in Seq(Nat)
  OBVIOUS
<1>7. StreamSafe'
  <2>1. SUFFICES ASSUME impl \in Streams, Open
                 PROVE  StreamSafe'
    BY <1>1 DEF StreamSafe, Open
  <2>2. call.r # "done"
    BY <1>1, <2>1 DEF SafeInv, StreamSafe
  <2>3. CASE call.r = "error"
    BY <1>1, <2>2, <2>3 DEF StreamSafe
  <2>4. CASE call.r # "error"
    <3>1. InOrder(<<>> \o WireKeys', PartKeys(Read, peer'.sent))
      BY <1>2, <1>4, <1>6, <2>1, <2>4 DEF SafeInv, StreamSafe
    <3>2. InOrder(<<>> \o WireKeys', PartKeys(Read', peer'.sent))
      BY <1>3, <3>1
    <3>3. Backlog(<<>>, Read, peer.sent)'
      BY <1>1, <3>2, BacklogNext DEF Backlog
    <3>4. QED
      BY <1>1, <2>2, <3>3 DEF StreamSafe
  <2>5. QED
    BY <2>3, <2>4
<1>8. WinHTTPSafe'
  <2>1. CASE ~(impl = "windows" /\ Open)
    BY <1>1, <2>1 DEF WinHTTPSafe, Open
  <2>2. CASE impl = "windows" /\ Open
    <3>1. /\ ctx.receiving => ~ctx.complete /\ ctx.recv = ctx.pos
          /\ call.pc # "receive"
          /\ Empty \/ Half \/ Full \/ Large
      BY <2>2 DEF SafeInv, WinHTTPSafe
    <3>2. CASE Empty
      <4>1. ctx'.pos = 0 /\ InOrder(<<>> \o WireKeys', PartKeys(Read, peer'.sent))
        BY <1>1, <1>2, <1>4, <1>6, <3>2 DEF Empty
      <4>2. Empty'
        BY <1>1, <1>2, <1>3, <4>1, BufferNext
      <4>3. QED
        BY <1>1, <3>1, <4>2 DEF WinHTTPSafe
    <3>3. CASE Half
      <4>1. <<Key(Read + 1, 1)>> \in Seq(Nat)
        BY <1>2 DEF Key
      <4>2. InOrder(<<Key(Read + 1, 1)>> \o WireKeys', PartKeys(Read, peer'.sent))
        BY <1>2, <1>4, <3>3, <4>1 DEF Half
      <4>3. /\ ~ctx'.complete /\ ctx'.pos = 1 /\ ctx'.buf[1] = <<Read + 1, 1>> /\ Last(Read + 1) = 2
            /\ Read < peer'.sent
            /\ peer'.wire # <<>> /\ Head(peer'.wire).op = "text"
            /\ Head(peer'.wire).msg = Read + 1 /\ Head(peer'.wire).part = 2
        BY <1>1, <1>2, <1>5, <3>3 DEF Half
      <4>4. Half'
        BY <1>1, <1>2, <1>3, <4>2, <4>3, BufferNext
      <4>5. QED
        BY <1>1, <3>1, <4>4 DEF WinHTTPSafe
    <3>4. CASE Full
      <4>1. InOrder(<<>> \o WireKeys', PartKeys(Read + 1, peer'.sent))
        <5>1. Read + 1 \in Nat /\ Read + 1 <= peer.sent /\ Backlog(<<>>, Read + 1, peer.sent)
          BY <1>2, <3>4 DEF Full
        <5>2. QED
          BY <1>4, <1>6, <5>1
      <4>2. /\ ctx'.complete /\ ctx'.pos = Last(Read + 1)
            /\ \A k \in 1..Last(Read + 1) : ctx'.buf[k] = <<Read + 1, k>>
            /\ Read < peer'.sent
        BY <1>1, <1>2, <1>5, <3>4 DEF Full
      <4>3. Full'
        BY <1>1, <1>2, <1>3, <4>1, <4>2, BufferNext
      <4>4. QED
        BY <1>1, <3>1, <4>3 DEF WinHTTPSafe
    <3>5. CASE Large
      <4>1. /\ ctx'.complete /\ ctx'.pos = 1 /\ ctx'.buf[1] = <<0, 1>>
            /\ InOrder(<<>> \o WireKeys', PartKeys(Read, peer'.sent))
        BY <1>1, <1>2, <1>4, <1>6, <3>5 DEF Large
      <4>2. Large'
        BY <1>1, <1>2, <1>3, <4>1, BufferNext
      <4>3. QED
        BY <1>1, <3>1, <4>2 DEF WinHTTPSafe
    <3>6. QED
      BY <3>1, <3>2, <3>3, <3>4, <3>5
  <2>3. QED
    BY <2>1, <2>2
<1>9. AppleSafe'
  <2>1. CASE ~(impl = "apple" /\ Open /\ call.r # "error")
    BY <1>1, <2>1 DEF AppleSafe, Open
  <2>2. CASE impl = "apple" /\ Open /\ call.r # "error"
    <3> DEFINE k == MsgKey(ctx.msg)
    <3>1. /\ MsgOK(ctx.msg) /\ k \in Nat /\ <<k>> \in Seq(Nat)
          /\ ctx.handler => ctx.started /\ ~ctx.read /\ k = 0
          /\ ctx.read => ctx.started
          /\ ~ctx.started => k = 0
      BY <2>2, AppleNow DEF SafeInv
    <3>2. InOrder(<<k>> \o WireKeys, PartKeys(Read, peer.sent))
      <4>1. PICK last \in Nat : /\ Read <= last /\ last <= peer.sent
                                /\ peer.mode # "closed" => last = peer.sent
                                /\ InOrder(<<k>> \o WireKeys, PartKeys(Read, last))
        BY <2>2, AppleNow DEF SafeInv
      <4>2. last = peer.sent
        BY <1>1, <4>1
      <4>3. QED
        BY <4>1, <4>2
    <3> HIDE DEF k
    <3>3. InOrder(<<k>> \o WireKeys', PartKeys(Read', peer'.sent))
      BY <1>2, <1>3, <1>4, <3>1, <3>2 DEF Backlog
    <3>4. Read' <= peer'.sent
      BY <1>2, <1>3, <1>5
    <3>5. QED
      BY <1>1, <1>5, <3>1, <3>3, <3>4, AppleNext DEF k
  <2>3. QED
    BY <2>1, <2>2
<1>10. WebSafe'
  <2>1. CASE ~(impl = "web" /\ Open)
    BY <1>1, <2>1 DEF WebSafe, Open
  <2>2. CASE impl = "web" /\ Open
    <3> DEFINE b == MsgKeys(ctx.msgs)
    <3>1. /\ ctx.msgs \in Seq(Pieces) /\ \A i \in 1..Len(ctx.msgs) : TextOK(ctx.msgs[i])
          /\ Backlog(b, Read, peer.sent)
      BY <2>2, CtxFacts DEF SafeInv, TypeInv, WebSafe, WebCtxs
    <3>2. b \in Seq(Nat)
      BY <3>1, MsgKeysFacts
    <3> HIDE DEF b
    <3>3. InOrder(b \o WireKeys', PartKeys(Read', peer'.sent))
      BY <1>2, <1>3, <1>4, <3>1, <3>2
    <3>4. QED
      BY <1>1, <3>1, <3>3, WebNext DEF b
  <2>3. QED
    BY <2>1, <2>2
<1>11. QED
  BY <1>3, <1>7, <1>8, <1>9, <1>10

LEMMA InitSafe ==
  ASSUME Init
  PROVE  SafeInv
<1>1. TypeInv /\ WebInv
  BY InitTypes
<1>2. ~Open /\ got = <<>> /\ peer.sent = 0
  BY DEF Init, Dead, Open, PeerInit
<1>3. GotInv
  BY <1>2 DEF GotInv, MessagesRead, Read
<1>4. QED
  BY <1>1, <1>2, <1>3 DEF SafeInv, StreamSafe, WinHTTPSafe, AppleSafe, WebSafe

LEMMA NextSafe ==
  ASSUME "race" \notin Faults, SafeInv, [Next]_vars
  PROVE  SafeInv'
<1>1. TypeInv' /\ WebInv'
  BY NextTypes DEF SafeInv
<1>2. CASE Server \/ AnswerPing
  BY <1>1, <1>2, ServerKeeps DEF SafeInv
<1>3. CASE On(Streams) /\ Stream!Step
  <2>1. GotInv' /\ StreamSafe'
    BY <1>3, StreamReads DEF SafeInv
  <2>2. impl \in Streams /\ impl' = impl
    BY <1>3
    DEF On, Stream!Step, Stream!MTY_WebSocketConnect, Stream!Connected, Stream!NotConnected,
        Stream!Call, Stream!MTY_WebSocketDestroy, Stream!Destroyed, Stream!MTY_WebSocketRead,
        Stream!Read, Stream!PollTimesOut, Stream!PollReads, Stream!Tick
  <2>3. QED
    BY <1>1, <2>1, <2>2 DEF SafeInv, WinHTTPSafe, AppleSafe, WebSafe, Streams
<1>4. CASE On({"windows"}) /\ WinHTTP!Step
  <2>1. GotInv' /\ WinHTTPSafe'
    BY <1>4, WinHTTPReads DEF SafeInv
  <2>2. impl = "windows" /\ impl' = impl
    BY <1>4
    DEF On, WinHTTP!Step, WinHTTP!MTY_WebSocketConnect, WinHTTP!Connected,
        WinHTTP!NotConnected, WinHTTP!Call, WinHTTP!MTY_WebSocketDestroy, WinHTTP!Destroyed,
        WinHTTP!MTY_WebSocketRead, WinHTTP!Read, WinHTTP!ReadDone, WinHTTP!ReadMessage,
        WinHTTP!ReadReceive, WinHTTP!ReadWait, WinHTTP!Callback, WinHTTP!ws_async_read,
        WinHTTP!ws_async_error, WinHTTP!ws_async_write, WinHTTP!MTY_WebSocketWrite,
        WinHTTP!WriteEnds
  <2>3. QED
    BY <1>1, <2>1, <2>2 DEF SafeInv, StreamSafe, AppleSafe, WebSafe, Streams
<1>5. CASE On({"apple"}) /\ Apple!Step
  <2>1. GotInv' /\ AppleSafe'
    BY <1>5, AppleReads DEF SafeInv
  <2>2. impl = "apple" /\ impl' = impl
    BY <1>5
    DEF On, Apple!Step, Apple!MTY_WebSocketConnect, Apple!Connected,
        Apple!Call, Apple!MTY_WebSocketDestroy, Apple!MTY_WebSocketRead, Apple!Read,
        Apple!ReadEnds, Apple!ReadTimesOut, Apple!ConnectEnds, Apple!DestroyEnds,
        Apple!Callback, Apple!DidReceive, Apple!PongHandler, Apple!didBecomeInvalid, Apple!Tick,
        Apple!didOpenWithProtocol, Apple!didCloseWithCode
  <2>3. QED
    BY <1>1, <2>1, <2>2 DEF SafeInv, StreamSafe, WinHTTPSafe, WebSafe, Streams
<1>6. CASE On({"web"}) /\ Web!Step
  <2>1. GotInv' /\ WebSafe'
    BY <1>6, WebReads DEF SafeInv
  <2>2. impl = "web" /\ impl' = impl
    BY <1>6
    DEF On, Web!Step, Web!MTY_WebSocketConnect, Web!Connected,
        Web!NotConnected, Web!Call, Web!MTY_WebSocketDestroy, Web!Destroyed,
        Web!MTY_WebSocketRead, Web!Read, Web!ws_read, Web!ws_read_resumes, Web!onmessage,
        Web!onclose
  <2>3. QED
    BY <1>1, <2>1, <2>2 DEF SafeInv, StreamSafe, WinHTTPSafe, AppleSafe, Streams
<1>7. CASE UNCHANGED vars
  <2>1. UNCHANGED <<impl, peer, ctx, call, got>>
    BY <1>7 DEF vars
  <2>2. /\ Read \in Nat /\ peer.sent \in Nat /\ Read <= peer.sent /\ PeerInv /\ Read' = Read
        /\ WireKeys' = WireKeys
    BY <2>1, ReadFacts DEF SafeInv, Read, WireKeys, FrameKey, Key
  <2>3. GotInv'
    BY <2>1 DEF SafeInv, GotInv, MessagesRead, Read, Given, Whole, Fragments, On
  <2>4. StreamSafe'
    <3>1. CASE impl \in Streams /\ Open /\ call.r # "error"
      <4>1. InOrder(<<>> \o WireKeys', PartKeys(Read', peer'.sent))
        BY <2>1, <2>2, <3>1 DEF SafeInv, StreamSafe, Backlog
      <4>2. Backlog(<<>>, Read, peer.sent)'
        BY <2>1, <4>1, BacklogNext DEF Backlog
      <4>3. QED
        BY <2>1, <2>2, <3>1, <4>2 DEF SafeInv, StreamSafe
    <3>2. CASE ~(impl \in Streams /\ Open /\ call.r # "error")
      BY <2>1, <3>2 DEF StreamSafe, Open
    <3>3. QED
      BY <3>1, <3>2
  <2>5. WinHTTPSafe'
    <3>1. CASE impl = "windows" /\ Open
      <4>1. Empty' \/ Half' \/ Full' \/ Large'
        BY <2>1, <2>2, <3>1, BufferStays DEF SafeInv, WinHTTPSafe
      <4>2. QED
        BY <2>1, <3>1, <4>1 DEF SafeInv, WinHTTPSafe
    <3>2. CASE ~(impl = "windows" /\ Open)
      BY <2>1, <3>2 DEF WinHTTPSafe, Open
    <3>3. QED
      BY <3>1, <3>2
  <2>6. AppleSafe'
    <3>1. CASE impl = "apple" /\ Open /\ call.r # "error"
      <4>1. /\ MsgOK(ctx.msg)
            /\ ctx.handler => ctx.started /\ ~ctx.read /\ MsgKey(ctx.msg) = 0
            /\ ctx.read => ctx.started
            /\ ~ctx.started => MsgKey(ctx.msg) = 0
        BY <3>1, AppleNow DEF SafeInv
      <4>2. PICK last \in Nat : /\ Read <= last /\ last <= peer.sent
                                /\ peer.mode # "closed" => last = peer.sent
                                /\ InOrder(<<MsgKey(ctx.msg)>> \o WireKeys, PartKeys(Read, last))
        BY <3>1, AppleNow DEF SafeInv
      <4>3. QED
        BY <2>1, <2>2, <4>1, <4>2, AppleNext
    <3>2. CASE ~(impl = "apple" /\ Open /\ call.r # "error")
      BY <2>1, <3>2 DEF AppleSafe, Open
    <3>3. QED
      BY <3>1, <3>2
  <2>7. WebSafe'
    <3>1. CASE impl = "web" /\ Open
      BY <2>1, <2>2, <3>1, WebNext DEF SafeInv, WebSafe, Backlog
    <3>2. CASE ~(impl = "web" /\ Open)
      BY <2>1, <3>2 DEF WebSafe, Open
    <3>3. QED
      BY <3>1, <3>2
  <2>8. QED
    BY <1>1, <2>3, <2>4, <2>5, <2>6, <2>7 DEF SafeInv
<1>8. QED
  BY <1>2, <1>3, <1>4, <1>5, <1>6, <1>7 DEF Next

\* What MTY_WebSocketRead gives its caller is the message after the one before it, all of
\* it on Windows, Apple's platforms and the web, and on Linux and Android its first fragment:
\* for every number of messages, whichever of them are in fragments, whatever else the
\* server sends between them and whichever way the records, the waits and the callbacks
\* fall.  Only the receive that completes inside MTY_WebSocketRead (windows) is assumed away.
THEOREM MessagesAreRead ==
  ASSUME "race" \notin Faults
  PROVE  Spec => []MessagesRead
<1>1. Init => SafeInv
  BY InitSafe
<1>2. SafeInv /\ [Next]_vars => SafeInv'
  BY NextSafe
<1>3. SafeInv => MessagesRead
  BY DEF SafeInv, GotInv
<1>4. QED
  BY <1>1, <1>2, <1>3, PTL DEF Spec

\* So messages are whole where the code does not read a byte stream by itself, and there
\* when the server sends none in fragments.
THEOREM MessagesAreWhole ==
  ASSUME "race" \notin Faults, Impls \cap Streams = {} \/ Fragmented = {}
  PROVE  Spec => []MessagesWhole
<1>1. Init => SafeInv
  BY InitSafe
<1>2. SafeInv /\ [Next]_vars => SafeInv'
  BY NextSafe
<1>3. SafeInv => MessagesWhole
  <2>1. SUFFICES ASSUME SafeInv PROVE \A k \in DOMAIN got : got[k] = Whole(k)
    BY DEF MessagesWhole
  <2>2. impl \in Impls /\ \A k \in DOMAIN got : got[k] = Given(k)
    BY <2>1 DEF SafeInv, TypeInv, GotInv, MessagesRead
  <2>3. CASE ~On(Streams)
    BY <2>2, <2>3 DEF Given
  <2>4. CASE On(Streams)
    <3>1. Fragmented = {}
      BY <2>2, <2>4 DEF On
    <3>2. \A k : Whole(k) = [j \in 1..1 |-> <<k, j>>]
      BY <3>1 DEF Whole, Fragments
    <3>3. \A k : <<<<k, 1>>>> = [j \in 1..1 |-> <<k, j>>]
      OBVIOUS
    <3>4. QED
      BY <2>2, <2>4, <3>2, <3>3 DEF Given
  <2>5. QED
    BY <2>3, <2>4
<1>4. QED
  BY <1>1, <1>2, <1>3, PTL DEF Spec

LEMMA AllRead ==
  ASSUME SafeInv
  PROVE  NothingLost
<1>1. SUFFICES ASSUME Open, call.r = "done",
                      On(Streams) \/ (On({"windows"}) /\ Arrives({"eof"}) /\ ~ctx.complete)
               PROVE  Len(got) = peer.sent
  BY DEF NothingLost
<1>2. CASE On(Streams)
  BY <1>1, <1>2 DEF SafeInv, StreamSafe, On, Read
<1>3. CASE On({"windows"}) /\ Arrives({"eof"}) /\ ~ctx.complete
  <2>1. /\ Read \in Nat /\ peer.sent \in Nat /\ Read <= peer.sent /\ PeerInv
        /\ WireKeys \in Seq(Nat)
    BY ReadFacts DEF SafeInv
  <2>2. Empty
    <3>1. Empty \/ Half \/ Full \/ Large
      BY <1>1, <1>3 DEF SafeInv, WinHTTPSafe, On
    <3>2. QED
      BY <1>3, <3>1 DEF Half, Full, Large, Arrives
  <2>3. InOrder(WireKeys, PartKeys(Read, peer.sent))
    BY <2>1, <2>2, JoinFacts DEF Empty, Backlog
  <2>4. PartKeys(Read, peer.sent) = {}
    <3>1. Arrives({"close", "eof"})
      BY <1>3 DEF Arrives
    <3>2. QED
      BY <2>1, <2>3, <3>1, EndFrames
  <2>5. peer.sent <= Read
    BY <2>1, <2>4, PartKeysLess
  <2>6. QED
    BY <2>1, <2>5 DEF Read
<1>4. QED
  BY <1>1, <1>2, <1>3

\* The end of the connection is reported after the last message, for every number of
\* messages and of other frames.
THEOREM NothingIsLost ==
  ASSUME "race" \notin Faults
  PROVE  Spec => []NothingLost
<1>1. Init => SafeInv
  BY InitSafe
<1>2. SafeInv /\ [Next]_vars => SafeInv'
  BY NextSafe
<1>3. SafeInv => NothingLost
  BY AllRead
<1>4. QED
  BY <1>1, <1>2, <1>3, PTL DEF Spec

-----------------------------------------------------------------------------
(* A server that answers pings is never given up.                            *)

\* The caller's two clocks are related through what is under way: while a ping is unanswered,
\* or its pong is on the wire, last_pong is at most two minutes older than last_ping, and else
\* not older at all.  That a pong on the wire is also seen by poll is a matter of TLS records:
\* libcurl holds back only what came in one record with a frame that was read before.

Pinging == Streams \cup {"apple"}
Live == impl \in Pinging /\ Open /\ peer.mode = "up"

Ends == {"close", "eof", "partial"}
PongComes == \E k \in 1..Len(peer.wire) : peer.wire[k].op = "pong"
Asked == peer.pings > 0 \/ PongComes

\* The wire has not ended, and each pong begins a record.
WireLive ==
  \A k \in 1..Len(peer.wire) :
    peer.wire[k].op \notin Ends /\ (peer.wire[k].op = "pong" => peer.own[k])

\* What libcurl has decrypted are the first frames, which came in a record with others.
TlsLive ==
  impl \in Streams =>
    /\ ctx.tls <= Len(peer.wire)
    /\ \A k \in 1..Len(peer.wire) : k <= ctx.tls => ~peer.own[k]

\* A minute passes only after a read that found nothing, so a pong is read within the minute
\* after the one in which it was sent.
AgeLive ==
  /\ ctx.ping <= 2
  /\ call.quiet \/ call.pc \in {"poll", "wait"} => ctx.ping <= 1
  /\ Asked => ctx.ping <= 1 /\ ctx.pong <= ctx.ping + 2
  /\ ~Asked => ctx.pong <= ctx.ping
  /\ peer.pings > 0 \/ (PongComes /\ (call.quiet \/ impl = "apple")) => ctx.ping = 0
  /\ impl = "apple" => ~ctx.error

AliveInv == Live => WireLive /\ TlsLive /\ AgeLive

\* What LivePeerKept says of a step.
GivenUp ==
  /\ On(Streams) \/ On({"apple"})
  /\ peer.mode = "up" /\ call.r # "error" /\ call'.r = "error"
Excused == Stream!Oversized \/ (On({"apple"}) /\ ~Apple!Fits(ctx.msg))

LEMMA Ages ==
  ASSUME TypeInv, Live
  PROVE  /\ ctx.ping \in Nat /\ ctx.pong \in Nat /\ peer.pings \in Nat
         /\ call.quiet \in BOOLEAN /\ call \in Calls
         /\ call.pc \notin {"start", "gone"}
         /\ impl \in Streams => ctx \in StreamCtxs
         /\ impl = "apple" => ctx \in AppleCtxs
<1>1. call \in Calls /\ peer.pings \in Nat
  BY WireFacts DEF TypeInv, CallInv
<1>2. /\ call.pc \notin {"start", "gone"}
      /\ impl \in Streams => ctx \in StreamCtxs
      /\ impl = "apple" => ctx \in AppleCtxs
  BY CtxFacts DEF TypeInv, CallInv, Live
<1>3. QED
  BY <1>1, <1>2 DEF Calls, StreamCtxs, AppleCtxs, Live, Pinging

\* Neither clock gets to three minutes and more.
LEMMA PongInTime ==
  ASSUME TypeInv, Live, AgeLive
  PROVE  ctx.pong <= 3
BY Ages DEF AgeLive

-----------------------------------------------------------------------------
(* The wire.                                                                 *)

\* Frames are sent.
LEMMA Appended ==
  ASSUME PeerInv, NEW fs \in Seq(Frames), NEW j \in BOOLEAN
  PROVE  LET w == Sends(fs, j).wire
             o == Sends(fs, j).own
             n == Len(peer.wire)
         IN /\ Len(w) = n + Len(fs) /\ n \in Nat /\ Len(fs) \in Nat
            /\ \A k \in 1..n : k \in 1..Len(w) /\ w[k] = peer.wire[k] /\ o[k] = peer.own[k]
            /\ \A k \in 1..Len(w) :
                 k \in 1..n \/ (w[k] \in {fs[i] : i \in 1..Len(fs)} /\ (j \/ o[k] = TRUE))
            /\ Sends(fs, j).pings = peer.pings /\ Sends(fs, j).mode = peer.mode
<1> DEFINE first == ~j
           os == [k \in 1..Len(fs) |-> first]
           n == Len(peer.wire)
<1>1. first \in BOOLEAN /\ Len(fs) \in Nat
  OBVIOUS
<1>2. os \in Seq(BOOLEAN) /\ Len(os) = Len(fs) /\ \A i \in 1..Len(fs) : os[i] = first
  <2> HIDE DEF first
  <2>1. QED
    BY <1>1
<1>3. Sends(fs, j) = [peer EXCEPT !.wire = @ \o fs, !.own = @ \o os]
  BY DEF Sends
<1> HIDE DEF os
<1>4. /\ peer \in Peers /\ Len(peer.own) = Len(peer.wire)
      /\ peer.wire \in Seq(Frames) /\ peer.own \in Seq(BOOLEAN) /\ n \in Nat
  BY DEF PeerInv, Peers
<1>5. /\ Sends(fs, j).wire = peer.wire \o fs /\ Sends(fs, j).own = peer.own \o os
      /\ Sends(fs, j).pings = peer.pings /\ Sends(fs, j).mode = peer.mode
  BY <1>3, <1>4 DEF Peers
<1> DEFINE w == peer.wire \o fs
           o == peer.own \o os
<1>6. /\ Len(w) = n + Len(fs) /\ \A k \in 1..n : w[k] = peer.wire[k]
      /\ \A i \in 1..Len(fs) : w[n + i] = fs[i]
  BY <1>1, <1>4
<1>7. /\ \A k \in 1..n : o[k] = peer.own[k]
      /\ \A i \in 1..Len(fs) : o[n + i] = os[i]
  <2> DEFINE B == BOOLEAN
  <2>1. os \in Seq(B) /\ peer.own \in Seq(B) /\ Len(peer.own) = n /\ Len(os) = Len(fs)
    BY <1>2, <1>4
  <2> HIDE DEF B, n
  <2>2. QED
    BY <2>1
<1> HIDE DEF w, o, n
<1>8. ASSUME NEW k \in 1..Len(w), k \notin 1..n
      PROVE  w[k] \in {fs[i] : i \in 1..Len(fs)} /\ (j \/ o[k] = TRUE)
  <2>1. k - n \in 1..Len(fs) /\ n + (k - n) = k
    BY <1>1, <1>4, <1>6, <1>8
  <2>2. w[k] = fs[k - n] /\ o[k] = first
    BY <1>2, <1>6, <1>7, <2>1
  <2>3. QED
    BY <2>1, <2>2
<1>9. \A k \in 1..n : k \in 1..Len(w)
  BY <1>1, <1>4, <1>6
<1>10. QED
  BY <1>1, <1>4, <1>5, <1>6, <1>7, <1>8, <1>9 DEF w, o, n

\* The first frame is taken.
LEMMA Taken ==
  ASSUME PeerInv, peer.wire # <<>>, peer' = Rest
  PROVE  /\ Len(peer.wire) \in Nat /\ Len(peer'.wire) = Len(peer.wire) - 1
         /\ 1 \in 1..Len(peer.wire) /\ Head(peer.wire) = peer.wire[1]
         /\ \A k \in 1..Len(peer'.wire) :
              /\ k + 1 \in 1..Len(peer.wire)
              /\ peer'.wire[k] = peer.wire[k + 1] /\ peer'.own[k] = peer.own[k + 1]
         /\ \A k \in 1..Len(peer.wire) :
              k = 1 \/ (k - 1 \in 1..Len(peer'.wire) /\ peer'.wire[k - 1] = peer.wire[k])
         /\ peer'.pings = peer.pings /\ peer'.mode = peer.mode
<1> DEFINE w == peer.wire
           o == peer.own
           v == Tail(w)
           u == Tail(o)
<1>1. /\ peer \in Peers /\ Len(o) = Len(w) /\ w \in Seq(Frames) /\ o \in Seq(BOOLEAN)
  BY DEF PeerInv, Peers
<1>2. /\ peer'.wire = v /\ peer'.own = u /\ peer'.pings = peer.pings /\ peer'.mode = peer.mode
  BY <1>1 DEF Rest, Peers
<1>3. /\ Len(w) \in Nat \ {0} /\ Len(v) = Len(w) - 1 /\ Head(w) = w[1]
      /\ \A k \in 1..Len(v) : v[k] = w[k + 1]
  BY <1>1
<1>4. \A k \in 1..Len(v) : u[k] = o[k + 1]
  <2> DEFINE B == BOOLEAN
  <2>1. o \in Seq(B) /\ o # <<>> /\ Len(o) = Len(w)
    BY <1>1, <1>3
  <2> HIDE DEF B
  <2>2. Len(u) = Len(o) - 1 /\ \A k \in 1..Len(u) : u[k] = o[k + 1]
    BY <2>1
  <2>3. QED
    BY <1>3, <2>1, <2>2
<1> HIDE DEF w, o, v, u
<1>5. \A k \in 1..Len(v) : k + 1 \in 1..Len(w)
  BY <1>3
<1>6. \A k \in 1..Len(w) : k = 1 \/ (k - 1 \in 1..Len(v) /\ (k - 1) + 1 = k)
  BY <1>3
<1>7. /\ Len(w) \in Nat /\ 1 \in 1..Len(w)
      /\ \A k \in 1..Len(v) : k + 1 \in 1..Len(w) /\ v[k] = w[k + 1] /\ u[k] = o[k + 1]
      /\ \A k \in 1..Len(w) : k = 1 \/ (k - 1 \in 1..Len(v) /\ v[k - 1] = w[k])
  BY <1>3, <1>4, <1>5, <1>6
<1>8. QED
  BY <1>2, <1>3, <1>7 DEF w, o

\* So the wire stays as it must be, and of what was asked only the answer that was taken
\* is through.
LEMMA TakenLive ==
  ASSUME PeerInv, WireLive, peer.wire # <<>>, peer' = Rest
  PROVE  /\ WireLive' /\ (Asked' => Asked) /\ (PongComes' => PongComes)
         /\ Head(peer.wire).op # "pong" => (Asked => Asked')
<1> DEFINE w == peer.wire
           v == peer'.wire
           o == peer.own
           u == peer'.own
<1>0. /\ Head(w) = w[1] /\ peer'.pings = peer.pings
      /\ \A k \in 1..Len(v) : k + 1 \in 1..Len(w) /\ v[k] = w[k + 1] /\ u[k] = o[k + 1]
      /\ \A k \in 1..Len(w) : k = 1 \/ (k - 1 \in 1..Len(v) /\ v[k - 1] = w[k])
  BY Taken
<1>1. WireLive'
  <2>1. \A k \in 1..Len(w) : w[k].op \notin Ends /\ (w[k].op = "pong" => o[k])
    BY DEF WireLive
  <2> HIDE DEF w, v, o, u
  <2>2. \A k \in 1..Len(v) : v[k].op \notin Ends /\ (v[k].op = "pong" => u[k])
    BY <1>0, <2>1
  <2>3. QED
    BY <2>2 DEF WireLive, Ends, v, u
<1>2. (\E k \in 1..Len(v) : v[k].op = "pong") => \E k \in 1..Len(w) : w[k].op = "pong"
  <2> HIDE DEF w, v, o, u
  <2>1. QED
    BY <1>0
<1>3. Head(w).op # "pong" =>
        ((\E k \in 1..Len(w) : w[k].op = "pong") => \E k \in 1..Len(v) : v[k].op = "pong")
  <2> HIDE DEF w, v, o, u
  <2>1. QED
    BY <1>0
<1>4. /\ PongComes' => PongComes
      /\ Head(peer.wire).op # "pong" => (PongComes => PongComes')
      /\ peer'.pings = peer.pings
  BY <1>0, <1>2, <1>3 DEF PongComes
<1>5. QED
  BY <1>1, <1>4 DEF Asked

\* What libcurl has decrypted after the first frame was read.
LEMMA DecryptedLive ==
  ASSUME PeerInv, ctx \in StreamCtxs, impl \in Streams, TlsLive, peer.wire # <<>>
  PROVE  /\ Stream!Decrypted \in Nat /\ Stream!Decrypted <= Len(peer.wire) - 1
         /\ \A k \in 1..(Len(peer.wire) - 1) : k <= Stream!Decrypted => ~peer.own[k + 1]
<1> DEFINE n == Len(peer.wire)
           W == 2..n
           S == {k \in W : \A j \in 2..k : ~peer.own[j]}
<1>1. n \in Nat \ {0} /\ ctx.tls \in Nat /\ ctx.tls <= n
  BY WireFacts DEF StreamCtxs, TlsLive
<1>2. Stream!Decrypted = IF ctx.tls > 0 THEN ctx.tls - 1 ELSE Cardinality(S)
  BY DEF Stream!Decrypted, Stream!Cardinality, Cardinality
<1>3. CASE ctx.tls > 0
  <2>1. \A k \in 1..(n - 1) : k <= ctx.tls - 1 => k + 1 \in 1..n /\ k + 1 <= ctx.tls
    BY <1>1
  <2> HIDE DEF S
  <2>2. QED
    BY <1>1, <1>2, <1>3, <2>1 DEF TlsLive
<1>4. CASE ~ (ctx.tls > 0)
  <2>1. \A m \in 1..n :
          IsFiniteSet(2..m) /\ Cardinality(2..m) \in Nat /\ Cardinality(2..m) = m - 1
    <3>1. \A m \in 1..n : m \in Int /\ 2 \in Int /\ (2 > m => m = 1)
      BY <1>1
    <3>2. \A m \in 1..n :
            IsFiniteSet(2..m) /\ Cardinality(2..m) = IF 2 > m THEN 0 ELSE m - 2 + 1
      BY <3>1, FS_Interval
    <3>3. \A m \in 1..n : (IF 2 > m THEN 0 ELSE m - 2 + 1) = m - 1 /\ m - 1 \in Nat
      BY <1>1
    <3>4. QED
      BY <3>2, <3>3
  <2>2. \A m \in 1..n : S \subseteq 2..m => Cardinality(S) \in Nat /\ Cardinality(S) <= m - 1
    <3> HIDE DEF S
    <3>1. \A m \in 1..n : S \subseteq 2..m =>
            IsFiniteSet(S) /\ Cardinality(S) <= Cardinality(2..m) /\ Cardinality(S) \in Nat
      BY <2>1, FS_Subset, FS_CardinalityType
    <3>2. QED
      BY <2>1, <3>1
  <2>3. S \subseteq 2..n /\ n \in 1..n
    BY <1>1
  <2>4. ASSUME NEW k \in 1..(n - 1), k <= Cardinality(S), peer.own[k + 1]
        PROVE  FALSE
    <3>1. k \in 1..n /\ k + 1 \in 2..n
      BY <1>1
    <3>2. \A m \in S : m \in 2..k
      <4>1. ASSUME NEW m \in S, m \notin 2..k PROVE FALSE
        <5>1. k + 1 \in 2..m
          BY <1>1, <3>1, <4>1
        <5>2. QED
          BY <2>4, <4>1, <5>1
      <4>2. QED
        BY <4>1
    <3> HIDE DEF S
    <3>3. Cardinality(S) \in Nat /\ Cardinality(S) <= k - 1
      BY <2>2, <3>1, <3>2
    <3>4. QED
      BY <2>4, <3>1, <3>3
  <2> HIDE DEF S
  <2>5. QED
    BY <1>2, <1>4, <2>2, <2>3, <2>4
<1>5. QED
  BY <1>3, <1>4

-----------------------------------------------------------------------------
(* The server's steps.                                                       *)

\* While it stays up it sends no end.  A pong is sent for a ping, in a record of its own.
LEMMA ServerSends ==
  ASSUME PeerInv, Server \/ AnswerPing, peer'.mode = "up"
  PROVE  \E fs \in Seq(Frames), j \in BOOLEAN :
           /\ peer'.wire = Sends(fs, j).wire /\ peer'.own = Sends(fs, j).own
           /\ \A i \in 1..Len(fs) : fs[i].op \notin Ends
           /\ \/ peer'.pings = peer.pings /\ \A i \in 1..Len(fs) : fs[i].op # "pong"
              \/ ~j /\ peer.pings > 0 /\ peer'.pings = peer.pings - 1 /\ Len(fs) = 1
                 /\ fs[1].op = "pong"
<1>1. /\ peer.wire \in Seq(Frames) /\ peer.pings \in Nat /\ peer.sent \in Nat /\ peer \in Peers
  BY WireFacts DEF PeerInv
<1>2. \A fs, j : /\ Sends(fs, j).wire = peer.wire \o fs /\ Sends(fs, j).pings = peer.pings
                 /\ Sends(fs, j).own = peer.own \o [k \in 1..Len(fs) |-> ~j]
                 /\ DOMAIN Sends(fs, j) = DOMAIN peer
  BY <1>1 DEF Sends, Peers
<1>3. DOMAIN peer = {"wire", "own", "sent", "extra", "mode", "pings"}
  BY <1>1 DEF Peers
<1>4. CASE SendMessage
  <2> DEFINE m == peer.sent + 1
             n == Fragments(m)
             fs == [k \in 1..n |-> MessageFrame(m, k)]
  <2>1. PICK j \in Joins : peer' = [Sends(fs, j) EXCEPT !.sent = m]
    BY <1>4 DEF SendMessage
  <2>2. j \in BOOLEAN /\ m \in Nat /\ n \in {1, 2}
    <3>1. j \in BOOLEAN
      BY DEF Joins
    <3>2. m \in Nat
      BY <1>1
    <3>3. n \in {1, 2}
      BY LastFacts
    <3>4. QED
      BY <3>1, <3>2, <3>3
  <2> HIDE DEF n
  <2>3. \A k \in 1..n : MessageFrame(m, k) \in Frames /\ MessageFrame(m, k).op \in {"text", "continuation"}
    <3>1. \A k \in 1..n : k \in {1, 2}
      BY <2>2
    <3>2. \A k \in {1, 2} : MessageFrame(m, k) \in Frames /\ MessageFrame(m, k).op \in {"text", "continuation"}
      BY <2>2, MessageFrameFacts
    <3>3. QED
      BY <3>1, <3>2
  <2>4. fs \in Seq(Frames) /\ Len(fs) = n /\ \A k \in 1..n : fs[k].op \in {"text", "continuation"}
    BY <2>2, <2>3
  <2> HIDE DEF fs
  <2>5. /\ peer'.wire = Sends(fs, j).wire /\ peer'.own = Sends(fs, j).own
        /\ peer'.pings = peer.pings
    BY <1>2, <1>3, <2>1
  <2>6. QED
    BY <2>2, <2>4, <2>5 DEF Ends
<1>5. ASSUME NEW op \in Others \ Ends,
             LET q == Sends(<<Control(op)>>, FALSE)
             IN \/ peer' = [q EXCEPT !.extra = @ + 1] /\ op # "pong"
                \/ peer' = [q EXCEPT !.pings = @ - 1] /\ op = "pong" /\ peer.pings > 0
      PROVE  \E fs \in Seq(Frames), j \in BOOLEAN :
               /\ peer'.wire = Sends(fs, j).wire /\ peer'.own = Sends(fs, j).own
               /\ \A i \in 1..Len(fs) : fs[i].op \notin Ends
               /\ \/ peer'.pings = peer.pings /\ \A i \in 1..Len(fs) : fs[i].op # "pong"
                  \/ ~j /\ peer.pings > 0 /\ peer'.pings = peer.pings - 1 /\ Len(fs) = 1
                     /\ fs[1].op = "pong"
  <2> DEFINE fs == <<Control(op)>>
             q == Sends(fs, FALSE)
  <2>1. Control(op) \in Frames /\ Control(op).op = op /\ op \notin Ends
    BY ControlFacts
  <2>2. fs \in Seq(Frames) /\ Len(fs) = 1 /\ fs[1].op = op /\ \A i \in 1..Len(fs) : fs[i].op = op
    BY <2>1
  <2>3. DOMAIN q = DOMAIN peer /\ q.pings = peer.pings
    BY <1>2
  <2>4. \/ peer' = [q EXCEPT !.extra = @ + 1] /\ op # "pong"
        \/ peer' = [q EXCEPT !.pings = @ - 1] /\ op = "pong" /\ peer.pings > 0
    BY <1>5
  <2> HIDE DEF q
  <2>5. /\ peer'.wire = q.wire /\ peer'.own = q.own
        /\ op # "pong" => peer'.pings = peer.pings
        /\ op = "pong" => peer'.pings = peer.pings - 1 /\ peer.pings > 0
    BY <1>3, <2>3, <2>4
  <2> HIDE DEF fs
  <2>6. FALSE \in BOOLEAN /\ peer'.wire = Sends(fs, FALSE).wire /\ peer'.own = Sends(fs, FALSE).own
    BY <2>5 DEF q
  <2>7. QED
    BY <2>1, <2>2, <2>5, <2>6
<1>6. CASE SendExtra
  <2>1. ASSUME NEW fs, NEW mode, peer' = [Sends(fs, FALSE) EXCEPT !.extra = @ + 1, !.mode = mode]
        PROVE  peer'.mode = mode
    BY <1>2, <1>3, <2>1
  <2>2. \E op \in Extras : peer' = [Sends(<<Control(op)>>, FALSE) EXCEPT !.extra = @ + 1]
    BY <1>6, <2>1 DEF SendExtra
  <2>3. \A op \in Extras : op \in Others \ Ends /\ op # "pong"
    BY DEF Extras, Others, Ops, Ends
  <2>4. QED
    BY <1>5, <2>2, <2>3
<1>7. CASE AnswerPing
  <2>1. peer' = [Sends(<<Control("pong")>>, FALSE) EXCEPT !.pings = @ - 1] /\ peer.pings > 0
    BY <1>7 DEF AnswerPing
  <2>2. "pong" \in Others \ Ends
    BY DEF Others, Ops, Ends
  <2>3. QED
    BY <1>5, <2>1, <2>2
<1>8. QED
  BY <1>4, <1>6, <1>7 DEF Server

LEMMA ServerAlive ==
  ASSUME TypeInv, AliveInv, Server \/ AnswerPing
  PROVE  AliveInv' /\ ~GivenUp
<1>1. /\ UNCHANGED <<impl, ctx, call, got>> /\ peer.mode = "up" /\ Open /\ PeerInv
  BY DEF TypeInv, Server, SendMessage, SendExtra, AnswerPing
<1>2. CASE ~Live'
  BY <1>1, <1>2 DEF AliveInv, GivenUp
<1>3. CASE Live'
  <2>1. Live /\ peer'.mode = "up" /\ WireLive /\ TlsLive /\ AgeLive
    BY <1>1, <1>3 DEF Live, AliveInv
  <2>2. PICK fs \in Seq(Frames), j \in BOOLEAN :
           /\ peer'.wire = Sends(fs, j).wire /\ peer'.own = Sends(fs, j).own
           /\ \A i \in 1..Len(fs) : fs[i].op \notin Ends
           /\ \/ peer'.pings = peer.pings /\ \A i \in 1..Len(fs) : fs[i].op # "pong"
              \/ ~j /\ peer.pings > 0 /\ peer'.pings = peer.pings - 1 /\ Len(fs) = 1
                 /\ fs[1].op = "pong"
    BY <1>1, <2>1, ServerSends
  <2> DEFINE n == Len(peer.wire)
  <2>3. /\ Len(peer'.wire) = n + Len(fs) /\ n \in Nat /\ Len(fs) \in Nat
        /\ \A k \in 1..n : /\ k \in 1..Len(peer'.wire)
                           /\ peer'.wire[k] = peer.wire[k] /\ peer'.own[k] = peer.own[k]
        /\ \A k \in 1..Len(peer'.wire) :
             k \in 1..n \/ (peer'.wire[k] \in {fs[i] : i \in 1..Len(fs)} /\ (j \/ peer'.own[k] = TRUE))
    <3>1. LET w == Sends(fs, j).wire
              o == Sends(fs, j).own
          IN /\ Len(w) = n + Len(fs) /\ n \in Nat /\ Len(fs) \in Nat
             /\ \A k \in 1..n : k \in 1..Len(w) /\ w[k] = peer.wire[k] /\ o[k] = peer.own[k]
             /\ \A k \in 1..Len(w) :
                  k \in 1..n \/ (w[k] \in {fs[i] : i \in 1..Len(fs)} /\ (j \/ o[k] = TRUE))
      BY <1>1, <2>2, Appended
    <3>2. Sends(fs, j).wire = peer'.wire /\ Sends(fs, j).own = peer'.own
      BY <2>2
    <3> HIDE DEF n
    <3>3. QED
      BY <3>1, <3>2
  <2>4. \A k \in 1..Len(peer'.wire) :
          k \in 1..n \/ \E i \in 1..Len(fs) : peer'.wire[k] = fs[i] /\ (j \/ peer'.own[k] = TRUE)
    BY <2>3
  <2>5. WireLive'
    <3>1. \A i \in 1..Len(fs) : fs[i].op \notin Ends /\ (fs[i].op = "pong" => ~j)
      BY <2>2
    <3>2. \A k \in 1..n : peer.wire[k].op \notin Ends /\ (peer.wire[k].op = "pong" => peer.own[k])
      BY <2>1 DEF WireLive
    <3> HIDE DEF n
    <3>3. ASSUME NEW k \in 1..Len(peer'.wire)
          PROVE  peer'.wire[k].op \notin Ends /\ (peer'.wire[k].op = "pong" => peer'.own[k])
      <4>1. CASE k \in 1..n
        BY <2>3, <3>2, <4>1
      <4>2. CASE k \notin 1..n
        BY <2>4, <3>1, <3>3, <4>2
      <4>3. QED
        BY <4>1, <4>2
    <3>4. QED
      BY <3>3 DEF WireLive, Ends
  <2>6. TlsLive'
    <3>1. SUFFICES ASSUME impl \in Streams
                   PROVE  /\ ctx.tls <= n + Len(fs)
                          /\ \A k \in 1..Len(peer'.wire) : k <= ctx.tls => ~peer'.own[k]
      BY <1>1, <2>3 DEF TlsLive
    <3>2. ctx.tls \in Nat /\ ctx.tls <= n
      BY <2>1, <3>1, Ages DEF TlsLive, StreamCtxs
    <3>3. \A k \in 1..Len(peer'.wire) : k <= ctx.tls => k \in 1..n
      BY <2>3, <3>2
    <3>4. \A k \in 1..n : k <= ctx.tls => ~peer.own[k]
      BY <2>1, <3>1 DEF TlsLive
    <3> HIDE DEF n
    <3>5. QED
      BY <2>3, <3>2, <3>3, <3>4
  <2>7. (Asked <=> Asked') /\ (peer'.pings > 0 => peer.pings > 0)
        /\ (PongComes' => PongComes \/ peer.pings > 0)
    <3>1. PongComes => PongComes'
      BY <2>3 DEF PongComes
    <3>2. peer.pings \in Nat
      BY <2>1, Ages
    <3>3. CASE peer'.pings = peer.pings /\ \A i \in 1..Len(fs) : fs[i].op # "pong"
      <4>1. PongComes' => PongComes
        BY <2>3, <2>4, <3>3 DEF PongComes
      <4>2. QED
        BY <3>1, <3>3, <4>1 DEF Asked
    <3>4. CASE peer.pings > 0 /\ peer'.pings = peer.pings - 1 /\ Len(fs) = 1 /\ fs[1].op = "pong"
      <4>1. n + 1 \in 1..Len(peer'.wire) /\ n + 1 \notin 1..n
        BY <2>3, <3>4
      <4>2. \E i \in 1..Len(fs) : peer'.wire[n + 1] = fs[i]
        BY <2>4, <4>1
      <4>3. peer'.wire[n + 1].op = "pong"
        BY <3>4, <4>2
      <4>4. PongComes'
        BY <4>1, <4>3 DEF PongComes
      <4>5. QED
        BY <3>2, <3>4, <4>4 DEF Asked
    <3>5. QED
      BY <2>2, <3>3, <3>4
  <2>8. AgeLive'
    BY <1>1, <2>1, <2>7 DEF AgeLive
  <2>9. QED
    BY <1>1, <2>5, <2>6, <2>8 DEF AliveInv, GivenUp
<1>4. QED
  BY <1>2, <1>3

-----------------------------------------------------------------------------
(* The byte stream's steps.                                                  *)

LEMMA StreamRead ==
  ASSUME TypeInv, AliveInv, Live, impl \in Streams, NEW t, Stream!MTY_WebSocketRead(t)
  PROVE  AliveInv' /\ ~GivenUp
<1>1. /\ WireLive /\ TlsLive /\ AgeLive /\ peer.mode = "up" /\ impl # "apple" /\ PeerInv
      /\ ctx \in StreamCtxs /\ ctx.ping \in Nat /\ ctx.pong \in Nat /\ peer.pings \in Nat
      /\ call \in Calls
  BY Ages DEF AliveInv, Live, Streams, TypeInv
<1>2. peer \in Peers
  BY <1>1 DEF PeerInv
<1>3. \A c \in StreamCtxs : LET d == Stream!mty_net_prep_read(c, t)
                            IN d.ping = c.ping /\ d.pong = c.pong /\ d.tls = c.tls
  BY DEF Stream!mty_net_prep_read, StreamCtxs
<1>4. [ctx EXCEPT !.ping = 0] \in StreamCtxs
  BY <1>1 DEF StreamCtxs
<1>5. /\ impl' = impl /\ At("poll")
      /\ \/ /\ ctx.ping > 1 /\ ctx' = Stream!mty_net_prep_read([ctx EXCEPT !.ping = 0], t)
            /\ peer' = [peer EXCEPT !.pings = @ + 1]
         \/ ctx.ping <= 1 /\ ctx' = Stream!mty_net_prep_read(ctx, t) /\ peer' = peer
  BY <1>1
  DEF Stream!MTY_WebSocketRead, Stream!WriteResults, Stream!PingInterval, Stream!At, At
<1>6. call'.r = "none" /\ call'.pc = "poll" /\ call'.quiet = call.quiet
  BY <1>1, <1>5 DEF At, Calls
<1>7. peer'.wire = peer.wire /\ peer'.own = peer.own /\ peer'.mode = "up"
  BY <1>1, <1>2, <1>5 DEF Peers
<1>8. WireLive' /\ (PongComes' <=> PongComes)
  BY <1>1, <1>7 DEF WireLive, PongComes
<1>9. CASE ctx.ping > 1 /\ ctx' = Stream!mty_net_prep_read([ctx EXCEPT !.ping = 0], t)
             /\ peer' = [peer EXCEPT !.pings = @ + 1]
  <2>1. ctx'.ping = 0 /\ ctx'.pong = ctx.pong /\ ctx'.tls = ctx.tls
    BY <1>1, <1>3, <1>4, <1>9 DEF StreamCtxs
  <2>2. peer'.pings > 0
    BY <1>1, <1>2, <1>9 DEF Peers
  <2>3. ctx.pong <= 2
    BY <1>1, <1>9 DEF AgeLive
  <2>4. AgeLive'
    BY <1>1, <1>5, <2>1, <2>2, <2>3 DEF AgeLive, Asked
  <2>5. TlsLive'
    BY <1>1, <1>5, <1>7, <2>1 DEF TlsLive
  <2>6. QED
    BY <1>6, <1>8, <2>4, <2>5 DEF AliveInv, GivenUp
<1>10. CASE ctx.ping <= 1 /\ ctx' = Stream!mty_net_prep_read(ctx, t) /\ peer' = peer
  <2>1. ctx'.ping = ctx.ping /\ ctx'.pong = ctx.pong /\ ctx'.tls = ctx.tls
    BY <1>1, <1>3, <1>10
  <2>2. AgeLive'
    BY <1>1, <1>5, <1>6, <1>8, <1>10, <2>1 DEF AgeLive, Asked
  <2>3. TlsLive'
    BY <1>1, <1>5, <1>7, <2>1 DEF TlsLive
  <2>4. QED
    BY <1>6, <1>8, <2>2, <2>3 DEF AliveInv, GivenUp
<1>11. QED
  BY <1>5, <1>9, <1>10

\* Nothing to read: no pong is on the wire either.
LEMMA StreamTimesOut ==
  ASSUME TypeInv, AliveInv, Live, impl \in Streams, Stream!PollTimesOut
  PROVE  AliveInv' /\ ~GivenUp
<1>1. /\ WireLive /\ TlsLive /\ AgeLive /\ peer.mode = "up" /\ impl # "apple" /\ PeerInv
      /\ ctx \in StreamCtxs /\ ctx.ping \in Nat /\ ctx.pong \in Nat
  BY Ages DEF AliveInv, Live, Streams, TypeInv
<1>2. ctx.pong <= 3
  BY <1>1, PongInTime
<1>3. /\ UNCHANGED <<impl, ctx, peer>> /\ call.pc = "poll" /\ ~Stream!Readable
      /\ call' = [pc |-> "idle", r |-> "continue", quiet |-> TRUE]
  BY <1>1, <1>2
  DEF Stream!PollTimesOut, Stream!PongMissing, Stream!PongTimeout, Stream!PingInterval,
      Stream!TimedOut
<1>4. ~PongComes
  <2>1. Len(peer.wire) \in Nat /\ ctx.tls \in Nat
    BY <1>1, WireFacts DEF StreamCtxs
  <2>2. \A k \in 1..Len(peer.wire) : k <= ctx.tls
    BY <1>3, <2>1, <1>1, WireFacts DEF Stream!Readable
  <2>3. QED
    BY <1>1, <2>2 DEF TlsLive, WireLive, PongComes
<1>5. AgeLive'
  BY <1>1, <1>3, <1>4 DEF AgeLive, Asked, PongComes
<1>6. WireLive' /\ TlsLive'
  BY <1>1, <1>3 DEF WireLive, TlsLive
<1>7. QED
  BY <1>3, <1>5, <1>6 DEF AliveInv, GivenUp

\* The first frame is read, and a pong sets last_pong.
LEMMA StreamReadsInTime ==
  ASSUME TypeInv, AliveInv, Live, impl \in Streams, Stream!PollReads
  PROVE  AliveInv' /\ (GivenUp => Excused)
<1> DEFINE f == Head(peer.wire)
           b == [Stream!mty_net_prep_read(ctx, "second") EXCEPT !.tls = Stream!Decrypted]
           c == Stream!FrameRead(f, b)
<1>1. /\ WireLive /\ TlsLive /\ AgeLive /\ peer.mode = "up" /\ impl # "apple" /\ PeerInv
      /\ ctx \in StreamCtxs /\ ctx.ping \in Nat /\ ctx.pong \in Nat /\ peer.pings \in Nat
  BY Ages DEF AliveInv, Live, Streams, TypeInv
<1>2. peer.wire # <<>> /\ impl' = impl /\ call.pc = "poll"
  BY <1>1, WireFacts DEF Stream!PollReads, Stream!Readable, StreamCtxs
<1>3. f.op \notin Ends
  <2>1. 1 \in 1..Len(peer.wire) /\ f = peer.wire[1]
    BY <1>1, <1>2, WireFacts
  <2>2. QED
    BY <1>1, <2>1 DEF WireLive
<1>4. CASE ~Stream!ws_read(f)
  <2>1. Stream!Oversized
    BY <1>2, <1>3, <1>4 DEF Stream!ws_read, Stream!Oversized, Ends
  <2>2. UNCHANGED <<impl, ctx, peer>> /\ call' = [pc |-> "idle", r |-> "error", quiet |-> FALSE]
    BY <1>4 DEF Stream!PollReads, Stream!Answer
  <2>3. AgeLive'
    BY <1>1, <2>2 DEF AgeLive, Asked, PongComes
  <2>4. WireLive' /\ TlsLive'
    BY <1>1, <2>2 DEF WireLive, TlsLive
  <2>5. QED
    BY <2>1, <2>3, <2>4 DEF AliveInv, Excused
<1>5. CASE Stream!ws_read(f)
  <2>1. Stream!mty_net_prep_read(ctx, "second") \in StreamCtxs
    BY <1>1 DEF Stream!mty_net_prep_read, StreamCtxs, Times
  <2>2. Stream!mty_net_prep_read(ctx, "second").ping = ctx.ping
        /\ Stream!mty_net_prep_read(ctx, "second").pong = ctx.pong
    BY <1>1 DEF Stream!mty_net_prep_read, StreamCtxs
  <2>3. b \in StreamCtxs /\ b.ping = ctx.ping /\ b.pong = ctx.pong /\ b.tls = Stream!Decrypted
    BY <1>1, <1>2, <2>1, <2>2, DecryptedType DEF StreamCtxs
  <2> HIDE DEF b
  <2>4. /\ c.ping = ctx.ping /\ c.tls = Stream!Decrypted
        /\ c.pong = IF f.op = "pong" THEN 0 ELSE ctx.pong
    BY <2>3 DEF Stream!FrameRead, StreamCtxs
  <2>5. c.pong <= 3
    BY <1>1, <2>4, PongInTime
  <2> HIDE DEF c
  <2>6. ~Stream!PongMissing(c)
    BY <1>1, <2>4, <2>5 DEF Stream!PongMissing, Stream!PongTimeout, Stream!PingInterval
  <2>7. Stream!FrameResults(f) \subseteq {"continue", "ok", "done"}
    BY <1>1 DEF Stream!FrameResults, Stream!WriteResults
  <2>8. /\ ctx' = c /\ peer' = Rest
        /\ \E r \in Stream!FrameResults(f) : call' = [pc |-> "idle", r |-> r, quiet |-> FALSE]
    <3>1. \E r \in Stream!FrameResults(f) :
            /\ Answer(IF Stream!PongMissing(c) THEN "error" ELSE r)
            /\ ctx' = c /\ peer' = Rest
      BY <1>5 DEF Stream!PollReads, Stream!Answer, Answer, Stream!Rest, Rest, b, c
    <3>2. QED
      BY <2>6, <3>1 DEF Answer
  <2>9. call'.pc = "idle" /\ ~call'.quiet /\ call'.r # "error"
    BY <2>7, <2>8
  <2>10. /\ WireLive' /\ (Asked' => Asked) /\ (PongComes' => PongComes)
         /\ f.op # "pong" => (Asked => Asked')
         /\ peer'.pings = peer.pings
    BY <1>1, <1>2, <2>8, TakenLive, Taken
  <2>11. AgeLive'
    <3>1. ctx'.ping = ctx.ping /\ ctx'.pong = IF f.op = "pong" THEN 0 ELSE ctx.pong
      BY <2>4, <2>8
    <3> HIDE DEF f
    <3>2. Asked' => ctx'.ping <= 1 /\ ctx'.pong <= ctx'.ping + 2
      BY <1>1, <2>10, <3>1 DEF AgeLive
    <3>3. ~Asked' => ctx'.pong <= ctx'.ping
      BY <1>1, <2>10, <3>1 DEF AgeLive
    <3>4. /\ ctx'.ping <= 2
          /\ peer'.pings > 0 => ctx'.ping = 0
      BY <1>1, <2>10, <3>1 DEF AgeLive
    <3>5. QED
      BY <1>1, <1>2, <2>9, <3>2, <3>3, <3>4 DEF AgeLive
  <2>12. TlsLive'
    <3> DEFINE n == Len(peer.wire)
    <3>1. /\ Stream!Decrypted \in Nat /\ Stream!Decrypted <= n - 1
          /\ \A k \in 1..(n - 1) : k <= Stream!Decrypted => ~peer.own[k + 1]
      BY <1>1, <1>2, DecryptedLive
    <3>2. /\ Len(peer'.wire) = n - 1
          /\ \A k \in 1..Len(peer'.wire) : peer'.own[k] = peer.own[k + 1]
      BY <1>1, <1>2, <2>8, Taken
    <3>3. ctx'.tls = Stream!Decrypted
      BY <2>4, <2>8
    <3> HIDE DEF n
    <3>4. /\ ctx'.tls <= Len(peer'.wire)
          /\ \A k \in 1..Len(peer'.wire) : k <= ctx'.tls => ~peer'.own[k]
      BY <3>1, <3>2, <3>3
    <3>5. QED
      BY <3>4 DEF TlsLive
  <2>13. QED
    BY <2>9, <2>10, <2>11, <2>12 DEF AliveInv, GivenUp
<1>6. QED
  BY <1>4, <1>5

\* A minute passes: no ping is unanswered, and a pong that comes was sent in this minute.
LEMMA StreamTick ==
  ASSUME TypeInv, AliveInv, Live, impl \in Streams, Stream!Tick
  PROVE  AliveInv' /\ ~GivenUp
<1>1. /\ WireLive /\ TlsLive /\ AgeLive /\ peer.mode = "up" /\ impl # "apple"
      /\ ctx \in StreamCtxs /\ ctx.ping \in Nat /\ ctx.pong \in Nat /\ peer.pings \in Nat
      /\ call \in Calls
  BY Ages DEF AliveInv, Live, Streams
<1>2. /\ call.pc = "idle" /\ call.quiet /\ peer.pings = 0 /\ UNCHANGED <<impl, peer>>
      /\ ctx' = [ctx EXCEPT !.ping = Stream!Older(@), !.pong = Stream!Older(@)]
      /\ call' = [call EXCEPT !.quiet = FALSE]
  BY <1>1 DEF Stream!Tick
<1>3. \A n \in Nat : n <= 4 => Stream!Older(n) = n + 1
  BY DEF Stream!Older, Stream!Cap, Stream!PongTimeout, Stream!PingInterval
<1>4. /\ ctx'.ping = Stream!Older(ctx.ping) /\ ctx'.pong = Stream!Older(ctx.pong)
      /\ ctx'.tls = ctx.tls
  BY <1>1, <1>2 DEF StreamCtxs
<1>5. call'.pc = "idle" /\ ~call'.quiet /\ call'.r = call.r
  BY <1>1, <1>2 DEF Calls
<1>6. /\ ctx.ping <= 1 /\ ctx.pong <= 3
      /\ Asked => ctx.ping = 0 /\ ctx.pong <= 2
      /\ ~Asked => ctx.pong <= ctx.ping
  BY <1>1, <1>2, PongInTime DEF AgeLive, Asked
<1>7. ctx'.ping = ctx.ping + 1 /\ ctx'.pong = ctx.pong + 1
  BY <1>1, <1>3, <1>4, <1>6
<1>8. (Asked' <=> Asked) /\ peer'.pings = 0
  BY <1>2 DEF Asked, PongComes
<1>9. AgeLive'
  BY <1>1, <1>2, <1>5, <1>6, <1>7, <1>8 DEF AgeLive
<1>10. WireLive' /\ TlsLive'
  BY <1>1, <1>2, <1>4 DEF WireLive, TlsLive
<1>11. QED
  BY <1>5, <1>9, <1>10 DEF AliveInv, GivenUp

LEMMA StreamAlive ==
  ASSUME TypeInv, AliveInv, On(Streams), Stream!Step
  PROVE  AliveInv' /\ (GivenUp => Excused)
<1>1. /\ impl \in Streams /\ impl' = impl /\ call \in Calls /\ CtxInv /\ CallInv /\ PeerInv
  BY DEF TypeInv, On, CallInv, Stream!Step, Stream!MTY_WebSocketConnect, Stream!Connected,
         Stream!NotConnected, Stream!Call, Stream!MTY_WebSocketDestroy, Stream!Destroyed,
         Stream!MTY_WebSocketRead, Stream!Read, Stream!PollTimesOut, Stream!PollReads, Stream!Tick
<1>2. CASE Stream!MTY_WebSocketConnect
  <2>1. call.pc = "start" /\ UNCHANGED peer /\ \E pc : call' = [call EXCEPT !.pc = pc]
    BY <1>2 DEF Stream!MTY_WebSocketConnect, Stream!Connected, Stream!NotConnected
  <2>2. (\E so : ctx' = Stream!New(so)) \/ ctx' = ctx
    BY <1>2 DEF Stream!MTY_WebSocketConnect, Stream!Connected, Stream!NotConnected
  <2>3. call'.r = call.r
    BY <1>1, <2>1 DEF Calls
  <2>4. CASE \E so : ctx' = Stream!New(so)
    <3>1. ctx'.ping = 0 /\ ctx'.pong = 0 /\ ctx'.tls = 0
      BY <2>4 DEF Stream!New
    <3>2. peer'.wire = <<>> /\ Len(peer'.wire) = 0
      BY <1>1, <2>1 DEF CallInv
    <3>3. WireLive' /\ TlsLive' /\ ~PongComes'
      BY <3>1, <3>2 DEF WireLive, TlsLive, PongComes
    <3>4. AgeLive'
      BY <1>1, <3>1, <3>3 DEF AgeLive, Asked, Streams
    <3>5. QED
      BY <2>3, <3>3, <3>4 DEF AliveInv, GivenUp
  <2>5. CASE ctx' = ctx
    <3>1. ~Open'
      BY <1>1, <2>1, <2>5, CtxFacts DEF CallInv, Open
    <3>2. QED
      BY <2>3, <3>1 DEF AliveInv, Live, GivenUp
  <2>6. QED
    BY <2>2, <2>4, <2>5
<1>3. CASE Stream!MTY_WebSocketDestroy
  <2>1. ctx' = Stream!Dead /\ call' = [call EXCEPT !.pc = "gone"]
    BY <1>3 DEF Stream!MTY_WebSocketDestroy, Stream!Destroyed
  <2>2. ~Open' /\ call'.r = call.r
    BY <1>1, <2>1 DEF Stream!Dead, Open, Calls
  <2>3. QED
    BY <2>2 DEF AliveInv, Live, GivenUp
<1>4. CASE Stream!Read \/ Stream!Tick \/ \E t \in Stream!Timeouts : Stream!MTY_WebSocketRead(t)
  <2>1. call.pc \in {"idle", "poll"}
    BY <1>4 DEF Stream!Read, Stream!PollTimesOut, Stream!PollReads, Stream!Tick,
                Stream!MTY_WebSocketRead, Stream!MayRead
  <2>2. Open
    BY <1>1, <2>1, CtxFacts DEF CallInv
  <2>3. CASE peer.mode # "up"
    <3>1. peer'.mode = peer.mode
      <4>1. \/ peer' = peer \/ peer' = Rest
            \/ peer' = [peer EXCEPT !.pings = IF peer.mode = "up" THEN @ + 1 ELSE @]
        BY <1>4
        DEF Stream!Read, Stream!PollTimesOut, Stream!PollReads, Stream!Tick,
            Stream!MTY_WebSocketRead, Stream!Rest, Rest
      <4>2. peer \in Peers
        BY <1>1 DEF PeerInv
      <4>3. QED
        BY <4>1, <4>2 DEF Rest, Peers
    <3>2. QED
      BY <2>3, <3>1 DEF AliveInv, Live, GivenUp
  <2>4. CASE peer.mode = "up"
    <3>1. Live
      BY <1>1, <2>2, <2>4 DEF Live, Pinging
    <3>2. QED
      BY <1>1, <1>4, <3>1, StreamRead, StreamTimesOut, StreamReadsInTime, StreamTick DEF Stream!Read
  <2>5. QED
    BY <2>3, <2>4
<1>5. QED
  BY <1>2, <1>3, <1>4 DEF Stream!Step, Stream!Call

-----------------------------------------------------------------------------
(* NSURLSession's steps.                                                     *)

\* The clocks and the wire stay.
LEMMA AppleKept ==
  ASSUME AliveInv, Live, impl = "apple", impl' = impl, peer' = peer,
         ctx'.ping = ctx.ping, ctx'.pong = ctx.pong, ~ctx'.error,
         call'.quiet \/ call'.pc \in {"poll", "wait"} => ctx.ping <= 1
  PROVE  AliveInv'
<1>1. WireLive /\ AgeLive /\ impl \notin Streams
  BY DEF AliveInv, Streams
<1>2. WireLive' /\ TlsLive'
  BY <1>1 DEF WireLive, TlsLive
<1>3. AgeLive'
  BY <1>1 DEF AgeLive, Asked, PongComes
<1>4. QED
  BY <1>2, <1>3 DEF AliveInv

LEMMA AppleLive ==
  ASSUME TypeInv, AliveInv, Live, impl = "apple"
  PROVE  /\ WireLive /\ AgeLive /\ impl \notin Streams /\ PeerInv /\ ctx \in AppleCtxs
         /\ ctx.ping \in Nat /\ ctx.pong \in Nat /\ peer.pings \in Nat
         /\ call \in Calls /\ call.quiet \in BOOLEAN /\ ~ctx.error /\ ctx.pong <= 3
         /\ peer.mode = "up" /\ peer \in Peers
         /\ peer.wire # <<>> => Head(peer.wire).op \notin Ends
<1>1. WireLive /\ AgeLive /\ impl \notin Streams /\ PeerInv /\ peer.mode = "up" /\ peer \in Peers
  BY DEF AliveInv, Live, TypeInv, PeerInv, Streams
<1>2. ctx.pong <= 3 /\ ~ctx.error
  BY <1>1, PongInTime DEF AgeLive
<1>3. peer.wire # <<>> => Head(peer.wire).op \notin Ends
  <2>1. HAVE peer.wire # <<>>
  <2>2. 1 \in 1..Len(peer.wire) /\ Head(peer.wire) = peer.wire[1]
    BY <1>1, <2>1, WireFacts
  <2>3. QED
    BY <1>1, <2>2 DEF WireLive
<1>4. QED
  BY <1>1, <1>2, <1>3, Ages

\* What the session does: a message, an open or its end leave the clocks alone.
LEMMA AppleReceives ==
  ASSUME TypeInv, AliveInv, Live, impl = "apple",
         Apple!DidReceive \/ Apple!PongHandler \/ Apple!didCloseWithCode
  PROVE  AliveInv' /\ ~GivenUp
<1>1. /\ WireLive /\ AgeLive /\ impl \notin Streams /\ PeerInv /\ ctx \in AppleCtxs
      /\ ctx.ping \in Nat /\ ctx.pong \in Nat /\ ~ctx.error
      /\ peer.wire # <<>> => Head(peer.wire).op \notin Ends
  BY AppleLive
<1>2. UNCHANGED <<impl, call>>
  BY DEF Apple!DidReceive, Apple!PongHandler, Apple!didCloseWithCode
<1>3. ~Apple!didCloseWithCode
  <2>1. DOMAIN peer.wire = 1..Len(peer.wire)
    BY <1>1, WireFacts
  <2>2. QED
    BY <1>1, <2>1 DEF Apple!didCloseWithCode, WireLive, Ends
<1>4. /\ peer.wire # <<>> /\ peer' = Rest
      /\ \/ /\ Head(peer.wire).op # "pong"
            /\ \E m : ctx' = [ctx EXCEPT !.handler = FALSE, !.read = TRUE, !.msg = m]
         \/ ctx' = [ctx EXCEPT !.pong = 0]
  <2>1. CASE Apple!DidReceive
    <3>1. ~Apple!Arrives({"eof"})
      BY <1>1 DEF Apple!Arrives, Ends
    <3>2. /\ Apple!Arrives({"text", "empty", "big", "binary"}) /\ peer' = Rest
          /\ \E m : ctx' = [ctx EXCEPT !.handler = FALSE, !.read = TRUE, !.msg = m]
      BY <2>1, <3>1 DEF Apple!DidReceive, Apple!Rest, Rest
    <3>3. QED
      BY <3>2 DEF Apple!Arrives
  <2>2. CASE Apple!PongHandler
    BY <2>2 DEF Apple!PongHandler, Apple!Arrives, Apple!Rest, Rest
  <2>3. QED
    BY <1>3, <2>1, <2>2
<1>5. /\ ctx'.ping = ctx.ping /\ ~ctx'.error
      /\ \/ Head(peer.wire).op # "pong" /\ ctx'.pong = ctx.pong
         \/ ctx'.pong = 0
  BY <1>1, <1>4 DEF AppleCtxs
<1>6. /\ WireLive' /\ (Asked' => Asked) /\ (PongComes' => PongComes)
      /\ Head(peer.wire).op # "pong" => (Asked => Asked')
      /\ peer'.pings = peer.pings
  BY <1>1, <1>4, TakenLive, Taken
<1>7. AgeLive'
  <2>1. /\ Asked' => ctx'.ping <= 1 /\ ctx'.pong <= ctx'.ping + 2
        /\ ~Asked' => ctx'.pong <= ctx'.ping
    BY <1>1, <1>5, <1>6 DEF AgeLive
  <2>2. /\ ctx'.ping <= 2
        /\ call'.quiet \/ call'.pc \in {"poll", "wait"} => ctx'.ping <= 1
    BY <1>1, <1>2, <1>5 DEF AgeLive
  <2>3. peer'.pings > 0 \/ (PongComes' /\ (call'.quiet \/ impl' = "apple")) => ctx'.ping = 0
    BY <1>1, <1>2, <1>5, <1>6 DEF AgeLive
  <2>4. QED
    BY <1>5, <2>1, <2>2, <2>3 DEF AgeLive
<1>8. TlsLive'
  BY <1>1, <1>2 DEF TlsLive
<1>9. QED
  BY <1>2, <1>6, <1>7, <1>8 DEF AliveInv, GivenUp

LEMMA AppleRead ==
  ASSUME TypeInv, AliveInv, Live, impl = "apple", Apple!MTY_WebSocketRead
  PROVE  AliveInv' /\ ~GivenUp
<1> DEFINE ping == IF ctx.ping > 1 THEN 0 ELSE ctx.ping
           pinged == [ctx EXCEPT !.ping = ping]
<1>1. /\ WireLive /\ AgeLive /\ impl \notin Streams /\ PeerInv /\ ctx \in AppleCtxs
      /\ ctx.ping \in Nat /\ ctx.pong \in Nat /\ peer.pings \in Nat
      /\ call \in Calls /\ ~ctx.error /\ ctx.pong <= 3 /\ peer.mode = "up" /\ peer \in Peers
  BY AppleLive
<1>2. ~ (ctx.pong > Apple!PongTimeout)
  BY <1>1 DEF Apple!PongTimeout, Apple!PingInterval
<1>3. /\ impl' = impl /\ (At("wait") \/ Answer("done"))
      /\ peer' = [peer EXCEPT !.pings = IF ctx.ping > 1 THEN @ + 1 ELSE @]
      /\ \/ ctx' = pinged
         \/ ctx' = [pinged EXCEPT !.started = TRUE, !.error = FALSE, !.msg = Apple!NoMsg,
                                  !.handler = TRUE]
  BY <1>1, <1>2 DEF Apple!MTY_WebSocketRead, Apple!PingInterval, Apple!At, At, Apple!Answer, Answer
<1>4. call'.r # "error" /\ (call'.quiet => call.quiet)
  <2>1. At("wait") => call'.r = "none" /\ call'.quiet = call.quiet
    BY <1>1 DEF At, Calls
  <2>2. Answer("done") => call'.r = "done" /\ call'.quiet = FALSE
    BY DEF Answer
  <2>3. QED
    BY <1>3, <2>1, <2>2
<1> HIDE DEF ping
<1>5. ctx'.ping = ping /\ ctx'.pong = ctx.pong /\ ~ctx'.error
  BY <1>1, <1>3 DEF AppleCtxs
<1>6. /\ peer'.wire = peer.wire /\ peer'.own = peer.own
      /\ peer'.pings = IF ctx.ping > 1 THEN peer.pings + 1 ELSE peer.pings
  BY <1>1, <1>3 DEF Peers
<1>7. WireLive' /\ (PongComes' <=> PongComes) /\ TlsLive'
  BY <1>1, <1>3, <1>6 DEF WireLive, PongComes, TlsLive
<1>8. AgeLive'
  <2>1. CASE ctx.ping > 1
    <3>1. ping = 0 /\ peer'.pings > 0 /\ ctx.pong <= 2
      BY <1>1, <1>6, <2>1 DEF AgeLive, ping
    <3>2. QED
      BY <1>3, <1>5, <3>1 DEF AgeLive, Asked
  <2>2. CASE ~ (ctx.ping > 1)
    <3>1. ping = ctx.ping /\ ctx.ping <= 1 /\ peer'.pings = peer.pings
      BY <1>1, <1>6, <2>2 DEF ping
    <3>2. QED
      BY <1>1, <1>3, <1>5, <1>7, <3>1 DEF AgeLive, Asked
  <2>3. QED
    BY <2>1, <2>2
<1>9. QED
  BY <1>4, <1>7, <1>8 DEF AliveInv, GivenUp

\* The wait ends; nothing but a text that is too large is an error.
LEMMA AppleReadEnds ==
  ASSUME TypeInv, AliveInv, Live, impl = "apple", Apple!ReadEnds \/ Apple!ReadTimesOut
  PROVE  AliveInv' /\ (GivenUp => Excused)
<1>1. /\ AgeLive /\ ctx \in AppleCtxs /\ ctx.ping \in Nat /\ call \in Calls /\ ~ctx.error
  BY AppleLive
<1>2. /\ call.pc = "wait" /\ UNCHANGED <<impl, peer>>
      /\ ctx' = ctx \/ \E m : ctx' = [ctx EXCEPT !.read = FALSE, !.started = FALSE, !.msg = m]
  BY DEF Apple!ReadEnds, Apple!ReadTimesOut
<1>3. ctx'.ping = ctx.ping /\ ctx'.pong = ctx.pong /\ ~ctx'.error
  BY <1>1, <1>2 DEF AppleCtxs
<1>4. ctx.ping <= 1
  BY <1>1, <1>2 DEF AgeLive
<1>5. AliveInv'
  BY <1>2, <1>3, <1>4, AppleKept
<1>6. GivenUp => Excused
  <2>1. HAVE GivenUp
  <2>2. CASE Apple!ReadTimesOut
    BY <2>1, <2>2 DEF Apple!ReadTimesOut, Apple!TimedOut, GivenUp
  <2>3. CASE Apple!ReadEnds
    BY <1>1, <2>1, <2>3 DEF Apple!ReadEnds, Apple!Answer, GivenUp, Excused, On
  <2>4. QED
    BY <2>2, <2>3
<1>7. QED
  BY <1>5, <1>6

\* A minute passes, and all that came was handled.
LEMMA AppleTick ==
  ASSUME TypeInv, AliveInv, Live, impl = "apple", Apple!Tick
  PROVE  AliveInv' /\ ~GivenUp
<1>1. /\ WireLive /\ AgeLive /\ impl \notin Streams /\ ctx \in AppleCtxs
      /\ ctx.ping \in Nat /\ ctx.pong \in Nat
      /\ call \in Calls /\ ~ctx.error /\ ctx.pong <= 3 /\ peer.mode = "up"
  BY AppleLive
<1>2. /\ call.pc = "idle" /\ call.quiet /\ peer.pings = 0 /\ peer.wire = <<>>
      /\ UNCHANGED <<impl, peer>>
      /\ ctx' = [ctx EXCEPT !.ping = Apple!Older(@), !.pong = Apple!Older(@)]
      /\ call' = [call EXCEPT !.quiet = FALSE]
  BY <1>1 DEF Apple!Tick
<1>3. \A n \in Nat : n <= 4 => Apple!Older(n) = n + 1
  BY DEF Apple!Older, Apple!Cap, Apple!PongTimeout, Apple!PingInterval
<1>4. ~Asked /\ ~Asked' /\ peer'.pings = 0 /\ ~PongComes'
  BY <1>2 DEF Asked, PongComes
<1>5. ctx.ping <= 1 /\ ctx.pong <= ctx.ping
  BY <1>1, <1>2, <1>4 DEF AgeLive
<1>6. ctx'.ping = Apple!Older(ctx.ping) /\ ctx'.pong = Apple!Older(ctx.pong) /\ ~ctx'.error
  BY <1>1, <1>2 DEF AppleCtxs
<1>7. ctx'.ping = ctx.ping + 1 /\ ctx'.pong = ctx.pong + 1
  BY <1>1, <1>3, <1>5, <1>6
<1>8. call'.pc = "idle" /\ ~call'.quiet /\ call'.r = call.r
  BY <1>1, <1>2 DEF Calls
<1>9. AgeLive'
  BY <1>1, <1>4, <1>5, <1>6, <1>7, <1>8 DEF AgeLive
<1>10. WireLive' /\ TlsLive'
  BY <1>1, <1>2 DEF WireLive, TlsLive
<1>11. QED
  BY <1>8, <1>9, <1>10 DEF AliveInv, GivenUp

LEMMA AppleAlive ==
  ASSUME TypeInv, AliveInv, On({"apple"}), Apple!Step
  PROVE  AliveInv' /\ (GivenUp => Excused)
<1>1. /\ impl = "apple" /\ impl' = impl /\ call \in Calls /\ CtxInv /\ CallInv /\ PeerInv
      /\ peer \in Peers
  BY DEF TypeInv, PeerInv, On, CallInv, Apple!Step, Apple!MTY_WebSocketConnect, Apple!Connected,
         Apple!Call, Apple!MTY_WebSocketDestroy, Apple!MTY_WebSocketRead, Apple!Read,
         Apple!ReadEnds, Apple!ReadTimesOut, Apple!ConnectEnds, Apple!DestroyEnds,
         Apple!Callback, Apple!DidReceive, Apple!PongHandler, Apple!didBecomeInvalid, Apple!Tick,
         Apple!didOpenWithProtocol, Apple!didCloseWithCode
<1>2. CASE Apple!MTY_WebSocketConnect
  <2>1. /\ call.pc = "start" /\ UNCHANGED peer /\ call' = [call EXCEPT !.pc = "connect"]
        /\ ctx' = Apple!New
    BY <1>2 DEF Apple!MTY_WebSocketConnect
  <2>2. ctx'.ping = 0 /\ ctx'.pong = 0 /\ ~ctx'.error
    BY <2>1 DEF Apple!New
  <2>3. peer'.wire = <<>> /\ Len(peer'.wire) = 0
    BY <1>1, <2>1 DEF CallInv
  <2>4. WireLive' /\ TlsLive' /\ ~PongComes'
    BY <1>1, <2>3 DEF WireLive, TlsLive, PongComes, Streams
  <2>5. AgeLive'
    BY <2>2, <2>4 DEF AgeLive, Asked
  <2>6. call'.r = call.r
    BY <1>1, <2>1 DEF Calls
  <2>7. QED
    BY <2>4, <2>5, <2>6 DEF AliveInv, GivenUp
<1>3. CASE Apple!DestroyEnds
  <2>1. ctx' = [Apple!Dead EXCEPT !.late = ~ctx.invalid] /\ call' = [call EXCEPT !.pc = "gone"]
    BY <1>3 DEF Apple!DestroyEnds
  <2>2. ~Open' /\ call'.r = call.r
    BY <1>1, <2>1 DEF Apple!Dead, Open, Calls
  <2>3. QED
    BY <2>2 DEF AliveInv, Live, GivenUp
<1>4. CASE ~Apple!MTY_WebSocketConnect /\ ~Apple!DestroyEnds
  <2>1. Open
    <3>1. CASE Open
      BY <3>1
    <3>2. CASE call.pc \in {"connect", "idle", "destroy", "wait"}
      BY <1>1, <3>2, CtxFacts DEF CallInv
    <3>3. QED
      BY <1>4, <3>1, <3>2
      DEF Apple!Step, Apple!Call, Apple!Read, Apple!Callback, Apple!MTY_WebSocketDestroy,
          Apple!MayDestroy, Apple!MTY_WebSocketRead, Apple!MayRead, Apple!ReadEnds,
          Apple!ReadTimesOut, Apple!ConnectEnds, Apple!DidReceive, Apple!PongHandler,
          Apple!didBecomeInvalid, Apple!Tick, Apple!didOpenWithProtocol, Apple!didCloseWithCode,
          Apple!Open, Open
  <2>2. CASE peer.mode # "up"
    <3>1. \/ peer' = peer \/ peer' = Rest
          \/ \E n : peer' = [peer EXCEPT !.pings = n]
          \/ \E w, o : peer' = [peer EXCEPT !.wire = w, !.own = o]
      BY <1>4
      DEF Apple!Step, Apple!Call, Apple!Read, Apple!Callback, Apple!MTY_WebSocketDestroy,
          Apple!MTY_WebSocketRead, Apple!ReadEnds, Apple!Connected,
          Apple!ReadTimesOut, Apple!ConnectEnds, Apple!DidReceive, Apple!PongHandler,
          Apple!didBecomeInvalid, Apple!Tick, Apple!didOpenWithProtocol, Apple!didCloseWithCode,
          Apple!Rest, Rest
    <3>2. peer'.mode = peer.mode
      BY <1>1, <3>1 DEF Rest, Peers
    <3>3. QED
      BY <2>2, <3>2 DEF AliveInv, Live, GivenUp
  <2>3. CASE peer.mode = "up"
    <3>1. Live
      BY <1>1, <2>1, <2>3 DEF Live, Pinging
    <3>2. CASE \/ Apple!ConnectEnds \/ Apple!MTY_WebSocketDestroy
               \/ Apple!didOpenWithProtocol \/ Apple!didBecomeInvalid
      <4>1. /\ peer' = peer
            /\ \/ ctx' = ctx \/ \E a \in BOOLEAN : ctx' = [ctx EXCEPT !.conn = a]
               \/ ctx' = [ctx EXCEPT !.conn = TRUE, !.invalid = TRUE, !.handler = FALSE]
            /\ call' = call \/ \E pc \in {"idle", "destroy"} : call' = [call EXCEPT !.pc = pc]
        BY <3>2
        DEF Apple!ConnectEnds, Apple!MTY_WebSocketDestroy, Apple!Connected,
            Apple!didOpenWithProtocol, Apple!didBecomeInvalid
      <4>2. ctx \in AppleCtxs /\ ~ctx.error /\ AgeLive
        BY <1>1, <3>1, AppleLive
      <4>3. ctx'.ping = ctx.ping /\ ctx'.pong = ctx.pong /\ ~ctx'.error
        BY <4>1, <4>2 DEF AppleCtxs
      <4>4. /\ call'.r = call.r /\ call'.quiet = call.quiet
            /\ call'.pc \in {"poll", "wait"} => call.pc = call'.pc
        BY <1>1, <4>1 DEF Calls
      <4>5. call'.quiet \/ call'.pc \in {"poll", "wait"} => ctx.ping <= 1
        BY <4>2, <4>4 DEF AgeLive
      <4>6. AliveInv'
        BY <1>1, <3>1, <4>1, <4>3, <4>5, AppleKept
      <4>7. QED
        BY <4>4, <4>6 DEF GivenUp
    <3>3. QED
      BY <1>1, <1>4, <3>1, <3>2, AppleReceives, AppleRead, AppleReadEnds, AppleTick
      DEF Apple!Step, Apple!Call, Apple!Read, Apple!Callback
  <2>4. QED
    BY <2>2, <2>3
<1>5. QED
  BY <1>2, <1>3, <1>4

-----------------------------------------------------------------------------
(* Every step.                                                               *)

LEMMA NextAlive ==
  ASSUME TypeInv, AliveInv, [Next]_vars
  PROVE  AliveInv' /\ (GivenUp => Excused)
<1>1. CASE UNCHANGED vars
  <2>1. UNCHANGED <<impl, ctx, peer, call>>
    BY <1>1 DEF vars
  <2>2. AliveInv'
    BY <2>1 DEF AliveInv, Live, Open, WireLive, TlsLive, AgeLive, Asked, PongComes
  <2>3. QED
    BY <2>1, <2>2 DEF GivenUp
<1>2. CASE Server \/ AnswerPing
  BY <1>2, ServerAlive
<1>3. CASE On(Streams) /\ Stream!Step
  BY <1>3, StreamAlive
<1>4. CASE On({"apple"}) /\ Apple!Step
  BY <1>4, AppleAlive
<1>5. ASSUME impl \in {"windows", "web"}, impl' = impl
      PROVE  AliveInv' /\ (GivenUp => Excused)
  BY <1>5 DEF AliveInv, Live, Pinging, Streams, GivenUp, On
<1>6. CASE On({"windows"}) /\ WinHTTP!Step
  BY <1>5, <1>6
  DEF On, WinHTTP!Step, WinHTTP!MTY_WebSocketConnect, WinHTTP!Connected,
      WinHTTP!NotConnected, WinHTTP!Call, WinHTTP!MTY_WebSocketDestroy, WinHTTP!Destroyed,
      WinHTTP!MTY_WebSocketRead, WinHTTP!Read, WinHTTP!ReadDone, WinHTTP!ReadMessage,
      WinHTTP!ReadReceive, WinHTTP!ReadWait, WinHTTP!Callback, WinHTTP!ws_async_read,
      WinHTTP!ws_async_error, WinHTTP!ws_async_write, WinHTTP!MTY_WebSocketWrite,
      WinHTTP!WriteEnds
<1>7. CASE On({"web"}) /\ Web!Step
  BY <1>5, <1>7
  DEF On, Web!Step, Web!MTY_WebSocketConnect, Web!Connected, Web!NotConnected, Web!Call,
      Web!MTY_WebSocketDestroy, Web!Destroyed, Web!MTY_WebSocketRead, Web!Read, Web!ws_read,
      Web!ws_read_resumes, Web!onmessage, Web!onclose
<1>8. QED
  BY <1>1, <1>2, <1>3, <1>4, <1>6, <1>7 DEF Next

\* MTY_WebSocketRead answers MTY_ASYNC_ERROR to the caller of a server that stays and
\* answers pings only for a frame that is too large: the pong timeout never runs out under
\* it, though nothing else comes for any number of minutes, whatever the TLS records are
\* that its frames come in and whichever timeout the caller waits with.
THEOREM LivePeerIsKept == Spec => LivePeerKept
<1>1. Init => TypeInv /\ WebInv /\ AliveInv
  <2>1. Init => ~Live
    BY DEF Init, Dead, Live, Open
  <2>2. QED
    BY <2>1, InitTypes DEF AliveInv
<1>2. TypeInv /\ WebInv /\ AliveInv /\ [Next]_vars => (TypeInv /\ WebInv /\ AliveInv)'
  BY NextTypes, NextAlive
<1>3. TypeInv /\ WebInv /\ AliveInv /\ [Next]_vars =>
        [ (On(Streams) \/ On({"apple"})) /\ peer.mode = "up" /\ call.r # "error" /\ call'.r = "error"
          => Stream!Oversized \/ (On({"apple"}) /\ ~Apple!Fits(ctx.msg)) ]_vars
  BY NextAlive DEF GivenUp, Excused
<1>4. QED
  BY <1>1, <1>2, <1>3, PTL DEF Spec, LivePeerKept
=============================================================================

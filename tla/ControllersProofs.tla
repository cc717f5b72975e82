--------------------------- MODULE ControllersProofs -------------------------
(***************************************************************************)
(* Controllers: the tables of devices agree with each other, and the        *)
(* program hears of each controller in order, on every platform, for any    *)
(* controllers and any number of moves.                                     *)
(*                                                                         *)
(* On Windows, macOS and Linux the invariant is DeskInv: the tables by      *)
(* handle, by id and by slot are inverses of one another, ids are given out *)
(* in order, the program knows of each device (Tabled, but for the device   *)
(* and the report that a handler is at work on, D and A), each message is   *)
(* of a controller, and on Windows a second arrival has a removal before it *)
(* (Ordered).  On Android and in a page it is Else: what is in the queue,   *)
(* applied to what the program knows, gives what the library has            *)
(* (Announces), or what the page polled last (Spoken), and on Android the   *)
(* queue has room for the events of all that is still to come (Room).       *)
(***************************************************************************)
EXTENDS Controllers, FiniteSetTheorems, NaturalsInduction, WellFoundedInduction, TLAPS

-----------------------------------------------------------------------------
(* What the tables are. *)

Desk  == {"windows", "mac", "x11"}
Quick == {"windows", "mac"}

PadFields == {"kind", "in", "ready", "pos", "motor", "want", "answers", "events", "effect", "id"}
Fields == {"focus", "scan", "app", "pads", "q", "os", "devices", "rev", "dedupe", "seen", "odd", "next", "xip",
           "fds", "gps", "quiet", "apps", "moves", "plugs", "rumbles", "focuses"}

\* The controllers, and what the program may ask of them.
Shaped(h) ==
  /\ Fields \subseteq DOMAIN h
  /\ \A p \in DOMAIN h.pads :
       /\ PadFields \subseteq DOMAIN h.pads[p]
       /\ h.pads[p].in \in BOOLEAN /\ h.pads[p].motor \in 0..1 /\ h.pads[p].want \in -1..1
       /\ h.pads[p].kind = "xinput" => plat = "windows" /\ p \in 1..4
       /\ plat \in Quick => h.pads[p].kind \in Driven \cup {"xinput"}

\* The tables by handle and by id.
Paired(h) ==
  /\ DOMAIN h.devices \subseteq DOMAIN h.pads
  /\ h.rev = [id \in DOMAIN h.rev |-> h.rev[id]]
  /\ \A p \in DOMAIN h.devices :
       "id" \in DOMAIN h.devices[p] /\ h.devices[p].id \in DOMAIN h.rev /\ h.rev[h.devices[p].id] = p
  /\ \A id \in DOMAIN h.rev : h.rev[id] \in DOMAIN h.devices /\ h.devices[h.rev[id]].id = id

\* Ids are given out in order.
Numbered(h) ==
  /\ h.next \in Nat /\ \A id \in DOMAIN h.rev : id \in Nat /\ id < h.next /\ h.quiet <= id
  /\ h.quiet = (IF plat = "windows" THEN 4 ELSE 0)
  /\ \A id \in DOMAIN h.seen : id \in Int /\ id < h.next
  /\ plat = "windows" /\ h.app = "alive" => h.next >= 32

\* A driver's state, of a controller of some kind.
Driving(kind, d) ==
  /\ "st" \in DOMAIN d
  /\ kind = "nx" => "rumble" \in DOMAIN d.st /\ d.st.rumble \in 0..1
  /\ kind = "xbox" => "v" \in DOMAIN d.st /\ d.st.v \in 0..1

\* Linux: an open device has a slot.
Slotted(h) ==
  /\ h.quiet = 0
  /\ h.fds \in [1..Slots -> 0..(Slots + 1)]
  /\ \A p \in DOMAIN h.devices :
       "slot" \in DOMAIN h.devices[p] /\ h.devices[p].slot \in 1..Slots /\ h.fds[h.devices[p].slot] = h.devices[p].id
       /\ h.devices[p].id # 0
  /\ \A x \in 1..Slots : h.fds[x] # 0 => h.fds[x] \in DOMAIN h.rev /\ h.devices[h.rev[h.fds[x]]].slot = x
  /\ \A id \in DOMAIN h.seen : id \in DOMAIN h.rev

\* Windows: what XInput served is one of the first four.
Polled(h) ==
  /\ DOMAIN h.xip = DOMAIN h.pads
  /\ \A x \in DOMAIN h.xip : /\ {"disabled", "was_enabled", "packet"} \subseteq DOMAIN h.xip[x]
                             /\ h.xip[x].was_enabled = TRUE => h.pads[x].kind = "xinput"

\* The program knows of each device but XInput's; D are devices whose driver was not started,
\* A those it was not told of yet.
Tabled(h, D, A) ==
  /\ Shaped(h) /\ Paired(h) /\ h.odd = {}
  /\ plat \in Quick => Numbered(h) /\ \A p \in DOMAIN h.devices : "st" \in DOMAIN h.devices[p]
  /\ plat \in Quick => \A p \in DOMAIN h.devices \ D : Driving(h.pads[p].kind, h.devices[p])
  /\ plat = "windows" => Polled(h)
  /\ plat = "x11" => Slotted(h)
  /\ \A p \in DOMAIN h.devices \ A : h.pads[p].kind # "xinput" => h.devices[p].id \in DOMAIN h.seen

\* What the handlers of an event leave alone.
Kept(h, t) ==
  /\ t.q = h.q /\ t.app = h.app /\ t.focus = h.focus /\ DOMAIN t.pads = DOMAIN h.pads
  /\ \A p \in DOMAIN h.pads :
       /\ t.pads[p].in = h.pads[p].in /\ t.pads[p].ready = h.pads[p].ready /\ t.pads[p].kind = h.pads[p].kind
\* And the devices that are there.
Same(h, t) == Kept(h, t) /\ DOMAIN t.devices = DOMAIN h.devices /\ \A p \in DOMAIN h.devices : t.devices[p].id = h.devices[p].id

\* Both are reflexive and transitive.
LEMMA SameKept ==
  /\ \A h : Same(h, h) /\ Kept(h, h)
  /\ \A h, t, u : Same(h, t) /\ Same(t, u) => Same(h, u)
  /\ \A h, t, u : Kept(h, t) /\ Kept(t, u) => Kept(h, u)
  /\ \A h, t : Same(h, t) => Kept(h, t)
BY DEF Same, Kept

-----------------------------------------------------------------------------
(* Tables. *)

\* What a table is after HashSet and after HashPop.
LEMMA HashIs ==
  /\ \A h, k, v : /\ DOMAIN HashSet(h, k, v) = DOMAIN h \cup {k}
                  /\ HashSet(h, k, v)[k] = v
                  /\ \A x \in DOMAIN h : x # k => HashSet(h, k, v)[x] = h[x]
                  /\ HashSet(h, k, v) = [x \in DOMAIN HashSet(h, k, v) |-> HashSet(h, k, v)[x]]
  /\ \A h, k : /\ DOMAIN HashPop(h, k) = DOMAIN h \ {k}
               /\ \A x \in DOMAIN h : x # k => HashPop(h, k)[x] = h[x]
               /\ HashPop(h, k) = [x \in DOMAIN HashPop(h, k) |-> HashPop(h, k)[x]]
BY DEF HashSet, HashPop, Restrict

\* The helpers are the same for each platform.
LEMMA HelpersAre ==
  /\ \A h, k, v : /\ Windows!HashSet(h, k, v) = HashSet(h, k, v) /\ Mac!HashSet(h, k, v) = HashSet(h, k, v)
                  /\ X11!HashSet(h, k, v) = HashSet(h, k, v)
                  /\ Android!HashSet(h, k, v) = HashSet(h, k, v) /\ Web!HashSet(h, k, v) = HashSet(h, k, v)
  /\ \A h, k : /\ Windows!HashPop(h, k) = HashPop(h, k) /\ Mac!HashPop(h, k) = HashPop(h, k)
               /\ X11!HashPop(h, k) = HashPop(h, k)
               /\ Android!HashPop(h, k) = HashPop(h, k) /\ Web!HashPop(h, k) = HashPop(h, k)
  /\ \A h, p : /\ Windows!Stale(h, p) = Stale(h, p) /\ Mac!Stale(h, p) = Stale(h, p)
               /\ X11!Stale(h, p) = Stale(h, p)
<1>1. \A h, k, v : /\ Windows!HashSet(h, k, v) = HashSet(h, k, v) /\ Mac!HashSet(h, k, v) = HashSet(h, k, v)
                   /\ X11!HashSet(h, k, v) = HashSet(h, k, v)
                   /\ Android!HashSet(h, k, v) = HashSet(h, k, v) /\ Web!HashSet(h, k, v) = HashSet(h, k, v)
  BY DEF HashSet, Windows!HashSet, Mac!HashSet, X11!HashSet, Android!HashSet, Web!HashSet
<1>2. \A h, k : /\ Windows!HashPop(h, k) = HashPop(h, k) /\ Mac!HashPop(h, k) = HashPop(h, k)
                /\ X11!HashPop(h, k) = HashPop(h, k)
                /\ Android!HashPop(h, k) = HashPop(h, k) /\ Web!HashPop(h, k) = HashPop(h, k)
  BY DEF HashPop, Windows!HashPop, Mac!HashPop, X11!HashPop, Android!HashPop, Web!HashPop,
         Restrict, Windows!Restrict, Mac!Restrict, X11!Restrict, Android!Restrict, Web!Restrict
<1>3. \A h, p : /\ Windows!Stale(h, p) = Stale(h, p) /\ Mac!Stale(h, p) = Stale(h, p)
                /\ X11!Stale(h, p) = Stale(h, p)
  BY DEF Stale, Windows!Stale, Mac!Stale, X11!Stale
<1> QED
  BY <1>1, <1>2, <1>3

\* And so is event_func.
LEMMA EventFuncsAre ==
  \A h, type, id, c :
    /\ Windows!event_func(h, type, id, c) = event_func(h, type, id, c)
    /\ Mac!event_func(h, type, id, c) = event_func(h, type, id, c)
    /\ X11!event_func(h, type, id, c) = event_func(h, type, id, c)
    /\ Android!event_func(h, type, id, c) = event_func(h, type, id, c)
    /\ Web!event_func(h, type, id, c) = event_func(h, type, id, c)
<1> TAKE h, type, id, c
<1>1. Windows!event_func(h, type, id, c) = event_func(h, type, id, c)
  BY HelpersAre DEF event_func, Windows!event_func, Odd, Windows!Odd
<1>2. Mac!event_func(h, type, id, c) = event_func(h, type, id, c)
  BY HelpersAre DEF event_func, Mac!event_func, Odd, Mac!Odd
<1>3. X11!event_func(h, type, id, c) = event_func(h, type, id, c)
  BY HelpersAre DEF event_func, X11!event_func, Odd, X11!Odd
<1>4. Android!event_func(h, type, id, c) = event_func(h, type, id, c)
  BY HelpersAre DEF event_func, Android!event_func, Odd, Android!Odd
<1>5. Web!event_func(h, type, id, c) = event_func(h, type, id, c)
  BY HelpersAre DEF event_func, Web!event_func, Odd, Web!Odd
<1> QED
  BY <1>1, <1>2, <1>3, <1>4, <1>5

\* What the tables do not look at.
Rest(h, t) ==
  /\ Fields \subseteq DOMAIN t /\ t.pads = h.pads /\ t.devices = h.devices /\ t.rev = h.rev /\ t.odd = h.odd
  /\ t.next = h.next /\ t.quiet = h.quiet /\ t.fds = h.fds /\ t.xip = h.xip /\ t.app = h.app /\ t.seen = h.seen

\* What the tables do not speak of may change.
LEMMA RestTabled ==
  ASSUME NEW h, NEW D, NEW A, Tabled(h, D, A), NEW t, Rest(h, t)
  PROVE  Tabled(t, D, A)
BY DEF Rest, Tabled, Shaped, Paired, Numbered, Polled, Slotted

\* The fields that are of no table.
LEMMA OthersTabled ==
  ASSUME NEW h, NEW D, NEW A, Tabled(h, D, A), NEW x
  PROVE  /\ Tabled([h EXCEPT !.dedupe = x], D, A) /\ Same(h, [h EXCEPT !.dedupe = x])
         /\ Tabled([h EXCEPT !.scan = x], D, A) /\ Same(h, [h EXCEPT !.scan = x])
         /\ Tabled([h EXCEPT !.q = x], D, A) /\ Tabled([h EXCEPT !.focus = x], D, A)
         /\ Tabled([h EXCEPT !.moves = x], D, A) /\ Tabled([h EXCEPT !.plugs = x], D, A)
         /\ Tabled([h EXCEPT !.rumbles = x], D, A) /\ Tabled([h EXCEPT !.focuses = x], D, A)
<1>1. ASSUME NEW f \in {"dedupe", "scan", "q", "focus", "moves", "plugs", "rumbles", "focuses"}
      PROVE  Tabled([h EXCEPT ![f] = x], D, A) /\ (f \in {"dedupe", "scan"} => Same(h, [h EXCEPT ![f] = x]))
  <2> DEFINE t == [h EXCEPT ![f] = x]
  <2>1. Rest(h, t)
    BY DEF Rest, Tabled, Shaped, Fields
  <2>2. f \in {"dedupe", "scan"} => Same(h, t)
    BY DEF Same, Kept
  <2> HIDE DEF t
  <2>3. Tabled(t, D, A)
    BY <2>1, RestTabled
  <2> QED
    BY <2>2, <2>3 DEF t
<1> QED
  BY <1>1

\* The program is told of a controller it knows.
LEMMA ToldTabled ==
  ASSUME NEW h, NEW D, NEW A, Tabled(h, D, A), NEW id, NEW c,
         id \in DOMAIN h.seen \/ (plat = "windows" /\ h.app = "alive" /\ id \in 0..3)
  PROVE  Tabled(event_func(h, "CONTROLLER", id, c), D, A) /\ Same(h, event_func(h, "CONTROLLER", id, c))
<1> DEFINE t == [h EXCEPT !.seen = HashSet(@, id, c)]
<1>1. "seen" \in DOMAIN h
  BY DEF Tabled, Shaped, Fields
<1>2. event_func(h, "CONTROLLER", id, c) = t
  <2>1. id \in DOMAIN h.seen \/ id < h.quiet
    BY DEF Tabled, Numbered, Quick
  <2>2. QED
    BY <2>1 DEF event_func
<1>3. DOMAIN t.seen = DOMAIN h.seen \cup {id}
  BY <1>1, HashIs
<1>4. Tabled(t, D, A)
  <2>1. t.seen = HashSet(h.seen, id, c)
    BY <1>1
  <2>2. plat \in Quick => \A i \in DOMAIN t.seen : i \in Int /\ i < h.next
    BY <1>3 DEF Tabled, Numbered, Quick
  <2>3. plat = "x11" => DOMAIN t.seen = DOMAIN h.seen
    BY <1>3
  <2>4. /\ Fields \subseteq DOMAIN t /\ t.pads = h.pads /\ t.devices = h.devices /\ t.rev = h.rev /\ t.odd = h.odd
        /\ t.next = h.next /\ t.quiet = h.quiet /\ t.fds = h.fds /\ t.xip = h.xip /\ t.app = h.app
    BY DEF Tabled, Shaped, Fields
  <2> HIDE DEF t
  <2>5. /\ Shaped(t) /\ Paired(t) /\ t.odd = {}
        /\ plat = "windows" => Polled(t)
    BY <2>4 DEF Tabled, Shaped, Paired, Polled
  <2>6. plat \in Quick => Numbered(t)
    BY <2>2, <2>4 DEF Tabled, Numbered
  <2>7. plat = "x11" => Slotted(t)
    BY <2>3, <2>4 DEF Tabled, Slotted
  <2>8. QED
    BY <1>3, <2>4, <2>5, <2>6, <2>7 DEF Tabled
<1>5. Same(h, t)
  BY DEF Same, Kept, Tabled, Shaped, Fields
<1>6. QED
  BY <1>2, <1>4, <1>5

\* The program is told that a controller came.
LEMMA ConnectTabled ==
  ASSUME NEW h, NEW A, NEW p \in DOMAIN h.devices, Tabled(h, {}, A \cup {p}), NEW c,
         h.devices[p].id \notin DOMAIN h.seen
  PROVE  /\ Tabled(event_func(h, "CONNECT", h.devices[p].id, c), {}, A)
         /\ Same(h, event_func(h, "CONNECT", h.devices[p].id, c))
<1> DEFINE id == h.devices[p].id
           t == [h EXCEPT !.seen = HashSet(@, id, c)]
<1>1. "seen" \in DOMAIN h
  BY DEF Tabled, Shaped, Fields
<1>2. event_func(h, "CONNECT", id, c) = t
  BY DEF event_func
<1>3. DOMAIN t.seen = DOMAIN h.seen \cup {id}
  <2>1. \A i, v : DOMAIN HashSet(h.seen, i, v) = DOMAIN h.seen \cup {i}
    BY HashIs
  <2>2. t.seen = HashSet(h.seen, id, c)
    BY <1>1
  <2>3. QED
    BY <2>1, <2>2
<1>4. Tabled(t, {}, A)
  <2>1. id \in DOMAIN h.rev
    BY DEF Tabled, Paired
  <2>2. plat \in Quick => \A i \in DOMAIN t.seen : i \in Int /\ i < h.next
    BY <1>3, <2>1 DEF Tabled, Numbered, Quick
  <2>3. plat = "x11" => \A i \in DOMAIN t.seen : i \in DOMAIN h.rev
    BY <1>3, <2>1 DEF Tabled, Slotted
  <2>4. /\ Fields \subseteq DOMAIN t /\ t.pads = h.pads /\ t.devices = h.devices /\ t.rev = h.rev /\ t.odd = h.odd
        /\ t.next = h.next /\ t.quiet = h.quiet /\ t.fds = h.fds /\ t.xip = h.xip /\ t.app = h.app
    BY DEF Tabled, Shaped, Fields
  <2> HIDE DEF t
  <2>5. /\ Shaped(t) /\ Paired(t) /\ t.odd = {}
        /\ plat = "windows" => Polled(t)
    BY <2>4 DEF Tabled, Shaped, Paired, Polled
  <2>6. plat \in Quick => Numbered(t)
    BY <2>2, <2>4 DEF Tabled, Numbered
  <2>7. plat = "x11" => Slotted(t)
    BY <2>3, <2>4 DEF Tabled, Slotted
  <2>8. \A i \in DOMAIN t.devices \ A : t.pads[i].kind # "xinput" => t.devices[i].id \in DOMAIN t.seen
    BY <1>3, <2>4 DEF Tabled
  <2>9. QED
    BY <2>4, <2>5, <2>6, <2>7, <2>8 DEF Tabled
<1>5. Same(h, t)
  BY DEF Same, Kept, Tabled, Shaped, Fields
<1>6. QED
  BY <1>2, <1>4, <1>5

\* Told, if there is anything new.
Tells(h, id, t) ==
  \E x, c : t = [h EXCEPT !.dedupe = x] \/ t = event_func([h EXCEPT !.dedupe = x], "CONTROLLER", id, c)

\* The program may be told of a device it knows.
LEMMA TellsTabled ==
  ASSUME NEW h, NEW D, NEW A, Tabled(h, D, A), NEW id, NEW t, Tells(h, id, t),
         id \in DOMAIN h.seen \/ (plat = "windows" /\ h.app = "alive" /\ id \in 0..3)
  PROVE  Tabled(t, D, A) /\ Same(h, t)
<1>1. PICK x, c : t = [h EXCEPT !.dedupe = x] \/ t = event_func([h EXCEPT !.dedupe = x], "CONTROLLER", id, c)
  BY DEF Tells
<1> DEFINE k == [h EXCEPT !.dedupe = x]
<1>2. Tabled(k, D, A) /\ Same(h, k) /\ k.seen = h.seen /\ k.app = h.app
  <2>1. Tabled(k, D, A) /\ Same(h, k)
    BY OthersTabled
  <2>2. k.seen = h.seen /\ k.app = h.app
    OBVIOUS
  <2>3. QED
    BY <2>1, <2>2
<1> HIDE DEF k
<1>3. Tabled(event_func(k, "CONTROLLER", id, c), D, A) /\ Same(k, event_func(k, "CONTROLLER", id, c))
  BY <1>2, ToldTabled
<1>4. t = k \/ t = event_func(k, "CONTROLLER", id, c)
  BY <1>1 DEF k
<1>5. QED
  BY <1>2, <1>3, <1>4, SameKept

\* mty_hid_dedupe tells it, or does not.
LEMMA DedupedTells ==
  \A h, id, c : /\ Tells(h, id, Windows!Deduped(h, id, c)) /\ Tells(h, id, Mac!Deduped(h, id, c))
                /\ Tells(h, id, X11!Deduped(h, id, c))
<1> TAKE h, id, c
<1>1. Tells(h, id, Windows!Deduped(h, id, c))
  <2> DEFINE r == Windows!mty_hid_dedupe(h, id, c)
             x == Windows!HashSet(h.dedupe, id, Windows!Clean(c))
  <2>1. r.s = [h EXCEPT !.dedupe = x]
    BY DEF Windows!mty_hid_dedupe
  <2> HIDE DEF r, x
  <2>2. Windows!Deduped(h, id, c) = IF r.new THEN Windows!event_func(r.s, "CONTROLLER", id, r.c) ELSE r.s
    BY DEF Windows!Deduped, Windows!Of, r
  <2>3. QED
    BY <2>1, <2>2, EventFuncsAre DEF Tells
<1>2. Tells(h, id, Mac!Deduped(h, id, c))
  <2> DEFINE r == Mac!mty_hid_dedupe(h, id, c)
             x == Mac!HashSet(h.dedupe, id, Mac!Clean(c))
  <2>1. r.s = [h EXCEPT !.dedupe = x]
    BY DEF Mac!mty_hid_dedupe
  <2> HIDE DEF r, x
  <2>2. Mac!Deduped(h, id, c) = IF r.new THEN Mac!event_func(r.s, "CONTROLLER", id, r.c) ELSE r.s
    BY DEF Mac!Deduped, Mac!Of, r
  <2>3. QED
    BY <2>1, <2>2, EventFuncsAre DEF Tells
<1>3. Tells(h, id, X11!Deduped(h, id, c))
  <2> DEFINE r == X11!mty_hid_dedupe(h, id, c)
             x == X11!HashSet(h.dedupe, id, X11!Clean(c))
  <2>1. r.s = [h EXCEPT !.dedupe = x]
    BY DEF X11!mty_hid_dedupe
  <2> HIDE DEF r, x
  <2>2. X11!Deduped(h, id, c) = IF r.new THEN X11!event_func(r.s, "CONTROLLER", id, r.c) ELSE r.s
    BY DEF X11!Deduped, X11!Of, r
  <2>3. QED
    BY <2>1, <2>2, EventFuncsAre DEF Tells
<1> QED
  BY <1>1, <1>2, <1>3

-----------------------------------------------------------------------------
(* The drivers. *)

\* A driver's state changes.
LEMMA StateTabled ==
  ASSUME NEW h, NEW D, NEW A, Tabled(h, D, A), NEW p \in DOMAIN h.devices, plat \in Quick, NEW d,
         Driving(h.pads[p].kind, d), "id" \in DOMAIN d, d.id = h.devices[p].id
  PROVE  Tabled([h EXCEPT !.devices[p] = d], D \ {p}, A) /\ Same(h, [h EXCEPT !.devices[p] = d])
<1> DEFINE t == [h EXCEPT !.devices[p] = d]
<1>1. /\ Fields \subseteq DOMAIN t /\ t.pads = h.pads /\ t.rev = h.rev /\ t.odd = h.odd
      /\ t.next = h.next /\ t.quiet = h.quiet /\ t.fds = h.fds /\ t.xip = h.xip /\ t.app = h.app
      /\ t.seen = h.seen /\ t.q = h.q /\ t.focus = h.focus
      /\ DOMAIN t.devices = DOMAIN h.devices
      /\ \A i \in DOMAIN h.devices : t.devices[i] = IF i = p THEN d ELSE h.devices[i]
  BY DEF Tabled, Shaped, Fields
<1> HIDE DEF t
<1>2. Shaped(t) /\ Paired(t)
  BY <1>1 DEF Tabled, Shaped, Paired
<1>3. Numbered(t) /\ (plat = "windows" => Polled(t)) /\ plat # "x11"
  BY <1>1 DEF Tabled, Numbered, Polled, Quick
<1>4. /\ \A i \in DOMAIN t.devices : "st" \in DOMAIN t.devices[i]
      /\ \A i \in DOMAIN t.devices \ (D \ {p}) : Driving(t.pads[i].kind, t.devices[i])
      /\ \A i \in DOMAIN t.devices \ A : t.pads[i].kind # "xinput" => t.devices[i].id \in DOMAIN t.seen
  BY <1>1 DEF Tabled, Driving
<1>5. Tabled(t, D \ {p}, A)
  BY <1>1, <1>2, <1>3, <1>4 DEF Tabled
<1>6. Same(h, t)
  BY <1>1 DEF Same, Kept
<1> QED
  BY <1>5, <1>6 DEF t

\* One field of it.
Free(kind, f) == (kind = "nx" => f # "rumble") /\ (kind = "xbox" => f # "v")

\* A field of a driver's state that is not its motor's.
LEMMA FieldTabled ==
  ASSUME NEW h, NEW A, Tabled(h, {}, A), NEW p \in DOMAIN h.devices, plat \in Quick, NEW f, NEW x,
         Free(h.pads[p].kind, f)
  PROVE  Tabled([h EXCEPT !.devices[p].st[f] = x], {}, A) /\ Same(h, [h EXCEPT !.devices[p].st[f] = x])
<1> DEFINE d == [h.devices[p] EXCEPT !.st[f] = x]
<1>1. [h EXCEPT !.devices[p].st[f] = x] = [h EXCEPT !.devices[p] = d]
  OBVIOUS
<1>2. Driving(h.pads[p].kind, h.devices[p]) /\ "id" \in DOMAIN h.devices[p]
  BY DEF Tabled, Paired
<1>3. Driving(h.pads[p].kind, d) /\ "id" \in DOMAIN d /\ d.id = h.devices[p].id
  BY <1>2 DEF Driving, Free
<1> HIDE DEF d
<1>4. Tabled([h EXCEPT !.devices[p] = d], {} \ {p}, A) /\ Same(h, [h EXCEPT !.devices[p] = d])
  BY <1>3, StateTabled
<1>5. {} \ {p} = {}
  OBVIOUS
<1> QED
  BY <1>1, <1>4, <1>5

\* Output.
LEMMA WriteTabled ==
  ASSUME NEW h, NEW D, NEW A, Tabled(h, D, A), NEW p, NEW motor \in 0..1, NEW answer
  PROVE  /\ Tabled(Mac!mty_hid_device_write(h, p, motor, answer), D, A)
         /\ Same(h, Mac!mty_hid_device_write(h, p, motor, answer))
         /\ Mac!mty_hid_device_write(h, p, motor, answer).devices = h.devices
         /\ Mac!mty_hid_device_write(h, p, motor, answer).seen = h.seen
         /\ Windows!mty_hid_device_write(h, p, motor, answer) = Mac!mty_hid_device_write(h, p, motor, answer)
<1> DEFINE t == [h EXCEPT !.pads[p].motor = motor, !.pads[p].answers = @ \o answer]
<1>1. /\ Fields \subseteq DOMAIN t /\ t.devices = h.devices /\ t.rev = h.rev /\ t.odd = h.odd
      /\ t.next = h.next /\ t.quiet = h.quiet /\ t.fds = h.fds /\ t.xip = h.xip /\ t.app = h.app
      /\ t.seen = h.seen /\ t.q = h.q /\ t.focus = h.focus
      /\ DOMAIN t.pads = DOMAIN h.pads
  BY DEF Tabled, Shaped, Fields
<1>2. \A i \in DOMAIN h.pads :
        /\ PadFields \subseteq DOMAIN t.pads[i] /\ t.pads[i].in = h.pads[i].in /\ t.pads[i].ready = h.pads[i].ready
        /\ t.pads[i].kind = h.pads[i].kind /\ t.pads[i].want = h.pads[i].want /\ t.pads[i].motor \in {h.pads[i].motor, motor}
  BY DEF Tabled, Shaped, Fields, PadFields
<1> HIDE DEF t
<1>3. Tabled(t, D, A)
  <2>1. Shaped(t) /\ Paired(t)
    BY <1>1, <1>2 DEF Tabled, Shaped, Paired
  <2>2. (plat \in Quick => Numbered(t)) /\ (plat = "windows" => Polled(t)) /\ (plat = "x11" => Slotted(t))
    BY <1>1, <1>2 DEF Tabled, Numbered, Polled, Slotted
  <2>3. \A i \in DOMAIN h.devices : t.pads[i].kind = h.pads[i].kind
    BY <1>2 DEF Tabled, Paired
  <2>4. QED
    BY <1>1, <2>1, <2>2, <2>3 DEF Tabled
<1>4. Same(h, t)
  BY <1>1, <1>2 DEF Same, Kept
<1>5. /\ Mac!mty_hid_device_write(h, p, motor, answer) = IF Stale(h, p) THEN h ELSE t
      /\ Windows!mty_hid_device_write(h, p, motor, answer) = IF Stale(h, p) THEN h ELSE t
  BY HelpersAre DEF Mac!mty_hid_device_write, Windows!mty_hid_device_write, t
<1> QED
  BY <1>1, <1>3, <1>4, <1>5, SameKept

\* What a driver does of a device that was started.
Works(h, A, t) == Tabled(t, {}, A) /\ Same(h, t) /\ t.seen = h.seen

\* Works is reflexive, and transitive.
LEMMA WorksStill ==
  ASSUME NEW h, NEW A, Tabled(h, {}, A)
  PROVE  Works(h, A, h)
BY SameKept DEF Works

LEMMA WorksOn ==
  ASSUME NEW h, NEW A, NEW k, NEW t, Works(h, A, k), Works(k, A, t)
  PROVE  Works(h, A, t)
BY SameKept DEF Works

LEMMA WorksThere ==
  ASSUME NEW h, NEW A, NEW t, Tabled(h, {}, A), Works(h, A, t), NEW p \in DOMAIN h.devices
  PROVE  Tabled(t, {}, A) /\ p \in DOMAIN t.devices /\ t.pads[p].kind = h.pads[p].kind
<1>1. p \in DOMAIN h.pads
  BY DEF Tabled, Paired
<1> QED
  BY <1>1 DEF Works, Same, Kept

\* A driver that sets such a field works.
LEMMA FieldWorks ==
  ASSUME NEW h, NEW A, Tabled(h, {}, A), NEW p \in DOMAIN h.devices, plat \in Quick
  PROVE  \A f, x : Free(h.pads[p].kind, f) => Works(h, A, [h EXCEPT !.devices[p].st[f] = x])
<1>1. \A f, x : [h EXCEPT !.devices[p].st[f] = x].seen = h.seen
  OBVIOUS
<1>2. \A f, x : Free(h.pads[p].kind, f) =>
        Tabled([h EXCEPT !.devices[p].st[f] = x], {}, A) /\ Same(h, [h EXCEPT !.devices[p].st[f] = x])
  BY FieldTabled
<1> QED
  BY <1>1, <1>2 DEF Works

\* A write clears what waits for its answer.
LEMMA WrittenWorks ==
  ASSUME NEW h, NEW A, Tabled(h, {}, A), NEW p \in DOMAIN h.devices, plat \in Quick
  PROVE  Works(h, A, Mac!Written(h, p)) /\ Windows!Written(h, p) = Mac!Written(h, p)
<1> DEFINE k == [h EXCEPT !.devices[p].st.late = FALSE]
           t == [k EXCEPT !.devices[p].st.wready = FALSE]
<1>1. Works(h, A, k)
  <2>1. Free(h.pads[p].kind, "late")
    BY DEF Free
  <2> QED
    BY <2>1, FieldWorks
<1>2. Mac!Written(h, p) = t /\ Windows!Written(h, p) = t
  BY DEF Mac!Written, Windows!Written
<1> HIDE DEF k
<1>3. Works(k, A, t)
  <2>1. Free(k.pads[p].kind, "wready") /\ Tabled(k, {}, A) /\ p \in DOMAIN k.devices
    BY <1>1, WorksThere DEF Free
  <2> QED
    BY <2>1, FieldWorks
<1> QED
  BY <1>1, <1>2, <1>3, WorksOn

\* The writes of a Switch controller: its handshake and its commands.
LEMMA NxWrites ==
  ASSUME NEW h, NEW A, Tabled(h, {}, A), NEW p \in DOMAIN h.devices, plat \in Quick, h.pads[p].kind = "nx"
  PROVE  \A x : /\ Works(h, A, Mac!nx_write_hs(h, p, x)) /\ Windows!nx_write_hs(h, p, x) = Mac!nx_write_hs(h, p, x)
                /\ Works(h, A, Mac!nx_write_command(h, p, x))
                /\ Windows!nx_write_command(h, p, x) = Mac!nx_write_command(h, p, x)
<1>1. h.pads[p].motor \in 0..1 /\ h.devices[p].st.rumble \in 0..1
  BY DEF Tabled, Shaped, Paired, Driving
<1>2. ASSUME NEW m \in 0..1, NEW a, NEW k, k = Mac!mty_hid_device_write(h, p, m, a)
      PROVE  Works(h, A, Mac!Written(k, p)) /\ Windows!Written(k, p) = Mac!Written(k, p)
  <2>1. Works(h, A, k)
    BY <1>2, WriteTabled DEF Works
  <2>2. Tabled(k, {}, A) /\ p \in DOMAIN k.devices
    BY <2>1, WorksThere
  <2>3. Works(k, A, Mac!Written(k, p)) /\ Windows!Written(k, p) = Mac!Written(k, p)
    BY <2>2, WrittenWorks
  <2> QED
    BY <2>1, <2>3, WorksOn
<1>3. ASSUME NEW m \in 0..1, NEW a
      PROVE  /\ Works(h, A, Mac!Written(Mac!mty_hid_device_write(h, p, m, a), p))
             /\ Windows!Written(Mac!mty_hid_device_write(h, p, m, a), p) = Mac!Written(Mac!mty_hid_device_write(h, p, m, a), p)
             /\ Windows!mty_hid_device_write(h, p, m, a) = Mac!mty_hid_device_write(h, p, m, a)
  BY <1>2, WriteTabled
<1> TAKE x
<1>4. /\ Works(h, A, Mac!nx_write_hs(h, p, x)) /\ Windows!nx_write_hs(h, p, x) = Mac!nx_write_hs(h, p, x)
  <2> DEFINE a == IF h.pads[p].wired /\ x # "hs2" THEN <<"hs">> ELSE <<>>
             m == h.pads[p].motor
  <2>1. /\ Mac!nx_write_hs(h, p, x) = Mac!Written(Mac!mty_hid_device_write(h, p, m, a), p)
        /\ Windows!nx_write_hs(h, p, x) = Windows!Written(Windows!mty_hid_device_write(h, p, m, a), p)
    BY DEF Mac!nx_write_hs, Windows!nx_write_hs, Mac!Motor, Windows!Motor
  <2> HIDE DEF a, m
  <2>2. m \in 0..1
    BY <1>1 DEF m
  <2> QED
    BY <1>3, <2>1, <2>2
<1>5. /\ Works(h, A, Mac!nx_write_command(h, p, x))
      /\ Windows!nx_write_command(h, p, x) = Mac!nx_write_command(h, p, x)
  <2> DEFINE a == <<IF x = "calibration" THEN "spi" ELSE "ack">>
             m == h.devices[p].st.rumble
  <2>1. /\ Mac!nx_write_command(h, p, x) = Mac!Written(Mac!mty_hid_device_write(h, p, m, a), p)
        /\ Windows!nx_write_command(h, p, x) = Windows!Written(Windows!mty_hid_device_write(h, p, m, a), p)
    BY DEF Mac!nx_write_command, Windows!nx_write_command, Mac!St, Windows!St
  <2> HIDE DEF a, m
  <2>2. m \in 0..1
    BY <1>1 DEF m
  <2> QED
    BY <1>3, <2>1, <2>2
<1> QED
  BY <1>4, <1>5

\* Each step of its machine.
LEMMA NxStepWorks ==
  ASSUME NEW h, NEW A, Tabled(h, {}, A), NEW p \in DOMAIN h.devices, plat \in Quick, h.pads[p].kind = "nx", NEW x
  PROVE  Works(h, A, Mac!NxStep(h, p, x)) /\ Works(h, A, Windows!NxStep(h, p, x))
<1> DEFINE t1 == Mac!nx_write_hs(h, p, x)
           t2 == Mac!nx_write_command(h, p, x)
           Then(t, y, z) == [[t EXCEPT !.devices[p].st.wready = y] EXCEPT !.devices[p].st.done = z]
<1>1. /\ Works(h, A, t1) /\ Works(h, A, t2) /\ Windows!nx_write_hs(h, p, x) = t1 /\ Windows!nx_write_command(h, p, x) = t2
  <2>1. \A y : /\ Works(h, A, Mac!nx_write_hs(h, p, y)) /\ Windows!nx_write_hs(h, p, y) = Mac!nx_write_hs(h, p, y)
               /\ Works(h, A, Mac!nx_write_command(h, p, y))
               /\ Windows!nx_write_command(h, p, y) = Mac!nx_write_command(h, p, y)
    BY NxWrites
  <2> QED
    BY <2>1
<1>3. \E t \in {t1, t2} : \E y, z : Mac!NxStep(h, p, x) \in {h, Then(t, y, z)}
  BY DEF Mac!NxStep
<1> HIDE DEF t1, t2
<1>4. \E t \in {t1, t2} : \E y, z : Windows!NxStep(h, p, x) \in {h, Then(t, y, z)}
  BY <1>1 DEF Windows!NxStep
<1>2. ASSUME NEW t \in {t1, t2}, NEW y, NEW z
      PROVE  Works(h, A, Then(t, y, z))
  <2> DEFINE k == [t EXCEPT !.devices[p].st.wready = y]
             l == [k EXCEPT !.devices[p].st.done = z]
  <2>0. Then(t, y, z) = l
    OBVIOUS
  <2>1. Works(h, A, t)
    BY <1>1
  <2>2. p \in DOMAIN t.devices /\ Tabled(t, {}, A) /\ t.pads[p].kind = "nx"
    BY <2>1, WorksThere
  <2>3. Works(t, A, k)
    <3>1. Free(t.pads[p].kind, "wready")
      BY <2>2 DEF Free
    <3> QED
      BY <2>2, <3>1, FieldWorks
  <2> HIDE DEF k
  <2>4. p \in DOMAIN k.devices /\ Tabled(k, {}, A) /\ k.pads[p].kind = "nx"
    BY <2>2, <2>3, WorksThere
  <2>5. Works(k, A, l)
    <3>1. Free(k.pads[p].kind, "done")
      BY <2>4 DEF Free
    <3> QED
      BY <2>4, <3>1, FieldWorks
  <2> HIDE DEF l, Then
  <2>6. Works(h, A, k)
    BY <2>1, <2>3, WorksOn
  <2> QED
    BY <2>0, <2>5, <2>6, WorksOn
<1>5. Works(h, A, h)
  BY WorksStill
<1> HIDE DEF Then
<1> QED
  BY <1>2, <1>3, <1>4, <1>5

-----------------------------------------------------------------------------
(* What is done one after the other. *)

\* Numbers are well-founded.
LEMMA Least ==
  ASSUME NEW T, T \subseteq Nat, T # {}
  PROVE  \E m \in T : \A k \in T : m <= k
<1> DEFINE Less == {ss \in Nat \X Nat : ss[1] < ss[2]}
<1>1. OpToRel(<, Nat) = Less
  BY DEF OpToRel
<1>2. IsWellFoundedOn(Less, Nat)
  BY <1>1, NatLessThanWellFounded
<1>3. PICK m \in T : \A k \in T : ~(<<k, m>> \in Less)
  <2> HIDE DEF Less
  <2>1. QED
    BY <1>2, WFMin
<1>4. ASSUME NEW k \in T PROVE ~(k < m)
  BY <1>3
<1>5. ASSUME NEW k \in T PROVE m <= k
  BY <1>4
<1>6. QED
  BY <1>5

\* Induction on the naturals, by a least counterexample.
LEMMA Induction ==
  ASSUME NEW T, T \subseteq Nat, 0 \notin T, \A n \in Nat : n + 1 \in T => n \in T
  PROVE  T = {}
<1> SUFFICES ASSUME T # {} PROVE FALSE
  OBVIOUS
<1>1. PICK m \in T : \A k \in T : m <= k
  BY Least
<1>2. m \in Nat /\ m # 0
  OBVIOUS
<1>3. m - 1 \in Nat /\ (m - 1) + 1 = m
  BY <1>2
<1>4. m - 1 \in T
  BY <1>3
<1>5. QED
  BY <1>1, <1>2, <1>4

\* The steps that are taken one after the other: those of a Switch controller's driver, of XInput's
\* slots, of the Linux devices that are there, of those that have an event, of its reports, of
\* a page's slots, and of the swaps and moves of mty_hid_map_axes.
StepOf(kind, p, v, x) ==
  CASE kind = "nx of mac" -> Mac!NxStep(v, p, x)
    [] kind = "nx of windows" -> Windows!NxStep(v, p, x)
    [] kind = "xip" -> Windows!XipSlot(v, x)
    [] kind = "add" -> X11!evdev_device_add(v, x)
    [] kind = "event" -> IF x \in p THEN X11!evdev_joystick_event(v, v.fds[x]) ELSE v
    [] kind = "report" -> X11!app_evdev_report(v, p)
    [] kind = "poll" -> Web!PolledSlot(v, x)
    [] kind = "swap once" -> SwapOnce(v, p)
    [] kind = "swap" -> hid_swap_value(v, x)
    [] kind = "move" -> hid_move_value(v, x, p)
    [] OTHER -> v

Follows(f, kind, p, v, seq, n) == f = [m \in 0..n |-> IF m = 0 THEN v ELSE StepOf(kind, p, f[m - 1], seq[m])]
After(kind, p, v, seq, n) == CHOOSE f : Follows(f, kind, p, v, seq, n)

\* The recursive function of Steps is what its equation says.
LEMMA FoldIs ==
  ASSUME NEW kind, NEW p, NEW v, NEW seq, NEW n \in Nat
  PROVE  Follows(After(kind, p, v, seq, n), kind, p, v, seq, n)
<1> DEFINE T == {k \in Nat : ~\E f : Follows(f, kind, p, v, seq, k)}
<1>1. 0 \notin T
  <2> DEFINE f == [m \in 0..0 |-> v]
  <2>1. Follows(f, kind, p, v, seq, 0)
    BY DEF Follows
  <2> QED
    BY <2>1
<1>2. ASSUME NEW k \in Nat, k \notin T PROVE k + 1 \notin T
  <2>1. PICK f : Follows(f, kind, p, v, seq, k)
    BY <1>2
  <2> DEFINE s1(y) == StepOf(kind, p, y, seq[k + 1])
             g == [m \in 0..(k + 1) |-> IF m = k + 1 THEN s1(f[k]) ELSE f[m]]
  <2>2. \A m \in 0..k : f[m] = IF m = 0 THEN v ELSE StepOf(kind, p, f[m - 1], seq[m])
    BY <2>1 DEF Follows
  <2>3. \A m \in 0..(k + 1) : g[m] = IF m = 0 THEN v ELSE StepOf(kind, p, g[m - 1], seq[m])
    <3> TAKE m \in 0..(k + 1)
    <3>1. CASE m = k + 1
      <4>1. k \in 0..(k + 1) /\ k # k + 1 /\ m - 1 = k /\ m # 0
        BY <3>1
      <4>2. g[k] = f[k] /\ g[m] = s1(f[k])
        BY <3>1, <4>1
      <4> HIDE DEF g
      <4> QED
        BY <3>1, <4>1, <4>2
    <3>2. CASE m = 0
      BY <3>2, <2>2
    <3>3. CASE m # 0 /\ m # k + 1
      <4>1. m \in 0..k /\ m - 1 \in 0..k /\ m - 1 # k + 1
        BY <3>3
      <4>2. g[m] = f[m] /\ g[m - 1] = f[m - 1]
        BY <4>1, <3>3
      <4> HIDE DEF g
      <4> QED
        BY <3>3, <4>1, <4>2, <2>2
    <3> QED
      BY <3>1, <3>2, <3>3
  <2>4. g = [m \in 0..(k + 1) |-> g[m]]
    OBVIOUS
  <2> HIDE DEF g
  <2>5. Follows(g, kind, p, v, seq, k + 1)
    BY <2>3, <2>4 DEF Follows
  <2> QED
    BY <2>5
<1>3. T \subseteq Nat /\ \A k \in Nat : k + 1 \in T => k \in T
  BY <1>2
<1> HIDE DEF T
<1>4. T = {}
  BY <1>1, <1>3, Induction
<1>5. \E f : Follows(f, kind, p, v, seq, n)
  BY <1>4 DEF T
<1> QED
  BY <1>5 DEF After

\* The handshake of the Switch controllers has eight steps.
LEMMA NxSteps ==
  /\ Len(Mac!NxSteps) = 8 /\ Len(Windows!NxSteps) = 8
BY DEF Mac!NxSteps, Windows!NxSteps, Mac!Handshake, Windows!Handshake

\* The steps of a Switch controller's driver.
RunMac(p, v) == Mac!Steps(LAMBDA b, x : Mac!NxStep(b, p, x), v, Mac!NxSteps)
RunWindows(p, v) == Windows!Steps(LAMBDA b, x : Windows!NxStep(b, p, x), v, Windows!NxSteps)

\* Each prefix of the steps works, so all of them do.
LEMMA NxFold ==
  ASSUME NEW p, NEW v
  PROVE  /\ RunMac(p, v) = After("nx of mac", p, v, Mac!NxSteps, 8)[8]
         /\ RunWindows(p, v) = After("nx of windows", p, v, Windows!NxSteps, 8)[8]
<1>1. RunMac(p, v) = After("nx of mac", p, v, Mac!NxSteps, 8)[8]
  <2> DEFINE G(f) == [n \in 0..Len(Mac!NxSteps) |-> IF n = 0 THEN v ELSE Mac!Of(f[n - 1], LAMBDA b : Mac!NxStep(b, p, Mac!NxSteps[n]))]
             F(f) == [n \in 0..8 |-> IF n = 0 THEN v ELSE StepOf("nx of mac", p, f[n - 1], Mac!NxSteps[n])]
  <2>1. RunMac(p, v) = (CHOOSE f : f = G(f))[Len(Mac!NxSteps)]
    BY DEF Mac!Steps, RunMac
  <2>2. \A f : G(f) = F(f)
    BY NxSteps DEF Mac!Of, StepOf
  <2> QED
    BY <2>1, <2>2, NxSteps DEF After, Follows
<1>2. RunWindows(p, v) = After("nx of windows", p, v, Windows!NxSteps, 8)[8]
  <2> DEFINE G(f) == [n \in 0..Len(Windows!NxSteps) |-> IF n = 0 THEN v ELSE Windows!Of(f[n - 1], LAMBDA b : Windows!NxStep(b, p, Windows!NxSteps[n]))]
             F(f) == [n \in 0..8 |-> IF n = 0 THEN v ELSE StepOf("nx of windows", p, f[n - 1], Windows!NxSteps[n])]
  <2>1. RunWindows(p, v) = (CHOOSE f : f = G(f))[Len(Windows!NxSteps)]
    BY DEF Windows!Steps, RunWindows
  <2>2. \A f : G(f) = F(f)
    BY NxSteps DEF Windows!Of, StepOf
  <2> QED
    BY <2>1, <2>2, NxSteps DEF After, Follows
<1> QED
  BY <1>1, <1>2

\* macOS: the machine of a Switch controller.
LEMMA NxFoldMacWorks ==
  ASSUME NEW h, NEW A, Tabled(h, {}, A), NEW p \in DOMAIN h.devices, plat \in Quick, h.pads[p].kind = "nx"
  PROVE  Works(h, A, RunMac(p, h))
<1> DEFINE after == After("nx of mac", p, h, Mac!NxSteps, 8)
           T == {n \in Nat : n <= 8 /\ ~Works(h, A, after[n])}
<1>1. \A n \in 0..8 : after[n] = IF n = 0 THEN h ELSE StepOf("nx of mac", p, after[n - 1], Mac!NxSteps[n])
  <2>1. Follows(after, "nx of mac", p, h, Mac!NxSteps, 8)
    BY FoldIs
  <2> HIDE DEF after
  <2> QED
    BY <2>1 DEF Follows
<1> HIDE DEF after
<1>2. 0 \notin T
  <2>0. 0 \in 0..8
    OBVIOUS
  <2>1. after[0] = h
    BY <1>1, <2>0
  <2> QED
    BY <2>1, WorksStill
<1>3. ASSUME NEW n \in Nat, n \notin T PROVE n + 1 \notin T
  <2> SUFFICES ASSUME n + 1 <= 8 PROVE Works(h, A, after[n + 1])
    OBVIOUS
  <2>1. Works(h, A, after[n])
    BY <1>3
  <2>2. Tabled(after[n], {}, A) /\ p \in DOMAIN after[n].devices /\ after[n].pads[p].kind = "nx"
    BY <2>1, WorksThere
  <2>3. \A x : Works(after[n], A, Mac!NxStep(after[n], p, x))
    BY <2>2, NxStepWorks
  <2>4. after[n + 1] = Mac!NxStep(after[n], p, Mac!NxSteps[n + 1])
    <3>1. n + 1 \in 0..8 /\ n + 1 # 0 /\ (n + 1) - 1 = n
      OBVIOUS
    <3> QED
      BY <1>1, <3>1 DEF StepOf
  <2> QED
    BY <2>1, <2>3, <2>4, WorksOn
<1>4. T \subseteq Nat /\ \A n \in Nat : n + 1 \in T => n \in T
  BY <1>3
<1> HIDE DEF T
<1>5. T = {}
  BY <1>2, <1>4, Induction
<1>6. Works(h, A, after[8])
  BY <1>5 DEF T
<1> QED
  BY <1>6, NxFold DEF after

LEMMA NxRefreshMacWorks ==
  ASSUME NEW h, NEW A, Tabled(h, {}, A), NEW p \in DOMAIN h.devices, plat \in Quick, h.pads[p].kind = "nx"
  PROVE  Works(h, A, Mac!nx_refresh_rumble(h, p))
<1> DEFINE k == Mac!nx_write_command(h, p, "rumble")
           l == [k EXCEPT !.devices[p].st.old = FALSE]
           t == [l EXCEPT !.devices[p].st.rumble_set = FALSE]
<1>1. Mac!nx_refresh_rumble(h, p) \in {h, t}
  BY DEF Mac!nx_refresh_rumble
<1>2. Works(h, A, k)
  BY NxWrites
<1> HIDE DEF k
<1>3. Tabled(k, {}, A) /\ p \in DOMAIN k.devices /\ k.pads[p].kind = "nx"
  BY <1>2, WorksThere
<1>4. Works(k, A, l)
  BY <1>3, FieldWorks DEF Free
<1> HIDE DEF l
<1>5. Tabled(l, {}, A) /\ p \in DOMAIN l.devices /\ l.pads[p].kind = "nx"
  BY <1>3, <1>4, WorksThere
<1>6. Works(l, A, t)
  BY <1>5, FieldWorks DEF Free
<1>7. Works(h, A, l)
  BY <1>2, <1>4, WorksOn
<1>8. Works(h, A, t) /\ Works(h, A, h)
  BY <1>6, <1>7, WorksOn, WorksStill
<1> QED
  BY <1>1, <1>8

LEMMA NxMachineMacWorks ==
  ASSUME NEW h, NEW A, Tabled(h, {}, A), NEW p \in DOMAIN h.devices, plat \in Quick, h.pads[p].kind = "nx"
  PROVE  Works(h, A, Mac!nx_state_machine(h, p))
<1> DEFINE k(y) == [h EXCEPT !.devices[p].st.bluetooth = y]
           l(y, z) == [k(y) EXCEPT !.devices[p].st.wready = z]
           m(y, z) == RunMac(p, l(y, z))
<1>1. \E y, z : Mac!nx_state_machine(h, p) \in {l(y, z), Mac!nx_refresh_rumble(m(y, z), p)}
  <2> DEFINE Go(u) == IF ~u.devices[p].st.usb /\ ~u.devices[p].st.bluetooth THEN u
                      ELSE Mac!Of(RunMac(p, u), LAMBDA v : Mac!nx_refresh_rumble(v, p))
             y == h.devices[p].st.bluetooth \/ (~h.devices[p].st.usb /\ h.devices[p].st.late)
             z == h.devices[p].st.wready \/ h.devices[p].st.late
             t == [h EXCEPT !.devices[p].st.bluetooth = @ \/ (~h.devices[p].st.usb /\ h.devices[p].st.late),
                            !.devices[p].st.wready = @ \/ h.devices[p].st.late]
  <2>1. Mac!nx_state_machine(h, p) = Mac!Of(t, Go)
    BY DEF Mac!nx_state_machine, RunMac, Mac!St
  <2>2. t = l(y, z)
    OBVIOUS
  <2> HIDE DEF t, l
  <2>3. \A u : Go(u) \in {u, Mac!nx_refresh_rumble(RunMac(p, u), p)}
    BY DEF Mac!Of
  <2>4. Mac!Of(t, Go) = Go(t)
    <3> HIDE DEF Go
    <3> QED
      BY DEF Mac!Of
  <2> HIDE DEF Go, y, z
  <2> QED
    BY <2>1, <2>2, <2>3, <2>4
<1>2. PICK y, z : Mac!nx_state_machine(h, p) \in {l(y, z), Mac!nx_refresh_rumble(m(y, z), p)}
  BY <1>1
<1>3. Works(h, A, k(y))
  BY FieldWorks DEF Free
<1> HIDE DEF k
<1>4. Tabled(k(y), {}, A) /\ p \in DOMAIN k(y).devices /\ k(y).pads[p].kind = "nx"
  BY <1>3, WorksThere
<1>5. Works(k(y), A, l(y, z))
  BY <1>4, FieldWorks DEF Free
<1> HIDE DEF l
<1>6. Tabled(l(y, z), {}, A) /\ p \in DOMAIN l(y, z).devices /\ l(y, z).pads[p].kind = "nx"
  BY <1>4, <1>5, WorksThere
<1>7. Works(l(y, z), A, m(y, z))
  BY <1>6, NxFoldMacWorks
<1> HIDE DEF m
<1>8. Tabled(m(y, z), {}, A) /\ p \in DOMAIN m(y, z).devices /\ m(y, z).pads[p].kind = "nx"
  BY <1>6, <1>7, WorksThere
<1>9. Works(m(y, z), A, Mac!nx_refresh_rumble(m(y, z), p))
  BY <1>8, NxRefreshMacWorks
<1>10. Works(h, A, l(y, z))
  BY <1>3, <1>5, WorksOn
<1>11. Works(h, A, m(y, z))
  BY <1>7, <1>10, WorksOn
<1>12. Works(h, A, Mac!nx_refresh_rumble(m(y, z), p))
  BY <1>9, <1>11, WorksOn
<1> QED
  BY <1>2, <1>10, <1>12

LEMMA NxStateMacWorks ==
  ASSUME NEW h, NEW A, Tabled(h, {}, A), NEW p \in DOMAIN h.devices, plat \in Quick, h.pads[p].kind = "nx", NEW r
  PROVE  Works(h, A, Mac!nx_state(h, p, r).s)
<1> DEFINE k(f) == [h EXCEPT !.devices[p].st[f] = TRUE]
           l(f, g) == [k(f) EXCEPT !.devices[p].st[g] = TRUE]
<1>1. \E t \in {h, k("wready"), l("wready", "usb"), l("calibrated", "wready")} :
        Mac!nx_state(h, p, r).s = Mac!nx_state_machine(t, p)
  <2>1. [h EXCEPT !.devices[p].st = [Mac!nx_parse_stick(@) EXCEPT !.wready = TRUE]] = l("calibrated", "wready")
    BY DEF Mac!nx_parse_stick
  <2>2. [h EXCEPT !.devices[p].st.wready = TRUE, !.devices[p].st.usb = TRUE] = l("wready", "usb")
    OBVIOUS
  <2>3. \A t : Mac!Of(t, LAMBDA u : Mac!nx_state_machine(u, p)) = Mac!nx_state_machine(t, p)
    BY DEF Mac!Of
  <2>4. k("wready") = [h EXCEPT !.devices[p].st.wready = TRUE]
    OBVIOUS
  <2> DEFINE t == CASE r.id = "hs"  -> [h EXCEPT !.devices[p].st.wready = TRUE, !.devices[p].st.usb = TRUE]
                    [] r.id = "ack" -> [h EXCEPT !.devices[p].st.wready = TRUE]
                    [] r.id = "spi" -> [h EXCEPT !.devices[p].st = [Mac!nx_parse_stick(@) EXCEPT !.wready = TRUE]]
                    [] OTHER        -> h
  <2>5. Mac!nx_state(h, p, r).s = Mac!Of(t, LAMBDA u : Mac!nx_state_machine(u, p))
    BY DEF Mac!nx_state
  <2> HIDE DEF l, k
  <2>6. t \in {h, k("wready"), l("wready", "usb"), l("calibrated", "wready")}
    BY <2>1, <2>2, <2>4
  <2> HIDE DEF t
  <2> QED
    BY <2>3, <2>5, <2>6
<1>2. ASSUME NEW f \in {"wready", "calibrated"} PROVE Works(h, A, k(f))
  BY FieldWorks DEF Free
<1> HIDE DEF k
<1>3. ASSUME NEW f \in {"wready", "calibrated"}, NEW g \in {"wready", "usb"} PROVE Works(h, A, l(f, g))
  <2>1. Works(h, A, k(f))
    BY <1>2
  <2>2. Tabled(k(f), {}, A) /\ p \in DOMAIN k(f).devices /\ k(f).pads[p].kind = "nx"
    BY <2>1, WorksThere
  <2>3. Works(k(f), A, l(f, g))
    BY <2>2, FieldWorks DEF Free
  <2> HIDE DEF l
  <2> QED
    BY <2>1, <2>3, WorksOn
<1>4. \A t \in {h, k("wready"), l("wready", "usb"), l("calibrated", "wready")} : Works(h, A, t)
  BY <1>2, <1>3, WorksStill
<1>5. PICK t : Works(h, A, t) /\ Mac!nx_state(h, p, r).s = Mac!nx_state_machine(t, p)
  BY <1>1, <1>4
<1>6. Tabled(t, {}, A) /\ p \in DOMAIN t.devices /\ t.pads[p].kind = "nx"
  BY <1>5, WorksThere
<1>7. Works(t, A, Mac!nx_state_machine(t, p))
  BY <1>6, NxMachineMacWorks
<1> QED
  BY <1>5, <1>7, WorksOn

\* macOS: what each driver writes, makes of a report and does to the motor.
LEMMA WriteMacWorks ==
  ASSUME NEW h, NEW A, Tabled(h, {}, A), NEW p, NEW motor \in 0..1, NEW answer
  PROVE  Works(h, A, Mac!mty_hid_device_write(h, p, motor, answer))
BY WriteTabled DEF Works

LEMMA Ps5MacWorks ==
  ASSUME NEW h, NEW A, Tabled(h, {}, A), NEW p \in DOMAIN h.devices, plat \in Quick, h.pads[p].kind = "ps5", NEW r
  PROVE  Works(h, A, Mac!ps5_state(h, p, r).s)
<1> DEFINE k == Mac!mty_hid_device_write(h, p, 0, <<>>)
           t == [k EXCEPT !.devices[p].st.init = TRUE]
<1>1. Mac!ps5_state(h, p, r).s \in {h, t}
  BY DEF Mac!ps5_state, Mac!ps5_init, Mac!ps5_rumble
<1>2. Works(h, A, k)
  BY WriteMacWorks
<1> HIDE DEF k
<1>3. Tabled(k, {}, A) /\ p \in DOMAIN k.devices /\ k.pads[p].kind = "ps5"
  BY <1>2, WorksThere
<1>4. Works(k, A, t)
  BY <1>3, FieldWorks DEF Free
<1> HIDE DEF t
<1>5. Works(h, A, t) /\ Works(h, A, h)
  BY <1>2, <1>4, WorksOn, WorksStill
<1> QED
  BY <1>1, <1>5

LEMMA XboxMacWorks ==
  ASSUME NEW h, NEW A, Tabled(h, {}, A), NEW p \in DOMAIN h.devices, plat \in Quick, h.pads[p].kind = "xbox", NEW r
  PROVE  Works(h, A, Mac!xbox_state(h, p, r).s)
<1> DEFINE k(y) == [h EXCEPT !.devices[p].st.proto = y]
           l(y, z) == [k(y) EXCEPT !.devices[p].st.guide = z]
           m(y, z) == Mac!mty_hid_device_write(l(y, z), p, l(y, z).devices[p].st.v, <<>>)
           n(y, z) == [m(y, z) EXCEPT !.devices[p].st.age = 0]
           t(y, z) == [n(y, z) EXCEPT !.devices[p].st.rumble = FALSE]
<1>1. \A y, z : Mac!xbox_do_rumble(l(y, z), p) \in {l(y, z), t(y, z)}
  <2> TAKE y, z
  <2>1. [m(y, z) EXCEPT !.devices[p].st.age = 0, !.devices[p].st.rumble = FALSE] = t(y, z)
    <3> HIDE DEF m
    <3> QED
      OBVIOUS
  <2> HIDE DEF l, t
  <2> QED
    BY <2>1 DEF Mac!xbox_do_rumble, Mac!St
<1>2. \E y, z : Mac!xbox_state(h, p, r).s = Mac!xbox_do_rumble(l(y, z), p)
  <2>1. \A y, z : [h EXCEPT !.devices[p].st.proto = y, !.devices[p].st.guide = z] = l(y, z)
    <3> TAKE y, z
    <3> QED
      OBVIOUS
  <2>2. \E y, z : Mac!xbox_state(h, p, r).s = Mac!xbox_do_rumble([h EXCEPT !.devices[p].st.proto = y, !.devices[p].st.guide = z], p)
    BY DEF Mac!xbox_state
  <2> HIDE DEF l
  <2> QED
    BY <2>1, <2>2
<1>3. ASSUME NEW y, NEW z PROVE Works(h, A, l(y, z)) /\ Works(h, A, t(y, z))
  <2>1. Works(h, A, k(y))
    BY FieldWorks DEF Free
  <2> HIDE DEF k
  <2>2. Tabled(k(y), {}, A) /\ p \in DOMAIN k(y).devices /\ k(y).pads[p].kind = "xbox"
    BY <2>1, WorksThere
  <2>3. Works(k(y), A, l(y, z))
    BY <2>2, FieldWorks DEF Free
  <2> HIDE DEF l
  <2>4. Tabled(l(y, z), {}, A) /\ p \in DOMAIN l(y, z).devices /\ l(y, z).pads[p].kind = "xbox"
    BY <2>2, <2>3, WorksThere
  <2>5. l(y, z).devices[p].st.v \in 0..1
    BY <2>4 DEF Tabled, Driving
  <2>6. Works(l(y, z), A, m(y, z))
    BY <2>4, <2>5, WriteMacWorks
  <2> HIDE DEF m
  <2>7. Tabled(m(y, z), {}, A) /\ p \in DOMAIN m(y, z).devices /\ m(y, z).pads[p].kind = "xbox"
    BY <2>4, <2>6, WorksThere
  <2>8. Works(m(y, z), A, n(y, z))
    BY <2>7, FieldWorks DEF Free
  <2> HIDE DEF n
  <2>9. Tabled(n(y, z), {}, A) /\ p \in DOMAIN n(y, z).devices /\ n(y, z).pads[p].kind = "xbox"
    BY <2>7, <2>8, WorksThere
  <2>10. Works(n(y, z), A, t(y, z))
    BY <2>9, FieldWorks DEF Free
  <2> HIDE DEF t
  <2>11. Works(h, A, l(y, z))
    BY <2>1, <2>3, WorksOn
  <2>12. Works(h, A, m(y, z))
    BY <2>6, <2>11, WorksOn
  <2>13. Works(h, A, n(y, z))
    BY <2>8, <2>12, WorksOn
  <2> QED
    BY <2>10, <2>11, <2>13, WorksOn
<1> HIDE DEF l, t
<1>4. PICK y, z : Mac!xbox_state(h, p, r).s = Mac!xbox_do_rumble(l(y, z), p)
  BY <1>2
<1>5. Mac!xbox_state(h, p, r).s \in {l(y, z), t(y, z)}
  BY <1>1, <1>4
<1> QED
  BY <1>3, <1>5

LEMMA StateMacWorks ==
  ASSUME NEW h, NEW A, Tabled(h, {}, A), NEW p \in DOMAIN h.devices, plat \in Quick, h.pads[p].kind # "xinput", NEW r
  PROVE  Works(h, A, Mac!mty_hid_driver_state(h, p, r).s)
<1>1. h.pads[p].kind \in Driven
  BY DEF Tabled, Shaped, Paired
<1>2. Works(h, A, h)
  BY WorksStill
<1>3. CASE h.pads[p].kind = "nx"
  <2>1. Works(h, A, Mac!nx_state(h, p, r).s)
    BY <1>3, NxStateMacWorks
  <2> QED
    BY <1>3, <2>1 DEF Mac!mty_hid_driver_state, Mac!hid_driver
<1>4. CASE h.pads[p].kind = "ps5"
  <2>1. Works(h, A, Mac!ps5_state(h, p, r).s)
    BY <1>4, Ps5MacWorks
  <2> QED
    BY <1>4, <2>1 DEF Mac!mty_hid_driver_state, Mac!hid_driver
<1>5. CASE h.pads[p].kind = "xbox"
  <2>1. Works(h, A, Mac!xbox_state(h, p, r).s)
    BY <1>5, XboxMacWorks
  <2> QED
    BY <1>5, <2>1 DEF Mac!mty_hid_driver_state, Mac!hid_driver
<1>6. CASE h.pads[p].kind \in {"ps4", "stadia", "xboxw", "default"}
  <2>1. Mac!mty_hid_driver_state(h, p, r).s = h
    BY <1>6 DEF Mac!mty_hid_driver_state, Mac!hid_driver, Mac!ps4_state, Mac!stadia_state, Mac!xboxw_state
  <2> QED
    BY <1>2, <2>1
<1> QED
  BY <1>1, <1>3, <1>4, <1>5, <1>6 DEF Driven, Windows!Driven

LEMMA RumbleMacWorks ==
  ASSUME NEW h, NEW A, Tabled(h, {}, A), NEW p \in DOMAIN h.devices, plat \in Quick, NEW v \in 0..1
  PROVE  Works(h, A, Mac!mty_hid_driver_rumble(h, p, v))
<1>1. Works(h, A, h)
  BY WorksStill
<1>2. Works(h, A, Mac!mty_hid_device_write(h, p, v, <<>>))
  BY WriteMacWorks
<1>3. CASE h.pads[p].kind = "nx"
  <2> DEFINE d == [h.devices[p] EXCEPT !.st.rumble = v]
             k == [h EXCEPT !.devices[p] = d]
             l == [k EXCEPT !.devices[p].st.rumble_on = (v > 0)]
             t == [l EXCEPT !.devices[p].st.rumble_set = TRUE]
  <2>1. Mac!mty_hid_driver_rumble(h, p, v) = t
    BY <1>3 DEF Mac!mty_hid_driver_rumble, Mac!hid_driver, Mac!nx_rumble
  <2>2. Driving("nx", d) /\ "id" \in DOMAIN d /\ d.id = h.devices[p].id
    BY <1>3 DEF Tabled, Paired, Driving
  <2> HIDE DEF d
  <2>3. Tabled(k, {} \ {p}, A) /\ Same(h, k)
    BY <1>3, <2>2, StateTabled
  <2>4. Works(h, A, k)
    <3>1. {} \ {p} = {} /\ k.seen = h.seen
      OBVIOUS
    <3> QED
      BY <2>3, <3>1 DEF Works
  <2> HIDE DEF k
  <2>5. Tabled(k, {}, A) /\ p \in DOMAIN k.devices /\ k.pads[p].kind = "nx"
    BY <1>3, <2>4, WorksThere
  <2>6. Works(k, A, l)
    BY <2>5, FieldWorks DEF Free
  <2> HIDE DEF l
  <2>7. Tabled(l, {}, A) /\ p \in DOMAIN l.devices /\ l.pads[p].kind = "nx"
    BY <2>5, <2>6, WorksThere
  <2>8. Works(l, A, t)
    BY <2>7, FieldWorks DEF Free
  <2> HIDE DEF t
  <2>9. Works(h, A, l)
    BY <2>4, <2>6, WorksOn
  <2> QED
    BY <2>1, <2>8, <2>9, WorksOn
<1>4. CASE h.pads[p].kind = "xbox"
  <2> DEFINE d == [h.devices[p] EXCEPT !.st.v = v]
             k == [h EXCEPT !.devices[p] = d]
             t == [k EXCEPT !.devices[p].st.rumble = TRUE]
  <2>1. Mac!mty_hid_driver_rumble(h, p, v) \in {h, t}
    BY <1>4 DEF Mac!mty_hid_driver_rumble, Mac!hid_driver, Mac!xbox_rumble
  <2>2. Driving("xbox", d) /\ "id" \in DOMAIN d /\ d.id = h.devices[p].id
    BY <1>4 DEF Tabled, Paired, Driving
  <2> HIDE DEF d
  <2>3. Tabled(k, {} \ {p}, A) /\ Same(h, k)
    BY <1>4, <2>2, StateTabled
  <2>4. Works(h, A, k)
    <3>1. {} \ {p} = {} /\ k.seen = h.seen
      OBVIOUS
    <3> QED
      BY <2>3, <3>1 DEF Works
  <2> HIDE DEF k
  <2>5. Tabled(k, {}, A) /\ p \in DOMAIN k.devices /\ k.pads[p].kind = "xbox"
    BY <1>4, <2>4, WorksThere
  <2>6. Works(k, A, t)
    BY <2>5, FieldWorks DEF Free
  <2> HIDE DEF t
  <2>7. Works(h, A, t)
    BY <2>4, <2>6, WorksOn
  <2> QED
    BY <1>1, <2>1, <2>7
<1>5. CASE h.pads[p].kind \in {"ps4", "ps5"}
  <2>1. Mac!mty_hid_driver_rumble(h, p, v) = Mac!mty_hid_device_write(h, p, v, <<>>)
    BY <1>5 DEF Mac!mty_hid_driver_rumble, Mac!hid_driver, Mac!ps4_rumble, Mac!ps5_rumble
  <2> QED
    BY <1>2, <2>1
<1>6. CASE h.pads[p].kind \notin {"nx", "xbox", "ps4", "ps5"}
  <2>1. Mac!mty_hid_driver_rumble(h, p, v) = h
    BY <1>6 DEF Mac!mty_hid_driver_rumble, Mac!hid_driver
  <2> QED
    BY <1>1, <2>1
<1> QED
  BY <1>3, <1>4, <1>5, <1>6

\* Windows: the same drivers.
LEMMA NxFoldWindowsWorks ==
  ASSUME NEW h, NEW A, Tabled(h, {}, A), NEW p \in DOMAIN h.devices, plat \in Quick, h.pads[p].kind = "nx"
  PROVE  Works(h, A, RunWindows(p, h))
<1> DEFINE after == After("nx of windows", p, h, Windows!NxSteps, 8)
           T == {n \in Nat : n <= 8 /\ ~Works(h, A, after[n])}
<1>1. \A n \in 0..8 : after[n] = IF n = 0 THEN h ELSE StepOf("nx of windows", p, after[n - 1], Windows!NxSteps[n])
  <2>1. Follows(after, "nx of windows", p, h, Windows!NxSteps, 8)
    BY FoldIs
  <2> HIDE DEF after
  <2> QED
    BY <2>1 DEF Follows
<1> HIDE DEF after
<1>2. 0 \notin T
  <2>0. 0 \in 0..8
    OBVIOUS
  <2>1. after[0] = h
    BY <1>1, <2>0
  <2> QED
    BY <2>1, WorksStill
<1>3. ASSUME NEW n \in Nat, n \notin T PROVE n + 1 \notin T
  <2> SUFFICES ASSUME n + 1 <= 8 PROVE Works(h, A, after[n + 1])
    OBVIOUS
  <2>1. Works(h, A, after[n])
    BY <1>3
  <2>2. Tabled(after[n], {}, A) /\ p \in DOMAIN after[n].devices /\ after[n].pads[p].kind = "nx"
    BY <2>1, WorksThere
  <2>3. \A x : Works(after[n], A, Windows!NxStep(after[n], p, x))
    BY <2>2, NxStepWorks
  <2>4. after[n + 1] = Windows!NxStep(after[n], p, Windows!NxSteps[n + 1])
    <3>1. n + 1 \in 0..8 /\ n + 1 # 0 /\ (n + 1) - 1 = n
      OBVIOUS
    <3> QED
      BY <1>1, <3>1 DEF StepOf
  <2> QED
    BY <2>1, <2>3, <2>4, WorksOn
<1>4. T \subseteq Nat /\ \A n \in Nat : n + 1 \in T => n \in T
  BY <1>3
<1> HIDE DEF T
<1>5. T = {}
  BY <1>2, <1>4, Induction
<1>6. Works(h, A, after[8])
  BY <1>5 DEF T
<1> QED
  BY <1>6, NxFold DEF after

LEMMA NxRefreshWindowsWorks ==
  ASSUME NEW h, NEW A, Tabled(h, {}, A), NEW p \in DOMAIN h.devices, plat \in Quick, h.pads[p].kind = "nx"
  PROVE  Works(h, A, Windows!nx_refresh_rumble(h, p))
<1> DEFINE k == Windows!nx_write_command(h, p, "rumble")
           l == [k EXCEPT !.devices[p].st.old = FALSE]
           t == [l EXCEPT !.devices[p].st.rumble_set = FALSE]
<1>1. Windows!nx_refresh_rumble(h, p) \in {h, t}
  BY DEF Windows!nx_refresh_rumble
<1>2. Works(h, A, k)
  BY NxWrites
<1> HIDE DEF k
<1>3. Tabled(k, {}, A) /\ p \in DOMAIN k.devices /\ k.pads[p].kind = "nx"
  BY <1>2, WorksThere
<1>4. Works(k, A, l)
  BY <1>3, FieldWorks DEF Free
<1> HIDE DEF l
<1>5. Tabled(l, {}, A) /\ p \in DOMAIN l.devices /\ l.pads[p].kind = "nx"
  BY <1>3, <1>4, WorksThere
<1>6. Works(l, A, t)
  BY <1>5, FieldWorks DEF Free
<1>7. Works(h, A, l)
  BY <1>2, <1>4, WorksOn
<1>8. Works(h, A, t) /\ Works(h, A, h)
  BY <1>6, <1>7, WorksOn, WorksStill
<1> QED
  BY <1>1, <1>8

LEMMA NxMachineWindowsWorks ==
  ASSUME NEW h, NEW A, Tabled(h, {}, A), NEW p \in DOMAIN h.devices, plat \in Quick, h.pads[p].kind = "nx"
  PROVE  Works(h, A, Windows!nx_state_machine(h, p))
<1> DEFINE k(y) == [h EXCEPT !.devices[p].st.bluetooth = y]
           l(y, z) == [k(y) EXCEPT !.devices[p].st.wready = z]
           m(y, z) == RunWindows(p, l(y, z))
<1>1. \E y, z : Windows!nx_state_machine(h, p) \in {l(y, z), Windows!nx_refresh_rumble(m(y, z), p)}
  <2> DEFINE Go(u) == IF ~u.devices[p].st.usb /\ ~u.devices[p].st.bluetooth THEN u
                      ELSE Windows!Of(RunWindows(p, u), LAMBDA v : Windows!nx_refresh_rumble(v, p))
             y == h.devices[p].st.bluetooth \/ (~h.devices[p].st.usb /\ h.devices[p].st.late)
             z == h.devices[p].st.wready \/ h.devices[p].st.late
             t == [h EXCEPT !.devices[p].st.bluetooth = @ \/ (~h.devices[p].st.usb /\ h.devices[p].st.late),
                            !.devices[p].st.wready = @ \/ h.devices[p].st.late]
  <2>1. Windows!nx_state_machine(h, p) = Windows!Of(t, Go)
    BY DEF Windows!nx_state_machine, RunWindows, Windows!St
  <2>2. t = l(y, z)
    OBVIOUS
  <2> HIDE DEF t, l
  <2>3. \A u : Go(u) \in {u, Windows!nx_refresh_rumble(RunWindows(p, u), p)}
    BY DEF Windows!Of
  <2>4. Windows!Of(t, Go) = Go(t)
    <3> HIDE DEF Go
    <3> QED
      BY DEF Windows!Of
  <2> HIDE DEF Go, y, z
  <2> QED
    BY <2>1, <2>2, <2>3, <2>4
<1>2. PICK y, z : Windows!nx_state_machine(h, p) \in {l(y, z), Windows!nx_refresh_rumble(m(y, z), p)}
  BY <1>1
<1>3. Works(h, A, k(y))
  BY FieldWorks DEF Free
<1> HIDE DEF k
<1>4. Tabled(k(y), {}, A) /\ p \in DOMAIN k(y).devices /\ k(y).pads[p].kind = "nx"
  BY <1>3, WorksThere
<1>5. Works(k(y), A, l(y, z))
  BY <1>4, FieldWorks DEF Free
<1> HIDE DEF l
<1>6. Tabled(l(y, z), {}, A) /\ p \in DOMAIN l(y, z).devices /\ l(y, z).pads[p].kind = "nx"
  BY <1>4, <1>5, WorksThere
<1>7. Works(l(y, z), A, m(y, z))
  BY <1>6, NxFoldWindowsWorks
<1> HIDE DEF m
<1>8. Tabled(m(y, z), {}, A) /\ p \in DOMAIN m(y, z).devices /\ m(y, z).pads[p].kind = "nx"
  BY <1>6, <1>7, WorksThere
<1>9. Works(m(y, z), A, Windows!nx_refresh_rumble(m(y, z), p))
  BY <1>8, NxRefreshWindowsWorks
<1>10. Works(h, A, l(y, z))
  BY <1>3, <1>5, WorksOn
<1>11. Works(h, A, m(y, z))
  BY <1>7, <1>10, WorksOn
<1>12. Works(h, A, Windows!nx_refresh_rumble(m(y, z), p))
  BY <1>9, <1>11, WorksOn
<1> QED
  BY <1>2, <1>10, <1>12

LEMMA NxStateWindowsWorks ==
  ASSUME NEW h, NEW A, Tabled(h, {}, A), NEW p \in DOMAIN h.devices, plat \in Quick, h.pads[p].kind = "nx", NEW r
  PROVE  Works(h, A, Windows!nx_state(h, p, r).s)
<1> DEFINE k(f) == [h EXCEPT !.devices[p].st[f] = TRUE]
           l(f, g) == [k(f) EXCEPT !.devices[p].st[g] = TRUE]
<1>1. \E t \in {h, k("wready"), l("wready", "usb"), l("calibrated", "wready")} :
        Windows!nx_state(h, p, r).s = Windows!nx_state_machine(t, p)
  <2>1. [h EXCEPT !.devices[p].st = [Windows!nx_parse_stick(@) EXCEPT !.wready = TRUE]] = l("calibrated", "wready")
    BY DEF Windows!nx_parse_stick
  <2>2. [h EXCEPT !.devices[p].st.wready = TRUE, !.devices[p].st.usb = TRUE] = l("wready", "usb")
    OBVIOUS
  <2>3. \A t : Windows!Of(t, LAMBDA u : Windows!nx_state_machine(u, p)) = Windows!nx_state_machine(t, p)
    BY DEF Windows!Of
  <2>4. k("wready") = [h EXCEPT !.devices[p].st.wready = TRUE]
    OBVIOUS
  <2> DEFINE t == CASE r.id = "hs"  -> [h EXCEPT !.devices[p].st.wready = TRUE, !.devices[p].st.usb = TRUE]
                    [] r.id = "ack" -> [h EXCEPT !.devices[p].st.wready = TRUE]
                    [] r.id = "spi" -> [h EXCEPT !.devices[p].st = [Windows!nx_parse_stick(@) EXCEPT !.wready = TRUE]]
                    [] OTHER        -> h
  <2>5. Windows!nx_state(h, p, r).s = Windows!Of(t, LAMBDA u : Windows!nx_state_machine(u, p))
    BY DEF Windows!nx_state
  <2> HIDE DEF l, k
  <2>6. t \in {h, k("wready"), l("wready", "usb"), l("calibrated", "wready")}
    BY <2>1, <2>2, <2>4
  <2> HIDE DEF t
  <2> QED
    BY <2>3, <2>5, <2>6
<1>2. ASSUME NEW f \in {"wready", "calibrated"} PROVE Works(h, A, k(f))
  BY FieldWorks DEF Free
<1> HIDE DEF k
<1>3. ASSUME NEW f \in {"wready", "calibrated"}, NEW g \in {"wready", "usb"} PROVE Works(h, A, l(f, g))
  <2>1. Works(h, A, k(f))
    BY <1>2
  <2>2. Tabled(k(f), {}, A) /\ p \in DOMAIN k(f).devices /\ k(f).pads[p].kind = "nx"
    BY <2>1, WorksThere
  <2>3. Works(k(f), A, l(f, g))
    BY <2>2, FieldWorks DEF Free
  <2> HIDE DEF l
  <2> QED
    BY <2>1, <2>3, WorksOn
<1>4. \A t \in {h, k("wready"), l("wready", "usb"), l("calibrated", "wready")} : Works(h, A, t)
  BY <1>2, <1>3, WorksStill
<1>5. PICK t : Works(h, A, t) /\ Windows!nx_state(h, p, r).s = Windows!nx_state_machine(t, p)
  BY <1>1, <1>4
<1>6. Tabled(t, {}, A) /\ p \in DOMAIN t.devices /\ t.pads[p].kind = "nx"
  BY <1>5, WorksThere
<1>7. Works(t, A, Windows!nx_state_machine(t, p))
  BY <1>6, NxMachineWindowsWorks
<1> QED
  BY <1>5, <1>7, WorksOn

LEMMA WriteWindowsWorks ==
  ASSUME NEW h, NEW A, Tabled(h, {}, A), NEW p, NEW motor \in 0..1, NEW answer
  PROVE  Works(h, A, Windows!mty_hid_device_write(h, p, motor, answer))
BY WriteTabled DEF Works

LEMMA Ps5WindowsWorks ==
  ASSUME NEW h, NEW A, Tabled(h, {}, A), NEW p \in DOMAIN h.devices, plat \in Quick, h.pads[p].kind = "ps5", NEW r
  PROVE  Works(h, A, Windows!ps5_state(h, p, r).s)
<1> DEFINE k == Windows!mty_hid_device_write(h, p, 0, <<>>)
           t == [k EXCEPT !.devices[p].st.init = TRUE]
<1>1. Windows!ps5_state(h, p, r).s \in {h, t}
  BY DEF Windows!ps5_state, Windows!ps5_init, Windows!ps5_rumble
<1>2. Works(h, A, k)
  BY WriteWindowsWorks
<1> HIDE DEF k
<1>3. Tabled(k, {}, A) /\ p \in DOMAIN k.devices /\ k.pads[p].kind = "ps5"
  BY <1>2, WorksThere
<1>4. Works(k, A, t)
  BY <1>3, FieldWorks DEF Free
<1> HIDE DEF t
<1>5. Works(h, A, t) /\ Works(h, A, h)
  BY <1>2, <1>4, WorksOn, WorksStill
<1> QED
  BY <1>1, <1>5

LEMMA XboxWindowsWorks ==
  ASSUME NEW h, NEW A, Tabled(h, {}, A), NEW p \in DOMAIN h.devices, plat \in Quick, h.pads[p].kind = "xbox", NEW r
  PROVE  Works(h, A, Windows!xbox_state(h, p, r).s)
<1> DEFINE k(y) == [h EXCEPT !.devices[p].st.proto = y]
           l(y, z) == [k(y) EXCEPT !.devices[p].st.guide = z]
           m(y, z) == Windows!mty_hid_device_write(l(y, z), p, l(y, z).devices[p].st.v, <<>>)
           n(y, z) == [m(y, z) EXCEPT !.devices[p].st.age = 0]
           t(y, z) == [n(y, z) EXCEPT !.devices[p].st.rumble = FALSE]
<1>1. \A y, z : Windows!xbox_do_rumble(l(y, z), p) \in {l(y, z), t(y, z)}
  <2> TAKE y, z
  <2>1. [m(y, z) EXCEPT !.devices[p].st.age = 0, !.devices[p].st.rumble = FALSE] = t(y, z)
    <3> HIDE DEF m
    <3> QED
      OBVIOUS
  <2> HIDE DEF l, t
  <2> QED
    BY <2>1 DEF Windows!xbox_do_rumble, Windows!St
<1>2. \E y, z : Windows!xbox_state(h, p, r).s = Windows!xbox_do_rumble(l(y, z), p)
  <2>1. \A y, z : [h EXCEPT !.devices[p].st.proto = y, !.devices[p].st.guide = z] = l(y, z)
    <3> TAKE y, z
    <3> QED
      OBVIOUS
  <2>2. \E y, z : Windows!xbox_state(h, p, r).s = Windows!xbox_do_rumble([h EXCEPT !.devices[p].st.proto = y, !.devices[p].st.guide = z], p)
    BY DEF Windows!xbox_state
  <2> HIDE DEF l
  <2> QED
    BY <2>1, <2>2
<1>3. ASSUME NEW y, NEW z PROVE Works(h, A, l(y, z)) /\ Works(h, A, t(y, z))
  <2>1. Works(h, A, k(y))
    BY FieldWorks DEF Free
  <2> HIDE DEF k
  <2>2. Tabled(k(y), {}, A) /\ p \in DOMAIN k(y).devices /\ k(y).pads[p].kind = "xbox"
    BY <2>1, WorksThere
  <2>3. Works(k(y), A, l(y, z))
    BY <2>2, FieldWorks DEF Free
  <2> HIDE DEF l
  <2>4. Tabled(l(y, z), {}, A) /\ p \in DOMAIN l(y, z).devices /\ l(y, z).pads[p].kind = "xbox"
    BY <2>2, <2>3, WorksThere
  <2>5. l(y, z).devices[p].st.v \in 0..1
    BY <2>4 DEF Tabled, Driving
  <2>6. Works(l(y, z), A, m(y, z))
    BY <2>4, <2>5, WriteWindowsWorks
  <2> HIDE DEF m
  <2>7. Tabled(m(y, z), {}, A) /\ p \in DOMAIN m(y, z).devices /\ m(y, z).pads[p].kind = "xbox"
    BY <2>4, <2>6, WorksThere
  <2>8. Works(m(y, z), A, n(y, z))
    BY <2>7, FieldWorks DEF Free
  <2> HIDE DEF n
  <2>9. Tabled(n(y, z), {}, A) /\ p \in DOMAIN n(y, z).devices /\ n(y, z).pads[p].kind = "xbox"
    BY <2>7, <2>8, WorksThere
  <2>10. Works(n(y, z), A, t(y, z))
    BY <2>9, FieldWorks DEF Free
  <2> HIDE DEF t
  <2>11. Works(h, A, l(y, z))
    BY <2>1, <2>3, WorksOn
  <2>12. Works(h, A, m(y, z))
    BY <2>6, <2>11, WorksOn
  <2>13. Works(h, A, n(y, z))
    BY <2>8, <2>12, WorksOn
  <2> QED
    BY <2>10, <2>11, <2>13, WorksOn
<1> HIDE DEF l, t
<1> QED
  BY <1>1, <1>2, <1>3

LEMMA StateWindowsWorks ==
  ASSUME NEW h, NEW A, Tabled(h, {}, A), NEW p \in DOMAIN h.devices, plat \in Quick, h.pads[p].kind # "xinput", NEW r
  PROVE  Works(h, A, Windows!mty_hid_driver_state(h, p, r).s)
<1>1. h.pads[p].kind \in Driven
  BY DEF Tabled, Shaped, Paired
<1>2. Works(h, A, h)
  BY WorksStill
<1>3. CASE h.pads[p].kind = "nx"
  <2>1. Works(h, A, Windows!nx_state(h, p, r).s)
    BY <1>3, NxStateWindowsWorks
  <2> QED
    BY <1>3, <2>1 DEF Windows!mty_hid_driver_state, Windows!hid_driver
<1>4. CASE h.pads[p].kind = "ps5"
  <2>1. Works(h, A, Windows!ps5_state(h, p, r).s)
    BY <1>4, Ps5WindowsWorks
  <2> QED
    BY <1>4, <2>1 DEF Windows!mty_hid_driver_state, Windows!hid_driver
<1>5. CASE h.pads[p].kind = "xbox"
  <2>1. Works(h, A, Windows!xbox_state(h, p, r).s)
    BY <1>5, XboxWindowsWorks
  <2> QED
    BY <1>5, <2>1 DEF Windows!mty_hid_driver_state, Windows!hid_driver
<1>6. CASE h.pads[p].kind \in {"ps4", "stadia", "xboxw", "default"}
  <2>1. Windows!mty_hid_driver_state(h, p, r).s = h
    BY <1>6 DEF Windows!mty_hid_driver_state, Windows!hid_driver, Windows!ps4_state, Windows!stadia_state, Windows!xboxw_state
  <2> QED
    BY <1>2, <2>1
<1> QED
  BY <1>1, <1>3, <1>4, <1>5, <1>6 DEF Driven, Windows!Driven

LEMMA RumbleWindowsWorks ==
  ASSUME NEW h, NEW A, Tabled(h, {}, A), NEW p \in DOMAIN h.devices, plat \in Quick, NEW v \in 0..1
  PROVE  Works(h, A, Windows!mty_hid_driver_rumble(h, p, v))
<1>1. Works(h, A, h)
  BY WorksStill
<1>2. Works(h, A, Windows!mty_hid_device_write(h, p, v, <<>>))
  BY WriteWindowsWorks
<1>3. CASE h.pads[p].kind = "nx"
  <2> DEFINE d == [h.devices[p] EXCEPT !.st.rumble = v]
             k == [h EXCEPT !.devices[p] = d]
             l == [k EXCEPT !.devices[p].st.rumble_on = (v > 0)]
             t == [l EXCEPT !.devices[p].st.rumble_set = TRUE]
  <2>1. Windows!mty_hid_driver_rumble(h, p, v) = t
    BY <1>3 DEF Windows!mty_hid_driver_rumble, Windows!hid_driver, Windows!nx_rumble
  <2>2. Driving("nx", d) /\ "id" \in DOMAIN d /\ d.id = h.devices[p].id
    BY <1>3 DEF Tabled, Paired, Driving
  <2> HIDE DEF d
  <2>3. Tabled(k, {} \ {p}, A) /\ Same(h, k)
    BY <1>3, <2>2, StateTabled
  <2>4. Works(h, A, k)
    <3>1. {} \ {p} = {} /\ k.seen = h.seen
      OBVIOUS
    <3> QED
      BY <2>3, <3>1 DEF Works
  <2> HIDE DEF k
  <2>5. Tabled(k, {}, A) /\ p \in DOMAIN k.devices /\ k.pads[p].kind = "nx"
    BY <1>3, <2>4, WorksThere
  <2>6. Works(k, A, l)
    BY <2>5, FieldWorks DEF Free
  <2> HIDE DEF l
  <2>7. Tabled(l, {}, A) /\ p \in DOMAIN l.devices /\ l.pads[p].kind = "nx"
    BY <2>5, <2>6, WorksThere
  <2>8. Works(l, A, t)
    BY <2>7, FieldWorks DEF Free
  <2> HIDE DEF t
  <2>9. Works(h, A, l)
    BY <2>4, <2>6, WorksOn
  <2> QED
    BY <2>1, <2>8, <2>9, WorksOn
<1>4. CASE h.pads[p].kind = "xbox"
  <2> DEFINE d == [h.devices[p] EXCEPT !.st.v = v]
             k == [h EXCEPT !.devices[p] = d]
             t == [k EXCEPT !.devices[p].st.rumble = TRUE]
  <2>1. Windows!mty_hid_driver_rumble(h, p, v) \in {h, t}
    BY <1>4 DEF Windows!mty_hid_driver_rumble, Windows!hid_driver, Windows!xbox_rumble
  <2>2. Driving("xbox", d) /\ "id" \in DOMAIN d /\ d.id = h.devices[p].id
    BY <1>4 DEF Tabled, Paired, Driving
  <2> HIDE DEF d
  <2>3. Tabled(k, {} \ {p}, A) /\ Same(h, k)
    BY <1>4, <2>2, StateTabled
  <2>4. Works(h, A, k)
    <3>1. {} \ {p} = {} /\ k.seen = h.seen
      OBVIOUS
    <3> QED
      BY <2>3, <3>1 DEF Works
  <2> HIDE DEF k
  <2>5. Tabled(k, {}, A) /\ p \in DOMAIN k.devices /\ k.pads[p].kind = "xbox"
    BY <1>4, <2>4, WorksThere
  <2>6. Works(k, A, t)
    BY <2>5, FieldWorks DEF Free
  <2> HIDE DEF t
  <2>7. Works(h, A, t)
    BY <2>4, <2>6, WorksOn
  <2> QED
    BY <1>1, <2>1, <2>7
<1>5. CASE h.pads[p].kind \in {"ps4", "ps5"}
  <2>1. Windows!mty_hid_driver_rumble(h, p, v) = Windows!mty_hid_device_write(h, p, v, <<>>)
    BY <1>5 DEF Windows!mty_hid_driver_rumble, Windows!hid_driver, Windows!ps4_rumble, Windows!ps5_rumble
  <2> QED
    BY <1>2, <2>1
<1>6. CASE h.pads[p].kind \notin {"nx", "xbox", "ps4", "ps5"}
  <2>1. Windows!mty_hid_driver_rumble(h, p, v) = h
    BY <1>6 DEF Windows!mty_hid_driver_rumble, Windows!hid_driver
  <2> QED
    BY <1>1, <2>1
<1> QED
  BY <1>3, <1>4, <1>5, <1>6

-----------------------------------------------------------------------------
(* Devices come and go. *)

\* A driver without a machine has started.
LEMMA Started ==
  ASSUME NEW h, NEW A, NEW p, Tabled(h, {p}, A), plat \in Quick, h.pads[p].kind \notin {"nx", "xbox"}
  PROVE  Tabled(h, {}, A)
BY DEF Tabled, Driving

\* The program is told of an XInput controller by its slot.
LEMMA XinputSilent ==
  ASSUME NEW h, NEW D, NEW p, Tabled(h, D, {p}), h.pads[p].kind = "xinput"
  PROVE  Tabled(h, D, {})
BY DEF Tabled

\* A device with the next id.
Newer(h, p, t) ==
  /\ Kept(h, t) /\ t.seen = h.seen
  /\ DOMAIN t.devices = DOMAIN h.devices \cup {p}
  /\ t.devices[p].id \notin DOMAIN h.seen
  /\ \A i \in DOMAIN h.devices : t.devices[i].id = h.devices[i].id

LEMMA DeviceTabled ==
  ASSUME NEW h, Tabled(h, {}, {}), plat \in Quick, plat = "windows" => h.app = "alive", NEW p \in DOMAIN h.pads,
         p \notin DOMAIN h.devices
  PROVE  LET t == Mac!HidDevice([h EXCEPT !.next = @ + 1], p, h.next)
         IN Tabled(t, {p}, {p}) /\ Newer(h, p, t) /\ Windows!HidDevice([h EXCEPT !.next = @ + 1], p, h.next) = t
<1> DEFINE d == [id |-> h.next, st |-> [init |-> FALSE]]
           t == [h EXCEPT !.next = @ + 1, !.devices = HashSet(@, p, d), !.rev = HashSet(@, h.next, p)]
<1>1. /\ Mac!HidDevice([h EXCEPT !.next = @ + 1], p, h.next) = t
      /\ Windows!HidDevice([h EXCEPT !.next = @ + 1], p, h.next) = t
  BY HelpersAre DEF Mac!HidDevice, Windows!HidDevice
<1>2. /\ Fields \subseteq DOMAIN t /\ t.pads = h.pads /\ t.odd = h.odd
      /\ t.quiet = h.quiet /\ t.fds = h.fds /\ t.xip = h.xip /\ t.app = h.app
      /\ t.seen = h.seen /\ t.q = h.q /\ t.focus = h.focus /\ t.next = h.next + 1
      /\ t.devices = HashSet(h.devices, p, d) /\ t.rev = HashSet(h.rev, h.next, p)
  BY DEF Tabled, Shaped, Fields
<1>3. /\ DOMAIN t.devices = DOMAIN h.devices \cup {p} /\ t.devices[p] = d
      /\ \A i \in DOMAIN h.devices : i # p => t.devices[i] = h.devices[i]
      /\ DOMAIN t.rev = DOMAIN h.rev \cup {h.next} /\ t.rev[h.next] = p
      /\ \A i \in DOMAIN h.rev : i # h.next => t.rev[i] = h.rev[i]
      /\ t.rev = [i \in DOMAIN t.rev |-> t.rev[i]]
  <2> HIDE DEF t, d
  <2>1. /\ DOMAIN HashSet(h.devices, p, d) = DOMAIN h.devices \cup {p} /\ HashSet(h.devices, p, d)[p] = d
        /\ \A i \in DOMAIN h.devices : i # p => HashSet(h.devices, p, d)[i] = h.devices[i]
    BY DEF HashSet
  <2>2. /\ DOMAIN HashSet(h.rev, h.next, p) = DOMAIN h.rev \cup {h.next} /\ HashSet(h.rev, h.next, p)[h.next] = p
        /\ \A i \in DOMAIN h.rev : i # h.next => HashSet(h.rev, h.next, p)[i] = h.rev[i]
        /\ HashSet(h.rev, h.next, p) = [i \in DOMAIN HashSet(h.rev, h.next, p) |-> HashSet(h.rev, h.next, p)[i]]
    BY DEF HashSet
  <2>3. t.devices = HashSet(h.devices, p, d) /\ t.rev = HashSet(h.rev, h.next, p)
    BY <1>2
  <2> QED
    BY <2>1, <2>2, <2>3
<1>4. "id" \in DOMAIN d /\ "st" \in DOMAIN d /\ d.id = h.next
  OBVIOUS
<1> HIDE DEF t, d
<1>5. /\ h.next \in Nat /\ h.next \notin DOMAIN h.rev /\ h.next \notin DOMAIN h.seen
      /\ \A i \in DOMAIN h.rev : i \in Nat /\ i < h.next /\ h.quiet <= i
      /\ \A i \in DOMAIN h.seen : i \in Int /\ i < h.next
      /\ h.quiet <= h.next
      /\ plat = "windows" /\ h.app = "alive" => h.next >= 32
      /\ h.quiet = (IF plat = "windows" THEN 4 ELSE 0)
  BY DEF Tabled, Numbered
<1>6. Shaped(t)
  BY <1>2 DEF Tabled, Shaped
<1>7. Paired(t)
  BY <1>2, <1>3, <1>4, <1>5 DEF Tabled, Paired
<1>8. Numbered(t)
  BY <1>2, <1>3, <1>5 DEF Numbered
<1>9. (plat = "windows" => Polled(t)) /\ plat # "x11"
  BY <1>2 DEF Tabled, Polled, Quick
<1>10. /\ \A i \in DOMAIN t.devices : "st" \in DOMAIN t.devices[i]
       /\ \A i \in DOMAIN t.devices \ {p} : Driving(t.pads[i].kind, t.devices[i])
       /\ \A i \in DOMAIN t.devices \ {p} : t.pads[i].kind # "xinput" => t.devices[i].id \in DOMAIN t.seen
  BY <1>2, <1>3, <1>4 DEF Tabled
<1>11. Tabled(t, {p}, {p})
  BY <1>2, <1>6, <1>7, <1>8, <1>9, <1>10 DEF Tabled
<1>12. Newer(h, p, t)
  BY <1>2, <1>3, <1>4, <1>5 DEF Newer, Kept
<1> QED
  BY <1>1, <1>11, <1>12

\* A device is taken from the tables, and the program told of it.
Without(h, p, t) ==
  /\ Fields \subseteq DOMAIN t /\ t.pads = h.pads /\ t.odd = h.odd
  /\ t.next = h.next /\ t.quiet = h.quiet /\ t.xip = h.xip /\ t.app = h.app /\ t.q = h.q /\ t.focus = h.focus
  /\ t.devices = HashPop(h.devices, p) /\ t.rev = HashPop(h.rev, h.devices[p].id)
  /\ t.seen = HashPop(h.seen, h.devices[p].id) \/ (t.seen = h.seen /\ h.pads[p].kind = "xinput")
  /\ plat = "x11" => t.fds = [h.fds EXCEPT ![h.devices[p].slot] = 0]

Fewer(h, p, t) ==
  /\ Kept(h, t) /\ DOMAIN t.devices = DOMAIN h.devices \ {p}
  /\ \A i \in DOMAIN t.devices : t.devices[i].id = h.devices[i].id

\* A device is freed, and nothing refers to it.
LEMMA WithoutTabled ==
  ASSUME NEW h, Tabled(h, {}, {}), NEW p \in DOMAIN h.devices, NEW t, Without(h, p, t)
  PROVE  Tabled(t, {}, {}) /\ Fewer(h, p, t)
<1> DEFINE id == h.devices[p].id
<1>1. /\ DOMAIN t.devices = DOMAIN h.devices \ {p}
      /\ \A i \in DOMAIN t.devices : t.devices[i] = h.devices[i]
      /\ DOMAIN t.rev = DOMAIN h.rev \ {id}
      /\ \A i \in DOMAIN t.rev : t.rev[i] = h.rev[i]
      /\ t.rev = [i \in DOMAIN t.rev |-> t.rev[i]]
      /\ \A i \in DOMAIN h.seen : i # id => i \in DOMAIN t.seen
      /\ DOMAIN t.seen \subseteq DOMAIN h.seen
      /\ h.pads[p].kind # "xinput" => id \notin DOMAIN t.seen
  <2>1. /\ t.devices = HashPop(h.devices, p) /\ t.rev = HashPop(h.rev, id)
        /\ t.seen = HashPop(h.seen, id) \/ (t.seen = h.seen /\ h.pads[p].kind = "xinput")
    BY DEF Without
  <2> HIDE DEF id
  <2>2. /\ DOMAIN HashPop(h.devices, p) = DOMAIN h.devices \ {p}
        /\ \A i \in DOMAIN h.devices : i # p => HashPop(h.devices, p)[i] = h.devices[i]
    BY DEF HashPop, Restrict
  <2>3. /\ DOMAIN HashPop(h.rev, id) = DOMAIN h.rev \ {id}
        /\ \A i \in DOMAIN h.rev : i # id => HashPop(h.rev, id)[i] = h.rev[i]
        /\ HashPop(h.rev, id) = [i \in DOMAIN HashPop(h.rev, id) |-> HashPop(h.rev, id)[i]]
    BY DEF HashPop, Restrict
  <2>4. DOMAIN HashPop(h.seen, id) = DOMAIN h.seen \ {id}
    BY DEF HashPop, Restrict
  <2> QED
    BY <2>1, <2>2, <2>3, <2>4
<1>2. /\ \A i, j \in DOMAIN h.devices : h.devices[i].id = h.devices[j].id => i = j
      /\ \A i \in DOMAIN h.devices : "id" \in DOMAIN h.devices[i] /\ h.devices[i].id \in DOMAIN h.rev /\ h.rev[h.devices[i].id] = i
      /\ \A i \in DOMAIN h.rev : h.rev[i] \in DOMAIN h.devices /\ h.devices[h.rev[i]].id = i
      /\ DOMAIN h.devices \subseteq DOMAIN h.pads
  BY DEF Tabled, Paired
<1>3. Shaped(t)
  BY DEF Without, Tabled, Shaped
<1>4. Paired(t)
  <2>1. t.pads = h.pads
    BY DEF Without
  <2> QED
    BY <1>1, <1>2, <2>1 DEF Paired
<1>5. plat \in Quick => Numbered(t)
  BY <1>1 DEF Without, Tabled, Numbered
<1>6. plat = "windows" => Polled(t)
  BY DEF Without, Tabled, Polled
<1>7. plat = "x11" => Slotted(t)
  <2> SUFFICES ASSUME plat = "x11" PROVE Slotted(t)
    OBVIOUS
  <2>1. /\ h.quiet = 0
        /\ h.fds \in [1..Slots -> 0..(Slots + 1)]
        /\ \A i \in DOMAIN h.devices :
             "slot" \in DOMAIN h.devices[i] /\ h.devices[i].slot \in 1..Slots /\ h.fds[h.devices[i].slot] = h.devices[i].id
             /\ h.devices[i].id # 0
        /\ \A x \in 1..Slots : h.fds[x] # 0 => h.fds[x] \in DOMAIN h.rev /\ h.devices[h.rev[h.fds[x]]].slot = x
        /\ \A i \in DOMAIN h.seen : i \in DOMAIN h.rev
    BY DEF Tabled, Slotted
  <2> DEFINE y == h.devices[p].slot
  <2>2. y \in 1..Slots /\ h.fds[y] = id
    BY <2>1
  <2>3. t.fds = [h.fds EXCEPT ![y] = 0] /\ t.quiet = 0
    BY <2>1 DEF Without
  <2>14. Slots \in Nat
    BY ControllersAssumption
  <2>4. t.fds \in [1..Slots -> Int] /\ t.fds[y] = 0 /\ \A x \in 1..Slots : x # y => t.fds[x] = h.fds[x]
    <3> HIDE DEF y
    <3> QED
      BY <2>1, <2>2, <2>3, <2>14
  <2>5. \A x \in 1..Slots : t.fds[x] \in 0..(Slots + 1)
    <3>1. 0 \in 0..(Slots + 1)
      BY <2>14
    <3>2. \A x \in 1..Slots : h.fds[x] \in 0..(Slots + 1)
      BY <2>1
    <3> HIDE DEF y
    <3> QED
      BY <2>4, <3>1, <3>2
  <2>6. t.fds \in [1..Slots -> 0..(Slots + 1)]
    BY <2>4, <2>5
  <2>7. h.pads[p].kind # "xinput"
    BY <1>2 DEF Tabled, Shaped
  <2>8. \A i \in DOMAIN t.devices : t.devices[i].slot # y
    <3> TAKE i \in DOMAIN t.devices
    <3> SUFFICES ASSUME t.devices[i].slot = y PROVE FALSE
      OBVIOUS
    <3>1. i \in DOMAIN h.devices /\ i # p /\ h.devices[i].slot = y
      BY <1>1
    <3>2. h.devices[i].id = h.devices[p].id
      BY <2>1, <2>2, <3>1
    <3> QED
      BY <1>2, <3>1, <3>2
  <2>9. \A i \in DOMAIN t.devices :
             "slot" \in DOMAIN t.devices[i] /\ t.devices[i].slot \in 1..Slots /\ t.fds[t.devices[i].slot] = t.devices[i].id
             /\ t.devices[i].id # 0
    BY <1>1, <2>1, <2>4, <2>8
  <2>10. \A x \in 1..Slots : t.fds[x] # 0 => t.fds[x] \in DOMAIN t.rev /\ t.devices[t.rev[t.fds[x]]].slot = x
    <3> TAKE x \in 1..Slots
    <3> SUFFICES ASSUME t.fds[x] # 0 PROVE t.fds[x] \in DOMAIN t.rev /\ t.devices[t.rev[t.fds[x]]].slot = x
      OBVIOUS
    <3>1. x # y /\ t.fds[x] = h.fds[x] /\ h.fds[x] # 0
      BY <2>4
    <3>2. h.fds[x] \in DOMAIN h.rev /\ h.devices[h.rev[h.fds[x]]].slot = x
      BY <2>1, <3>1
    <3>3. h.fds[x] # id
      BY <1>2, <3>1, <3>2
    <3>4. h.fds[x] \in DOMAIN t.rev /\ t.rev[h.fds[x]] = h.rev[h.fds[x]] /\ h.rev[h.fds[x]] \in DOMAIN h.devices
          /\ h.devices[h.rev[h.fds[x]]].id = h.fds[x]
      BY <1>1, <1>2, <3>2, <3>3
    <3>5. h.rev[h.fds[x]] # p
      BY <3>3, <3>4
    <3> QED
      BY <1>1, <3>1, <3>2, <3>4, <3>5
  <2>11. \A i \in DOMAIN t.seen : i \in DOMAIN t.rev
    BY <1>1, <2>1, <2>7
  <2> QED
    BY <2>3, <2>6, <2>9, <2>10, <2>11 DEF Slotted
<1>8. /\ plat \in Quick => \A i \in DOMAIN t.devices : "st" \in DOMAIN t.devices[i] /\ Driving(t.pads[i].kind, t.devices[i])
      /\ \A i \in DOMAIN t.devices : t.pads[i].kind # "xinput" => t.devices[i].id \in DOMAIN t.seen
  <2>1. t.pads = h.pads
    BY DEF Without
  <2> QED
    BY <1>1, <1>2, <2>1 DEF Tabled
<1>9. t.odd = {}
  BY DEF Without, Tabled
<1>10. Fewer(h, p, t)
  BY <1>1 DEF Fewer, Without, Kept
<1> QED
  BY <1>3, <1>4, <1>5, <1>6, <1>7, <1>8, <1>9, <1>10 DEF Tabled

LEMMA InitMacWorks ==
  ASSUME NEW h, NEW A, NEW p \in DOMAIN h.devices, Tabled(h, {p}, A), plat \in Quick
  PROVE  Works(h, A, Mac!mty_hid_driver_init(h, p))
<1>1. /\ "st" \in DOMAIN h.devices[p] /\ "id" \in DOMAIN h.devices[p]
  BY DEF Tabled, Paired
<1>2. ASSUME NEW x, Driving(h.pads[p].kind, [h.devices[p] EXCEPT !.st = x])
      PROVE  Works(h, A, [h EXCEPT !.devices[p].st = x])
  <2> DEFINE d == [h.devices[p] EXCEPT !.st = x]
  <2>1. [h EXCEPT !.devices[p].st = x] = [h EXCEPT !.devices[p] = d]
    OBVIOUS
  <2>2. "id" \in DOMAIN d /\ d.id = h.devices[p].id /\ Driving(h.pads[p].kind, d)
    BY <1>1, <1>2
  <2> HIDE DEF d
  <2>3. Tabled([h EXCEPT !.devices[p] = d], {p} \ {p}, A) /\ Same(h, [h EXCEPT !.devices[p] = d])
    BY <2>2, StateTabled
  <2>4. {p} \ {p} = {} /\ [h EXCEPT !.devices[p] = d].seen = h.seen
    OBVIOUS
  <2> QED
    BY <2>1, <2>3, <2>4 DEF Works
<1>3. CASE h.pads[p].kind = "nx"
  <2> DEFINE k == [h EXCEPT !.devices[p].st = Mac!NxState]
  <2>1. Driving("nx", [h.devices[p] EXCEPT !.st = Mac!NxState])
    BY <1>1 DEF Driving, Mac!NxState
  <2>2. Works(h, A, k)
    BY <1>2, <1>3, <2>1
  <2>3. Mac!mty_hid_driver_init(h, p) = Mac!nx_write_hs(k, p, "init")
    BY <1>3 DEF Mac!mty_hid_driver_init, Mac!hid_driver, Mac!nx_init
  <2> HIDE DEF k
  <2>4. Tabled(k, {}, A) /\ p \in DOMAIN k.devices /\ k.pads[p].kind = "nx"
    <3>1. p \in DOMAIN h.pads
      BY DEF Tabled, Paired
    <3> QED
      BY <1>3, <2>2, <3>1 DEF Works, Same, Kept
  <2>5. Works(k, A, Mac!nx_write_hs(k, p, "init"))
    BY <2>4, NxWrites
  <2> QED
    BY <2>2, <2>3, <2>5, WorksOn
<1>4. CASE h.pads[p].kind = "xbox"
  <2>1. Driving("xbox", [h.devices[p] EXCEPT !.st = Mac!XboxState])
    BY <1>1 DEF Driving, Mac!XboxState
  <2>2. Works(h, A, [h EXCEPT !.devices[p].st = Mac!XboxState])
    BY <1>2, <1>4, <2>1
  <2> QED
    BY <1>4, <2>2 DEF Mac!mty_hid_driver_init, Mac!hid_driver, Mac!xbox_init
<1>5. CASE h.pads[p].kind \notin {"nx", "xbox"}
  <2>1. Tabled(h, {}, A)
    BY <1>5, Started
  <2>2. Works(h, A, h)
    BY <2>1, WorksStill
  <2>3. Works(h, A, Mac!mty_hid_device_write(h, p, 0, <<>>))
    BY <2>1, WriteMacWorks
  <2>4. Mac!mty_hid_driver_init(h, p) \in {h, Mac!mty_hid_device_write(h, p, 0, <<>>)}
    BY <1>5 DEF Mac!mty_hid_driver_init, Mac!hid_driver, Mac!ps4_init, Mac!ps5_init, Mac!ps4_rumble, Mac!ps5_rumble
  <2> QED
    BY <2>2, <2>3, <2>4
<1> QED
  BY <1>3, <1>4, <1>5

LEMMA ConnectMacTabled ==
  ASSUME NEW h, NEW p \in DOMAIN h.devices, Tabled(h, {p}, {p}), plat \in Quick,
         h.devices[p].id \notin DOMAIN h.seen
  PROVE  Tabled(Mac!app_hid_connect(h, p), {}, {}) /\ Same(h, Mac!app_hid_connect(h, p))
<1> DEFINE k == Mac!mty_hid_driver_init(h, p)
<1>1. Works(h, {p}, k)
  BY InitMacWorks
<1>2. Mac!app_hid_connect(h, p) = event_func(k, "CONNECT", h.devices[p].id, Mac!NoEvent)
  BY EventFuncsAre DEF Mac!app_hid_connect
<1> HIDE DEF k
<1>3. /\ Tabled(k, {}, {} \cup {p}) /\ p \in DOMAIN k.devices /\ k.devices[p].id = h.devices[p].id
      /\ k.devices[p].id \notin DOMAIN k.seen /\ Same(h, k)
  <2>1. {} \cup {p} = {p}
    OBVIOUS
  <2> QED
    BY <1>1, <2>1 DEF Works, Same
<1>4. \A c : /\ Tabled(event_func(k, "CONNECT", k.devices[p].id, c), {}, {})
             /\ Same(k, event_func(k, "CONNECT", k.devices[p].id, c))
  BY <1>3, ConnectTabled
<1> QED
  BY <1>2, <1>3, <1>4, SameKept

LEMMA ReportMacTabled ==
  ASSUME NEW h, NEW p \in DOMAIN h.devices, Tabled(h, {}, {}), plat \in Quick, h.pads[p].kind # "xinput", NEW r
  PROVE  Tabled(Mac!app_hid_report(h, p, r), {}, {}) /\ Same(h, Mac!app_hid_report(h, p, r))
<1> DEFINE d == Mac!mty_hid_driver_state(h, p, r)
           id == h.devices[p].id
<1>1. Works(h, {}, d.s)
  BY StateMacWorks
<1>2. Mac!app_hid_report(h, p, r) \in {d.s, Mac!Deduped(d.s, id, d.c)}
  <2> HIDE DEF d, id
  <2> QED
    BY DEF Mac!app_hid_report, Mac!Of, d, id
<1> HIDE DEF d
<1>3. Tabled(d.s, {}, {}) /\ Same(h, d.s) /\ d.s.seen = h.seen
  BY <1>1 DEF Works
<1>4. id \in DOMAIN d.s.seen
  BY <1>3 DEF Tabled
<1> HIDE DEF id
<1>5. Tells(d.s, id, Mac!Deduped(d.s, id, d.c))
  BY DedupedTells
<1>6. Tabled(Mac!Deduped(d.s, id, d.c), {}, {}) /\ Same(d.s, Mac!Deduped(d.s, id, d.c))
  BY <1>3, <1>4, <1>5, TellsTabled
<1> QED
  BY <1>2, <1>3, <1>6, SameKept

LEMMA HidRumbleMacWorks ==
  ASSUME NEW h, Tabled(h, {}, {}), plat \in Quick, NEW id, NEW v \in 0..1
  PROVE  Works(h, {}, Mac!HidRumble(h, id, v))
<1>1. CASE id \notin DOMAIN h.rev
  BY <1>1, WorksStill DEF Mac!HidRumble
<1>2. CASE id \in DOMAIN h.rev
  <2> DEFINE p == h.rev[id]
  <2>1. p \in DOMAIN h.devices /\ h.devices[p].id = id
    BY <1>2 DEF Tabled, Paired
  <2>2. Mac!HidRumble(h, id, v) = Mac!mty_hid_driver_rumble(h, p, v)
    BY <1>2, <2>1 DEF Mac!HidRumble
  <2> HIDE DEF p
  <2> QED
    BY <2>1, <2>2, RumbleMacWorks
<1> QED
  BY <1>1, <1>2

LEMMA InitWindowsWorks ==
  ASSUME NEW h, NEW A, NEW p \in DOMAIN h.devices, Tabled(h, {p}, A), plat \in Quick
  PROVE  Works(h, A, Windows!mty_hid_driver_init(h, p))
<1>1. /\ "st" \in DOMAIN h.devices[p] /\ "id" \in DOMAIN h.devices[p]
  BY DEF Tabled, Paired
<1>2. ASSUME NEW x, Driving(h.pads[p].kind, [h.devices[p] EXCEPT !.st = x])
      PROVE  Works(h, A, [h EXCEPT !.devices[p].st = x])
  <2> DEFINE d == [h.devices[p] EXCEPT !.st = x]
  <2>1. [h EXCEPT !.devices[p].st = x] = [h EXCEPT !.devices[p] = d]
    OBVIOUS
  <2>2. "id" \in DOMAIN d /\ d.id = h.devices[p].id /\ Driving(h.pads[p].kind, d)
    BY <1>1, <1>2
  <2> HIDE DEF d
  <2>3. Tabled([h EXCEPT !.devices[p] = d], {p} \ {p}, A) /\ Same(h, [h EXCEPT !.devices[p] = d])
    BY <2>2, StateTabled
  <2>4. {p} \ {p} = {} /\ [h EXCEPT !.devices[p] = d].seen = h.seen
    OBVIOUS
  <2> QED
    BY <2>1, <2>3, <2>4 DEF Works
<1>3. CASE h.pads[p].kind = "nx"
  <2> DEFINE k == [h EXCEPT !.devices[p].st = Windows!NxState]
  <2>1. Driving("nx", [h.devices[p] EXCEPT !.st = Windows!NxState])
    BY <1>1 DEF Driving, Windows!NxState
  <2>2. Works(h, A, k)
    BY <1>2, <1>3, <2>1
  <2>3. Windows!mty_hid_driver_init(h, p) = Windows!nx_write_hs(k, p, "init")
    BY <1>3 DEF Windows!mty_hid_driver_init, Windows!hid_driver, Windows!nx_init
  <2> HIDE DEF k
  <2>4. Tabled(k, {}, A) /\ p \in DOMAIN k.devices /\ k.pads[p].kind = "nx"
    <3>1. p \in DOMAIN h.pads
      BY DEF Tabled, Paired
    <3> QED
      BY <1>3, <2>2, <3>1 DEF Works, Same, Kept
  <2>5. Works(k, A, Windows!nx_write_hs(k, p, "init"))
    BY <2>4, NxWrites
  <2> QED
    BY <2>2, <2>3, <2>5, WorksOn
<1>4. CASE h.pads[p].kind = "xbox"
  <2>1. Driving("xbox", [h.devices[p] EXCEPT !.st = Windows!XboxState])
    BY <1>1 DEF Driving, Windows!XboxState
  <2>2. Works(h, A, [h EXCEPT !.devices[p].st = Windows!XboxState])
    BY <1>2, <1>4, <2>1
  <2> QED
    BY <1>4, <2>2 DEF Windows!mty_hid_driver_init, Windows!hid_driver, Windows!xbox_init
<1>5. CASE h.pads[p].kind \notin {"nx", "xbox"}
  <2>1. Tabled(h, {}, A)
    BY <1>5, Started
  <2>2. Works(h, A, h)
    BY <2>1, WorksStill
  <2>3. Works(h, A, Windows!mty_hid_device_write(h, p, 0, <<>>))
    BY <2>1, WriteWindowsWorks
  <2>4. Windows!mty_hid_driver_init(h, p) \in {h, Windows!mty_hid_device_write(h, p, 0, <<>>)}
    BY <1>5 DEF Windows!mty_hid_driver_init, Windows!hid_driver, Windows!ps4_init, Windows!ps5_init, Windows!ps4_rumble, Windows!ps5_rumble
  <2> QED
    BY <2>2, <2>3, <2>4
<1> QED
  BY <1>3, <1>4, <1>5

LEMMA ConnectWindowsTabled ==
  ASSUME NEW h, NEW p \in DOMAIN h.devices, Tabled(h, {p}, {p}), plat \in Quick,
         h.devices[p].id \notin DOMAIN h.seen
  PROVE  Tabled(Windows!app_hid_connect(h, p), {}, {}) /\ Same(h, Windows!app_hid_connect(h, p))
<1> DEFINE k == Windows!mty_hid_driver_init(h, p)
<1>1. Works(h, {p}, k)
  BY InitWindowsWorks
<1>2. Windows!app_hid_connect(h, p) = event_func(k, "CONNECT", h.devices[p].id, Windows!NoEvent)
  BY EventFuncsAre DEF Windows!app_hid_connect
<1> HIDE DEF k
<1>3. /\ Tabled(k, {}, {} \cup {p}) /\ p \in DOMAIN k.devices /\ k.devices[p].id = h.devices[p].id
      /\ k.devices[p].id \notin DOMAIN k.seen /\ Same(h, k)
  <2>1. {} \cup {p} = {p}
    OBVIOUS
  <2> QED
    BY <1>1, <2>1 DEF Works, Same
<1>4. \A c : /\ Tabled(event_func(k, "CONNECT", k.devices[p].id, c), {}, {})
             /\ Same(k, event_func(k, "CONNECT", k.devices[p].id, c))
  BY <1>3, ConnectTabled
<1> QED
  BY <1>2, <1>3, <1>4, SameKept

LEMMA ReportWindowsTabled ==
  ASSUME NEW h, NEW p \in DOMAIN h.devices, Tabled(h, {}, {}), plat \in Quick, h.pads[p].kind # "xinput", NEW r
  PROVE  Tabled(Windows!app_hid_report(h, p, r), {}, {}) /\ Same(h, Windows!app_hid_report(h, p, r))
<1> DEFINE d == Windows!mty_hid_driver_state(h, p, r)
           id == h.devices[p].id
<1>1. Works(h, {}, d.s)
  BY StateWindowsWorks
<1>2. Windows!app_hid_report(h, p, r) \in {d.s, Windows!Deduped(d.s, id, d.c)}
  <2> HIDE DEF d, id
  <2> QED
    BY DEF Windows!app_hid_report, Windows!Of, d, id
<1> HIDE DEF d
<1>3. Tabled(d.s, {}, {}) /\ Same(h, d.s) /\ d.s.seen = h.seen
  BY <1>1 DEF Works
<1>4. id \in DOMAIN d.s.seen
  BY <1>3 DEF Tabled
<1> HIDE DEF id
<1>5. Tells(d.s, id, Windows!Deduped(d.s, id, d.c))
  BY DedupedTells
<1>6. Tabled(Windows!Deduped(d.s, id, d.c), {}, {}) /\ Same(d.s, Windows!Deduped(d.s, id, d.c))
  BY <1>3, <1>4, <1>5, TellsTabled
<1> QED
  BY <1>2, <1>3, <1>6, SameKept

LEMMA HidRumbleWindowsWorks ==
  ASSUME NEW h, Tabled(h, {}, {}), plat \in Quick, NEW id, NEW v \in 0..1
  PROVE  Works(h, {}, Windows!HidRumble(h, id, v))
<1>1. CASE id \notin DOMAIN h.rev
  BY <1>1, WorksStill DEF Windows!HidRumble
<1>2. CASE id \in DOMAIN h.rev
  <2> DEFINE p == h.rev[id]
  <2>1. p \in DOMAIN h.devices /\ h.devices[p].id = id
    BY <1>2 DEF Tabled, Paired
  <2>2. Windows!HidRumble(h, id, v) = Windows!mty_hid_driver_rumble(h, p, v)
    BY <1>2, <2>1 DEF Windows!HidRumble
  <2> HIDE DEF p
  <2> QED
    BY <2>1, <2>2, RumbleWindowsWorks
<1> QED
  BY <1>1, <1>2

-----------------------------------------------------------------------------
(* Queues. *)

Listed(q) == \E S : q \in Seq(S)

\* Head, Tail and Append of a queue.
LEMMA TailListed ==
  ASSUME NEW q, Listed(q), q # <<>>
  PROVE  /\ Listed(Tail(q)) /\ Len(q) \in Nat /\ Len(Tail(q)) = Len(q) - 1 /\ Head(q) = q[1]
         /\ DOMAIN q = 1..Len(q) /\ DOMAIN Tail(q) = 1..Len(Tail(q)) /\ 1 \in DOMAIN q
         /\ \A k \in DOMAIN Tail(q) : Tail(q)[k] = q[k + 1] /\ k + 1 \in DOMAIN q
<1>1. PICK S : q \in Seq(S)
  BY DEF Listed
<1>2. Tail(q) \in Seq(S) /\ Len(q) \in Nat \ {0} /\ Len(Tail(q)) = Len(q) - 1 /\ Head(q) = q[1]
  BY <1>1
<1>3. DOMAIN q = 1..Len(q) /\ DOMAIN Tail(q) = 1..Len(Tail(q))
  BY <1>1, <1>2
<1>4. \A k \in 1..Len(Tail(q)) : Tail(q)[k] = q[k + 1] /\ k + 1 \in 1..Len(q)
  BY <1>1, <1>2
<1> QED
  BY <1>2, <1>3, <1>4 DEF Listed

LEMMA AppendListed ==
  ASSUME NEW q, Listed(q), NEW m
  PROVE  /\ Listed(Append(q, m)) /\ Len(q) \in Nat /\ Len(Append(q, m)) = Len(q) + 1
         /\ DOMAIN q = 1..Len(q) /\ DOMAIN Append(q, m) = 1..(Len(q) + 1)
         /\ \A k \in 1..Len(q) : Append(q, m)[k] = q[k]
         /\ Append(q, m)[Len(q) + 1] = m
<1>1. PICK S : q \in Seq(S)
  BY DEF Listed
<1>2. q \in Seq(S \cup {m}) /\ Len(q) \in Nat /\ DOMAIN q = 1..Len(q)
  BY <1>1
<1>3. Append(q, m) \in Seq(S \cup {m})
  BY <1>2
<1>4. Len(Append(q, m)) = Len(q) + 1 /\ \A k \in 1..Len(q) : Append(q, m)[k] = q[k]
  BY <1>2
<1>5. Append(q, m)[Len(q) + 1] = m /\ DOMAIN Append(q, m) = 1..(Len(q) + 1)
  BY <1>2, <1>3, <1>4
<1> QED
  BY <1>2, <1>3, <1>4, <1>5 DEF Listed

LEMMA EmptyListed == Listed(<<>>) /\ DOMAIN <<>> = {} /\ Len(<<>>) = 0
<1>1. <<>> \in Seq({})
  OBVIOUS
<1> QED
  BY <1>1 DEF Listed

\* Each message is of a controller.
Mailed(h) == Listed(h.q) /\ \A k \in DOMAIN h.q : h.q[k].p \in DOMAIN h.pads

-----------------------------------------------------------------------------
(* macOS. *)

\* A report finds its device, or makes it.
LEMMA MacReport ==
  ASSUME NEW h, Tabled(h, {}, {}), plat = "mac", NEW p \in DOMAIN h.pads, NEW r
  PROVE  Tabled(Mac!hid_report(h, p, r), {}, {}) /\ Kept(h, Mac!hid_report(h, p, r))
<1>1. plat \in Quick /\ h.pads[p].kind # "xinput"
  BY DEF Quick, Tabled, Shaped
<1> DEFINE t == Mac!HidDevice([h EXCEPT !.next = @ + 1], p, h.next)
           k == IF p \in DOMAIN h.devices THEN h ELSE Mac!app_hid_connect(t, p)
<1>2. Mac!hid_report(h, p, r) = Mac!app_hid_report(k, p, r)
  <2>1. Mac!hid_device_create(h, p) = t
    BY DEF Mac!hid_device_create
  <2>2. \A x : Mac!Of(x, LAMBDA u : Mac!app_hid_connect(u, p)) = Mac!app_hid_connect(x, p)
    BY DEF Mac!Of
  <2>3. \A x : Mac!Of(x, LAMBDA u : Mac!app_hid_report(u, p, r)) = Mac!app_hid_report(x, p, r)
    BY DEF Mac!Of
  <2> HIDE DEF t
  <2> QED
    BY <2>1, <2>2, <2>3 DEF Mac!hid_report
<1> HIDE DEF t
<1>3. Tabled(k, {}, {}) /\ Kept(h, k) /\ p \in DOMAIN k.devices
  <2>1. CASE p \in DOMAIN h.devices
    BY <2>1, SameKept
  <2>2. CASE p \notin DOMAIN h.devices
    <3>1. Tabled(t, {p}, {p}) /\ Newer(h, p, t)
      BY <1>1, <2>2, DeviceTabled DEF t
    <3>2. p \in DOMAIN t.devices /\ t.devices[p].id \notin DOMAIN t.seen
      BY <3>1 DEF Newer
    <3>3. Tabled(Mac!app_hid_connect(t, p), {}, {}) /\ Same(t, Mac!app_hid_connect(t, p))
      BY <1>1, <3>1, <3>2, ConnectMacTabled
    <3>4. Kept(h, t) /\ Kept(t, k) /\ p \in DOMAIN k.devices
      BY <2>2, <3>1, <3>2, <3>3 DEF Newer, Same
    <3> QED
      BY <2>2, <3>3, <3>4, SameKept
  <2> QED
    BY <2>1, <2>2
<1> HIDE DEF k
<1>4. k.pads[p].kind # "xinput"
  BY <1>1, <1>3 DEF Kept
<1>5. Tabled(Mac!app_hid_report(k, p, r), {}, {}) /\ Same(k, Mac!app_hid_report(k, p, r))
  BY <1>1, <1>3, <1>4, ReportMacTabled
<1> QED
  BY <1>2, <1>3, <1>5, SameKept

LEMMA MacDisconnect ==
  ASSUME NEW h, Tabled(h, {}, {}), plat = "mac", NEW p
  PROVE  Tabled(Mac!hid_disconnect(h, p), {}, {}) /\ Kept(h, Mac!hid_disconnect(h, p))
<1>1. CASE p \notin DOMAIN h.devices
  BY <1>1, SameKept DEF Mac!hid_disconnect
<1>2. CASE p \in DOMAIN h.devices
  <2> DEFINE id == h.devices[p].id
             k == [h EXCEPT !.devices = HashPop(@, p)]
             t == [event_func(k, "DISCONNECT", id, Mac!NoEvent) EXCEPT !.rev = HashPop(@, id)]
  <2>1. Mac!hid_disconnect(h, p) = t
    BY <1>2, HelpersAre, EventFuncsAre DEF Mac!hid_disconnect, Mac!app_hid_disconnect
  <2>2. h.pads[p].kind # "xinput" /\ id \in DOMAIN h.seen
    BY <1>2 DEF Tabled, Shaped, Paired
  <2>3. event_func(k, "DISCONNECT", id, Mac!NoEvent) = [k EXCEPT !.seen = HashPop(@, id)]
    <3>1. k.seen = h.seen /\ k.quiet = h.quiet
      OBVIOUS
    <3>2. h.quiet <= id /\ h.quiet = 0 /\ id \in Nat
      BY <1>2 DEF Tabled, Numbered, Paired, Quick
    <3> HIDE DEF k, id
    <3> QED
      BY <2>2, <3>1, <3>2 DEF event_func
  <2>4. Without(h, p, t)
    BY <2>3 DEF Without, Tabled, Shaped, Fields
  <2> HIDE DEF t
  <2>5. Tabled(t, {}, {}) /\ Fewer(h, p, t)
    BY <1>2, <2>4, WithoutTabled
  <2> QED
    BY <2>1, <2>5 DEF Fewer
<1> QED
  BY <1>1, <1>2

\* The run loop.
Follow(h, t) == /\ t.q = Tail(h.q) /\ t.app = h.app /\ t.focus = h.focus /\ DOMAIN t.pads = DOMAIN h.pads
                /\ \A p \in DOMAIN h.pads :
                     /\ t.pads[p].in = h.pads[p].in /\ t.pads[p].ready = h.pads[p].ready /\ t.pads[p].kind = h.pads[p].kind

LEMMA MacRun ==
  ASSUME NEW h, Tabled(h, {}, {}), Mailed(h), plat = "mac", NEW t \in Mac!AppRun(h)
  PROVE  Tabled(t, {}, {}) /\ h.q # <<>> /\ Follow(h, t)
<1> DEFINE k == [h EXCEPT !.q = Tail(@)]
           m == Head(h.q)
<1>1. h.q # <<>> /\ t \in {Mac!hid_report(k, m.p, m.r), Mac!hid_disconnect(k, m.p)}
  <2>1. PICK n \in Mac!First(h.q) : t = Mac!Of(k, LAMBDA u : IF n.what = "report" THEN Mac!hid_report(u, n.p, n.r) ELSE Mac!hid_disconnect(u, n.p))
    BY DEF Mac!AppRun
  <2>2. h.q # <<>> /\ n = m
    BY <2>1 DEF Mac!First
  <2> HIDE DEF k, m
  <2>3. Mac!Of(k, LAMBDA u : IF n.what = "report" THEN Mac!hid_report(u, n.p, n.r) ELSE Mac!hid_disconnect(u, n.p))
        \in {Mac!hid_report(k, n.p, n.r), Mac!hid_disconnect(k, n.p)}
    BY DEF Mac!Of
  <2>4. t \in {Mac!hid_report(k, n.p, n.r), Mac!hid_disconnect(k, n.p)}
    BY <2>1, <2>3
  <2> QED
    BY <2>2, <2>4
<1>2. Tabled(k, {}, {})
  BY OthersTabled
<1>3. k.pads = h.pads /\ k.q = Tail(h.q) /\ k.app = h.app /\ k.focus = h.focus /\ m.p \in DOMAIN h.pads
  <2>1. Head(h.q) = h.q[1] /\ 1 \in DOMAIN h.q
    BY <1>1, TailListed DEF Mailed
  <2>2. "q" \in DOMAIN h
    BY DEF Tabled, Shaped, Fields
  <2> QED
    BY <2>1, <2>2 DEF Mailed
<1> HIDE DEF k, m
<1>4. Tabled(t, {}, {}) /\ Kept(k, t)
  BY <1>1, <1>2, <1>3, MacReport, MacDisconnect
<1> QED
  BY <1>1, <1>3, <1>4 DEF Follow, Kept

-----------------------------------------------------------------------------
(* Windows. *)

Rowed(h) == \E n \in Nat : DOMAIN h.pads = 1..n

\* What Steps goes through: slots.
LEMMA RowIs ==
  ASSUME NEW n \in Nat
  PROVE  /\ Len([x \in 1..n |-> x]) = n /\ \A k \in 1..n : [x \in 1..n |-> x][k] = k
         /\ Len([x \in 1..n |-> x - 1]) = n /\ \A k \in 1..n : [x \in 1..n |-> x - 1][k] = k - 1
<1>1. [x \in 1..n |-> x] \in Seq(Nat) /\ [x \in 1..n |-> x - 1] \in Seq(Int)
  OBVIOUS
<1> QED
  BY <1>1

\* XInput's slots.

\* A slot's state.
LEMMA XipTabled ==
  ASSUME NEW h, Tabled(h, {}, {}), plat = "windows", NEW x \in DOMAIN h.pads, NEW d,
         {"disabled", "was_enabled", "packet"} \subseteq DOMAIN d, d.was_enabled = TRUE => h.pads[x].kind = "xinput"
  PROVE  Tabled([h EXCEPT !.xip[x] = d], {}, {}) /\ Same(h, [h EXCEPT !.xip[x] = d])
         /\ [h EXCEPT !.xip[x] = d].seen = h.seen
         /\ [h EXCEPT !.xip[x] = d].xip[x] = d
<1> DEFINE t == [h EXCEPT !.xip[x] = d]
<1>1. x \in DOMAIN h.xip
  BY DEF Tabled, Polled
<1>2. /\ Fields \subseteq DOMAIN t /\ t.pads = h.pads /\ t.devices = h.devices /\ t.rev = h.rev /\ t.odd = h.odd
      /\ t.next = h.next /\ t.quiet = h.quiet /\ t.fds = h.fds /\ t.app = h.app /\ t.seen = h.seen
      /\ t.q = h.q /\ t.focus = h.focus
      /\ DOMAIN t.xip = DOMAIN h.xip /\ t.xip[x] = d /\ \A y \in DOMAIN h.xip : y # x => t.xip[y] = h.xip[y]
  BY <1>1 DEF Tabled, Shaped, Fields
<1> HIDE DEF t
<1>3. Polled(t)
  BY <1>2 DEF Tabled, Polled
<1>4. Shaped(t) /\ Paired(t) /\ Numbered(t)
  BY <1>2 DEF Tabled, Shaped, Paired, Numbered, Quick
<1>5. Tabled(t, {}, {})
  BY <1>2, <1>3, <1>4 DEF Tabled
<1>6. Same(h, t)
  BY <1>2 DEF Same, Kept
<1> QED
  BY <1>2, <1>5, <1>6 DEF t

LEMMA XipGoneTabled ==
  ASSUME NEW h, Tabled(h, {}, {}), plat = "windows", NEW id \in 0..3
  PROVE  /\ Tabled(event_func(h, "DISCONNECT", id, Windows!NoEvent), {}, {})
         /\ Same(h, event_func(h, "DISCONNECT", id, Windows!NoEvent))
<1> DEFINE t == [h EXCEPT !.seen = HashPop(@, id)]
<1>1. event_func(h, "DISCONNECT", id, Windows!NoEvent) = t
  <2>1. id < h.quiet
    BY DEF Tabled, Numbered, Quick
  <2> QED
    BY <2>1 DEF event_func
<1>2. /\ Fields \subseteq DOMAIN t /\ t.pads = h.pads /\ t.devices = h.devices /\ t.rev = h.rev /\ t.odd = h.odd
      /\ t.next = h.next /\ t.quiet = h.quiet /\ t.fds = h.fds /\ t.app = h.app /\ t.xip = h.xip
      /\ t.q = h.q /\ t.focus = h.focus /\ t.seen = HashPop(h.seen, id)
  BY DEF Tabled, Shaped, Fields
<1> HIDE DEF t
<1>3. DOMAIN t.seen = DOMAIN h.seen \ {id}
  BY <1>2 DEF HashPop, Restrict
<1>4. Shaped(t) /\ Paired(t) /\ Polled(t)
  BY <1>2 DEF Tabled, Shaped, Paired, Polled
<1>5. Numbered(t)
  BY <1>2, <1>3 DEF Tabled, Numbered, Quick
<1>6. \A i \in DOMAIN t.devices : t.pads[i].kind # "xinput" => t.devices[i].id \in DOMAIN t.seen
  <2>1. \A i \in DOMAIN h.devices : h.devices[i].id # id
    BY DEF Tabled, Paired, Numbered, Quick
  <2> QED
    BY <1>2, <1>3, <2>1 DEF Tabled
<1>7. Tabled(t, {}, {})
  BY <1>2, <1>4, <1>5, <1>6 DEF Tabled
<1>8. Same(h, t)
  BY <1>2 DEF Same, Kept
<1> QED
  BY <1>1, <1>7, <1>8

LEMMA XipSlotTabled ==
  ASSUME NEW h, Tabled(h, {}, {}), plat = "windows", h.app = "alive", NEW x \in DOMAIN h.pads
  PROVE  Tabled(Windows!XipSlot(h, x), {}, {}) /\ Same(h, Windows!XipSlot(h, x))
<1> DEFINE d == h.xip[x]
           dt == [d EXCEPT !.was_enabled = TRUE]
           t == [h EXCEPT !.xip[x] = dt]
           dg == [d EXCEPT !.disabled = TRUE, !.was_enabled = FALSE]
           gone == [h EXCEPT !.xip[x] = dg]
           told == Windows!Deduped(t, x - 1, Windows!xip_to_mty(h.pads[x].pos))
           du == [told.xip[x] EXCEPT !.packet = h.pads[x].packet]
           u == [told EXCEPT !.xip[x] = du]
           left == event_func(gone, "DISCONNECT", x - 1, Windows!NoEvent)
<1>1. {"disabled", "was_enabled", "packet"} \subseteq DOMAIN d /\ (d.was_enabled = TRUE => h.pads[x].kind = "xinput")
  BY DEF Tabled, Polled
<1>2. \/ Windows!XipSlot(h, x) = h
      \/ h.pads[x].kind = "xinput" /\ Windows!XipSlot(h, x) \in {t, u}
      \/ d.was_enabled /\ Windows!XipSlot(h, x) = left
      \/ Windows!XipSlot(h, x) = gone
  <2>1. /\ [h EXCEPT !.xip[x].was_enabled = TRUE] = t
        /\ [h EXCEPT !.xip[x].disabled = TRUE, !.xip[x].was_enabled = FALSE] = gone
        /\ [told EXCEPT !.xip[x].packet = h.pads[x].packet] = u
    <3> HIDE DEF told
    <3> QED
      OBVIOUS
  <2>2. Windows!event_func(gone, "DISCONNECT", x - 1, Windows!NoEvent) = left
    BY EventFuncsAre
  <2>3. Windows!is_xinput(h, x) <=> h.pads[x].kind = "xinput"
    BY DEF Windows!is_xinput
  <2> DEFINE et == [h EXCEPT !.xip[x].was_enabled = TRUE]
             eg == [h EXCEPT !.xip[x].disabled = TRUE, !.xip[x].was_enabled = FALSE]
             eu == [Windows!Deduped(et, x - 1, Windows!xip_to_mty(h.pads[x].pos)) EXCEPT !.xip[x].packet = h.pads[x].packet]
             el == Windows!event_func(eg, "DISCONNECT", x - 1, Windows!NoEvent)
  <2>4. Windows!XipSlot(h, x) =
          CASE h.xip[x].disabled -> h
            [] ~h.xip[x].disabled /\ Windows!is_xinput(h, x) /\ h.pads[x].ready -> IF h.pads[x].packet = h.xip[x].packet THEN et ELSE eu
            [] OTHER -> IF h.xip[x].was_enabled THEN el ELSE eg
    BY DEF Windows!XipSlot
  <2>8. et = t /\ eg = gone
    BY <2>1
  <2> HIDE DEF et, eg, t, gone
  <2>9. eu = u /\ el = left
    <3>1. Windows!Deduped(et, x - 1, Windows!xip_to_mty(h.pads[x].pos)) = told
      BY <2>8
    <3> HIDE DEF told
    <3> QED
      BY <2>1, <2>2, <2>8, <3>1
  <2> HIDE DEF eu, el, told, u, left, d
  <2>5. CASE h.xip[x].disabled
    BY <2>4, <2>5
  <2>6. CASE ~h.xip[x].disabled /\ Windows!is_xinput(h, x) /\ h.pads[x].ready
    BY <2>3, <2>4, <2>6, <2>8, <2>9
  <2>7. CASE ~h.xip[x].disabled /\ ~(Windows!is_xinput(h, x) /\ h.pads[x].ready)
    BY <2>4, <2>7, <2>8, <2>9 DEF d
  <2> QED
    BY <2>5, <2>6, <2>7
<1>3. h.pads[x].kind = "xinput" => x \in 1..4
  BY DEF Tabled, Shaped
<1> HIDE DEF d
<1>4. Tabled(gone, {}, {}) /\ Same(h, gone)
  <2>1. {"disabled", "was_enabled", "packet"} \subseteq DOMAIN dg /\ dg.was_enabled # TRUE
    BY <1>1
  <2> HIDE DEF dg
  <2> QED
    BY <2>1, XipTabled
<1>5. ASSUME h.pads[x].kind = "xinput"
      PROVE  Tabled(t, {}, {}) /\ Same(h, t) /\ Tabled(u, {}, {}) /\ Same(h, u)
  <2>1. {"disabled", "was_enabled", "packet"} \subseteq DOMAIN dt
    BY <1>1
  <2> HIDE DEF dt
  <2>2. Tabled(t, {}, {}) /\ Same(h, t)
    BY <1>5, <2>1, XipTabled
  <2> HIDE DEF t
  <2>3. x - 1 \in 0..3 /\ t.app = "alive"
    BY <1>3, <1>5, <2>2 DEF Same, Kept
  <2>4. Tells(t, x - 1, told)
    BY DedupedTells
  <2> HIDE DEF told
  <2>5. Tabled(told, {}, {}) /\ Same(t, told)
    BY <2>2, <2>3, <2>4, TellsTabled
  <2>6. Same(h, told)
    BY <2>2, <2>5, SameKept
  <2>7. x \in DOMAIN told.pads /\ told.pads[x].kind = "xinput"
    BY <1>5, <2>6 DEF Same, Kept
  <2>8. {"disabled", "was_enabled", "packet"} \subseteq DOMAIN du
    BY <2>5, <2>7 DEF Tabled, Polled
  <2> HIDE DEF du
  <2>9. Tabled(u, {}, {}) /\ Same(told, u)
    BY <2>5, <2>7, <2>8, XipTabled
  <2> HIDE DEF u
  <2> QED
    BY <2>2, <2>6, <2>9, SameKept
<1> HIDE DEF gone
<1>6. ASSUME d.was_enabled
      PROVE  Tabled(left, {}, {}) /\ Same(h, left)
  <2>1. x - 1 \in 0..3
    BY <1>1, <1>3, <1>6
  <2>2. Tabled(left, {}, {}) /\ Same(gone, left)
    BY <1>4, <2>1, XipGoneTabled
  <2> QED
    BY <1>4, <2>2, SameKept
<1> HIDE DEF t, u, left
<1>7. Same(h, h)
  BY SameKept
<1> QED
  BY <1>2, <1>4, <1>5, <1>6, <1>7

LEMMA XipStateTabled ==
  ASSUME NEW h, Tabled(h, {}, {}), plat = "windows", h.app = "alive", Rowed(h)
  PROVE  Tabled(Windows!xip_state(h), {}, {}) /\ Same(h, Windows!xip_state(h))
<1>1. PICK n \in Nat : DOMAIN h.pads = 1..n
  BY DEF Rowed
<1> DEFINE seq == [x \in DOMAIN h.pads |-> x]
           after == After("xip", 0, h, seq, n)
           T == {k \in Nat : k <= n /\ ~(Tabled(after[k], {}, {}) /\ Same(h, after[k]))}
<1>2. Len(seq) = n /\ \A k \in 1..n : seq[k] = k
  BY <1>1, RowIs
<1>3. Windows!xip_state(h) = after[n]
  <2> DEFINE G(f) == [k \in 0..Len(seq) |-> IF k = 0 THEN h ELSE Windows!Of(f[k - 1], LAMBDA b : Windows!XipSlot(b, seq[k]))]
             F(f) == [k \in 0..n |-> IF k = 0 THEN h ELSE StepOf("xip", 0, f[k - 1], seq[k])]
  <2>1. Windows!xip_state(h) = (CHOOSE f : f = G(f))[Len(seq)]
    BY DEF Windows!xip_state, Windows!Steps
  <2> HIDE DEF seq
  <2>2. \A f : G(f) = F(f)
    BY <1>2 DEF Windows!Of, StepOf
  <2>3. Len(seq) = n
    BY <1>2
  <2>4. after = CHOOSE f : f = F(f)
    BY DEF After, Follows
  <2> HIDE DEF after
  <2>5. (CHOOSE f : f = G(f)) = (CHOOSE f : f = F(f))
    <3> HIDE DEF F, G
    <3> QED
      BY <2>2
  <2> QED
    BY <2>1, <2>3, <2>4, <2>5
<1> HIDE DEF seq
<1>4. \A k \in 0..n : after[k] = IF k = 0 THEN h ELSE StepOf("xip", 0, after[k - 1], seq[k])
  <2>1. Follows(after, "xip", 0, h, seq, n)
    BY FoldIs
  <2> HIDE DEF after
  <2> QED
    BY <2>1 DEF Follows
<1> HIDE DEF after
<1>5. 0 \notin T
  <2>1. 0 \in 0..n
    OBVIOUS
  <2>2. after[0] = h
    BY <1>4, <2>1
  <2> QED
    BY <2>2, SameKept
<1>6. ASSUME NEW k \in Nat, k \notin T PROVE k + 1 \notin T
  <2> SUFFICES ASSUME k + 1 <= n PROVE Tabled(after[k + 1], {}, {}) /\ Same(h, after[k + 1])
    OBVIOUS
  <2>1. Tabled(after[k], {}, {}) /\ Same(h, after[k])
    BY <1>6
  <2>2. k + 1 \in 1..n /\ k + 1 \in 0..n /\ k + 1 # 0 /\ (k + 1) - 1 = k
    OBVIOUS
  <2>3. k + 1 \in DOMAIN after[k].pads /\ after[k].app = "alive"
    BY <1>1, <2>1, <2>2 DEF Same, Kept
  <2>4. after[k + 1] = Windows!XipSlot(after[k], k + 1)
    BY <1>2, <1>4, <2>2 DEF StepOf
  <2>5. Tabled(Windows!XipSlot(after[k], k + 1), {}, {}) /\ Same(after[k], Windows!XipSlot(after[k], k + 1))
    BY <2>1, <2>3, XipSlotTabled
  <2> QED
    BY <2>1, <2>4, <2>5, SameKept
<1>7. T \subseteq Nat /\ \A k \in Nat : k + 1 \in T => k \in T
  BY <1>6
<1> HIDE DEF T
<1>8. T = {}
  BY <1>5, <1>7, Induction
<1>9. Tabled(after[n], {}, {}) /\ Same(h, after[n])
  BY <1>8 DEF T
<1> QED
  BY <1>3, <1>9

\* What a message does to the devices.
LEMMA ArriveTabled ==
  ASSUME NEW h, Tabled(h, {}, {}), plat = "windows", h.app = "alive", NEW p \in DOMAIN h.pads, p \notin DOMAIN h.devices
  PROVE  LET t == Windows!mty_hid_win32_device_change(h, "arrive", p)
         IN /\ Tabled(t, {}, {}) /\ Kept(h, t)
            /\ DOMAIN t.devices = IF Stale(h, p) THEN DOMAIN h.devices ELSE DOMAIN h.devices \cup {p}
<1> DEFINE k == Mac!HidDevice([h EXCEPT !.next = @ + 1], p, h.next)
           l == Windows!app_hid_connect(k, p)
           t == Windows!mty_hid_win32_device_change(h, "arrive", p)
<1>1. Tabled(k, {p}, {p}) /\ Newer(h, p, k) /\ Windows!HidDevice([h EXCEPT !.next = @ + 1], p, h.next) = k
  BY DeviceTabled DEF Quick
<1>2. t = IF Stale(h, p) THEN h ELSE IF h.pads[p].kind = "xinput" THEN k ELSE l
  <2>1. t = IF Stale(h, p) THEN h
            ELSE IF h.pads[p].kind = "xinput" THEN Windows!HidDevice([h EXCEPT !.next = @ + 1], p, h.next)
                 ELSE Windows!Of(Windows!HidDevice([h EXCEPT !.next = @ + 1], p, h.next), LAMBDA v : Windows!app_hid_connect(v, p))
    BY HelpersAre DEF Windows!mty_hid_win32_device_change, Windows!is_xinput
  <2> HIDE DEF k
  <2>2. Windows!Of(k, LAMBDA v : Windows!app_hid_connect(v, p)) = l
    BY DEF Windows!Of
  <2> QED
    BY <1>1, <2>1, <2>2
<1> HIDE DEF k, t
<1>3. Kept(h, k) /\ DOMAIN k.devices = DOMAIN h.devices \cup {p} /\ k.devices[p].id \notin DOMAIN k.seen /\ k.pads[p].kind = h.pads[p].kind
  BY <1>1 DEF Newer, Kept
<1>4. CASE h.pads[p].kind = "xinput"
  <2>1. Tabled(k, {p}, {}) /\ k.pads[p].kind = "xinput"
    BY <1>1, <1>3, <1>4, XinputSilent
  <2>2. Tabled(k, {}, {})
    BY <2>1, Started DEF Quick
  <2> QED
    BY <1>2, <1>3, <1>4, <2>2, SameKept DEF t
<1>5. CASE h.pads[p].kind # "xinput"
  <2>1. Tabled(l, {}, {}) /\ Same(k, l)
    BY <1>1, <1>3, ConnectWindowsTabled DEF Quick
  <2>2. Kept(h, l) /\ DOMAIN l.devices = DOMAIN h.devices \cup {p}
    BY <1>3, <2>1, SameKept DEF Same
  <2> QED
    BY <1>2, <1>5, <2>1, <2>2, SameKept DEF t
<1> QED
  BY <1>4, <1>5

LEMMA RemoveTabled ==
  ASSUME NEW h, Tabled(h, {}, {}), plat = "windows", NEW p, NEW what, what # "arrive"
  PROVE  LET t == Windows!mty_hid_win32_device_change(h, what, p)
         IN /\ Tabled(t, {}, {}) /\ Kept(h, t)
            /\ DOMAIN t.devices = IF what = "remove" THEN DOMAIN h.devices \ {p} ELSE DOMAIN h.devices
<1> DEFINE t == Windows!mty_hid_win32_device_change(h, what, p)
<1>1. CASE what # "remove" \/ p \notin DOMAIN h.devices
  <2>1. t = h
    BY <1>1 DEF Windows!mty_hid_win32_device_change
  <2> QED
    BY <1>1, <2>1, SameKept
<1>2. CASE what = "remove" /\ p \in DOMAIN h.devices
  <2> DEFINE id == h.devices[p].id
             k == [h EXCEPT !.devices = HashPop(@, p)]
             u == IF h.pads[p].kind = "xinput" THEN k ELSE event_func(k, "DISCONNECT", id, Windows!NoEvent)
             w == [u EXCEPT !.rev = HashPop(@, id)]
  <2>1. t = w
    BY <1>2, HelpersAre, EventFuncsAre DEF Windows!mty_hid_win32_device_change, Windows!app_hid_disconnect, Windows!is_xinput
  <2>2. h.pads[p].kind # "xinput" => id \in DOMAIN h.seen
    BY <1>2 DEF Tabled, Shaped, Paired
  <2>3. h.pads[p].kind # "xinput" => event_func(k, "DISCONNECT", id, Windows!NoEvent) = [k EXCEPT !.seen = HashPop(@, id)]
    <3>1. k.seen = h.seen /\ k.quiet = h.quiet
      OBVIOUS
    <3>2. h.quiet <= id /\ h.quiet = 4 /\ id \in Nat
      BY <1>2 DEF Tabled, Numbered, Paired, Quick
    <3> HIDE DEF k, id
    <3> QED
      BY <2>2, <3>1, <3>2 DEF event_func
  <2>4. Without(h, p, w)
    <3>1. CASE h.pads[p].kind = "xinput"
      BY <3>1 DEF Without, Tabled, Shaped, Fields
    <3>2. CASE h.pads[p].kind # "xinput"
      BY <2>3, <3>2 DEF Without, Tabled, Shaped, Fields
    <3> QED
      BY <3>1, <3>2
  <2> HIDE DEF w
  <2>5. Tabled(w, {}, {}) /\ Fewer(h, p, w)
    BY <1>2, <2>4, WithoutTabled
  <2> HIDE DEF t
  <2> QED
    BY <1>2, <2>1, <2>5 DEF Fewer, t
<1> QED
  BY <1>1, <1>2

LEMMA ArrivalTabled ==
  ASSUME NEW h, Tabled(h, {}, {}), plat = "windows"
  PROVE  Tabled(Windows!xip_device_arival(h), {}, {}) /\ Same(h, Windows!xip_device_arival(h))
<1> DEFINE t == [h EXCEPT !.xip = [x \in DOMAIN @ |-> [@[x] EXCEPT !.disabled = FALSE]]]
<1>1. Windows!xip_device_arival(h) = t
  BY DEF Windows!xip_device_arival
<1>2. /\ Fields \subseteq DOMAIN t /\ t.pads = h.pads /\ t.devices = h.devices /\ t.rev = h.rev /\ t.odd = h.odd
      /\ t.next = h.next /\ t.quiet = h.quiet /\ t.fds = h.fds /\ t.app = h.app /\ t.seen = h.seen
      /\ t.q = h.q /\ t.focus = h.focus
      /\ DOMAIN t.xip = DOMAIN h.xip /\ \A x \in DOMAIN h.xip : t.xip[x] = [h.xip[x] EXCEPT !.disabled = FALSE]
  BY DEF Tabled, Shaped, Fields
<1> HIDE DEF t
<1>3. Polled(t)
  <2>1. Polled(h)
    BY DEF Tabled
  <2>2. ASSUME NEW x \in DOMAIN t.xip
        PROVE  {"disabled", "was_enabled", "packet"} \subseteq DOMAIN t.xip[x] /\ t.xip[x].was_enabled = h.xip[x].was_enabled
    <3>1. t.xip[x] = [h.xip[x] EXCEPT !.disabled = FALSE]
      BY <1>2
    <3>2. {"disabled", "was_enabled", "packet"} \subseteq DOMAIN h.xip[x]
      BY <1>2, <2>1 DEF Polled
    <3> QED
      BY <3>1, <3>2
  <2> QED
    BY <1>2, <2>1, <2>2 DEF Polled
<1>4. Shaped(t) /\ Paired(t) /\ Numbered(t)
  BY <1>2 DEF Tabled, Shaped, Paired, Numbered, Quick
<1>5. Tabled(t, {}, {})
  BY <1>2, <1>3, <1>4 DEF Tabled
<1>6. Same(h, t)
  BY <1>2 DEF Same, Kept
<1> QED
  BY <1>1, <1>5, <1>6

\* Between two arrivals of a device is its removal, and of one that is gone it is yet to come.
Is(q, k, what, p) == q[k].what = what /\ q[k].p = p
Removed(q, p, i, j) == \E k \in i..j : Is(q, k, "remove", p)

InTurn(h, p) ==
  /\ \A k \in DOMAIN h.q : Is(h.q, k, "arrive", p) =>
       /\ p \in DOMAIN h.devices => Removed(h.q, p, 1, k - 1)
       /\ \A i \in 1..(k - 1) : Is(h.q, i, "arrive", p) => Removed(h.q, p, i + 1, k - 1)
  /\ ~h.pads[p].in \/ (~h.pads[p].ready /\ "unready" \notin Faults) =>
       /\ p \in DOMAIN h.devices => Removed(h.q, p, 1, Len(h.q))
       /\ \A i \in DOMAIN h.q : Is(h.q, i, "arrive", p) => Removed(h.q, p, i + 1, Len(h.q))
Ordered(h) == \A p \in DOMAIN h.pads : InTurn(h, p)

\* The first message is taken.
LEMMA OrderedTail ==
  ASSUME NEW h, Ordered(h), Listed(h.q), h.q # <<>>, NEW t, Follow(h, t),
         \A p \in DOMAIN h.pads : p \in DOMAIN t.devices =>
           \/ p \in DOMAIN h.devices /\ ~Is(h.q, 1, "remove", p)
           \/ Is(h.q, 1, "arrive", p) /\ ~Stale(t, p)
  PROVE  Ordered(t)
<1> SUFFICES ASSUME NEW p \in DOMAIN h.pads PROVE InTurn(t, p)
  BY DEF Ordered, Follow
<1> DEFINE q == h.q
           r == Tail(h.q)
           n == Len(q)
<1>1. /\ n \in Nat /\ Len(r) = n - 1 /\ DOMAIN q = 1..n /\ DOMAIN r = 1..(n - 1) /\ n >= 1
      /\ \A k \in 1..(n - 1) : r[k] = q[k + 1]
  BY TailListed
<1>2. /\ t.q = r /\ t.pads[p].in = h.pads[p].in /\ t.pads[p].ready = h.pads[p].ready
  BY DEF Follow
<1>3. InTurn(h, p)
  BY DEF Ordered
<1>4. p \in DOMAIN t.devices =>
           \/ p \in DOMAIN h.devices /\ ~Is(q, 1, "remove", p)
           \/ Is(q, 1, "arrive", p) /\ ~Stale(t, p)
  OBVIOUS
<1> HIDE DEF q, r, n
\* What is removed behind the first message.
<1>5. ASSUME NEW i \in 1..n, NEW j \in 0..n, Removed(q, p, i, j), i > 1 \/ ~Is(q, 1, "remove", p)
      PROVE  Removed(r, p, IF i > 1 THEN i - 1 ELSE 1, j - 1)
  <2>1. PICK k \in i..j : Is(q, k, "remove", p)
    BY <1>5 DEF Removed
  <2>2. k # 1 /\ k \in 2..n /\ k - 1 \in 1..(n - 1)
    BY <1>1, <1>5, <2>1
  <2>3. Is(r, k - 1, "remove", p)
    BY <1>1, <2>1, <2>2 DEF Is
  <2>4. k - 1 \in (IF i > 1 THEN i - 1 ELSE 1)..(j - 1)
    BY <1>1, <2>1, <2>2
  <2> QED
    BY <2>3, <2>4 DEF Removed
<1>6. CASE Is(q, 1, "arrive", p) /\ ~Stale(t, p)
  <2>1. ~\E k \in 1..(n - 1) : Is(r, k, "remove", p)
    BY <1>1, <1>2, <1>6 DEF Stale, Is
  <2>2. \A i, j \in Int : i >= 1 /\ j <= n - 1 => ~Removed(r, p, i, j)
    BY <1>1, <2>1 DEF Removed
  <2>3. \A k \in 1..(n - 1) : ~Is(r, k, "arrive", p)
    <3> SUFFICES ASSUME NEW k \in 1..(n - 1), Is(r, k, "arrive", p) PROVE FALSE
      OBVIOUS
    <3>1. k + 1 \in 1..n /\ Is(q, k + 1, "arrive", p) /\ 1 \in 1..((k + 1) - 1)
      BY <1>1 DEF Is
    <3>2. Removed(q, p, 2, k)
      <4>1. Removed(q, p, 1 + 1, (k + 1) - 1)
        BY <1>1, <1>3, <1>6, <3>1 DEF InTurn, q
      <4>2. 1 + 1 = 2 /\ (k + 1) - 1 = k
        OBVIOUS
      <4> QED
        BY <4>1, <4>2
    <3>3. Removed(r, p, 1, k - 1)
      <4>1. k \in 0..n /\ 2 \in 1..n /\ 2 > 1 /\ 2 - 1 = 1
        BY <1>1
      <4> QED
        BY <1>5, <3>2, <4>1
    <3> QED
      BY <1>1, <2>2, <3>3
  <2>4. t.pads[p].in /\ t.pads[p].in = h.pads[p].in
    BY <1>2, <1>6 DEF Stale
  <2>5. ~(~h.pads[p].ready /\ "unready" \notin Faults)
    <3> SUFFICES ASSUME ~h.pads[p].ready, "unready" \notin Faults PROVE FALSE
      OBVIOUS
    <3>1. Removed(q, p, 2, n)
      <4>1. 1 \in DOMAIN q /\ 1 + 1 = 2
        BY <1>1
      <4>2. Removed(q, p, 1 + 1, n)
        BY <1>3, <1>6, <4>1 DEF InTurn, q, n
      <4> QED
        BY <4>1, <4>2
    <3>2. 2 \in 1..n
      BY <1>1, <3>1 DEF Removed
    <3>3. Removed(r, p, 1, n - 1)
      <4>1. n \in 0..n /\ 2 > 1 /\ 2 - 1 = 1
        BY <1>1
      <4> QED
        BY <1>5, <3>1, <3>2, <4>1
    <3> QED
      BY <1>1, <2>2, <3>3
  <2> QED
    BY <1>1, <1>2, <2>3, <2>4, <2>5 DEF InTurn
<1>7. CASE ~(Is(q, 1, "arrive", p) /\ ~Stale(t, p))
  <2>1. p \in DOMAIN t.devices => p \in DOMAIN h.devices /\ ~Is(q, 1, "remove", p)
    BY <1>4, <1>7
  <2>2. ASSUME NEW k \in 1..(n - 1), Is(r, k, "arrive", p)
        PROVE  /\ p \in DOMAIN t.devices => Removed(r, p, 1, k - 1)
               /\ \A i \in 1..(k - 1) : Is(r, i, "arrive", p) => Removed(r, p, i + 1, k - 1)
    <3>1. k + 1 \in DOMAIN q /\ Is(q, k + 1, "arrive", p) /\ (k + 1) - 1 = k /\ k \in 0..n /\ 1 \in 1..n
      BY <1>1, <2>2 DEF Is
    <3>2. /\ p \in DOMAIN h.devices => Removed(q, p, 1, (k + 1) - 1)
          /\ \A i \in 1..((k + 1) - 1) : Is(q, i, "arrive", p) => Removed(q, p, i + 1, (k + 1) - 1)
      BY <1>3, <3>1 DEF InTurn, q
    <3>3. p \in DOMAIN t.devices => Removed(r, p, 1, k - 1)
      <4> SUFFICES ASSUME p \in DOMAIN t.devices PROVE Removed(r, p, 1, k - 1)
        OBVIOUS
      <4>1. Removed(q, p, 1, k) /\ ~Is(q, 1, "remove", p)
        BY <2>1, <3>1, <3>2
      <4>2. Removed(r, p, IF 1 > 1 THEN 1 - 1 ELSE 1, k - 1)
        BY <1>5, <3>1, <4>1
      <4> QED
        BY <4>2
    <3>4. ASSUME NEW i \in 1..(k - 1), Is(r, i, "arrive", p) PROVE Removed(r, p, i + 1, k - 1)
      <4>1. i + 1 \in 1..((k + 1) - 1) /\ Is(q, i + 1, "arrive", p)
        BY <1>1, <3>4 DEF Is
      <4>2. Removed(q, p, (i + 1) + 1, k)
        BY <3>1, <3>2, <4>1
      <4>3. (i + 1) + 1 \in 1..n /\ (i + 1) + 1 > 1 /\ ((i + 1) + 1) - 1 = i + 1
        BY <1>1
      <4>4. Removed(r, p, IF (i + 1) + 1 > 1 THEN ((i + 1) + 1) - 1 ELSE 1, k - 1)
        BY <1>5, <3>1, <4>2, <4>3
      <4> QED
        BY <4>3, <4>4
    <3> QED
      BY <3>3, <3>4
  <2>3. ASSUME ~h.pads[p].in \/ (~h.pads[p].ready /\ "unready" \notin Faults)
        PROVE  /\ p \in DOMAIN t.devices => Removed(r, p, 1, n - 1)
               /\ \A i \in 1..(n - 1) : Is(r, i, "arrive", p) => Removed(r, p, i + 1, n - 1)
    <3>1. /\ p \in DOMAIN h.devices => Removed(q, p, 1, n)
          /\ \A i \in 1..n : Is(q, i, "arrive", p) => Removed(q, p, i + 1, n)
      BY <1>1, <1>3, <2>3 DEF InTurn, q, n
    <3>2. n \in 0..n /\ 1 \in 1..n
      BY <1>1
    <3>3. p \in DOMAIN t.devices => Removed(r, p, 1, n - 1)
      <4> SUFFICES ASSUME p \in DOMAIN t.devices PROVE Removed(r, p, 1, n - 1)
        OBVIOUS
      <4>1. Removed(q, p, 1, n) /\ ~Is(q, 1, "remove", p)
        BY <2>1, <3>1
      <4>2. Removed(r, p, IF 1 > 1 THEN 1 - 1 ELSE 1, n - 1)
        BY <1>5, <3>2, <4>1
      <4> QED
        BY <4>2
    <3>4. ASSUME NEW i \in 1..(n - 1), Is(r, i, "arrive", p) PROVE Removed(r, p, i + 1, n - 1)
      <4>1. i + 1 \in 1..n /\ Is(q, i + 1, "arrive", p)
        BY <1>1, <3>4 DEF Is
      <4>2. Removed(q, p, (i + 1) + 1, n)
        BY <3>1, <4>1
      <4>3. (i + 1) + 1 \in 1..n /\ (i + 1) + 1 > 1 /\ ((i + 1) + 1) - 1 = i + 1
        BY <1>1, <4>2 DEF Removed
      <4>4. Removed(r, p, IF (i + 1) + 1 > 1 THEN ((i + 1) + 1) - 1 ELSE 1, n - 1)
        BY <1>5, <3>2, <4>2, <4>3
      <4> QED
        BY <4>3, <4>4
    <3> QED
      BY <3>3, <3>4
  <2> QED
    BY <1>1, <1>2, <2>2, <2>3 DEF InTurn
<1> QED
  BY <1>6, <1>7

\* A message.
LEMMA ProcTabled ==
  ASSUME NEW h, Tabled(h, {}, {}), plat = "windows", h.app = "alive", NEW m, m.p \in DOMAIN h.pads,
         m.what = "arrive" => m.p \notin DOMAIN h.devices
  PROVE  LET t == Windows!hwnd_proc(h, m)
         IN /\ Tabled(t, {}, {}) /\ Kept(h, t)
            /\ DOMAIN t.devices = CASE m.what = "arrive" -> IF Stale(h, m.p) THEN DOMAIN h.devices ELSE DOMAIN h.devices \cup {m.p}
                                    [] m.what = "remove" -> DOMAIN h.devices \ {m.p}
                                    [] OTHER -> DOMAIN h.devices
<1> DEFINE t == Windows!hwnd_proc(h, m)
<1>1. CASE m.what = "report"
  <2>1. CASE m.p \in DOMAIN h.devices /\ h.pads[m.p].kind # "xinput"
    <3>1. t = Windows!app_hid_report(h, m.p, m.r)
      BY <1>1, <2>1 DEF Windows!hwnd_proc, Windows!mty_hid_win32_report, Windows!is_xinput
    <3>2. Tabled(Windows!app_hid_report(h, m.p, m.r), {}, {}) /\ Same(h, Windows!app_hid_report(h, m.p, m.r))
      BY <2>1, ReportWindowsTabled DEF Quick
    <3> HIDE DEF t
    <3>3. Tabled(t, {}, {}) /\ Kept(h, t) /\ DOMAIN t.devices = DOMAIN h.devices
      BY <3>1, <3>2 DEF Same
    <3> QED
      BY <1>1, <3>3 DEF t
  <2>2. CASE ~(m.p \in DOMAIN h.devices /\ h.pads[m.p].kind # "xinput")
    <3>1. t = h
      BY <1>1, <2>2 DEF Windows!hwnd_proc, Windows!mty_hid_win32_report, Windows!is_xinput
    <3> QED
      BY <1>1, <3>1, SameKept
  <2> QED
    BY <2>1, <2>2
<1>2. CASE m.what = "arrive"
  <2> DEFINE k == Windows!xip_device_arival(h)
             u == Windows!mty_hid_win32_device_change(k, "arrive", m.p)
  <2>1. t = u
    BY <1>2 DEF Windows!hwnd_proc
  <2>2. Tabled(k, {}, {}) /\ Same(h, k)
    BY ArrivalTabled
  <2> HIDE DEF k, t
  <2>3. k.app = "alive" /\ m.p \in DOMAIN k.pads /\ m.p \notin DOMAIN k.devices
    BY <1>2, <2>2 DEF Same, Kept
  <2>4. /\ Tabled(u, {}, {}) /\ Kept(k, u)
        /\ DOMAIN u.devices = IF Stale(k, m.p) THEN DOMAIN k.devices ELSE DOMAIN k.devices \cup {m.p}
    BY <2>2, <2>3, ArriveTabled
  <2>5. Stale(k, m.p) <=> Stale(h, m.p)
    BY <2>2 DEF Stale, Same, Kept
  <2> HIDE DEF u
  <2>6. Kept(h, u)
    BY <2>2, <2>4, SameKept
  <2>7. DOMAIN u.devices = IF Stale(h, m.p) THEN DOMAIN h.devices ELSE DOMAIN h.devices \cup {m.p}
    BY <2>2, <2>4, <2>5 DEF Same
  <2> QED
    BY <1>2, <2>1, <2>4, <2>6, <2>7 DEF t
<1>3. CASE m.what # "report" /\ m.what # "arrive"
  <2> DEFINE u == Windows!mty_hid_win32_device_change(h, m.what, m.p)
  <2>1. t = u
    BY <1>3 DEF Windows!hwnd_proc
  <2>3. m.what # "arrive"
    BY <1>3
  <2>4. /\ Tabled(u, {}, {}) /\ Kept(h, u)
        /\ DOMAIN u.devices = IF m.what = "remove" THEN DOMAIN h.devices \ {m.p} ELSE DOMAIN h.devices
    BY <2>3, RemoveTabled
  <2> HIDE DEF t, u
  <2>2. /\ Tabled(t, {}, {}) /\ Kept(h, t)
        /\ DOMAIN t.devices = IF m.what = "remove" THEN DOMAIN h.devices \ {m.p} ELSE DOMAIN h.devices
    BY <2>1, <2>4
  <2> QED
    BY <1>3, <2>2 DEF t
<1> QED
  BY <1>1, <1>2, <1>3

\* Devices and messages are what they were.
LEMMA SameOrdered ==
  ASSUME NEW h, NEW t, Ordered(h), Same(h, t)
  PROVE  Ordered(t)
<1> SUFFICES ASSUME NEW p \in DOMAIN h.pads PROVE InTurn(t, p)
  BY DEF Ordered, Same, Kept
<1>1. /\ t.q = h.q /\ t.pads[p].in = h.pads[p].in /\ t.pads[p].ready = h.pads[p].ready
      /\ DOMAIN t.devices = DOMAIN h.devices
  BY DEF Same, Kept
<1>2. InTurn(h, p)
  BY DEF Ordered
<1> QED
  BY <1>1, <1>2 DEF InTurn

\* One turn of the loop of Windows.
LEMMA WindowsRun ==
  ASSUME NEW h, Tabled(h, {}, {}), Mailed(h), Rowed(h), Ordered(h), plat = "windows", h.app = "alive", NEW t \in Windows!AppRun(h)
  PROVE  Tabled(t, {}, {}) /\ Ordered(t) /\ (Kept(h, t) \/ (h.q # <<>> /\ Follow(h, t)))
<1> DEFINE k == IF h.focus THEN Windows!xip_state(h) ELSE h
           u == [k EXCEPT !.q = Tail(@)]
           m == Head(k.q)
           w == Windows!hwnd_proc(u, m)
<1>1. t = IF k.q = <<>> THEN k ELSE w
  <2> DEFINE Message(y) == IF y.q = <<>> THEN y ELSE Windows!Of([y EXCEPT !.q = Tail(@)], LAMBDA v : Windows!hwnd_proc(v, Head(y.q)))
  <2>1. t = Windows!Of(k, Message)
    BY DEF Windows!AppRun
  <2> HIDE DEF k
  <2>2. Windows!Of(u, LAMBDA v : Windows!hwnd_proc(v, Head(k.q))) = w
    <3> HIDE DEF u
    <3> QED
      BY DEF Windows!Of
  <2>3. Windows!Of(k, Message) = Message(k)
    <3> HIDE DEF Message
    <3> QED
      BY DEF Windows!Of
  <2> HIDE DEF w, u
  <2> QED
    BY <2>1, <2>2, <2>3 DEF u
<1>2. Tabled(k, {}, {}) /\ Same(h, k)
  <2>1. Same(h, h)
    BY SameKept
  <2> QED
    BY <2>1, XipStateTabled
<1> HIDE DEF k
<1>3. k.q = h.q /\ Ordered(k) /\ k.app = "alive" /\ Mailed(k)
  <2>1. Ordered(k)
    BY <1>2, SameOrdered
  <2> QED
    BY <1>2, <2>1 DEF Same, Kept, Mailed
<1>4. CASE k.q = <<>>
  BY <1>1, <1>2, <1>3, <1>4 DEF Same
<1>5. CASE k.q # <<>>
  <2>1. /\ Listed(k.q) /\ m = k.q[1] /\ 1 \in DOMAIN k.q /\ m.p \in DOMAIN k.pads
    BY <1>3, <1>5, TailListed DEF Mailed
  <2>2. Tabled(u, {}, {})
    BY <1>2, OthersTabled
  <2>3. u.pads = k.pads /\ u.devices = k.devices /\ u.app = k.app /\ u.focus = k.focus /\ u.q = Tail(k.q)
    BY <1>2 DEF Tabled, Shaped, Fields
  <2> HIDE DEF u
  <2>4. m.what = "arrive" => m.p \notin DOMAIN u.devices
    <3> SUFFICES ASSUME m.what = "arrive", m.p \in DOMAIN k.devices PROVE FALSE
      BY <2>3
    <3>1. InTurn(k, m.p) /\ Is(k.q, 1, "arrive", m.p)
      BY <1>3, <2>1 DEF Ordered, Is
    <3>2. Removed(k.q, m.p, 1, 1 - 1)
      BY <2>1, <3>1 DEF InTurn
    <3> QED
      BY <3>2 DEF Removed
  <2> HIDE DEF m
  <2>5. /\ Tabled(w, {}, {}) /\ Kept(u, w)
        /\ DOMAIN w.devices = CASE m.what = "arrive" -> IF Stale(u, m.p) THEN DOMAIN u.devices ELSE DOMAIN u.devices \cup {m.p}
                                    [] m.what = "remove" -> DOMAIN u.devices \ {m.p}
                                    [] OTHER -> DOMAIN u.devices
    <3>1. m.p \in DOMAIN u.pads /\ u.app = "alive"
      BY <1>3, <2>1, <2>3
    <3> QED
      BY <2>2, <2>4, <3>1, ProcTabled
  <2> HIDE DEF w
  <2>6. Follow(k, w)
    BY <2>3, <2>5 DEF Follow, Kept
  <2>7. \A p \in DOMAIN k.pads : p \in DOMAIN w.devices =>
           \/ p \in DOMAIN k.devices /\ ~Is(k.q, 1, "remove", p)
           \/ Is(k.q, 1, "arrive", p) /\ ~Stale(w, p)
    <3> TAKE p \in DOMAIN k.pads
    <3> SUFFICES ASSUME p \in DOMAIN w.devices
                 PROVE \/ p \in DOMAIN k.devices /\ ~Is(k.q, 1, "remove", p)
                       \/ Is(k.q, 1, "arrive", p) /\ ~Stale(w, p)
      OBVIOUS
    <3>1. Stale(w, p) <=> Stale(u, p)
      BY <2>3, <2>5 DEF Stale, Kept
    <3>2. CASE m.what = "arrive"
      <4>1. DOMAIN w.devices = IF Stale(u, m.p) THEN DOMAIN u.devices ELSE DOMAIN u.devices \cup {m.p}
        BY <2>5, <3>2
      <4>2. p \in DOMAIN k.devices \/ (p = m.p /\ ~Stale(u, p))
        BY <2>3, <4>1
      <4>3. ~Is(k.q, 1, "remove", p) /\ (p = m.p => Is(k.q, 1, "arrive", p))
        BY <2>1, <3>2 DEF Is
      <4> QED
        BY <3>1, <4>2, <4>3
    <3>3. CASE m.what = "remove"
      <4>1. p \in DOMAIN u.devices \ {m.p}
        BY <2>5, <3>3
      <4> QED
        BY <2>1, <2>3, <4>1 DEF Is
    <3>4. CASE m.what # "arrive" /\ m.what # "remove"
      <4>1. p \in DOMAIN u.devices
        BY <2>5, <3>4
      <4> QED
        BY <2>1, <2>3, <3>4, <4>1 DEF Is
    <3> QED
      BY <3>2, <3>3, <3>4
  <2>8. Ordered(w)
    BY <1>3, <1>5, <2>1, <2>6, <2>7, OrderedTail
  <2>9. Follow(h, w)
    BY <1>2, <2>6 DEF Follow, Same, Kept
  <2> QED
    BY <1>1, <1>3, <1>5, <2>5, <2>8, <2>9
<1> QED
  BY <1>4, <1>5

-----------------------------------------------------------------------------
(* Linux. *)

\* There are more numbers than slots.
LEMMA LowestFdIs ==
  ASSUME NEW h, h.fds \in [1..Slots -> 0..(Slots + 1)]
  PROVE  X11!LowestFd(h) \in 1..(Slots + 1) /\ \A x \in 1..Slots : h.fds[x] # X11!LowestFd(h)
<1> DEFINE T == {fd \in 1..(Slots + 1) : \A x \in 1..Slots : h.fds[x] # fd}
           F == h.fds
<1>0. Slots \in Nat
  BY ControllersAssumption
<1>1. T # {}
  <2> SUFFICES ASSUME \A fd \in 1..(Slots + 1) : \E x \in 1..Slots : F[x] = fd PROVE FALSE
    OBVIOUS
  <2> DEFINE g == [fd \in 1..(Slots + 1) |-> CHOOSE x \in 1..Slots : F[x] = fd]
  <2> HIDE DEF F
  <2>1. \A fd \in 1..(Slots + 1) : g[fd] \in 1..Slots /\ F[g[fd]] = fd
    OBVIOUS
  <2>2. g \in [1..(Slots + 1) -> 1..Slots]
    BY <2>1
  <2> HIDE DEF g
  <2>3. /\ IsFiniteSet(1..(Slots + 1)) /\ Cardinality(1..(Slots + 1)) = Slots + 1
        /\ IsFiniteSet(1..Slots) /\ Cardinality(1..Slots) = Slots
    <3>1. ASSUME NEW n \in Nat PROVE IsFiniteSet(1..n) /\ Cardinality(1..n) = n
      <4>1. IsFiniteSet(1..n) /\ Cardinality(1..n) = IF 1 > n THEN 0 ELSE n - 1 + 1
        <5>1. 1 \in Int /\ n \in Int
          OBVIOUS
        <5> QED
          BY <5>1, FS_Interval
      <4>2. (IF 1 > n THEN 0 ELSE n - 1 + 1) = n
        OBVIOUS
      <4> QED
        BY <4>1, <4>2
    <3>2. Slots + 1 \in Nat
      BY <1>0
    <3> QED
      BY <1>0, <3>1, <3>2
  <2>5. \E x, y \in 1..(Slots + 1) : x # y /\ g[x] = g[y]
    <3> DEFINE U == 1..(Slots + 1)
               V == 1..Slots
    <3>1. Cardinality(V) < Cardinality(U)
      BY <1>0, <2>3
    <3>2. IsFiniteSet(U) /\ IsFiniteSet(V) /\ g \in [U -> V]
      BY <2>2, <2>3
    <3> HIDE DEF U, V
    <3>3. \E x, y \in U : x # y /\ g[x] = g[y]
      BY <3>1, <3>2, FS_PigeonHole
    <3> QED
      BY <3>3 DEF U
  <2> QED
    BY <2>1, <2>5
<1>2. PICK m \in T : \A k \in T : m <= k
  <2>1. T \subseteq Nat
    BY <1>0
  <2> HIDE DEF T
  <2> QED
    BY <1>1, <2>1, Least
<1>3. X11!Range(F) = {F[x] : x \in 1..Slots}
  BY DEF X11!Range
<1>4. \A n \in 1..(m - 1) : n \in X11!Range(F)
  <2> TAKE n \in 1..(m - 1)
  <2>0. m \in Nat /\ m <= Slots + 1
    BY <1>0, <1>2
  <2>1. n \in 1..(Slots + 1) /\ n \notin T
    <3>1. n \in 1..(Slots + 1) /\ ~(m <= n)
      BY <1>0, <2>0
    <3> HIDE DEF T
    <3> QED
      BY <1>2, <3>1
  <2> HIDE DEF F
  <2> QED
    BY <1>3, <2>1 DEF F
<1>5. m \in 1..(Slots + 1) /\ m \notin X11!Range(F)
  BY <1>2, <1>3
<1>6. /\ X11!LowestFd(h) \in 1..(Slots + 1)
      /\ X11!LowestFd(h) \notin X11!Range(F)
  BY <1>4, <1>5 DEF X11!LowestFd
<1> QED
  BY <1>3, <1>6

\* A device that is read, moved or made to rumble stays the one it is.
Alike(h, t) ==
  /\ Fields \subseteq DOMAIN t /\ t.rev = h.rev /\ t.odd = h.odd /\ t.quiet = h.quiet /\ t.fds = h.fds
  /\ t.app = h.app /\ t.seen = h.seen /\ t.q = h.q /\ t.focus = h.focus
  /\ DOMAIN t.devices = DOMAIN h.devices /\ DOMAIN t.pads = DOMAIN h.pads
  /\ \A p \in DOMAIN h.devices :
       /\ {"id", "slot"} \subseteq DOMAIN t.devices[p]
       /\ t.devices[p].id = h.devices[p].id /\ t.devices[p].slot = h.devices[p].slot
  /\ \A p \in DOMAIN h.pads :
       /\ PadFields \subseteq DOMAIN t.pads[p]
       /\ t.pads[p].in = h.pads[p].in /\ t.pads[p].ready = h.pads[p].ready /\ t.pads[p].kind = h.pads[p].kind
       /\ t.pads[p].want = h.pads[p].want /\ t.pads[p].motor \in 0..1

LEMMA AlikeTabled ==
  ASSUME NEW h, Tabled(h, {}, {}), plat = "x11", NEW t, Alike(h, t)
  PROVE  Tabled(t, {}, {}) /\ Same(h, t)
<1>1. Shaped(t)
  BY DEF Alike, Tabled, Shaped, Quick
<1>2. Paired(t)
  BY DEF Alike, Tabled, Paired
<1>3. Slotted(t)
  <2>1. Slotted(h) /\ Paired(h)
    BY DEF Tabled
  <2>2. \A p \in DOMAIN t.devices :
          "slot" \in DOMAIN t.devices[p] /\ t.devices[p].slot \in 1..Slots /\ t.fds[t.devices[p].slot] = t.devices[p].id
          /\ t.devices[p].id # 0
    BY <2>1 DEF Alike, Slotted
  <2>3. \A x \in 1..Slots : t.fds[x] # 0 => t.fds[x] \in DOMAIN t.rev /\ t.devices[t.rev[t.fds[x]]].slot = x
    BY <2>1 DEF Alike, Slotted, Paired
  <2>4. \A id \in DOMAIN t.seen : id \in DOMAIN t.rev
    BY <2>1 DEF Alike, Slotted
  <2>5. t.quiet = 0 /\ t.fds \in [1..Slots -> 0..(Slots + 1)]
    BY <2>1 DEF Alike, Slotted
  <2> QED
    BY <2>2, <2>3, <2>4, <2>5 DEF Slotted
<1>4. \A p \in DOMAIN t.devices : t.pads[p].kind # "xinput" => t.devices[p].id \in DOMAIN t.seen
  BY DEF Alike, Tabled, Paired
<1>5. Tabled(t, {}, {})
  BY <1>1, <1>2, <1>3, <1>4 DEF Tabled, Alike, Quick
<1>6. Same(h, t)
  BY DEF Alike, Same, Kept
<1> QED
  BY <1>5, <1>6

\* A device gets a slot, and the table of slots its id.
LEMMA AddTabled ==
  ASSUME NEW h, Tabled(h, {}, {}), plat = "x11", NEW p \in DOMAIN h.pads
  PROVE  Tabled(X11!evdev_device_add(h, p), {}, {}) /\ Kept(h, X11!evdev_device_add(h, p))
<1> DEFINE slot == CHOOSE x \in X11!evdev_find_slot(h) : TRUE
           d == X11!NewDevice(h, p, slot)
           k == [h EXCEPT !.fds[slot] = d.id, !.devices = HashSet(@, p, d), !.rev = HashSet(@, d.id, p)]
           t == X11!evdev_device_add(h, p)
<1>1. CASE p \in DOMAIN h.devices \/ X11!evdev_find_slot(h) = {} \/ ~h.pads[p].in
  <2>1. t = h
    BY <1>1 DEF X11!evdev_device_add
  <2> QED
    BY <2>1, SameKept
<1>2. CASE ~(p \in DOMAIN h.devices \/ X11!evdev_find_slot(h) = {} \/ ~h.pads[p].in)
  <2>1. \E c : t = event_func(k, "CONNECT", d.id, c)
    BY <1>2, HelpersAre, EventFuncsAre DEF X11!evdev_device_add, X11!app_evdev_connect
  <2>2. slot \in 1..Slots /\ h.fds[slot] = 0
    BY <1>2 DEF X11!evdev_find_slot
  <2> DEFINE id == X11!LowestFd(h)
  <2>3. d.id = id /\ d.slot = slot /\ {"id", "slot"} \subseteq DOMAIN d
    <3> HIDE DEF slot, id
    <3> QED
      BY DEF X11!NewDevice, id
  <2>4. Slotted(h) /\ Paired(h) /\ Shaped(h) /\ Slots \in Nat
    BY ControllersAssumption DEF Tabled
  <2>5. id \in 1..(Slots + 1) /\ \A x \in 1..Slots : h.fds[x] # id
    BY <2>4, LowestFdIs DEF Slotted
  <2> HIDE DEF slot, d, id, t
  <2>6. id \notin DOMAIN h.rev /\ id \notin DOMAIN h.seen
    <3>1. ASSUME id \in DOMAIN h.rev PROVE FALSE
      <4>1. h.rev[id] \in DOMAIN h.devices /\ h.devices[h.rev[id]].id = id
        BY <2>4, <3>1 DEF Paired
      <4>2. h.devices[h.rev[id]].slot \in 1..Slots /\ h.fds[h.devices[h.rev[id]].slot] = id
        BY <2>4, <4>1 DEF Slotted
      <4> QED
        BY <2>5, <4>2
    <3> QED
      BY <2>4, <3>1 DEF Slotted
  <2>7. /\ Fields \subseteq DOMAIN k /\ k.pads = h.pads /\ k.odd = h.odd /\ k.quiet = h.quiet
        /\ k.app = h.app /\ k.seen = h.seen /\ k.q = h.q /\ k.focus = h.focus
        /\ k.fds = [h.fds EXCEPT ![slot] = id]
        /\ k.devices = HashSet(h.devices, p, d) /\ k.rev = HashSet(h.rev, id, p)
    BY <2>3, <2>4 DEF Shaped, Fields
  <2> HIDE DEF k
  <2>8. /\ DOMAIN k.devices = DOMAIN h.devices \cup {p} /\ k.devices[p] = d
        /\ \A i \in DOMAIN h.devices : i # p => k.devices[i] = h.devices[i]
    BY <2>7 DEF HashSet
  <2>9. /\ DOMAIN k.rev = DOMAIN h.rev \cup {id} /\ k.rev[id] = p
        /\ \A i \in DOMAIN h.rev : i # id => k.rev[i] = h.rev[i]
        /\ k.rev = [i \in DOMAIN k.rev |-> k.rev[i]]
    BY <2>7 DEF HashSet
  <2>10. k.fds \in [1..Slots -> 0..(Slots + 1)] /\ k.fds[slot] = id /\ \A x \in 1..Slots : x # slot => k.fds[x] = h.fds[x]
    <3>1. h.fds \in [1..Slots -> 0..(Slots + 1)] /\ id \in 0..(Slots + 1)
      BY <2>4, <2>5 DEF Slotted
    <3> QED
      BY <2>2, <2>7, <3>1
  <2>11. Paired(k)
    BY <1>2, <2>3, <2>4, <2>6, <2>7, <2>8, <2>9 DEF Paired
  <2>12. Slotted(k)
    <3>1. \A i \in DOMAIN k.devices :
            "slot" \in DOMAIN k.devices[i] /\ k.devices[i].slot \in 1..Slots /\ k.fds[k.devices[i].slot] = k.devices[i].id
            /\ k.devices[i].id # 0
      <4> TAKE i \in DOMAIN k.devices
      <4>1. CASE i = p
        BY <2>2, <2>3, <2>5, <2>8, <2>10, <4>1
      <4>2. CASE i # p
        <5>1. i \in DOMAIN h.devices /\ k.devices[i] = h.devices[i]
          BY <2>8, <4>2
        <5>2. "slot" \in DOMAIN h.devices[i] /\ h.devices[i].slot \in 1..Slots /\ h.fds[h.devices[i].slot] = h.devices[i].id
              /\ h.devices[i].id # 0
          BY <2>4, <5>1 DEF Slotted
        <5>3. h.devices[i].slot # slot
          BY <2>2, <5>2
        <5> QED
          BY <2>10, <5>1, <5>2, <5>3
      <4> QED
        BY <4>1, <4>2
    <3>2. \A x \in 1..Slots : k.fds[x] # 0 => k.fds[x] \in DOMAIN k.rev /\ k.devices[k.rev[k.fds[x]]].slot = x
      <4> TAKE x \in 1..Slots
      <4>1. CASE x = slot
        BY <2>3, <2>8, <2>9, <2>10, <4>1
      <4>2. CASE x # slot
        <5> SUFFICES ASSUME h.fds[x] # 0 PROVE h.fds[x] \in DOMAIN k.rev /\ k.devices[k.rev[h.fds[x]]].slot = x
          BY <2>10, <4>2
        <5>1. h.fds[x] \in DOMAIN h.rev /\ h.devices[h.rev[h.fds[x]]].slot = x /\ h.rev[h.fds[x]] \in DOMAIN h.devices
          BY <2>4 DEF Slotted, Paired
        <5>2. h.fds[x] # id /\ h.rev[h.fds[x]] # p
          BY <1>2, <2>5, <5>1
        <5> QED
          BY <2>8, <2>9, <5>1, <5>2
      <4> QED
        BY <4>1, <4>2
    <3>3. \A i \in DOMAIN k.seen : i \in DOMAIN k.rev
      BY <2>4, <2>7, <2>9 DEF Slotted
    <3> QED
      BY <2>4, <2>7, <2>10, <3>1, <3>2, <3>3 DEF Slotted
  <2>13. Tabled(k, {}, {} \cup {p})
    <3>1. Shaped(k)
      BY <2>4, <2>7 DEF Shaped
    <3>2. \A i \in DOMAIN k.devices \ ({} \cup {p}) : k.pads[i].kind # "xinput" => k.devices[i].id \in DOMAIN k.seen
      BY <2>7, <2>8 DEF Tabled
    <3> QED
      BY <2>7, <2>11, <2>12, <3>1, <3>2 DEF Tabled, Quick
  <2>14. p \in DOMAIN k.devices /\ k.devices[p].id = id /\ id \notin DOMAIN k.seen
    BY <2>3, <2>6, <2>7, <2>8
  <2>15. \A c : Tabled(event_func(k, "CONNECT", k.devices[p].id, c), {}, {}) /\ Same(k, event_func(k, "CONNECT", k.devices[p].id, c))
    BY <2>13, <2>14, ConnectTabled
  <2>16. Kept(h, k)
    BY <2>7 DEF Kept
  <2>17. Tabled(t, {}, {}) /\ Same(k, t)
    BY <2>1, <2>3, <2>14, <2>15
  <2> QED
    BY <2>16, <2>17, SameKept DEF t
<1> QED
  BY <1>1, <1>2

\* It gives both back.
LEMMA X11RemoveTabled ==
  ASSUME NEW h, Tabled(h, {}, {}), plat = "x11", NEW p
  PROVE  Tabled(X11!evdev_device_remove(h, p), {}, {}) /\ Kept(h, X11!evdev_device_remove(h, p))
<1>1. CASE p \notin DOMAIN h.devices
  BY <1>1, SameKept DEF X11!evdev_device_remove
<1>2. CASE p \in DOMAIN h.devices
  <2> DEFINE id == h.devices[p].id
             k == [h EXCEPT !.devices = HashPop(@, p)]
             t == [event_func(k, "DISCONNECT", id, X11!NoEvent) EXCEPT !.fds[h.devices[p].slot] = 0, !.rev = HashPop(@, id)]
  <2>1. X11!evdev_device_remove(h, p) = t
    BY <1>2, HelpersAre, EventFuncsAre DEF X11!evdev_device_remove, X11!app_evdev_disconnect
  <2>2. id \in DOMAIN h.seen
    BY <1>2 DEF Tabled, Shaped, Paired
  <2>3. event_func(k, "DISCONNECT", id, X11!NoEvent) = [k EXCEPT !.seen = HashPop(@, id)]
    <3>1. k.seen = h.seen /\ k.quiet = h.quiet
      OBVIOUS
    <3>2. id \in Nat /\ h.quiet = 0
      <4>0. Slotted(h) /\ Slots \in Nat
        BY ControllersAssumption DEF Tabled
      <4>1. id \in 0..(Slots + 1) /\ h.quiet = 0
        BY <1>2, <4>0 DEF Slotted
      <4> QED
        BY <4>0, <4>1
    <3> HIDE DEF k, id
    <3>3. ~(id < h.quiet)
      BY <3>2
    <3> QED
      BY <2>2, <3>1, <3>3 DEF event_func
  <2>4. Without(h, p, t)
    BY <2>3 DEF Without, Tabled, Shaped, Fields
  <2> HIDE DEF t
  <2>5. Tabled(t, {}, {}) /\ Fewer(h, p, t)
    BY <1>2, <2>4, WithoutTabled
  <2> QED
    BY <2>1, <2>5 DEF Fewer
<1> QED
  BY <1>1, <1>2

\* Induction up to n.
LEMMA Upwards ==
  ASSUME NEW n \in Nat, NEW T, 0 \in T, \A k \in 0..(n - 1) : k \in T => k + 1 \in T
  PROVE  n \in T
<1> DEFINE U == {k \in Nat : k <= n /\ k \notin T}
<1>1. U \subseteq Nat /\ 0 \notin U
  OBVIOUS
<1>2. \A k \in Nat : k + 1 \in U => k \in U
  <2> SUFFICES ASSUME NEW k \in Nat, k + 1 <= n, k + 1 \notin T PROVE k \in U
    OBVIOUS
  <2>1. k \in 0..(n - 1)
    OBVIOUS
  <2> QED
    BY <2>1
<1> HIDE DEF U
<1>3. U = {}
  BY <1>1, <1>2, Induction
<1> QED
  BY <1>3 DEF U

\* What the recursive function of Steps is at each step.
LEMMA FoldSteps ==
  ASSUME NEW kind, NEW p, NEW v, NEW seq, NEW n \in Nat
  PROVE  /\ After(kind, p, v, seq, n)[0] = v
         /\ \A k \in 0..(n - 1) : After(kind, p, v, seq, n)[k + 1] = StepOf(kind, p, After(kind, p, v, seq, n)[k], seq[k + 1])
<1> DEFINE after == After(kind, p, v, seq, n)
<1>1. Follows(after, kind, p, v, seq, n)
  BY FoldIs
<1> HIDE DEF after
<1>2. \A k \in 0..n : after[k] = IF k = 0 THEN v ELSE StepOf(kind, p, after[k - 1], seq[k])
  BY <1>1 DEF Follows
<1>3. 0 \in 0..n
  OBVIOUS
<1>4. after[0] = v
  BY <1>2, <1>3
<1>5. ASSUME NEW k \in 0..(n - 1) PROVE after[k + 1] = StepOf(kind, p, after[k], seq[k + 1])
  <2>1. k + 1 \in 0..n /\ k + 1 # 0 /\ (k + 1) - 1 = k
    OBVIOUS
  <2> QED
    BY <1>2, <2>1
<1> QED
  BY <1>4, <1>5 DEF after

\* The program is told of a device that is there.
LEMMA ReportTabled ==
  ASSUME NEW h, Tabled(h, {}, {}), plat = "x11", NEW p \in DOMAIN h.devices
  PROVE  Tabled(X11!app_evdev_report(h, p), {}, {}) /\ Same(h, X11!app_evdev_report(h, p))
<1> DEFINE c == X11!mty_hid_map_axes(h.devices[p].state)
           id == h.devices[p].id
           t == X11!Deduped(h, id, c)
<1>1. X11!app_evdev_report(h, p) = IF ~h.focus THEN h ELSE t
  <2> HIDE DEF c
  <2>1. X11!Of(c, LAMBDA x : X11!Deduped(h, id, x)) = t
    BY DEF X11!Of
  <2> QED
    BY <2>1 DEF X11!app_evdev_report, c
<1>2. id \in DOMAIN h.seen
  BY DEF Tabled, Shaped, Paired
<1>3. Tells(h, id, t)
  BY DedupedTells
<1> HIDE DEF t
<1>4. Tabled(t, {}, {}) /\ Same(h, t)
  BY <1>2, <1>3, TellsTabled
<1> QED
  BY <1>1, <1>4, SameKept

Reports(p, v, seq) == X11!Steps(LAMBDA u, n : X11!app_evdev_report(u, p), v, seq)

LEMMA ReportsTabled ==
  ASSUME NEW h, Tabled(h, {}, {}), plat = "x11", NEW p \in DOMAIN h.devices, NEW seq, NEW n \in Nat, Len(seq) = n
  PROVE  Tabled(Reports(p, h, seq), {}, {}) /\ Same(h, Reports(p, h, seq))
<1> DEFINE after == After("report", p, h, seq, n)
           T == {k \in 0..n : Tabled(after[k], {}, {}) /\ Same(h, after[k])}
<1>1. Reports(p, h, seq) = after[n]
  <2> DEFINE G(f) == [k \in 0..Len(seq) |-> IF k = 0 THEN h ELSE X11!Of(f[k - 1], LAMBDA b : X11!app_evdev_report(b, p))]
             F(f) == [k \in 0..n |-> IF k = 0 THEN h ELSE StepOf("report", p, f[k - 1], seq[k])]
  <2>1. Reports(p, h, seq) = (CHOOSE f : f = G(f))[Len(seq)]
    BY DEF Reports, X11!Steps
  <2>2. \A f : G(f) = F(f)
    BY DEF X11!Of, StepOf
  <2>4. after = CHOOSE f : f = F(f)
    BY DEF After, Follows
  <2> HIDE DEF after
  <2>5. (CHOOSE f : f = G(f)) = (CHOOSE f : f = F(f))
    <3> HIDE DEF F, G
    <3> QED
      BY <2>2
  <2> HIDE DEF F, G
  <2> QED
    BY <2>1, <2>4, <2>5
<1>2. after[0] = h /\ \A k \in 0..(n - 1) : after[k + 1] = X11!app_evdev_report(after[k], p)
  <2>1. after[0] = h /\ \A k \in 0..(n - 1) : after[k + 1] = StepOf("report", p, after[k], seq[k + 1])
    BY FoldSteps
  <2> HIDE DEF after
  <2> QED
    BY <2>1 DEF StepOf
<1> HIDE DEF after
<1>3. 0 \in T
  BY <1>2, SameKept
<1>4. ASSUME NEW k \in 0..(n - 1), k \in T PROVE k + 1 \in T
  <2>1. Tabled(after[k], {}, {}) /\ Same(h, after[k])
    BY <1>4
  <2>2. p \in DOMAIN after[k].devices
    BY <2>1 DEF Same
  <2>3. Tabled(after[k + 1], {}, {}) /\ Same(after[k], after[k + 1])
    BY <1>2, <2>1, <2>2, ReportTabled
  <2>4. Same(h, after[k + 1]) /\ k + 1 \in 0..n
    BY <2>1, <2>3, SameKept
  <2> QED
    BY <2>3, <2>4
<1> HIDE DEF T
<1>5. n \in T
  BY <1>3, <1>4, Upwards
<1> QED
  BY <1>1, <1>5 DEF T

\* An event of a device.
LEMMA EventTabled ==
  ASSUME NEW h, Tabled(h, {}, {}), plat = "x11", NEW fd
  PROVE  Tabled(X11!evdev_joystick_event(h, fd), {}, {}) /\ Same(h, X11!evdev_joystick_event(h, fd))
<1>1. CASE fd \notin DOMAIN h.rev
  BY <1>1, SameKept DEF X11!evdev_joystick_event
<1>2. CASE fd \in DOMAIN h.rev
  <2> DEFINE p == h.rev[fd]
             e == Head(h.pads[p].events)
             button == e.code \in h.pads[p].buttons
             d == IF button THEN X11!Button(h.devices[p], h.pads[p], e) ELSE X11!Absolute(h.devices[p], p, h.pads[p], e)
             k == [h EXCEPT !.pads[p].events = Tail(@), !.devices[p] = d]
             seq == IF button THEN <<1, 2>> ELSE <<1>>
             t == X11!evdev_joystick_event(h, fd)
  <2>1. t = IF h.pads[p].events = <<>> THEN h ELSE Reports(p, k, seq)
    BY <1>2 DEF X11!evdev_joystick_event, Reports
  <2>2. p \in DOMAIN h.devices /\ p \in DOMAIN h.pads /\ {"id", "slot"} \subseteq DOMAIN h.devices[p]
    BY <1>2 DEF Tabled, Paired, Slotted
  <2>3. {"id", "slot"} \subseteq DOMAIN d /\ d.id = h.devices[p].id /\ d.slot = h.devices[p].slot
    <3> HIDE DEF e, p
    <3>1. CASE button
      BY <2>2, <3>1 DEF X11!Button
    <3>2. CASE ~button
      BY <2>2, <3>2 DEF X11!Absolute
    <3> QED
      BY <3>1, <3>2
  <2>4. Len(seq) \in Nat
    <3> HIDE DEF button
    <3> QED
      OBVIOUS
  <2> HIDE DEF d, seq, t, e, button
  <2>5. /\ Fields \subseteq DOMAIN k /\ k.rev = h.rev /\ k.odd = h.odd /\ k.quiet = h.quiet /\ k.fds = h.fds
        /\ k.app = h.app /\ k.seen = h.seen /\ k.q = h.q /\ k.focus = h.focus
        /\ DOMAIN k.devices = DOMAIN h.devices /\ DOMAIN k.pads = DOMAIN h.pads
        /\ \A i \in DOMAIN h.devices : k.devices[i] = IF i = p THEN d ELSE h.devices[i]
        /\ \A i \in DOMAIN h.pads :
             k.pads[i] = IF i = p THEN [h.pads[i] EXCEPT !.events = Tail(h.pads[p].events)] ELSE h.pads[i]
    <3> HIDE DEF p
    <3> QED
      BY DEF Tabled, Shaped, Fields
  <2> HIDE DEF k, p
  <2>6. Alike(h, k)
    <3>1. \A i \in DOMAIN h.devices :
             /\ {"id", "slot"} \subseteq DOMAIN k.devices[i]
             /\ k.devices[i].id = h.devices[i].id /\ k.devices[i].slot = h.devices[i].slot
      BY <2>3, <2>5 DEF Tabled, Paired, Slotted
    <3>2. \A i \in DOMAIN h.pads :
             /\ PadFields \subseteq DOMAIN k.pads[i]
             /\ k.pads[i].in = h.pads[i].in /\ k.pads[i].ready = h.pads[i].ready /\ k.pads[i].kind = h.pads[i].kind
             /\ k.pads[i].want = h.pads[i].want /\ k.pads[i].motor \in 0..1
      BY <2>5 DEF Tabled, Shaped, PadFields
    <3> QED
      BY <2>5, <3>1, <3>2 DEF Alike
  <2>7. Tabled(k, {}, {}) /\ Same(h, k)
    BY <2>6, AlikeTabled
  <2>8. p \in DOMAIN k.devices
    BY <2>2, <2>5
  <2>9. Tabled(Reports(p, k, seq), {}, {}) /\ Same(k, Reports(p, k, seq))
    BY <2>4, <2>7, <2>8, ReportsTabled
  <2> QED
    BY <2>1, <2>7, <2>9, SameKept DEF t
<1> QED
  BY <1>1, <1>2

\* All devices that are there are opened.
LEMMA ScanTabled ==
  ASSUME NEW h, Tabled(h, {}, {}), plat = "x11", Rowed(h)
  PROVE  Tabled(X11!evdev_initial_scan(h), {}, {}) /\ Kept(h, X11!evdev_initial_scan(h))
<1>1. PICK n \in Nat : DOMAIN h.pads = 1..n
  BY DEF Rowed
<1> DEFINE v == [h EXCEPT !.scan = TRUE]
           seq == [p \in DOMAIN h.pads |-> p]
           after == After("add", 0, v, seq, n)
           T == {k \in 0..n : Tabled(after[k], {}, {}) /\ Kept(h, after[k])}
<1>2. Len(seq) = n /\ \A k \in 1..n : seq[k] = k
  BY <1>1, RowIs
<1>3. Tabled(v, {}, {}) /\ Kept(h, v)
  BY OthersTabled, SameKept
<1>4. X11!evdev_initial_scan(h) = after[n]
  <2> DEFINE G(f) == [k \in 0..Len(seq) |-> IF k = 0 THEN v ELSE X11!Of(f[k - 1], LAMBDA b : X11!evdev_device_add(b, seq[k]))]
             F(f) == [k \in 0..n |-> IF k = 0 THEN v ELSE StepOf("add", 0, f[k - 1], seq[k])]
  <2>1. X11!evdev_initial_scan(h) = (CHOOSE f : f = G(f))[Len(seq)]
    BY DEF X11!evdev_initial_scan, X11!Steps
  <2> HIDE DEF seq, v
  <2>2. \A f : G(f) = F(f)
    BY <1>2 DEF X11!Of, StepOf
  <2>4. after = CHOOSE f : f = F(f)
    BY DEF After, Follows
  <2> HIDE DEF after
  <2>5. (CHOOSE f : f = G(f)) = (CHOOSE f : f = F(f))
    <3> HIDE DEF F, G
    <3> QED
      BY <2>2
  <2> HIDE DEF F, G
  <2> QED
    BY <1>2, <2>1, <2>4, <2>5
<1> HIDE DEF v, seq
<1>5. after[0] = v /\ \A k \in 0..(n - 1) : after[k + 1] = X11!evdev_device_add(after[k], k + 1)
  <2>1. after[0] = v /\ \A k \in 0..(n - 1) : after[k + 1] = StepOf("add", 0, after[k], seq[k + 1])
    BY FoldSteps
  <2> HIDE DEF after
  <2>2. \A k \in 0..(n - 1) : seq[k + 1] = k + 1
    BY <1>2
  <2> QED
    BY <2>1, <2>2 DEF StepOf
<1> HIDE DEF after
<1>6. 0 \in T
  BY <1>3, <1>5
<1>7. ASSUME NEW k \in 0..(n - 1), k \in T PROVE k + 1 \in T
  <2>1. Tabled(after[k], {}, {}) /\ Kept(h, after[k])
    BY <1>7
  <2>2. k + 1 \in DOMAIN after[k].pads
    BY <1>1, <2>1 DEF Kept
  <2>3. Tabled(after[k + 1], {}, {}) /\ Kept(after[k], after[k + 1])
    BY <1>5, <2>1, <2>2, AddTabled
  <2>4. Kept(h, after[k + 1]) /\ k + 1 \in 0..n
    BY <2>1, <2>3, SameKept
  <2> QED
    BY <2>3, <2>4
<1> HIDE DEF T
<1>8. n \in T
  BY <1>6, <1>7, Upwards
<1> QED
  BY <1>4, <1>8 DEF T

\* The events of the devices that were found to have some.
Events(t, ready) ==
  X11!Steps(LAMBDA u, x : IF x \in ready THEN X11!evdev_joystick_event(u, u.fds[x]) ELSE u, t, [x \in 1..Slots |-> x])

LEMMA EventsTabled ==
  ASSUME NEW h, Tabled(h, {}, {}), plat = "x11", NEW ready
  PROVE  Tabled(Events(h, ready), {}, {}) /\ Same(h, Events(h, ready))
<1> DEFINE seq == [x \in 1..Slots |-> x]
           after == After("event", ready, h, seq, Slots)
           T == {k \in 0..Slots : Tabled(after[k], {}, {}) /\ Same(h, after[k])}
<1>1. Slots \in Nat
  BY ControllersAssumption
<1>2. Len(seq) = Slots
  BY <1>1, RowIs
<1>4. Events(h, ready) = after[Slots]
  <2> DEFINE G(f) == [k \in 0..Len(seq) |-> IF k = 0 THEN h ELSE X11!Of(f[k - 1], LAMBDA b : IF seq[k] \in ready THEN X11!evdev_joystick_event(b, b.fds[seq[k]]) ELSE b)]
             F(f) == [k \in 0..Slots |-> IF k = 0 THEN h ELSE StepOf("event", ready, f[k - 1], seq[k])]
  <2>1. Events(h, ready) = (CHOOSE f : f = G(f))[Len(seq)]
    BY DEF Events, X11!Steps
  <2> HIDE DEF seq
  <2>2. \A f : G(f) = F(f)
    BY <1>2 DEF X11!Of, StepOf
  <2>4. after = CHOOSE f : f = F(f)
    BY DEF After, Follows
  <2> HIDE DEF after
  <2>5. (CHOOSE f : f = G(f)) = (CHOOSE f : f = F(f))
    <3> HIDE DEF F, G
    <3> QED
      BY <2>2
  <2> HIDE DEF F, G
  <2> QED
    BY <1>2, <2>1, <2>4, <2>5
<1> HIDE DEF seq
<1>5. after[0] = h /\ \A k \in 0..(Slots - 1) : after[k + 1] = StepOf("event", ready, after[k], seq[k + 1])
  BY <1>1, FoldSteps
<1> HIDE DEF after
<1>6. 0 \in T
  BY <1>1, <1>5, SameKept
<1>7. ASSUME NEW k \in 0..(Slots - 1), k \in T PROVE k + 1 \in T
  <2> DEFINE x == seq[k + 1]
  <2>1. Tabled(after[k], {}, {}) /\ Same(h, after[k])
    BY <1>7
  <2>2. after[k + 1] = IF x \in ready THEN X11!evdev_joystick_event(after[k], after[k].fds[x]) ELSE after[k]
    BY <1>5 DEF StepOf
  <2> HIDE DEF x
  <2>3. Tabled(after[k + 1], {}, {}) /\ Same(after[k], after[k + 1])
    BY <2>1, <2>2, EventTabled, SameKept
  <2>4. Same(h, after[k + 1]) /\ k + 1 \in 0..Slots
    BY <1>1, <2>1, <2>3, SameKept
  <2> QED
    BY <2>3, <2>4
<1> HIDE DEF T
<1>8. Slots \in T
  BY <1>1, <1>6, <1>7, Upwards
<1> QED
  BY <1>4, <1>8 DEF T

\* The monitor.
LEMMA MonitorTabled ==
  ASSUME NEW h, Tabled(h, {}, {}), Mailed(h), plat = "x11", h.q # <<>>
  PROVE  Tabled(X11!evdev_new_device(h), {}, {}) /\ Follow(h, X11!evdev_new_device(h))
<1> DEFINE k == [h EXCEPT !.q = Tail(@)]
           m == Head(h.q)
           t == X11!evdev_new_device(h)
<1>1. t = IF m.what = "arrive" THEN X11!evdev_device_add(k, m.p) ELSE X11!evdev_device_remove(k, m.p)
  BY DEF X11!evdev_new_device
<1>2. Tabled(k, {}, {})
  BY OthersTabled
<1>3. k.pads = h.pads /\ k.q = Tail(h.q) /\ k.app = h.app /\ k.focus = h.focus /\ m.p \in DOMAIN h.pads
  <2>1. Head(h.q) = h.q[1] /\ 1 \in DOMAIN h.q
    BY TailListed DEF Mailed
  <2>2. "q" \in DOMAIN h
    BY DEF Tabled, Shaped, Fields
  <2> QED
    BY <2>1, <2>2 DEF Mailed
<1> HIDE DEF k, m, t
<1>4. Tabled(t, {}, {}) /\ Kept(k, t)
  BY <1>1, <1>2, <1>3, AddTabled, X11RemoveTabled
<1>5. Follow(h, t)
  BY <1>3, <1>4 DEF Follow, Kept
<1> QED
  BY <1>4, <1>5 DEF t

\* One turn of the loop of Linux.
LEMMA X11Run ==
  ASSUME NEW h, Tabled(h, {}, {}), Mailed(h), Rowed(h), plat = "x11", NEW t \in X11!AppRun(h)
  PROVE  Tabled(t, {}, {}) /\ (Kept(h, t) \/ (h.q # <<>> /\ Follow(h, t)))
<1> DEFINE ReadyOf(u) == {x \in 1..Slots : u.fds[x] # 0 /\ u.pads[u.rev[u.fds[x]]].events # <<>>}
           Monitor(u) == IF u.q = <<>> THEN u ELSE X11!evdev_new_device(u)
           k == IF h.scan THEN h ELSE X11!evdev_initial_scan(h)
           l == Monitor(k)
           w == Events(l, ReadyOf(k))
<1>1. t = w
  <2>1. t = X11!mty_evdev_poll(h)
    BY DEF X11!AppRun
  <2>2. X11!mty_evdev_poll(h) = X11!Of(k, LAMBDA u : Events(Monitor(u), ReadyOf(u)))
    BY DEF X11!mty_evdev_poll, Events
  <2> HIDE DEF k
  <2>3. X11!Of(k, LAMBDA u : Events(Monitor(u), ReadyOf(u))) = w
    <3> HIDE DEF Monitor, ReadyOf
    <3> QED
      BY DEF X11!Of
  <2> QED
    BY <2>1, <2>2, <2>3
<1>2. Tabled(k, {}, {}) /\ Kept(h, k)
  BY ScanTabled, SameKept
<1> HIDE DEF k, w
<1>3. k.q = h.q /\ Mailed(k)
  BY <1>2 DEF Mailed, Kept
<1>4. Tabled(l, {}, {}) /\ (Kept(k, l) \/ (k.q # <<>> /\ Follow(k, l)))
  BY <1>2, <1>3, MonitorTabled, SameKept
<1> HIDE DEF l
<1>5. Tabled(w, {}, {}) /\ Same(l, w)
  <2> DEFINE r == ReadyOf(k)
  <2> HIDE DEF r, ReadyOf
  <2>1. Tabled(Events(l, r), {}, {}) /\ Same(l, Events(l, r))
    BY <1>4, EventsTabled
  <2> QED
    BY <2>1 DEF w, r
<1>6. CASE Kept(k, l)
  BY <1>1, <1>2, <1>5, <1>6, SameKept
<1>7. CASE k.q # <<>> /\ Follow(k, l)
  <2>1. Kept(h, k) /\ Follow(k, l) /\ Kept(l, w)
    BY <1>2, <1>5, <1>7, SameKept
  <2>2. Follow(h, w)
    BY <2>1 DEF Follow, Kept
  <2>3. h.q # <<>> /\ Follow(h, t)
    BY <1>1, <1>3, <1>7, <2>2
  <2> QED
    BY <1>1, <1>5, <2>3
<1>8. Kept(k, l) \/ (k.q # <<>> /\ Follow(k, l))
  BY <1>4
<1> HIDE DEF Monitor, ReadyOf
<1> QED
  BY <1>6, <1>7, <1>8

-----------------------------------------------------------------------------
(* The controllers and the program, on Windows, macOS and Linux. *)

\* The tables stay, and what is known of the controllers.
Around(h, t) ==
  /\ Fields \subseteq DOMAIN t /\ t.devices = h.devices /\ t.rev = h.rev /\ t.odd = h.odd
  /\ t.next = h.next /\ t.quiet = h.quiet /\ t.fds = h.fds /\ t.xip = h.xip /\ t.app = h.app /\ t.seen = h.seen
  /\ DOMAIN t.pads = DOMAIN h.pads
  /\ \A p \in DOMAIN h.pads :
       /\ PadFields \subseteq DOMAIN t.pads[p] /\ t.pads[p].kind = h.pads[p].kind
       /\ t.pads[p].in \in BOOLEAN /\ t.pads[p].motor \in 0..1 /\ t.pads[p].want \in -1..1

\* What is around the tables may change.
LEMMA AroundTabled ==
  ASSUME NEW h, NEW t, Tabled(h, {}, {}), Around(h, t)
  PROVE  Tabled(t, {}, {})
<1>1. Shaped(h) /\ Paired(h)
  BY DEF Tabled
<1>2. Shaped(t)
  BY <1>1 DEF Shaped, Around
<1>3. Paired(t)
  BY <1>1 DEF Paired, Around
<1>4. plat \in Quick => Numbered(t)
  BY DEF Tabled, Numbered, Around
<1>5. plat = "windows" => Polled(t)
  BY <1>1 DEF Tabled, Polled, Around
<1>6. plat = "x11" => Slotted(t)
  BY DEF Tabled, Slotted, Around
<1>7. \A p \in DOMAIN h.devices : t.pads[p].kind = h.pads[p].kind
  BY <1>1 DEF Paired, Around
<1> QED
  BY <1>2, <1>3, <1>4, <1>5, <1>6, <1>7 DEF Tabled, Around

\* One controller changes.
LEMMA PadAround ==
  ASSUME NEW h, Tabled(h, {}, {}), NEW p \in DOMAIN h.pads, NEW d, PadFields \subseteq DOMAIN d, d.kind = h.pads[p].kind,
         d.in \in BOOLEAN, d.motor \in 0..1, d.want \in -1..1
  PROVE  Around(h, [h EXCEPT !.pads[p] = d])
<1> DEFINE t == [h EXCEPT !.pads[p] = d]
<1>1. Fields \subseteq DOMAIN h /\ Shaped(h)
  BY DEF Tabled, Shaped
<1>2. /\ Fields \subseteq DOMAIN t /\ t.devices = h.devices /\ t.rev = h.rev /\ t.odd = h.odd
      /\ t.next = h.next /\ t.quiet = h.quiet /\ t.fds = h.fds /\ t.xip = h.xip /\ t.app = h.app /\ t.seen = h.seen
      /\ DOMAIN t.pads = DOMAIN h.pads
      /\ \A i \in DOMAIN h.pads : t.pads[i] = IF i = p THEN d ELSE h.pads[i]
  BY <1>1 DEF Fields
<1> HIDE DEF t
<1>3. Around(h, t)
  BY <1>1, <1>2 DEF Around, Shaped
<1> QED
  BY <1>3 DEF t

LEMMA AroundOn ==
  /\ \A h : Tabled(h, {}, {}) => Around(h, h)
  /\ \A h, t, u : Around(h, t) /\ Around(t, u) => Around(h, u)
  /\ \A h, t, x : Tabled(h, {}, {}) /\ Around(h, t) =>
       /\ Around(h, [t EXCEPT !.q = x]) /\ Around(h, [t EXCEPT !.moves = x]) /\ Around(h, [t EXCEPT !.plugs = x])
       /\ Around(h, [t EXCEPT !.rumbles = x]) /\ Around(h, [t EXCEPT !.focuses = x]) /\ Around(h, [t EXCEPT !.focus = x])
<1>1. \A h : Tabled(h, {}, {}) => Around(h, h)
  BY DEF Around, Tabled, Shaped
<1>2. \A h, t, u : Around(h, t) /\ Around(t, u) => Around(h, u)
  BY DEF Around
<1>3. ASSUME NEW h, NEW t, NEW x, Around(h, t), NEW f \in {"q", "moves", "plugs", "rumbles", "focuses", "focus"}
      PROVE  Around(h, [t EXCEPT ![f] = x])
  <2> DEFINE u == [t EXCEPT ![f] = x]
  <2>1. /\ DOMAIN u = DOMAIN t /\ u.devices = t.devices /\ u.rev = t.rev /\ u.odd = t.odd
        /\ u.next = t.next /\ u.quiet = t.quiet /\ u.fds = t.fds /\ u.xip = t.xip /\ u.app = t.app /\ u.seen = t.seen
        /\ u.pads = t.pads
    BY <1>3 DEF Around, Fields
  <2> HIDE DEF u
  <2>2. Around(h, u)
    BY <1>3, <2>1 DEF Around
  <2> QED
    BY <2>2 DEF u
<1> QED
  BY <1>1, <1>2, <1>3

\* A message comes last.
LEMMA OrderedAppend ==
  ASSUME NEW h, NEW t, NEW m, Ordered(h), Listed(h.q), t.q = Append(h.q, m), t.devices = h.devices,
         DOMAIN t.pads = DOMAIN h.pads,
         \A p \in DOMAIN h.pads : (p = m.p /\ m.what \in {"arrive", "remove"}) \/ (t.pads[p].in = h.pads[p].in /\ t.pads[p].ready = h.pads[p].ready),
         m.what = "arrive" => /\ ~h.pads[m.p].in \/ (~h.pads[m.p].ready /\ "unready" \notin Faults)
                              /\ ~(~t.pads[m.p].in \/ (~t.pads[m.p].ready /\ "unready" \notin Faults))
  PROVE  Ordered(t)
<1> SUFFICES ASSUME NEW p \in DOMAIN h.pads PROVE InTurn(t, p)
  BY DEF Ordered
<1> DEFINE q == h.q
           r == t.q
           n == Len(q)
           Far(u) == ~u.pads[p].in \/ (~u.pads[p].ready /\ "unready" \notin Faults)
<1>1. n \in Nat /\ Len(r) = n + 1 /\ DOMAIN q = 1..n /\ DOMAIN r = 1..(n + 1) /\ r[n + 1] = m /\ \A k \in 1..n : r[k] = q[k]
  BY AppendListed
<1>2. InTurn(h, p)
  BY DEF Ordered
<1>3. /\ \A k \in 1..n : Is(q, k, "arrive", p) =>
           /\ p \in DOMAIN h.devices => Removed(q, p, 1, k - 1)
           /\ \A i \in 1..(k - 1) : Is(q, i, "arrive", p) => Removed(q, p, i + 1, k - 1)
      /\ Far(h) => /\ p \in DOMAIN h.devices => Removed(q, p, 1, n)
                   /\ \A i \in 1..n : Is(q, i, "arrive", p) => Removed(q, p, i + 1, n)
  BY <1>1, <1>2 DEF InTurn
<1>4. /\ Is(r, n + 1, "arrive", p) => Far(h) /\ ~Far(t)
      /\ Is(r, n + 1, "remove", p) \/ Is(r, n + 1, "arrive", p) \/ (Far(h) <=> Far(t))
  BY <1>1 DEF Is
<1> SUFFICES /\ \A k \in 1..(n + 1) : Is(r, k, "arrive", p) =>
                  /\ p \in DOMAIN h.devices => Removed(r, p, 1, k - 1)
                  /\ \A i \in 1..(k - 1) : Is(r, i, "arrive", p) => Removed(r, p, i + 1, k - 1)
             /\ Far(t) => /\ p \in DOMAIN h.devices => Removed(r, p, 1, n + 1)
                          /\ \A i \in 1..(n + 1) : Is(r, i, "arrive", p) => Removed(r, p, i + 1, n + 1)
  BY <1>1 DEF InTurn
<1> HIDE DEF q, r, n, Far
<1>5. ASSUME NEW i \in 1..(n + 1), NEW j \in 0..n, Removed(q, p, i, j)
      PROVE  Removed(r, p, i, j) /\ Removed(r, p, i, n + 1)
  <2>1. PICK k \in i..j : Is(q, k, "remove", p)
    BY <1>5 DEF Removed
  <2>2. k \in 1..n /\ k \in i..(n + 1) /\ Is(r, k, "remove", p)
    BY <1>1, <2>1 DEF Is
  <2> QED
    BY <2>1, <2>2 DEF Removed
<1>6. ASSUME NEW k \in 1..n PROVE Is(r, k, "arrive", p) <=> Is(q, k, "arrive", p)
  BY <1>1 DEF Is
<1>7. ASSUME NEW k \in 1..(n + 1), Is(r, k, "arrive", p)
      PROVE  /\ p \in DOMAIN h.devices => Removed(r, p, 1, k - 1)
             /\ \A i \in 1..(k - 1) : Is(r, i, "arrive", p) => Removed(r, p, i + 1, k - 1)
  <2>1. k - 1 \in 0..n /\ 1 \in 1..(n + 1)
    BY <1>1
  <2>2. /\ p \in DOMAIN h.devices => Removed(q, p, 1, k - 1)
        /\ \A i \in 1..(k - 1) : Is(q, i, "arrive", p) => Removed(q, p, i + 1, k - 1)
    <3>1. CASE k \in 1..n
      BY <1>3, <1>6, <1>7, <3>1
    <3>2. CASE k = n + 1
      <4>1. k - 1 = n /\ Far(h)
        BY <1>1, <1>4, <1>7, <3>2
      <4> QED
        BY <1>3, <4>1
    <3> QED
      BY <1>1, <3>1, <3>2
  <2>3. ASSUME NEW i \in 1..(k - 1), Is(r, i, "arrive", p) PROVE Removed(r, p, i + 1, k - 1)
    <3>1. i \in 1..n /\ i + 1 \in 1..(n + 1)
      BY <1>1
    <3> QED
      BY <1>5, <1>6, <2>1, <2>2, <2>3, <3>1
  <2> QED
    BY <1>5, <2>1, <2>2, <2>3
<1>8. ASSUME Far(t)
      PROVE  /\ p \in DOMAIN h.devices => Removed(r, p, 1, n + 1)
             /\ \A i \in 1..(n + 1) : Is(r, i, "arrive", p) => Removed(r, p, i + 1, n + 1)
  <2>1. ~Is(r, n + 1, "arrive", p)
    BY <1>4, <1>8
  <2>2. n \in 0..n /\ 1 \in 1..(n + 1)
    BY <1>1
  <2>3. CASE Is(r, n + 1, "remove", p)
    <3>1. \A i \in 1..(n + 1) : n + 1 \in i..(n + 1)
      BY <1>1
    <3>2. ASSUME NEW i \in 1..(n + 1), Is(r, i, "arrive", p) PROVE i + 1 \in 1..(n + 1)
      BY <1>1, <2>1, <3>2
    <3> QED
      BY <2>2, <2>3, <3>1, <3>2 DEF Removed
  <2>4. CASE Far(h)
    <3>1. p \in DOMAIN h.devices => Removed(r, p, 1, n + 1)
      BY <1>3, <1>5, <2>2, <2>4
    <3>2. ASSUME NEW i \in 1..(n + 1), Is(r, i, "arrive", p) PROVE Removed(r, p, i + 1, n + 1)
      <4>1. i \in 1..n /\ i + 1 \in 1..(n + 1)
        BY <1>1, <2>1, <3>2
      <4> QED
        BY <1>3, <1>5, <1>6, <2>2, <2>4, <3>2, <4>1
    <3> QED
      BY <3>1, <3>2
  <2> QED
    BY <1>4, <1>8, <2>1, <2>3, <2>4
<1> QED
  BY <1>7, <1>8

\* No message came, and no controller that was away came nearer.
LEMMA OrderedStill ==
  ASSUME NEW h, NEW t, Ordered(h), t.q = h.q, t.devices = h.devices, DOMAIN t.pads = DOMAIN h.pads,
         \A p \in DOMAIN h.pads : ~t.pads[p].in \/ (~t.pads[p].ready /\ "unready" \notin Faults) =>
                                  ~h.pads[p].in \/ (~h.pads[p].ready /\ "unready" \notin Faults)
  PROVE  Ordered(t)
<1> SUFFICES ASSUME NEW p \in DOMAIN h.pads PROVE InTurn(t, p)
  BY DEF Ordered
<1>1. InTurn(h, p)
  BY DEF Ordered
<1> QED
  BY <1>1 DEF InTurn

LEMMA MailedAppend ==
  ASSUME NEW h, NEW t, NEW m, Mailed(h), DOMAIN t.pads = DOMAIN h.pads, t.q = Append(h.q, m), m.p \in DOMAIN h.pads
  PROVE  Mailed(t)
<1>1. /\ Listed(t.q) /\ Len(h.q) \in Nat /\ DOMAIN h.q = 1..Len(h.q) /\ DOMAIN t.q = 1..(Len(h.q) + 1)
      /\ (\A k \in 1..Len(h.q) : t.q[k] = h.q[k]) /\ t.q[Len(h.q) + 1] = m
  BY AppendListed DEF Mailed
<1>2. ASSUME NEW k \in DOMAIN t.q PROVE t.q[k].p \in DOMAIN h.pads
  <2>1. k \in 1..Len(h.q) \/ k = Len(h.q) + 1
    BY <1>1
  <2> QED
    BY <1>1, <2>1 DEF Mailed
<1> QED
  BY <1>1, <1>2 DEF Mailed

LEMMA MailedFollow ==
  ASSUME NEW h, NEW t, Mailed(h), Kept(h, t) \/ (h.q # <<>> /\ Follow(h, t))
  PROVE  Mailed(t)
<1>1. CASE Kept(h, t)
  BY <1>1 DEF Mailed, Kept
<1>2. CASE h.q # <<>> /\ Follow(h, t)
  BY <1>2, TailListed DEF Mailed, Follow
<1> QED
  BY <1>1, <1>2

\* SetToSeq has each element once.
LEMMA ToSeqIs ==
  ASSUME NEW U, IsFiniteSet(U)
  PROVE  /\ Windows!SetToSeq(U) \in Seq(U)
         /\ \A i, j \in DOMAIN Windows!SetToSeq(U) : Windows!SetToSeq(U)[i] = Windows!SetToSeq(U)[j] => i = j
<1>1. Windows!Cardinality(U) = Cardinality(U)
  BY DEF Windows!Cardinality, Cardinality
<1>2. Cardinality(U) \in Nat /\ ExistsBijection(1..Cardinality(U), U)
  BY FS_CardinalityType
<1> DEFINE n == Cardinality(U)
<1> HIDE DEF n
<1>3. PICK f \in [1..n -> U] : \A i, j \in 1..n : f[i] = f[j] => i = j
  <2>1. Bijection(1..n, U) # {}
    BY <1>2 DEF n, ExistsBijection
  <2>2. PICK f : f \in Bijection(1..n, U)
    BY <2>1
  <2> QED
    BY <2>2 DEF Bijection, Injection, IsInjective
<1>4. Windows!SetToSeq(U) = CHOOSE g \in [1..n -> U] : Windows!IsInjective(g)
  BY <1>1 DEF Windows!SetToSeq, n
<1>5. Windows!IsInjective(f)
  BY <1>3 DEF Windows!IsInjective
<1>6. Windows!SetToSeq(U) \in [1..n -> U] /\ Windows!IsInjective(Windows!SetToSeq(U))
  BY <1>3, <1>4, <1>5
<1> QED
  BY <1>2, <1>6 DEF Windows!IsInjective, n

LEMMA EmptyIs == DOMAIN <<>> = {} /\ <<>> = [x \in DOMAIN <<>> |-> <<>>[x]]
OBVIOUS

\* There is no device, and no application.
Blank(h) ==
  /\ Shaped(h) /\ h.devices = <<>> /\ h.rev = <<>> /\ h.seen = <<>> /\ h.q = <<>> /\ h.odd = {}
  /\ h.quiet = IF plat = "windows" THEN 4 ELSE 0

\* What the tables are when they are made.
LEMMA BlankTabled ==
  ASSUME NEW h, Blank(h), NEW t, Fields \subseteq DOMAIN t, t.pads = h.pads,
         t.devices = <<>>, t.rev = <<>>, t.seen = <<>>, t.odd = {}, t.quiet = h.quiet,
         plat = "windows" => t.next = 32 /\ DOMAIN t.xip = DOMAIN h.pads
                             /\ \A x \in DOMAIN t.xip : t.xip[x] = [disabled |-> FALSE, was_enabled |-> FALSE, packet |-> 0],
         plat = "mac" => t.next = 1,
         plat = "x11" => t.fds = [x \in 1..Slots |-> 0]
  PROVE  Tabled(t, {}, {})
<1>1. Shaped(t)
  BY DEF Blank, Shaped
<1>2. Paired(t)
  BY EmptyIs DEF Paired
<1>3. plat \in Quick => Numbered(t)
  BY EmptyIs DEF Numbered, Blank, Quick
<1>4. plat = "windows" => Polled(t)
  BY DEF Polled
<1>5. plat = "x11" => Slotted(t)
  <2>1. Slots \in Nat
    BY ControllersAssumption
  <2>2. plat = "x11" => t.fds \in [1..Slots -> 0..(Slots + 1)]
    BY <2>1
  <2>3. plat = "x11" => \A x \in 1..Slots : t.fds[x] = 0
    OBVIOUS
  <2> QED
    BY <2>2, <2>3, EmptyIs DEF Slotted, Blank
<1> QED
  BY <1>1, <1>2, <1>3, <1>4, <1>5, EmptyIs DEF Tabled

LEMMA BlankOrdered ==
  ASSUME NEW h, h.q = <<>>, h.devices = <<>>
  PROVE  Ordered(h) /\ Mailed(h)
BY EmptyListed DEF Ordered, InTurn, Mailed

\* All that are there arrive.
LEMMA ListenOrdered ==
  ASSUME NEW h, Rowed(h), NEW t, t.pads = h.pads, t.devices = <<>>,
         t.q = <<>> \o Windows!SetToSeq({[what |-> "arrive", p |-> p] : p \in {n \in DOMAIN h.pads : h.pads[n].in /\ h.pads[n].ready}})
  PROVE  Ordered(t) /\ Mailed(t)
<1> DEFINE P == {n \in DOMAIN h.pads : h.pads[n].in /\ h.pads[n].ready}
           U == {[what |-> "arrive", p |-> p] : p \in P}
           q == Windows!SetToSeq(U)
<1>1. IsFiniteSet(U)
  <2>1. PICK n \in Nat : DOMAIN h.pads = 1..n
    BY DEF Rowed
  <2>2. IsFiniteSet(1..n)
    <3>1. 1 \in Int /\ n \in Int
      OBVIOUS
    <3> QED
      BY <3>1, FS_Interval
  <2>3. P \in SUBSET (1..n)
    BY <2>1
  <2>4. IsFiniteSet(P)
    <3> HIDE DEF P
    <3> QED
      BY <2>2, <2>3, FS_Subset
  <2> DEFINE F == [p \in P |-> [what |-> "arrive", p |-> p]]
  <2>5. F \in Surjection(P, U)
    BY DEF Surjection
  <2> HIDE DEF P, U, F
  <2> QED
    BY <2>4, <2>5, FS_Surjection
<1>2. q \in Seq(U) /\ \A i, j \in DOMAIN q : q[i] = q[j] => i = j
  <2> HIDE DEF U
  <2> QED
    BY <1>1, ToSeqIs
<1>3. t.q = q
  <2> HIDE DEF U
  <2>1. <<>> \o q = q
    <3> HIDE DEF q
    <3> QED
      BY <1>2
  <2> QED
    BY <2>1 DEF U
<1> HIDE DEF q
<1>4. Listed(q) /\ DOMAIN q = 1..Len(q) /\ Len(q) \in Nat /\ \A k \in DOMAIN q : q[k] \in U
  <2> HIDE DEF U
  <2> QED
    BY <1>2 DEF Listed
<1>5. \A k \in DOMAIN q : q[k].what = "arrive" /\ q[k].p \in P /\ q[k] = [what |-> "arrive", p |-> q[k].p]
  BY <1>4
<1> HIDE DEF U
<1>6. ASSUME NEW p \in DOMAIN h.pads PROVE InTurn(t, p)
  <2>1. ASSUME NEW k \in DOMAIN q, NEW i \in 1..(k - 1), Is(q, k, "arrive", p), Is(q, i, "arrive", p) PROVE FALSE
    <3>1. i \in DOMAIN q /\ i # k
      BY <1>4
    <3>2. q[i] = q[k]
      BY <1>5, <2>1, <3>1 DEF Is
    <3> QED
      BY <1>2, <3>1, <3>2
  <2>2. ~h.pads[p].in \/ (~h.pads[p].ready /\ "unready" \notin Faults) => \A k \in DOMAIN q : ~Is(q, k, "arrive", p)
    BY <1>5 DEF Is
  <2> QED
    BY <1>3, <2>1, <2>2, EmptyIs DEF InTurn
<1>7. Mailed(t)
  BY <1>3, <1>4, <1>5 DEF Mailed
<1> QED
  BY <1>6, <1>7 DEF Ordered

\* mty_hid_create, mty_evdev_create and what they need.
LEMMA CreatedTabled ==
  ASSUME NEW h, Blank(h), Rowed(h), plat \in Desk
  PROVE  LET t == Created(plat, h)
         IN /\ Tabled(t, {}, {}) /\ Mailed(t) /\ (plat = "windows" => Ordered(t))
            /\ t.app = "alive" /\ t.pads = h.pads
<1> DEFINE t == Created(plat, h)
<1>0. Fields \subseteq DOMAIN h /\ h.devices = <<>> /\ h.rev = <<>> /\ h.seen = <<>> /\ h.q = <<>> /\ h.odd = {}
  BY DEF Blank, Shaped
<1>1. CASE plat = "windows"
  <2> DEFINE X == [x \in DOMAIN h.pads |-> [disabled |-> FALSE, was_enabled |-> FALSE, packet |-> 0]]
             Q == <<>> \o Windows!SetToSeq({[what |-> "arrive", p |-> p] : p \in {n \in DOMAIN h.pads : h.pads[n].in /\ h.pads[n].ready}})
             u1 == [h EXCEPT !.xip = X]
             u2 == [u1 EXCEPT !.devices = <<>>, !.rev = <<>>, !.next = 32]
             u3 == [u2 EXCEPT !.q = @ \o Windows!SetToSeq({[what |-> "arrive", p |-> p] : p \in {n \in DOMAIN u2.pads : u2.pads[n].in /\ u2.pads[n].ready}})]
  <2>1. t = [u3 EXCEPT !.app = "alive"]
    BY <1>1 DEF Created, Windows!MTY_AppCreate, Windows!MTY_WindowCreate, Windows!mty_hid_create, Windows!xip_create,
                Windows!mty_hid_win32_listen, Windows!HashCreate
  <2>2. u2.pads = h.pads /\ u2.q = <<>>
    BY <1>0 DEF Fields
  <2> HIDE DEF X
  <2>3. u3 = [u2 EXCEPT !.q = Q]
    BY <2>2
  <2> HIDE DEF Q, u3
  <2>4. /\ Fields \subseteq DOMAIN t /\ t.pads = h.pads /\ t.devices = <<>> /\ t.rev = <<>> /\ t.seen = <<>> /\ t.odd = {}
        /\ t.quiet = h.quiet /\ t.next = 32 /\ t.xip = X /\ t.app = "alive" /\ t.q = Q
    BY <1>0, <2>1, <2>3 DEF Fields
  <2> HIDE DEF t
  <2>5. Tabled(t, {}, {})
    BY <1>1, <2>4, BlankTabled DEF X
  <2>6. Ordered(t) /\ Mailed(t)
    BY <2>4, ListenOrdered DEF Q
  <2> QED
    BY <2>4, <2>5, <2>6 DEF t
<1>2. CASE plat = "mac"
  <2>1. t = [[h EXCEPT !.devices = <<>>, !.rev = <<>>, !.next = 1] EXCEPT !.app = "alive"]
    BY <1>2 DEF Created, Mac!MTY_AppCreate, Mac!mty_hid_create, Mac!HashCreate
  <2>2. /\ Fields \subseteq DOMAIN t /\ t.pads = h.pads /\ t.devices = <<>> /\ t.rev = <<>> /\ t.seen = <<>> /\ t.odd = {}
        /\ t.quiet = h.quiet /\ t.next = 1 /\ t.app = "alive" /\ t.q = <<>>
    BY <1>0, <2>1 DEF Fields
  <2> HIDE DEF t
  <2>3. Tabled(t, {}, {})
    BY <1>2, <2>2, BlankTabled
  <2> QED
    BY <1>2, <2>2, <2>3, BlankOrdered DEF t
<1>3. CASE plat = "x11"
  <2> DEFINE X == [x \in 1..Slots |-> 0]
  <2>1. t = [[h EXCEPT !.devices = <<>>, !.rev = <<>>, !.fds = X, !.scan = FALSE] EXCEPT !.app = "alive"]
    BY <1>3 DEF Created, X11!MTY_AppCreate, X11!mty_evdev_create, X11!HashCreate
  <2> HIDE DEF X
  <2>2. /\ Fields \subseteq DOMAIN t /\ t.pads = h.pads /\ t.devices = <<>> /\ t.rev = <<>> /\ t.seen = <<>> /\ t.odd = {}
        /\ t.quiet = h.quiet /\ t.fds = X /\ t.app = "alive" /\ t.q = <<>>
    BY <1>0, <2>1 DEF Fields
  <2> HIDE DEF t
  <2>3. Tabled(t, {}, {})
    BY <1>3, <2>2, BlankTabled DEF X
  <2> QED
    BY <1>3, <2>2, <2>3, BlankOrdered DEF t
<1> QED
  BY <1>1, <1>2, <1>3 DEF Desk

Gone(h) == h.app # "alive" => h.devices = <<>> /\ h.rev = <<>> /\ h.seen = <<>> /\ h.q = <<>>

DeskInv(h) ==
  /\ h.app \in {"alive", "none"} /\ Rowed(h)
  /\ Tabled(h, {}, {}) /\ Mailed(h) /\ Gone(h)
  /\ plat = "windows" => Ordered(h)

\* When the application is gone, a new one finds nothing of it.
LEMMA GoneBlank ==
  ASSUME NEW h, plat \in Desk, Tabled(h, {}, {}), h.devices = <<>> /\ h.rev = <<>> /\ h.seen = <<>> /\ h.q = <<>>
  PROVE  Blank(h)
BY DEF Tabled, Numbered, Slotted, Blank, Desk, Quick

\* A controller is no nearer than it was, and no message came.
Nearer(h, t) ==
  \A p \in DOMAIN h.pads : ~t.pads[p].in \/ (~t.pads[p].ready /\ "unready" \notin Faults) =>
                           ~h.pads[p].in \/ (~h.pads[p].ready /\ "unready" \notin Faults)

\* Nobody enqueued anything.
LEMMA DeskStill ==
  ASSUME NEW h, DeskInv(h), NEW t, Around(h, t), t.q = h.q, plat = "windows" => Nearer(h, t)
  PROVE  DeskInv(t)
<1>1. Tabled(t, {}, {})
  BY AroundTabled DEF DeskInv
<1>2. plat = "windows" => Ordered(t)
  BY OrderedStill DEF DeskInv, Around, Nearer
<1>3. t.app \in {"alive", "none"} /\ Rowed(t) /\ Mailed(t) /\ Gone(t)
  BY DEF DeskInv, Around, Rowed, Mailed, Gone
<1> QED
  BY <1>1, <1>2, <1>3 DEF DeskInv

\* One message was enqueued: an arrival is of a controller that was away.
LEMMA DeskEnqueued ==
  ASSUME NEW h, DeskInv(h), NEW t, Around(h, t), t.q = h.q, NEW m, m.p \in DOMAIN h.pads,
         \A p \in DOMAIN h.pads : (p = m.p /\ m.what \in {"arrive", "remove"}) \/ (t.pads[p].in = h.pads[p].in /\ t.pads[p].ready = h.pads[p].ready),
         m.what = "arrive" /\ plat = "windows" =>
           /\ ~h.pads[m.p].in \/ (~h.pads[m.p].ready /\ "unready" \notin Faults)
           /\ ~(~t.pads[m.p].in \/ (~t.pads[m.p].ready /\ "unready" \notin Faults))
  PROVE  DeskInv(Enqueued(t, m))
<1> DEFINE u == Enqueued(t, m)
<1>1. CASE h.app # "alive"
  <2>1. u = t
    BY <1>1 DEF Enqueued, Around
  <2>2. Tabled(t, {}, {})
    BY AroundTabled DEF DeskInv
  <2>3. t.q = <<>> /\ t.devices = <<>> /\ t.rev = <<>> /\ t.seen = <<>>
    BY <1>1 DEF DeskInv, Gone, Around
  <2>4. t.app \in {"alive", "none"} /\ Rowed(t) /\ Gone(t)
    BY <2>3 DEF DeskInv, Around, Rowed, Gone
  <2> HIDE DEF u
  <2> QED
    BY <2>1, <2>2, <2>3, <2>4, BlankOrdered DEF DeskInv, u
<1>2. CASE h.app = "alive"
  <2> DEFINE w == [t EXCEPT !.q = Append(t.q, m)]
  <2>1. u = w
    BY <1>2 DEF Enqueued, Around
  <2>2. Around(h, w)
    BY AroundOn DEF DeskInv
  <2>3. w.q = Append(h.q, m) /\ w.pads = t.pads /\ w.devices = h.devices
    BY DEF Around, Fields
  <2> HIDE DEF w, u
  <2>4. Tabled(w, {}, {})
    BY <2>2, AroundTabled DEF DeskInv
  <2>5. Mailed(w)
    BY <2>2, <2>3, MailedAppend DEF DeskInv, Around
  <2>6. ASSUME plat = "windows" PROVE Ordered(w)
    <3>1. DOMAIN w.pads = DOMAIN h.pads /\ Ordered(h) /\ Listed(h.q)
      BY <2>2, <2>6 DEF DeskInv, Around, Mailed
    <3> QED
      BY <2>3, <2>6, <3>1, OrderedAppend
  <2>7. w.app \in {"alive", "none"} /\ Rowed(w) /\ Gone(w)
    BY <1>2, <2>2 DEF DeskInv, Around, Rowed, Gone
  <2> QED
    BY <2>1, <2>4, <2>5, <2>6, <2>7 DEF DeskInv, u
<1> QED
  BY <1>1, <1>2

\* A call of the program leaves the devices and the queue alone.
LEMMA DeskSame ==
  ASSUME NEW h, DeskInv(h), NEW t, Tabled(t, {}, {}), Same(h, t), h.app = "alive"
  PROVE  DeskInv(t)
<1>1. plat = "windows" => Ordered(t)
  BY SameOrdered DEF DeskInv
<1>2. Kept(h, t)
  BY SameKept
<1>3. Mailed(t) /\ Rowed(t) /\ t.app = "alive"
  BY <1>2 DEF DeskInv, Kept, Mailed, Rowed
<1> QED
  BY <1>1, <1>3 DEF DeskInv, Gone

-----------------------------------------------------------------------------
(* The library, the system and the program. *)

\* The steps, one by one.
LEMMA DeskRun ==
  ASSUME DeskInv(s), plat \in Desk, AppRun
  PROVE  DeskInv(s')
<1>1. s.app = "alive" /\ Tabled(s, {}, {}) /\ Mailed(s) /\ Rowed(s)
  BY DEF AppRun, DeskInv, Desk
<1>2. Tabled(s', {}, {}) /\ (Kept(s, s') \/ (s.q # <<>> /\ Follow(s, s'))) /\ (plat = "windows" => Ordered(s'))
  <2>1. CASE plat = "windows"
    <3>1. s' \in Windows!AppRun(s) /\ Ordered(s)
      BY <2>1 DEF AppRun, DeskInv
    <3> QED
      BY <1>1, <2>1, <3>1, WindowsRun
  <2>2. CASE plat = "mac"
    <3>1. s' \in Mac!AppRun(s)
      BY <2>2 DEF AppRun
    <3> QED
      BY <1>1, <2>2, <3>1, MacRun
  <2>3. CASE plat = "x11"
    <3>1. s' \in X11!AppRun(s)
      BY <2>3 DEF AppRun
    <3> QED
      BY <1>1, <2>3, <3>1, X11Run
  <2> QED
    BY <2>1, <2>2, <2>3 DEF Desk
<1>3. Mailed(s')
  BY <1>1, <1>2, MailedFollow
<1>4. s'.app = "alive" /\ Rowed(s')
  BY <1>1, <1>2 DEF Kept, Follow, Rowed
<1> QED
  BY <1>2, <1>3, <1>4 DEF DeskInv, Gone

LEMMA DeskTick ==
  ASSUME DeskInv(s), plat \in Desk, NEW p, Tick(p)
  PROVE  DeskInv(s')
<1>1. p \in DOMAIN s.devices /\ plat \in Quick /\ Tabled(s, {}, {})
  BY DEF Tick, DeskInv, Quick
<1>2. s.app = "alive"
  BY <1>1, EmptyIs DEF DeskInv, Gone
<1>3. Tabled(s', {}, {}) /\ Same(s, s')
  <2>1. CASE s.pads[p].kind = "nx" /\ s' = [s EXCEPT !.devices[p].st.late = TRUE, !.devices[p].st.old = TRUE]
    <3> DEFINE k == [s EXCEPT !.devices[p].st.late = TRUE]
               l == [k EXCEPT !.devices[p].st.old = TRUE]
    <3>1. s' = l
      BY <2>1
    <3>2. Free(s.pads[p].kind, "late") /\ Free(s.pads[p].kind, "old")
      BY DEF Free
    <3>3. Works(s, {}, k)
      BY <1>1, <3>2, FieldWorks
    <3>4. Tabled(k, {}, {}) /\ p \in DOMAIN k.devices /\ k.pads[p].kind = s.pads[p].kind
      <4> HIDE DEF k
      <4> QED
        BY <1>1, <3>3, WorksThere
    <3> HIDE DEF k
    <3>5. Works(k, {}, l)
      BY <1>1, <3>2, <3>4, FieldWorks
    <3> HIDE DEF l
    <3> QED
      BY <3>1, <3>3, <3>5, SameKept DEF Works
  <2>2. CASE s.pads[p].kind = "xbox" /\ s' = [s EXCEPT !.devices[p].st.age = @ + 1]
    <3> DEFINE x == s.devices[p].st.age + 1
               k == [s EXCEPT !.devices[p].st.age = x]
    <3>1. s' = k
      BY <2>2
    <3>2. Free(s.pads[p].kind, "age")
      BY DEF Free
    <3> HIDE DEF x
    <3>3. Works(s, {}, k)
      BY <1>1, <3>2, FieldWorks
    <3> QED
      BY <3>1, <3>3 DEF Works
  <2> QED
    BY <2>1, <2>2 DEF Tick
<1> QED
  BY <1>2, <1>3, DeskSame

LEMMA DeskCreate ==
  ASSUME DeskInv(s), plat \in Desk, MTY_AppCreate
  PROVE  DeskInv(s')
<1>1. s.app # "alive" /\ s' = Created(plat, s)
  BY DEF MTY_AppCreate
<1>2. Blank(s) /\ Rowed(s)
  <2>1. Tabled(s, {}, {}) /\ s.devices = <<>> /\ s.rev = <<>> /\ s.seen = <<>> /\ s.q = <<>> /\ Rowed(s)
    BY <1>1 DEF DeskInv, Gone
  <2> QED
    BY <2>1, GoneBlank
<1>3. /\ Tabled(s', {}, {}) /\ Mailed(s') /\ (plat = "windows" => Ordered(s'))
      /\ s'.app = "alive" /\ s'.pads = s.pads
  BY <1>1, <1>2, CreatedTabled
<1> QED
  BY <1>2, <1>3 DEF DeskInv, Gone, Rowed

LEMMA DeskDestroy ==
  ASSUME DeskInv(s), plat \in Desk, MTY_AppDestroy
  PROVE  DeskInv(s')
<1> DEFINE t == CASE plat = "windows" -> Windows!MTY_AppDestroy(s)
                  [] plat = "mac"     -> Mac!MTY_AppDestroy(s)
                  [] plat = "x11"     -> X11!MTY_AppDestroy(s)
                  [] plat = "android" -> s
                  [] plat = "web"     -> Web!MTY_AppDestroy(s)
<1>0. Fields \subseteq DOMAIN s /\ Shaped(s) /\ s.odd = {}
  BY DEF DeskInv, Tabled, Shaped
<1>1. s' = [t EXCEPT !.app = IF plat = "web" THEN @ ELSE "none", !.apps = @ - 1, !.seen = <<>>,
                     !.pads = [p \in DOMAIN s.pads |-> [@[p] EXCEPT !.want = -1]]]
  BY DEF MTY_AppDestroy, Pads
<1>2. /\ Fields \subseteq DOMAIN t /\ t.devices = <<>> /\ t.rev = <<>> /\ t.q = <<>> /\ t.odd = s.odd
      /\ t.next = s.next /\ t.quiet = s.quiet /\ t.xip = s.xip
      /\ t.fds = IF plat = "x11" THEN [x \in 1..Slots |-> 0] ELSE s.fds
      /\ t.pads = IF plat = "x11" THEN [p \in DOMAIN s.pads |-> [s.pads[p] EXCEPT !.events = <<>>, !.effect = FALSE, !.motor = 0]]
                                  ELSE s.pads
  <2>1. CASE plat = "windows"
    <3>1. t = [[[s EXCEPT !.dedupe = <<>>] EXCEPT !.q = <<>>] EXCEPT !.devices = <<>>, !.rev = <<>>]
      BY <2>1 DEF Windows!MTY_AppDestroy, Windows!MTY_WindowDestroy, Windows!mty_hid_destroy
    <3> QED
      BY <1>0, <2>1, <3>1 DEF Fields
  <2>2. CASE plat = "mac"
    <3>1. t = [[s EXCEPT !.devices = <<>>, !.rev = <<>>, !.q = <<>>] EXCEPT !.dedupe = <<>>]
      BY <2>2 DEF Mac!MTY_AppDestroy, Mac!mty_hid_destroy
    <3> QED
      BY <1>0, <2>2, <3>1 DEF Fields
  <2>3. CASE plat = "x11"
    <3> DEFINE P == [p \in DOMAIN s.pads |-> [s.pads[p] EXCEPT !.events = <<>>, !.effect = FALSE, !.motor = 0]]
               X == [x \in 1..Slots |-> 0]
    <3>1. t = [[s EXCEPT !.devices = <<>>, !.rev = <<>>, !.fds = X, !.q = <<>>, !.pads = P] EXCEPT !.dedupe = <<>>]
      BY <2>3 DEF X11!MTY_AppDestroy, X11!mty_evdev_destroy
    <3> HIDE DEF P, X, t
    <3>2. t.pads = P /\ t.fds = X /\ Fields \subseteq DOMAIN t /\ t.devices = <<>> /\ t.rev = <<>> /\ t.q = <<>> /\ t.odd = s.odd
          /\ t.next = s.next /\ t.quiet = s.quiet /\ t.xip = s.xip
      BY <1>0, <3>1 DEF Fields
    <3> QED
      BY <2>3, <3>2 DEF P, X
  <2> QED
    BY <2>1, <2>2, <2>3 DEF Desk
<1> HIDE DEF t
<1>3. /\ Fields \subseteq DOMAIN s' /\ s'.devices = <<>> /\ s'.rev = <<>> /\ s'.q = <<>> /\ s'.odd = {} /\ s'.seen = <<>>
      /\ s'.next = s.next /\ s'.quiet = s.quiet /\ s'.xip = s.xip /\ s'.fds = t.fds /\ s'.app = "none"
      /\ s'.pads = [p \in DOMAIN s.pads |-> [t.pads[p] EXCEPT !.want = -1]]
  BY <1>0, <1>1, <1>2 DEF Fields, Desk
<1>4. DOMAIN s'.pads = DOMAIN s.pads
  BY <1>3
<1>5. \A p \in DOMAIN s.pads :
        /\ PadFields \subseteq DOMAIN s'.pads[p] /\ s'.pads[p].kind = s.pads[p].kind /\ s'.pads[p].in = s.pads[p].in
        /\ s'.pads[p].motor \in 0..1 /\ s'.pads[p].want = -1
  <2> TAKE p \in DOMAIN s.pads
  <2>1. s'.pads[p] = [t.pads[p] EXCEPT !.want = -1]
    BY <1>3
  <2>2. PadFields \subseteq DOMAIN s.pads[p] /\ s.pads[p].motor \in 0..1
    BY <1>0 DEF Shaped
  <2>3. t.pads[p] = IF plat = "x11" THEN [s.pads[p] EXCEPT !.events = <<>>, !.effect = FALSE, !.motor = 0] ELSE s.pads[p]
    BY <1>2
  <2>4. PadFields \subseteq DOMAIN t.pads[p] /\ t.pads[p].motor \in 0..1 /\ t.pads[p].kind = s.pads[p].kind /\ t.pads[p].in = s.pads[p].in
    BY <2>2, <2>3 DEF PadFields
  <2> QED
    BY <2>1, <2>4 DEF PadFields
<1>6. Shaped(s')
  <2>1. ASSUME NEW p \in DOMAIN s'.pads
        PROVE  /\ PadFields \subseteq DOMAIN s'.pads[p]
               /\ s'.pads[p].in \in BOOLEAN /\ s'.pads[p].motor \in 0..1 /\ s'.pads[p].want \in -1..1
               /\ s'.pads[p].kind = "xinput" => plat = "windows" /\ p \in 1..4
               /\ plat \in Quick => s'.pads[p].kind \in Driven \cup {"xinput"}
    <3>1. /\ s.pads[p].in \in BOOLEAN
          /\ s.pads[p].kind = "xinput" => plat = "windows" /\ p \in 1..4
          /\ plat \in Quick => s.pads[p].kind \in Driven \cup {"xinput"}
      BY <1>0, <1>4 DEF Shaped
    <3> QED
      BY <1>4, <1>5, <3>1
  <2> QED
    BY <1>3, <2>1 DEF Shaped
<1>7. Paired(s')
  BY <1>3, EmptyIs DEF Paired
<1>8. plat \in Quick => Numbered(s')
  BY <1>3, EmptyIs DEF DeskInv, Tabled, Numbered
<1>9. plat = "windows" => Polled(s')
  BY <1>3, <1>4, <1>5 DEF DeskInv, Tabled, Polled
<1>10. plat = "x11" => Slotted(s')
  <2>1. Slots \in Nat
    BY ControllersAssumption
  <2>4. plat = "x11" => s'.fds = [x \in 1..Slots |-> 0]
    <3>1. t.fds = IF plat = "x11" THEN [x \in 1..Slots |-> 0] ELSE s.fds
      BY <1>2
    <3> QED
      BY <1>3, <3>1
  <2>2. plat = "x11" => s'.fds \in [1..Slots -> 0..(Slots + 1)]
    BY <2>1, <2>4
  <2>3. plat = "x11" => \A x \in 1..Slots : s'.fds[x] = 0
    BY <2>4
  <2> QED
    BY <1>3, <2>2, <2>3, EmptyIs DEF DeskInv, Tabled, Slotted
<1>11. Tabled(s', {}, {})
  BY <1>3, <1>6, <1>7, <1>8, <1>9, <1>10, EmptyIs DEF Tabled
<1>12. Mailed(s') /\ Ordered(s')
  BY <1>3, BlankOrdered
<1> QED
  BY <1>3, <1>4, <1>11, <1>12 DEF DeskInv, Gone, Rowed

\* A device's motor.
LEMMA MotorTabled ==
  ASSUME NEW h, Tabled(h, {}, {}), NEW p, NEW v \in 0..1
  PROVE  Tabled([h EXCEPT !.pads[p].motor = v], {}, {}) /\ Same(h, [h EXCEPT !.pads[p].motor = v])
<1> DEFINE d == [h.pads[p] EXCEPT !.motor = v]
           t == [h EXCEPT !.pads[p].motor = v]
<1>1. CASE p \in DOMAIN h.pads
  <2>1. t = [h EXCEPT !.pads[p] = d]
    OBVIOUS
  <2>2. PadFields \subseteq DOMAIN h.pads[p] /\ h.pads[p].in \in BOOLEAN /\ h.pads[p].want \in -1..1
    BY <1>1 DEF Tabled, Shaped
  <2>3. PadFields \subseteq DOMAIN d /\ d.kind = h.pads[p].kind /\ d.in = h.pads[p].in /\ d.motor = v /\ d.want = h.pads[p].want
        /\ d.ready = h.pads[p].ready
    BY <2>2 DEF PadFields
  <2> HIDE DEF d, t
  <2>4. Around(h, [h EXCEPT !.pads[p] = d])
    BY <1>1, <2>2, <2>3, PadAround
  <2>5. Tabled(t, {}, {})
    BY <2>1, <2>4, AroundTabled
  <2>6. Same(h, t)
    <3>1. /\ t.q = h.q /\ t.app = h.app /\ t.focus = h.focus /\ t.devices = h.devices /\ DOMAIN t.pads = DOMAIN h.pads
          /\ \A i \in DOMAIN h.pads : t.pads[i] = IF i = p THEN d ELSE h.pads[i]
      BY <2>1 DEF Tabled, Shaped, Fields
    <3> QED
      BY <2>3, <3>1 DEF Same, Kept
  <2> QED
    BY <2>5, <2>6 DEF t
<1>2. CASE p \notin DOMAIN h.pads
  <2>1. Fields \subseteq DOMAIN h
    BY DEF Tabled, Shaped
  <2>2. /\ Fields \subseteq DOMAIN t /\ t.devices = h.devices /\ t.rev = h.rev /\ t.odd = h.odd
        /\ t.next = h.next /\ t.quiet = h.quiet /\ t.fds = h.fds /\ t.xip = h.xip /\ t.app = h.app /\ t.seen = h.seen
        /\ DOMAIN t.pads = DOMAIN h.pads /\ (\A i \in DOMAIN h.pads : t.pads[i] = h.pads[i])
        /\ t.q = h.q /\ t.focus = h.focus
    BY <1>2, <2>1 DEF Fields
  <2> HIDE DEF t
  <2>3. Around(h, t)
    BY <2>2 DEF Around, Tabled, Shaped
  <2>4. Tabled(t, {}, {}) /\ Same(h, t)
    BY <2>2, <2>3, AroundTabled DEF Same, Kept
  <2> QED
    BY <2>4 DEF t
<1> QED
  BY <1>1, <1>2

LEMMA X11RumbleTabled ==
  ASSUME NEW h, Tabled(h, {}, {}), plat = "x11", NEW id, NEW v \in 0..1
  PROVE  Tabled(X11!mty_evdev_rumble(h, id, v), {}, {}) /\ Same(h, X11!mty_evdev_rumble(h, id, v))
<1> DEFINE p == h.rev[id]
           t0 == [h EXCEPT !.devices[p].ff = FALSE]
           t1 == [h EXCEPT !.pads[p].effect = TRUE, !.pads[p].motor = v, !.devices[p].ff = TRUE]
           t == X11!mty_evdev_rumble(h, id, v)
<1>1. CASE id \notin DOMAIN h.rev
  BY <1>1, SameKept DEF X11!mty_evdev_rumble
<1>2. CASE id \in DOMAIN h.rev
  <2>1. t \in {h, t0, t1}
    BY <1>2 DEF X11!mty_evdev_rumble
  <2>2. p \in DOMAIN h.devices /\ p \in DOMAIN h.pads /\ {"id", "slot"} \subseteq DOMAIN h.devices[p]
    BY <1>2 DEF Tabled, Paired, Slotted
  <2> HIDE DEF p, t
  <2>3. Fields \subseteq DOMAIN h
    BY DEF Tabled, Shaped
  <2>4. ASSUME NEW u \in {t0, t1} PROVE Alike(h, u)
    <3>1. \E b \in BOOLEAN : \E d :
            /\ Fields \subseteq DOMAIN u /\ u.rev = h.rev /\ u.odd = h.odd /\ u.quiet = h.quiet /\ u.fds = h.fds
            /\ u.app = h.app /\ u.seen = h.seen /\ u.q = h.q /\ u.focus = h.focus
            /\ DOMAIN u.devices = DOMAIN h.devices /\ DOMAIN u.pads = DOMAIN h.pads
            /\ \A i \in DOMAIN h.devices : u.devices[i] = IF i = p THEN [h.devices[p] EXCEPT !.ff = b] ELSE h.devices[i]
            /\ \A i \in DOMAIN h.pads : u.pads[i] = IF i = p THEN d ELSE h.pads[i]
            /\ d \in {h.pads[p], [[h.pads[p] EXCEPT !.effect = TRUE] EXCEPT !.motor = v]}
      <4>1. CASE u = t0
        <5> WITNESS FALSE \in BOOLEAN
        <5> WITNESS h.pads[p]
        <5> QED
          BY <2>2, <2>3, <4>1 DEF Fields
      <4>2. CASE u = t1
        <5> WITNESS TRUE \in BOOLEAN
        <5> WITNESS [[h.pads[p] EXCEPT !.effect = TRUE] EXCEPT !.motor = v]
        <5> QED
          BY <2>2, <2>3, <4>2 DEF Fields
      <4> QED
        BY <4>1, <4>2
    <3>2. PICK b, d :
            /\ b \in BOOLEAN
            /\ Fields \subseteq DOMAIN u /\ u.rev = h.rev /\ u.odd = h.odd /\ u.quiet = h.quiet /\ u.fds = h.fds
            /\ u.app = h.app /\ u.seen = h.seen /\ u.q = h.q /\ u.focus = h.focus
            /\ DOMAIN u.devices = DOMAIN h.devices /\ DOMAIN u.pads = DOMAIN h.pads
            /\ \A i \in DOMAIN h.devices : u.devices[i] = IF i = p THEN [h.devices[p] EXCEPT !.ff = b] ELSE h.devices[i]
            /\ \A i \in DOMAIN h.pads : u.pads[i] = IF i = p THEN d ELSE h.pads[i]
            /\ d \in {h.pads[p], [[h.pads[p] EXCEPT !.effect = TRUE] EXCEPT !.motor = v]}
      BY <3>1
    <3>3. \A i \in DOMAIN h.devices :
             /\ {"id", "slot"} \subseteq DOMAIN u.devices[i]
             /\ u.devices[i].id = h.devices[i].id /\ u.devices[i].slot = h.devices[i].slot
      BY <2>2, <3>2 DEF Tabled, Paired, Slotted
    <3>4. /\ PadFields \subseteq DOMAIN d
          /\ d.in = h.pads[p].in /\ d.ready = h.pads[p].ready /\ d.kind = h.pads[p].kind
          /\ d.want = h.pads[p].want /\ d.motor \in 0..1
      <4>1. PadFields \subseteq DOMAIN h.pads[p] /\ h.pads[p].motor \in 0..1
        BY <2>2 DEF Tabled, Shaped
      <4> QED
        BY <3>2, <4>1 DEF PadFields
    <3>5. \A i \in DOMAIN h.pads :
             /\ PadFields \subseteq DOMAIN u.pads[i]
             /\ u.pads[i].in = h.pads[i].in /\ u.pads[i].ready = h.pads[i].ready /\ u.pads[i].kind = h.pads[i].kind
             /\ u.pads[i].want = h.pads[i].want /\ u.pads[i].motor \in 0..1
      BY <3>2, <3>4 DEF Tabled, Shaped
    <3> QED
      BY <3>2, <3>3, <3>5 DEF Alike
  <2>5. \A u \in {t0, t1} : Tabled(u, {}, {}) /\ Same(h, u)
    BY <2>4, AlikeTabled
  <2> HIDE DEF t0, t1
  <2> QED
    BY <2>1, <2>5, SameKept DEF t
<1> QED
  BY <1>1, <1>2

\* The program asks for something.
LEMMA WantAround ==
  ASSUME NEW h, Tabled(h, {}, {}), NEW asked, NEW v \in 0..1, NEW x
  PROVE  LET t == [h EXCEPT !.rumbles = x, !.pads = [p \in DOMAIN h.pads |-> IF p \in asked THEN [@[p] EXCEPT !.want = v] ELSE @[p]]]
         IN Around(h, t) /\ t.q = h.q /\ Nearer(h, t)
<1> DEFINE P == [p \in DOMAIN h.pads |-> IF p \in asked THEN [h.pads[p] EXCEPT !.want = v] ELSE h.pads[p]]
           t == [h EXCEPT !.rumbles = x, !.pads = [p \in DOMAIN h.pads |-> IF p \in asked THEN [@[p] EXCEPT !.want = v] ELSE @[p]]]
<1>1. Fields \subseteq DOMAIN h /\ Shaped(h)
  BY DEF Tabled, Shaped
<1>2. t = [h EXCEPT !.rumbles = x, !.pads = P]
  OBVIOUS
<1>3. DOMAIN P = DOMAIN h.pads /\ \A p \in DOMAIN h.pads : P[p] = IF p \in asked THEN [h.pads[p] EXCEPT !.want = v] ELSE h.pads[p]
  OBVIOUS
<1> HIDE DEF P, t
<1>4. /\ Fields \subseteq DOMAIN t /\ t.devices = h.devices /\ t.rev = h.rev /\ t.odd = h.odd
      /\ t.next = h.next /\ t.quiet = h.quiet /\ t.fds = h.fds /\ t.xip = h.xip /\ t.app = h.app /\ t.seen = h.seen
      /\ t.pads = P /\ t.q = h.q
  BY <1>1, <1>2 DEF Fields
<1>5. ASSUME NEW p \in DOMAIN h.pads
      PROVE  /\ PadFields \subseteq DOMAIN t.pads[p] /\ t.pads[p].kind = h.pads[p].kind
             /\ t.pads[p].in \in BOOLEAN /\ t.pads[p].motor \in 0..1 /\ t.pads[p].want \in -1..1
             /\ t.pads[p].in = h.pads[p].in /\ t.pads[p].ready = h.pads[p].ready
  <2>1. /\ PadFields \subseteq DOMAIN h.pads[p]
        /\ h.pads[p].in \in BOOLEAN /\ h.pads[p].motor \in 0..1 /\ h.pads[p].want \in -1..1
    BY <1>1 DEF Shaped
  <2>2. t.pads[p] = IF p \in asked THEN [h.pads[p] EXCEPT !.want = v] ELSE h.pads[p]
    BY <1>3, <1>4
  <2>3. v \in -1..1
    OBVIOUS
  <2> QED
    BY <2>1, <2>2, <2>3 DEF PadFields
<1>6. Around(h, t) /\ Nearer(h, t)
  BY <1>3, <1>4, <1>5 DEF Around, Nearer
<1> QED
  BY <1>4, <1>6 DEF t

\* The program asks for rumble.
LEMMA DeskRumble ==
  ASSUME DeskInv(s), plat \in Desk, NEW id, NEW v \in 0..1, MTY_AppRumbleController(id, v)
  PROVE  DeskInv(s')
<1> DEFINE asked == {p \in Pads : IdOf(p) = id /\ s.pads[p].in /\ s.pads[p].ready /\ ~Queued(p, {"arrive", "remove"})}
           t == CASE plat = "windows" -> Windows!MTY_AppRumbleController(s, id, v)
                  [] plat = "mac"     -> Mac!MTY_AppRumbleController(s, id, v)
                  [] plat = "x11"     -> X11!MTY_AppRumbleController(s, id, v)
                  [] plat = "android" -> Android!MTY_AppRumbleController(s, id, v)
                  [] plat = "web"     -> Web!MTY_AppRumbleController(s, id, v)
<1>1. /\ s.app = "alive"
      /\ s' = [t EXCEPT !.rumbles = @ - 1,
                        !.pads = [p \in Pads |-> IF p \in asked THEN [@[p] EXCEPT !.want = v] ELSE @[p]]]
  BY DEF MTY_AppRumbleController
<1>2. Tabled(s, {}, {})
  BY DEF DeskInv
<1>3. Tabled(t, {}, {}) /\ Same(s, t)
  <2>1. CASE plat = "windows"
    <3>1. t = IF id < 4 THEN Windows!xip_rumble(s, id + 1, v) ELSE Windows!HidRumble(s, id, v)
      BY <2>1 DEF Windows!MTY_AppRumbleController
    <3>2. Tabled(Windows!HidRumble(s, id, v), {}, {}) /\ Same(s, Windows!HidRumble(s, id, v))
      BY <1>2, <2>1, HidRumbleWindowsWorks DEF Works, Quick
    <3>3. Windows!xip_rumble(s, id + 1, v) \in {s, [s EXCEPT !.pads[id + 1].motor = v]}
      BY DEF Windows!xip_rumble
    <3>4. Tabled(Windows!xip_rumble(s, id + 1, v), {}, {}) /\ Same(s, Windows!xip_rumble(s, id + 1, v))
      <4>1. ASSUME NEW y
            PROVE  /\ Tabled([s EXCEPT !.pads[y].motor = v], {}, {}) /\ Same(s, [s EXCEPT !.pads[y].motor = v])
        BY <1>2, MotorTabled
      <4> DEFINE k == [s EXCEPT !.pads[id + 1].motor = v]
      <4>2. Tabled(k, {}, {}) /\ Same(s, k)
        BY <4>1
      <4> HIDE DEF k
      <4>3. Windows!xip_rumble(s, id + 1, v) \in {s, k}
        BY <3>3 DEF k
      <4> QED
        BY <1>2, <4>2, <4>3, SameKept
    <3> HIDE DEF t
    <3> QED
      BY <3>1, <3>2, <3>4
  <2>2. CASE plat = "mac"
    <3>1. t = Mac!HidRumble(s, id, v)
      BY <2>2 DEF Mac!MTY_AppRumbleController
    <3> HIDE DEF t
    <3> QED
      BY <1>2, <2>2, <3>1, HidRumbleMacWorks DEF Works, Quick
  <2>3. CASE plat = "x11"
    <3>1. t = X11!mty_evdev_rumble(s, id, v)
      BY <2>3 DEF X11!MTY_AppRumbleController
    <3> HIDE DEF t
    <3> QED
      BY <1>2, <2>3, <3>1, X11RumbleTabled
  <2> QED
    BY <2>1, <2>2, <2>3 DEF Desk
<1> HIDE DEF t, asked
<1>4. DeskInv(t)
  BY <1>1, <1>3, DeskSame
<1>5. Pads = DOMAIN t.pads
  BY <1>3 DEF Same, Kept, Pads
<1> DEFINE x == t.rumbles - 1
           u == [t EXCEPT !.rumbles = x, !.pads = [p \in DOMAIN t.pads |-> IF p \in asked THEN [@[p] EXCEPT !.want = v] ELSE @[p]]]
<1>6. s' = u
  BY <1>1, <1>5
<1> HIDE DEF x
<1>7. Around(t, u) /\ u.q = t.q /\ Nearer(t, u)
  BY <1>3, WantAround
<1> HIDE DEF u
<1> QED
  BY <1>4, <1>6, <1>7, DeskStill

\* The window gains or loses the focus.
LEMMA DeskFocus ==
  ASSUME DeskInv(s), plat \in Desk, "again" \notin Faults, Focus
  PROVE  DeskInv(s')
<1> DEFINE x == s.focuses - 1
           t == [s EXCEPT !.focuses = x]
           y == ~t.focus
           u == [t EXCEPT !.focus = y]
<1>1. s' = u
  BY DEF Focus
<1> HIDE DEF x, y
<1>2. Around(s, u)
  <2>1. Around(s, t)
    BY AroundOn DEF DeskInv
  <2> HIDE DEF t
  <2> QED
    BY <2>1, AroundOn DEF DeskInv
<1>3. u.q = s.q /\ u.pads = s.pads
  BY DEF DeskInv, Tabled, Shaped, Fields
<1> HIDE DEF u
<1>4. Nearer(s, u)
  BY <1>3 DEF Nearer
<1> QED
  BY <1>1, <1>2, <1>3, <1>4, DeskStill

\* What stays of a controller, whatever becomes of it.
Renewed(p, d) ==
  /\ PadFields \subseteq DOMAIN d /\ d.kind = s.pads[p].kind
  /\ d.in \in BOOLEAN /\ d.motor \in 0..1 /\ d.want \in -1..1

\* One controller changes.
LEMMA PadIs ==
  ASSUME DeskInv(s), NEW p \in Pads, NEW d, Renewed(p, d)
  PROVE  LET t == [s EXCEPT !.pads[p] = d]
         IN /\ Around(s, t) /\ t.q = s.q /\ t.pads[p] = d /\ \A i \in Pads : i # p => t.pads[i] = s.pads[i]
            /\ DOMAIN t.pads = Pads /\ t.app = s.app
<1> DEFINE t == [s EXCEPT !.pads[p] = d]
<1>1. Around(s, t)
  BY PadAround DEF DeskInv, Renewed, Pads
<1>2. Fields \subseteq DOMAIN s
  BY DEF DeskInv, Tabled, Shaped
<1>3. t.q = s.q /\ t.pads[p] = d /\ (\A i \in Pads : i # p => t.pads[i] = s.pads[i]) /\ DOMAIN t.pads = Pads /\ t.app = s.app
  BY <1>2 DEF Fields, Pads
<1> QED
  BY <1>1, <1>3

LEMMA PadFieldsAre ==
  ASSUME DeskInv(s), NEW p \in Pads
  PROVE  Renewed(p, s.pads[p])
BY DEF DeskInv, Tabled, Shaped, Renewed, Pads

\* What happens to the controllers.
LEMMA DeskPlug ==
  ASSUME DeskInv(s), plat \in Desk, NEW p \in Pads, Plug(p)
  PROVE  DeskInv(s')
<1> DEFINE pad == s.pads[p]
           packet == IF "still" \in Faults THEN 0 ELSE pad.packet + 1
           new == [pad EXCEPT !.in = TRUE, !.pos = pad.rest, !.packet = packet, !.id = s.next,
                              !.ready = ~is_xinput(p)]
           d == [new EXCEPT !.id = pad.id]
           t == [s EXCEPT !.pads[p] = IF plat = "android" THEN new ELSE d,
                          !.next = IF plat = "android" THEN @ + 1 ELSE @]
           u == [s EXCEPT !.pads[p] = d]
<1>1. ~pad.in /\ s' = IF new.ready \/ "unready" \in Faults THEN Arrival(t, p) ELSE t
  BY DEF Plug
<1>2. t = u
  <2>1. plat # "android"
    BY DEF Desk
  <2> HIDE DEF new, d
  <2> QED
    BY <2>1
<1>3. Renewed(p, pad)
  BY PadFieldsAre
<1>4. Renewed(p, d) /\ d.in = TRUE /\ d.ready = ~is_xinput(p) /\ new.ready = d.ready
  <2> HIDE DEF packet
  <2> QED
    BY <1>3 DEF Renewed, PadFields
<1> HIDE DEF t, d, new, pad
<1>5. /\ Around(s, u) /\ u.q = s.q /\ u.pads[p] = d /\ (\A i \in Pads : i # p => u.pads[i] = s.pads[i])
      /\ DOMAIN u.pads = Pads /\ u.app = s.app
  BY <1>4, PadIs
<1> HIDE DEF u
<1>6. CASE ~((d.ready \/ "unready" \in Faults) /\ plat \in {"windows", "x11"})
  <2>1. s' = u
    BY <1>1, <1>2, <1>4, <1>6 DEF Arrival
  <2>2. plat = "windows" => Nearer(s, u)
    BY <1>1, <1>5 DEF Nearer, Pads, pad
  <2> QED
    BY <1>5, <2>1, <2>2, DeskStill
<1>7. CASE (d.ready \/ "unready" \in Faults) /\ plat \in {"windows", "x11"}
  <2> DEFINE m == [what |-> "arrive", p |-> p]
  <2>1. s' = Enqueued(u, m)
    BY <1>1, <1>2, <1>4, <1>7 DEF Arrival
  <2>2. m.p = p /\ m.what = "arrive"
    OBVIOUS
  <2> HIDE DEF m
  <2>3. ~(~u.pads[m.p].in \/ (~u.pads[m.p].ready /\ "unready" \notin Faults))
    BY <1>4, <1>5, <1>7, <2>2
  <2> QED
    BY <1>1, <1>5, <2>1, <2>2, <2>3, DeskEnqueued DEF Pads, pad
<1> QED
  BY <1>6, <1>7

LEMMA DeskReady ==
  ASSUME DeskInv(s), plat \in Desk, NEW p \in Pads, Ready(p)
  PROVE  DeskInv(s')
<1> DEFINE d == [s.pads[p] EXCEPT !.ready = TRUE]
           t == [s EXCEPT !.pads[p].ready = TRUE]
           u == [s EXCEPT !.pads[p] = d]
<1>1. s.pads[p].in /\ ~s.pads[p].ready /\ s' = IF "unready" \in Faults THEN t ELSE Arrival(t, p)
  BY DEF Ready
<1>2. t = u
  OBVIOUS
<1>3. Renewed(p, s.pads[p])
  BY PadFieldsAre
<1>4. Renewed(p, d) /\ d.in = s.pads[p].in /\ d.ready = TRUE
  BY <1>3 DEF Renewed, PadFields
<1> HIDE DEF t, d
<1>5. /\ Around(s, u) /\ u.q = s.q /\ u.pads[p] = d /\ (\A i \in Pads : i # p => u.pads[i] = s.pads[i])
      /\ DOMAIN u.pads = Pads /\ u.app = s.app
  BY <1>4, PadIs
<1> HIDE DEF u
<1>6. CASE ~("unready" \notin Faults /\ plat \in {"windows", "x11"})
  <2>1. s' = u
    BY <1>1, <1>2, <1>6 DEF Arrival
  <2>2. Nearer(s, u)
    BY <1>1, <1>4, <1>5 DEF Nearer, Pads
  <2> QED
    BY <1>5, <2>1, <2>2, DeskStill
<1>7. CASE "unready" \notin Faults /\ plat \in {"windows", "x11"}
  <2> DEFINE m == [what |-> "arrive", p |-> p]
  <2>1. s' = Enqueued(u, m)
    BY <1>1, <1>2, <1>7 DEF Arrival
  <2>2. m.p = p /\ m.what = "arrive"
    OBVIOUS
  <2> HIDE DEF m
  <2>3. ~(~u.pads[m.p].in \/ (~u.pads[m.p].ready /\ "unready" \notin Faults))
    BY <1>1, <1>4, <1>5, <2>2
  <2> QED
    BY <1>1, <1>5, <1>7, <2>1, <2>2, <2>3, DeskEnqueued DEF Pads
<1> QED
  BY <1>6, <1>7

LEMMA DeskUnplug ==
  ASSUME DeskInv(s), plat \in Desk, NEW p \in Pads, Unplug(p)
  PROVE  DeskInv(s')
<1> DEFINE pad == s.pads[p]
           gone == [pad EXCEPT !.in = FALSE, !.ready = ~is_xinput(p), !.pos = pad.rest, !.motor = 0, !.want = -1,
                               !.answers = <<>>, !.events = <<>>, !.effect = FALSE]
           x == s.plugs - 1
           t == [s EXCEPT !.pads[p] = gone, !.plugs = @ - 1]
           u == [s EXCEPT !.pads[p] = gone]
           w == [u EXCEPT !.plugs = x]
           m == [what |-> "remove", p |-> p]
<1>1. s' = Enqueued(t, m)
  BY DEF Unplug, Desk
<1>2. t = w
  <2> HIDE DEF gone
  <2> QED
    OBVIOUS
<1>3. Renewed(p, pad)
  BY PadFieldsAre
<1>4. Renewed(p, gone)
  <2>1. PadFields \subseteq DOMAIN pad /\ pad.kind = s.pads[p].kind
    BY <1>3 DEF Renewed
  <2> HIDE DEF pad
  <2>2. DOMAIN gone = DOMAIN pad
    OBVIOUS
  <2>3. gone.kind = pad.kind /\ gone.in = FALSE
    BY <2>1 DEF PadFields
  <2>4. gone.motor = 0 /\ gone.want = -1
    BY <2>1 DEF PadFields
  <2>5. gone.in \in BOOLEAN /\ gone.motor \in 0..1 /\ gone.want \in -1..1
    <3>1. 0 \in 0..1 /\ -1 \in -1..1 /\ FALSE \in BOOLEAN
      OBVIOUS
    <3> HIDE DEF gone
    <3> QED
      BY <2>3, <2>4, <3>1
  <2>6. PadFields \subseteq DOMAIN gone
    <3> HIDE DEF gone
    <3> QED
      BY <2>1, <2>2
  <2>7. gone.kind = s.pads[p].kind
    <3> HIDE DEF gone
    <3> QED
      BY <2>1, <2>3
  <2> HIDE DEF gone
  <2> QED
    BY <2>5, <2>6, <2>7 DEF Renewed
<1> HIDE DEF t, gone, x
<1>5. /\ Around(s, u) /\ u.q = s.q /\ u.pads[p] = gone /\ (\A i \in Pads : i # p => u.pads[i] = s.pads[i])
      /\ DOMAIN u.pads = Pads /\ u.app = s.app
  BY <1>4, PadIs
<1> HIDE DEF u
<1>6. Around(s, w) /\ w.q = s.q /\ w.pads = u.pads
  <2>1. Around(s, w)
    BY <1>5, AroundOn DEF DeskInv
  <2> QED
    BY <1>5, <2>1 DEF Around, Fields
<1>7. m.p = p /\ m.what = "remove"
  OBVIOUS
<1> HIDE DEF m, w
<1>8. \A i \in DOMAIN s.pads : (i = m.p /\ m.what \in {"arrive", "remove"}) \/ (w.pads[i].in = s.pads[i].in /\ w.pads[i].ready = s.pads[i].ready)
  BY <1>5, <1>6, <1>7 DEF Pads
<1>9. DeskInv(Enqueued(w, m))
  BY <1>6, <1>7, <1>8, DeskEnqueued DEF Pads
<1> QED
  BY <1>1, <1>2, <1>9

\* A message that says what a controller does.
LEMMA DeskSays ==
  ASSUME DeskInv(s), NEW t, Around(s, t), t.q = s.q, NEW p \in Pads, NEW r,
         \A i \in Pads : t.pads[i].in = s.pads[i].in /\ t.pads[i].ready = s.pads[i].ready
  PROVE  DeskInv(t) /\ DeskInv(Enqueued(t, [what |-> "report", p |-> p, r |-> r]))
<1> DEFINE m == [what |-> "report", p |-> p, r |-> r]
<1>1. m.p = p /\ m.what = "report"
  OBVIOUS
<1>2. Nearer(s, t)
  BY DEF Nearer, Pads
<1>3. DeskInv(t)
  BY <1>2, DeskStill
<1> HIDE DEF m
<1>4. DeskInv(Enqueued(t, m))
  BY <1>1, DeskEnqueued DEF Pads
<1> QED
  BY <1>3, <1>4 DEF m

\* An effect ends.
LEMMA EffectIs ==
  ASSUME NEW p \in Pads, EffectEnds(p), Renewed(p, s.pads[p])
  PROVE  /\ plat \in {"x11", "web"}
         /\ \E d : Renewed(p, d) /\ d.answers = s.pads[p].answers /\ s' = [s EXCEPT !.pads[p] = d]
<1> DEFINE pad == s.pads[p]
           want == IF pad.want = 1 THEN 0 ELSE pad.want
           d == [[pad EXCEPT !.motor = 0] EXCEPT !.want = want]
<1>1. s' = [s EXCEPT !.pads[p] = d] /\ plat \in {"x11", "web"}
  BY DEF EffectEnds
<1>2. pad.want \in -1..1 /\ PadFields \subseteq DOMAIN pad
  BY DEF Renewed
<1>3. want \in -1..1 /\ 0 \in 0..1
  BY <1>2
<1> HIDE DEF want
<1>4. Renewed(p, d) /\ d.answers = pad.answers
  BY <1>2, <1>3 DEF Renewed, PadFields
<1> HIDE DEF d, pad
<1> QED
  BY <1>1, <1>4 DEF pad

LEMMA DeskEffect ==
  ASSUME DeskInv(s), plat \in Desk, NEW p \in Pads, EffectEnds(p)
  PROVE  DeskInv(s')
<1>1. Renewed(p, s.pads[p])
  BY PadFieldsAre DEF DeskInv, Tabled, Shaped
<1>2. PICK d : Renewed(p, d) /\ s' = [s EXCEPT !.pads[p] = d]
  BY <1>1, EffectIs
<1>3. plat # "windows"
  BY <1>1, EffectIs
<1> DEFINE k == [s EXCEPT !.pads[p] = d]
<1>4. Around(s, k) /\ k.q = s.q
  BY <1>2, PadIs
<1>5. s' = k
  BY <1>2
<1> HIDE DEF k
<1> QED
  BY <1>3, <1>4, <1>5, DeskStill

LEMMA DeskMove ==
  ASSUME DeskInv(s), plat \in Desk, NEW p \in Pads, NEW u, NEW v, Move(p, u, v)
  PROVE  DeskInv(s')
<1> DEFINE pad == s.pads[p]
           pos == [pad.pos EXCEPT ![u] = v]
           t == [s EXCEPT !.pads[p].pos = pos, !.pads[p].packet = IF is_xinput(p) THEN @ + 1 ELSE @, !.moves = @ - 1]
           packet == IF is_xinput(p) THEN pad.packet + 1 ELSE pad.packet
           d == [[pad EXCEPT !.pos = pos] EXCEPT !.packet = packet]
           k == [s EXCEPT !.pads[p] = d]
           x == s.moves - 1
           w == [k EXCEPT !.moves = x]
           e == [d EXCEPT !.events = Append(@, [code |-> u, v |-> v])]
           l == [s EXCEPT !.pads[p] = e]
           y == [l EXCEPT !.moves = x]
           r == [id |-> "guide", vals |-> [z \in {u} |-> v]]
<1>1. t = w
  OBVIOUS
<1>2. s' \in {[t EXCEPT !.pads[p].events = Append(@, [code |-> u, v |-> v])],
              Enqueued(t, [what |-> "report", p |-> p, r |-> r]), t}
  <2> DEFINE t1 == [t EXCEPT !.pads[p].events = Append(@, [code |-> u, v |-> v])]
             t2 == [t EXCEPT !.os = Append(@, [what |-> IF u \in pad.buttons THEN "button" ELSE "axis", id |-> pad.id, code |-> u,
                                                vals |-> IF u \in pad.buttons THEN [z \in {u} |-> v] ELSE Restrict(pos, DOMAIN pos \ pad.buttons)])]
             t3 == Enqueued(t, [what |-> "report", p |-> p, r |-> r])
  <2>1. s' = CASE plat = "x11" /\ p \in DOMAIN s.devices -> t1
               [] plat = "android" -> t2
               [] plat \in {"windows", "mac"} /\ u = "guide" /\ pad.v1 -> t3
               [] OTHER -> t
    BY DEF Move
  <2>2. plat # "android"
    BY DEF Desk
  <2> HIDE DEF t1, t2, t3, t, pad
  <2>3. CASE plat = "x11" /\ p \in DOMAIN s.devices
    BY <2>1, <2>3 DEF t1
  <2>4. CASE plat \in {"windows", "mac"} /\ u = "guide" /\ pad.v1
    BY <2>1, <2>4 DEF t3
  <2>5. CASE ~(plat = "x11" /\ p \in DOMAIN s.devices) /\ ~(plat \in {"windows", "mac"} /\ u = "guide" /\ pad.v1)
    <3>1. s' = t
      BY <2>1, <2>2, <2>5
    <3> QED
      BY <3>1
  <2> QED
    BY <2>3, <2>4, <2>5
<1>3. Renewed(p, pad) /\ Fields \subseteq DOMAIN s
  BY PadFieldsAre DEF DeskInv, Tabled, Shaped
<1> HIDE DEF pos, packet
<1>4. /\ Renewed(p, d) /\ d.in = pad.in /\ d.ready = pad.ready
      /\ Renewed(p, e) /\ e.in = pad.in /\ e.ready = pad.ready
  BY <1>3 DEF Renewed, PadFields
<1>5. [w EXCEPT !.pads[p].events = Append(@, [code |-> u, v |-> v])] = y
  <2>1. w.pads = [s.pads EXCEPT ![p] = d] /\ DOMAIN w = DOMAIN s
    <3> HIDE DEF d
    <3> QED
      BY <1>3 DEF Fields
  <2>2. w.pads[p] = d
    BY <2>1 DEF Pads
  <2> HIDE DEF d
  <2>3. [w.pads EXCEPT ![p] = e] = [s.pads EXCEPT ![p] = e]
    <3> HIDE DEF e
    <3> QED
      BY <2>1
  <2>4. [w EXCEPT !.pads[p].events = Append(@, [code |-> u, v |-> v])] = [w EXCEPT !.pads = [w.pads EXCEPT ![p] = e]]
    BY <2>2
  <2> HIDE DEF e
  <2>5. [w EXCEPT !.pads = [s.pads EXCEPT ![p] = e]] = y
    OBVIOUS
  <2> QED
    BY <2>3, <2>4, <2>5
<1> HIDE DEF d, e, t, x, pad
<1>6. /\ Around(s, k) /\ k.q = s.q /\ k.pads[p] = d /\ (\A i \in Pads : i # p => k.pads[i] = s.pads[i])
  BY <1>4, PadIs
<1>7. /\ Around(s, l) /\ l.q = s.q /\ l.pads[p] = e /\ (\A i \in Pads : i # p => l.pads[i] = s.pads[i])
  BY <1>4, PadIs
<1> HIDE DEF k, l
<1>8. Around(s, w) /\ w.q = s.q /\ w.pads = k.pads
  <2>1. Around(s, w)
    BY <1>6, AroundOn DEF DeskInv
  <2> QED
    BY <1>6, <2>1 DEF Around, Fields
<1>9. Around(s, y) /\ y.q = s.q /\ y.pads = l.pads
  <2>1. Around(s, y)
    BY <1>7, AroundOn DEF DeskInv
  <2> QED
    BY <1>7, <2>1 DEF Around, Fields
<1> HIDE DEF w, y, r
<1>10. DeskInv(w) /\ DeskInv(Enqueued(w, [what |-> "report", p |-> p, r |-> r]))
  <2>1. \A i \in Pads : w.pads[i].in = s.pads[i].in /\ w.pads[i].ready = s.pads[i].ready
    BY <1>4, <1>6, <1>8 DEF pad
  <2> QED
    BY <1>8, <2>1, DeskSays
<1>11. DeskInv(y)
  <2>1. \A i \in Pads : y.pads[i].in = s.pads[i].in /\ y.pads[i].ready = s.pads[i].ready
    BY <1>4, <1>7, <1>9 DEF pad
  <2> QED
    BY <1>9, <2>1, DeskSays
<1> QED
  BY <1>1, <1>2, <1>5, <1>10, <1>11

LEMMA DeskReport ==
  ASSUME DeskInv(s), NEW p \in Pads, Report(p)
  PROVE  DeskInv(s')
<1> DEFINE r == [id |-> "state", vals |-> s.pads[p].pos]
<1>1. s' = Enqueued(s, [what |-> "report", p |-> p, r |-> r])
  BY DEF Report
<1>2. Around(s, s)
  BY AroundOn DEF DeskInv
<1> HIDE DEF r
<1> QED
  BY <1>1, <1>2, DeskSays

LEMMA DeskAnswer ==
  ASSUME DeskInv(s), NEW p \in Pads, Answer(p)
  PROVE  DeskInv(s')
<1> DEFINE d == [s.pads[p] EXCEPT !.answers = Tail(@)]
           t == [s EXCEPT !.pads[p].answers = Tail(@)]
           u == [s EXCEPT !.pads[p] = d]
           r == [id |-> Head(s.pads[p].answers), vals |-> s.pads[p].pos]
<1>1. s' \in {Enqueued(t, [what |-> "report", p |-> p, r |-> r]), t}
  BY DEF Answer
<1>2. t = u
  OBVIOUS
<1>3. Renewed(p, s.pads[p])
  BY PadFieldsAre
<1>4. Renewed(p, d) /\ d.in = s.pads[p].in /\ d.ready = s.pads[p].ready
  BY <1>3 DEF Renewed, PadFields
<1> HIDE DEF t, d, r
<1>5. /\ Around(s, u) /\ u.q = s.q /\ u.pads[p] = d /\ (\A i \in Pads : i # p => u.pads[i] = s.pads[i])
  BY <1>4, PadIs
<1> HIDE DEF u
<1>6. \A i \in Pads : u.pads[i].in = s.pads[i].in /\ u.pads[i].ready = s.pads[i].ready
  BY <1>4, <1>5
<1>7. DeskInv(u) /\ DeskInv(Enqueued(u, [what |-> "report", p |-> p, r |-> r]))
  BY <1>5, <1>6, DeskSays
<1> QED
  BY <1>1, <1>2, <1>7

-----------------------------------------------------------------------------
(* Android and the web: what stays of the controllers. *)

Elsewhere == {"android", "web"}

Padded(h, t) ==
  /\ Fields \subseteq DOMAIN t /\ DOMAIN t.pads = DOMAIN h.pads
  /\ \A p \in DOMAIN h.pads :
       /\ PadFields \subseteq DOMAIN t.pads[p] /\ t.pads[p].kind = h.pads[p].kind
       /\ t.pads[p].in \in BOOLEAN /\ t.pads[p].motor \in 0..1 /\ t.pads[p].want \in -1..1
       /\ t.pads[p].answers = <<>>

\* What the system says of the controllers.
Posted(h) ==
  /\ Listed(h.os) /\ \A k \in DOMAIN h.os : h.os[k].what \in {"remove", "button", "axis"}
  /\ h.moves \in Nat /\ h.plugs \in Nat

Loose(h) == Shaped(h) /\ Rowed(h) /\ Posted(h) /\ Padded(h, h)

\* What the program and the library know stays.
Beside(h, t) ==
  /\ Padded(h, t)
  /\ t.q = h.q /\ t.seen = h.seen /\ t.devices = h.devices /\ t.odd = h.odd /\ t.gps = h.gps /\ t.app = h.app

Others == {"os", "moves", "plugs", "rumbles", "focuses", "focus", "next"}

\* What is said of the controllers stays.
LEMMA LooseOn ==
  ASSUME NEW h, NEW t, Loose(h), Padded(h, t), Posted(t), plat \in Elsewhere
  PROVE  Loose(t)
<1>1. plat \notin Quick
  BY DEF Elsewhere, Quick
<1>2. Shaped(t)
  BY <1>1 DEF Loose, Shaped, Padded
<1> QED
  BY <1>2 DEF Loose, Padded, Rowed

LEMMA BesideOn ==
  /\ \A h : Loose(h) => Beside(h, h)
  /\ \A h, t, u : Beside(h, t) /\ Beside(t, u) => Beside(h, u)
  /\ \A h, t, x : Beside(h, t) =>
       /\ Beside(h, [t EXCEPT !.os = x]) /\ Beside(h, [t EXCEPT !.moves = x]) /\ Beside(h, [t EXCEPT !.plugs = x])
       /\ Beside(h, [t EXCEPT !.rumbles = x]) /\ Beside(h, [t EXCEPT !.focuses = x]) /\ Beside(h, [t EXCEPT !.focus = x])
       /\ Beside(h, [t EXCEPT !.next = x])
<1>1. \A h : Loose(h) => Beside(h, h)
  BY DEF Loose, Beside
<1>2. \A h, t, u : Beside(h, t) /\ Beside(t, u) => Beside(h, u)
  BY DEF Beside, Padded
<1>3. ASSUME NEW h, NEW t, NEW x, Beside(h, t), NEW f \in Others
      PROVE  Beside(h, [t EXCEPT ![f] = x])
  <2> DEFINE u == [t EXCEPT ![f] = x]
  <2>1. /\ DOMAIN u = DOMAIN t /\ u.pads = t.pads
        /\ u.q = t.q /\ u.seen = t.seen /\ u.devices = t.devices /\ u.odd = t.odd /\ u.gps = t.gps /\ u.app = t.app
    BY <1>3 DEF Beside, Padded, Fields, Others
  <2> HIDE DEF u
  <2>2. Beside(h, u)
    BY <1>3, <2>1 DEF Beside, Padded
  <2> QED
    BY <2>2 DEF u
<1> QED
  BY <1>1, <1>2, <1>3 DEF Others

\* What one controller becomes.
LEMMA BesidePad ==
  ASSUME NEW h, Loose(h), NEW p \in DOMAIN h.pads, NEW d, PadFields \subseteq DOMAIN d, d.kind = h.pads[p].kind,
         d.in \in BOOLEAN, d.motor \in 0..1, d.want \in -1..1, d.answers = <<>>
  PROVE  LET t == [h EXCEPT !.pads[p] = d]
         IN Beside(h, t) /\ t.os = h.os /\ t.moves = h.moves /\ t.plugs = h.plugs
<1> DEFINE t == [h EXCEPT !.pads[p] = d]
<1>1. Fields \subseteq DOMAIN h /\ Padded(h, h)
  BY DEF Loose, Shaped
<1>2. /\ Fields \subseteq DOMAIN t /\ t.devices = h.devices /\ t.odd = h.odd /\ t.gps = h.gps /\ t.app = h.app
      /\ t.seen = h.seen /\ t.q = h.q /\ t.os = h.os /\ t.moves = h.moves /\ t.plugs = h.plugs
      /\ DOMAIN t.pads = DOMAIN h.pads
      /\ \A i \in DOMAIN h.pads : t.pads[i] = IF i = p THEN d ELSE h.pads[i]
  BY <1>1 DEF Fields
<1> HIDE DEF t
<1>3. Beside(h, t)
  BY <1>1, <1>2 DEF Beside, Padded
<1> QED
  BY <1>2, <1>3 DEF t

\* A message may come first.
LEMMA PrependListed ==
  ASSUME NEW q, Listed(q), NEW m
  PROVE  /\ Listed(<<m>> \o q) /\ Len(q) \in Nat /\ Len(<<m>> \o q) = Len(q) + 1
         /\ DOMAIN (<<m>> \o q) = 1..(Len(q) + 1) /\ DOMAIN q = 1..Len(q)
         /\ (<<m>> \o q)[1] = m /\ \A k \in 1..Len(q) : (<<m>> \o q)[k + 1] = q[k]
<1>1. PICK S : q \in Seq(S)
  BY DEF Listed
<1>2. q \in Seq(S \cup {m}) /\ <<m>> \in Seq(S \cup {m}) /\ Len(q) \in Nat /\ DOMAIN q = 1..Len(q) /\ Len(<<m>>) = 1
  BY <1>1
<1>3. <<m>> \o q \in Seq(S \cup {m}) /\ Len(<<m>> \o q) = Len(q) + 1
  BY <1>2
<1>4. DOMAIN (<<m>> \o q) = 1..(Len(q) + 1)
  BY <1>3
<1>5. (<<m>> \o q)[1] = m /\ \A k \in 1..Len(q) : (<<m>> \o q)[k + 1] = q[k]
  BY <1>2
<1> QED
  BY <1>2, <1>3, <1>4, <1>5 DEF Listed

-----------------------------------------------------------------------------
(* Android: an event comes after the connection of its controller. *)

\* The events before the k-th leave the controller known.
TellsOf(q, seen, id, k) ==
  \/ \E j \in 1..(k - 1) : /\ q[j].id = id /\ q[j].type = "CONNECT"
                           /\ \A i \in (j + 1)..(k - 1) : q[i].id = id => q[i].type = "CONTROLLER"
  \/ id \in DOMAIN seen /\ \A i \in 1..(k - 1) : q[i].id = id => q[i].type = "CONTROLLER"

\* D are the controllers the library has.
Announces(q, seen, D) ==
  /\ Listed(q)
  /\ \A k \in DOMAIN q : /\ q[k].type \in {"CONNECT", "DISCONNECT", "CONTROLLER"}
                         /\ q[k].type = "CONNECT" <=> ~TellsOf(q, seen, q[k].id, k)
  /\ \A id : id \in D <=> TellsOf(q, seen, id, Len(q) + 1)

\* One more event.
LEMMA AnnouncesMore ==
  ASSUME NEW q, NEW seen, NEW D, Announces(q, seen, D), NEW m, m.type \in {"CONNECT", "DISCONNECT", "CONTROLLER"},
         m.type = "CONNECT" <=> m.id \notin D,
         NEW E, E = IF m.type = "DISCONNECT" THEN D \ {m.id} ELSE D \cup {m.id}
  PROVE  Announces(Append(q, m), seen, E)
<1> DEFINE r == Append(q, m)
           n == Len(q)
<1>1. Listed(r) /\ n \in Nat /\ Len(r) = n + 1 /\ DOMAIN q = 1..n /\ DOMAIN r = 1..(n + 1) /\ r[n + 1] = m /\ \A k \in 1..n : r[k] = q[k]
  BY AppendListed DEF Announces
<1> HIDE DEF r, n
<1>2. ASSUME NEW k \in 1..(n + 1), NEW id PROVE TellsOf(r, seen, id, k) <=> TellsOf(q, seen, id, k)
  <2>1. \A i \in 1..(k - 1) : r[i] = q[i]
    BY <1>1
  <2>2. \A j \in 1..(k - 1) : \A i \in (j + 1)..(k - 1) : i \in 1..(k - 1)
    BY <1>1
  <2> QED
    BY <2>1, <2>2 DEF TellsOf
<1>3. n + 1 \in 1..(n + 1) /\ (n + 2) - 1 = n + 1 /\ (n + 1) - 1 = n
  BY <1>1
<1>4. \A id : id \in D <=> TellsOf(q, seen, id, n + 1)
  BY DEF Announces, n
<1>5. ASSUME NEW k \in DOMAIN r
      PROVE  r[k].type \in {"CONNECT", "DISCONNECT", "CONTROLLER"} /\ (r[k].type = "CONNECT" <=> ~TellsOf(r, seen, r[k].id, k))
  <2>1. CASE k \in 1..n
    <3>1. k \in 1..(n + 1) /\ r[k] = q[k] /\ k \in DOMAIN q
      BY <1>1, <2>1
    <3>2. q[k].type \in {"CONNECT", "DISCONNECT", "CONTROLLER"} /\ (q[k].type = "CONNECT" <=> ~TellsOf(q, seen, q[k].id, k))
      BY <3>1 DEF Announces
    <3>3. TellsOf(r, seen, q[k].id, k) <=> TellsOf(q, seen, q[k].id, k)
      BY <1>2, <3>1
    <3> QED
      BY <3>1, <3>2, <3>3
  <2>2. CASE k = n + 1
    <3>1. TellsOf(r, seen, m.id, n + 1) <=> TellsOf(q, seen, m.id, n + 1)
      BY <1>2, <1>3
    <3>2. TellsOf(q, seen, m.id, n + 1) <=> m.id \in D
      BY <1>4
    <3> QED
      BY <1>1, <2>2, <3>1, <3>2
  <2> QED
    BY <1>1, <2>1, <2>2
<1>6. ASSUME NEW id PROVE id \in E <=> TellsOf(r, seen, id, n + 2)
  <2>1. /\ n + 1 \in 1..(n + 1) /\ (\A j \in 1..n : j \in 1..(n + 1))
        /\ (\A j \in 1..(n + 1) : j \in 1..n \/ j = n + 1)
        /\ (\A j \in 1..n : n + 1 \in (j + 1)..(n + 1) /\ \A i \in (j + 1)..(n + 1) : i = n + 1 \/ i \in (j + 1)..n)
        /\ (\A j \in 1..n : \A i \in (j + 1)..n : i \in (j + 1)..(n + 1))
        /\ (\A i : i \notin ((n + 1) + 1)..(n + 1))
    BY <1>1
  <2>2. TellsOf(r, seen, id, n + 1) <=> id \in D
    BY <1>2, <1>3, <1>4
  <2>3. TellsOf(r, seen, id, n + 1) <=>
          \/ \E j \in 1..n : /\ r[j].id = id /\ r[j].type = "CONNECT"
                             /\ \A i \in (j + 1)..n : r[i].id = id => r[i].type = "CONTROLLER"
          \/ id \in DOMAIN seen /\ \A i \in 1..n : r[i].id = id => r[i].type = "CONTROLLER"
    BY <1>3 DEF TellsOf
  <2>4. TellsOf(r, seen, id, n + 2) <=>
          \/ \E j \in 1..(n + 1) : /\ r[j].id = id /\ r[j].type = "CONNECT"
                                   /\ \A i \in (j + 1)..(n + 1) : r[i].id = id => r[i].type = "CONTROLLER"
          \/ id \in DOMAIN seen /\ \A i \in 1..(n + 1) : r[i].id = id => r[i].type = "CONTROLLER"
    BY <1>3 DEF TellsOf
  <2>5. CASE m.id # id
    <3>1. TellsOf(r, seen, id, n + 2) <=> TellsOf(r, seen, id, n + 1)
      BY <1>1, <2>1, <2>3, <2>4, <2>5
    <3> QED
      BY <2>2, <2>5, <3>1
  <2>6. CASE m.id = id /\ m.type = "CONNECT"
    BY <1>1, <2>1, <2>4, <2>6
  <2>7. CASE m.id = id /\ m.type = "DISCONNECT"
    BY <1>1, <2>1, <2>4, <2>7
  <2>8. CASE m.id = id /\ m.type = "CONTROLLER"
    <3>1. TellsOf(r, seen, id, n + 2) <=> TellsOf(r, seen, id, n + 1)
      BY <1>1, <2>1, <2>3, <2>4, <2>8
    <3> QED
      BY <2>2, <2>8, <3>1
  <2> QED
    BY <2>5, <2>6, <2>7, <2>8
<1>7. Len(r) + 1 = n + 2
  BY <1>1
<1>8. Announces(r, seen, E)
  BY <1>1, <1>5, <1>6, <1>7 DEF Announces
<1> QED
  BY <1>8 DEF r

\* Who is known, after an event.
Becomes(type, id, A, E) == E = IF type = "DISCONNECT" THEN A \ {id} ELSE A \cup {id}

\* The program is told of the first event.
LEMMA AnnouncesLess ==
  ASSUME NEW q, NEW seen, NEW D, Announces(q, seen, D), q # <<>>, NEW now,
         Becomes(q[1].type, q[1].id, DOMAIN seen, DOMAIN now)
  PROVE  Announces(Tail(q), now, D) /\ (q[1].type = "CONNECT" <=> q[1].id \notin DOMAIN seen)
<1> DEFINE r == Tail(q)
           n == Len(r)
           m == q[1]
<1>1. /\ Listed(r) /\ Len(q) \in Nat /\ n = Len(q) - 1 /\ DOMAIN q = 1..Len(q) /\ DOMAIN r = 1..n /\ 1 \in DOMAIN q
      /\ \A k \in 1..n : r[k] = q[k + 1] /\ k + 1 \in DOMAIN q
  BY TailListed DEF Announces
<1>2. n \in Nat
  BY <1>1
<1> HIDE DEF r, n
<1>3. m.type \in {"CONNECT", "DISCONNECT", "CONTROLLER"} /\ (m.type = "CONNECT" <=> m.id \notin DOMAIN seen)
  <2>1. m.type \in {"CONNECT", "DISCONNECT", "CONTROLLER"} /\ (m.type = "CONNECT" <=> ~TellsOf(q, seen, m.id, 1))
    BY <1>1 DEF Announces
  <2>2. \A j : j \notin 1..(1 - 1)
    OBVIOUS
  <2>3. TellsOf(q, seen, m.id, 1) <=> m.id \in DOMAIN seen
    BY <2>2 DEF TellsOf
  <2> QED
    BY <2>1, <2>3
<1>4. ASSUME NEW k \in 1..(n + 1), NEW id PROVE TellsOf(r, now, id, k) <=> TellsOf(q, seen, id, k + 1)
  <2> DEFINE Quiet(x, a, b) == \A i \in a..b : x[i].id = id => x[i].type = "CONTROLLER"
  <2>1. k \in Nat /\ k >= 1 /\ k <= n + 1 /\ (k + 1) - 1 = k
    BY <1>2
  <2>2. ASSUME NEW j \in 0..(k - 1) PROVE Quiet(r, j + 1, k - 1) <=> Quiet(q, (j + 1) + 1, k)
    <3>1. \A i \in (j + 1)..(k - 1) : i \in 1..n /\ i + 1 \in ((j + 1) + 1)..k
      BY <1>2, <2>1
    <3>2. \A i \in ((j + 1) + 1)..k : i - 1 \in 1..n /\ i - 1 \in (j + 1)..(k - 1) /\ (i - 1) + 1 = i
      BY <1>2, <2>1
    <3>3. \A i \in 1..n : r[i] = q[i + 1]
      BY <1>1
    <3>4. ASSUME Quiet(r, j + 1, k - 1), NEW i \in ((j + 1) + 1)..k, q[i].id = id PROVE q[i].type = "CONTROLLER"
      <4>1. r[i - 1] = q[i] /\ i - 1 \in (j + 1)..(k - 1)
        BY <3>2, <3>3
      <4> QED
        BY <3>4, <4>1
    <3>5. ASSUME Quiet(q, (j + 1) + 1, k), NEW i \in (j + 1)..(k - 1), r[i].id = id PROVE r[i].type = "CONTROLLER"
      <4>1. r[i] = q[i + 1] /\ i + 1 \in ((j + 1) + 1)..k
        BY <3>1, <3>3
      <4> QED
        BY <3>5, <4>1
    <3> QED
      BY <3>4, <3>5
  <2>3. Quiet(r, 1, k - 1) <=> Quiet(q, 2, k)
    <3>1. 0 \in 0..(k - 1) /\ 0 + 1 = 1 /\ (0 + 1) + 1 = 2
      BY <2>1
    <3> HIDE DEF Quiet
    <3> QED
      BY <2>2, <3>1
  <2>4. TellsOf(r, now, id, k) <=>
          \/ \E j \in 1..(k - 1) : r[j].id = id /\ r[j].type = "CONNECT" /\ Quiet(r, j + 1, k - 1)
          \/ id \in DOMAIN now /\ Quiet(r, 1, k - 1)
    BY DEF TellsOf
  <2>5. TellsOf(q, seen, id, k + 1) <=>
          \/ \E j \in 1..k : q[j].id = id /\ q[j].type = "CONNECT" /\ Quiet(q, j + 1, k)
          \/ id \in DOMAIN seen /\ Quiet(q, 1, k)
    BY <2>1 DEF TellsOf
  <2>6. Quiet(q, 1, k) <=> (m.id = id => m.type = "CONTROLLER") /\ Quiet(q, 2, k)
    <3>1. \A i \in 1..k : i = 1 \/ i \in 2..k
      BY <2>1
    <3>2. 1 \in 1..k /\ \A i \in 2..k : i \in 1..k
      BY <2>1
    <3> QED
      BY <3>1, <3>2
  <2> HIDE DEF Quiet, m
  <2>7. (\E j \in 1..(k - 1) : r[j].id = id /\ r[j].type = "CONNECT" /\ Quiet(r, j + 1, k - 1))
        <=> \E j \in 2..k : q[j].id = id /\ q[j].type = "CONNECT" /\ Quiet(q, j + 1, k)
    <3>1. ASSUME NEW j \in 1..(k - 1), r[j].id = id, r[j].type = "CONNECT", Quiet(r, j + 1, k - 1)
          PROVE  \E y \in 2..k : q[y].id = id /\ q[y].type = "CONNECT" /\ Quiet(q, y + 1, k)
      <4>1. j \in 0..(k - 1) /\ j \in 1..n /\ j + 1 \in 2..k
        BY <1>2, <2>1
      <4>2. Quiet(q, (j + 1) + 1, k)
        BY <2>2, <3>1, <4>1
      <4>3. q[j + 1] = r[j]
        BY <1>1, <4>1
      <4> QED
        BY <3>1, <4>1, <4>2, <4>3
    <3>2. ASSUME NEW y \in 2..k, q[y].id = id, q[y].type = "CONNECT", Quiet(q, y + 1, k)
          PROVE  \E j \in 1..(k - 1) : r[j].id = id /\ r[j].type = "CONNECT" /\ Quiet(r, j + 1, k - 1)
      <4> DEFINE j == y - 1
      <4>1. j \in 0..(k - 1) /\ j \in 1..(k - 1) /\ j \in 1..n /\ j + 1 = y
        BY <1>2, <2>1
      <4> HIDE DEF j
      <4>2. Quiet(r, j + 1, k - 1)
        BY <2>2, <3>2, <4>1
      <4>3. q[y] = r[j]
        BY <1>1, <4>1
      <4> QED
        BY <3>2, <4>1, <4>2, <4>3
    <3> QED
      BY <3>1, <3>2
  <2>8. (\E j \in 1..k : q[j].id = id /\ q[j].type = "CONNECT" /\ Quiet(q, j + 1, k))
        <=> \/ m.id = id /\ m.type = "CONNECT" /\ Quiet(q, 2, k)
            \/ \E j \in 2..k : q[j].id = id /\ q[j].type = "CONNECT" /\ Quiet(q, j + 1, k)
    <3>1. \A i \in 1..k : i = 1 \/ i \in 2..k
      BY <2>1
    <3>2. 1 \in 1..k /\ (\A i \in 2..k : i \in 1..k) /\ 1 + 1 = 2
      BY <2>1
    <3> QED
      BY <3>1, <3>2 DEF m
  <2>9. m.type \in {"CONNECT", "DISCONNECT", "CONTROLLER"} /\ (m.type = "CONNECT" <=> m.id \notin DOMAIN seen)
        /\ DOMAIN now = IF m.type = "DISCONNECT" THEN DOMAIN seen \ {m.id} ELSE DOMAIN seen \cup {m.id}
    BY <1>3 DEF m, Becomes
  <2>10. id \in DOMAIN now <=> (id \in DOMAIN seen /\ ~(m.type = "DISCONNECT" /\ m.id = id)) \/ (m.type # "DISCONNECT" /\ m.id = id)
    BY <2>9
  <2> QED
    BY <2>3, <2>4, <2>5, <2>6, <2>7, <2>8, <2>9, <2>10
<1>5. ASSUME NEW k \in DOMAIN r
      PROVE  r[k].type \in {"CONNECT", "DISCONNECT", "CONTROLLER"} /\ (r[k].type = "CONNECT" <=> ~TellsOf(r, now, r[k].id, k))
  <2>1. k \in 1..(n + 1) /\ r[k] = q[k + 1] /\ k + 1 \in DOMAIN q
    BY <1>1, <1>2
  <2>2. q[k + 1].type \in {"CONNECT", "DISCONNECT", "CONTROLLER"} /\ (q[k + 1].type = "CONNECT" <=> ~TellsOf(q, seen, q[k + 1].id, k + 1))
    BY <2>1 DEF Announces
  <2>3. TellsOf(r, now, r[k].id, k) <=> TellsOf(q, seen, r[k].id, k + 1)
    BY <1>4, <2>1
  <2> QED
    BY <2>1, <2>2, <2>3
<1>6. ASSUME NEW id PROVE id \in D <=> TellsOf(r, now, id, n + 1)
  <2>1. n + 1 \in 1..(n + 1) /\ Len(q) = n + 1
    BY <1>1, <1>2
  <2>2. id \in D <=> TellsOf(q, seen, id, (n + 1) + 1)
    BY <2>1 DEF Announces
  <2> QED
    BY <1>4, <2>1, <2>2
<1>7. Announces(r, now, D)
  <2>1. \A id : id \in D <=> TellsOf(r, now, id, Len(r) + 1)
    BY <1>6 DEF n
  <2> QED
    BY <1>1, <1>5, <2>1 DEF Announces
<1> QED
  BY <1>3, <1>7 DEF r

-----------------------------------------------------------------------------
(* Android: what holds. *)

Known(h) ==
  /\ h.odd = {} /\ Listed(h.q)
  /\ h.app = "alive" => Announces(h.q, h.seen, DOMAIN h.devices)
  /\ h.app # "alive" => h.seen = <<>>

Room(h) == Len(h.q) + 2 * Len(h.os) + 2 * (h.moves + h.plugs) <= QueueLen

\* What neither an event nor a message changes.
Passed(h, t) ==
  /\ Fields \subseteq DOMAIN t /\ t.pads = h.pads /\ t.os = h.os /\ t.moves = h.moves /\ t.plugs = h.plugs /\ t.app = h.app

\* An event is put into the queue, and D becomes what the library has.
LEMMA PushedKnown ==
  ASSUME NEW h, Known(h), NEW t, Passed(h, t), NEW m, m.type \in {"CONNECT", "DISCONNECT", "CONTROLLER"},
         t.seen = h.seen, t.odd = h.odd, t.q = Append(h.q, m),
         m.type = "CONNECT" <=> m.id \notin DOMAIN h.devices,
         Becomes(m.type, m.id, DOMAIN h.devices, DOMAIN t.devices)
  PROVE  Known(t) /\ Len(t.q) = Len(h.q) + 1
<1>1. Listed(t.q) /\ Len(t.q) = Len(h.q) + 1
  <2>1. Listed(h.q)
    BY DEF Known
  <2>2. Listed(Append(h.q, m)) /\ Len(Append(h.q, m)) = Len(h.q) + 1
    BY <2>1, AppendListed
  <2> QED
    BY <2>2
<1>2. ASSUME h.app = "alive" PROVE Announces(t.q, t.seen, DOMAIN t.devices)
  <2> DEFINE q == h.q
             seen == h.seen
             A == DOMAIN h.devices
             E == DOMAIN t.devices
  <2>1. Announces(q, seen, A) /\ (m.type = "CONNECT" <=> m.id \notin A)
    BY <1>2 DEF Known
  <2>2. E = IF m.type = "DISCONNECT" THEN A \ {m.id} ELSE A \cup {m.id}
    BY DEF Becomes
  <2> HIDE DEF q, seen, A, E
  <2>3. Announces(Append(q, m), seen, E)
    BY <2>1, <2>2, AnnouncesMore
  <2> QED
    BY <2>3 DEF q, seen, E
<1> QED
  BY <1>1, <1>2 DEF Known, Passed

\* Passed is reflexive and transitive, and some fields are not its.
LEMMA PassedOn ==
  /\ \A h : Fields \subseteq DOMAIN h => Passed(h, h)
  /\ \A h, t, u : Passed(h, t) /\ Passed(t, u) => Passed(h, u)
  /\ \A h, t, x : Passed(h, t) => /\ Passed(h, [t EXCEPT !.devices = x]) /\ Passed(h, [t EXCEPT !.dedupe = x])
                                  /\ Passed(h, [t EXCEPT !.q = x]) /\ Passed(h, [t EXCEPT !.odd = x])
                                  /\ Passed(h, [t EXCEPT !.seen = x]) /\ Passed(h, [t EXCEPT !.gps = x])
BY DEF Passed, Fields

\* There is room for an event, or there is none.
LEMMA PushIs ==
  ASSUME NEW h, Fields \subseteq DOMAIN h, NEW what, NEW id, NEW c
  PROVE  /\ Passed(h, Android!app_push_event(h, what, id, c))
         /\ Len(h.q) # QueueLen => Android!app_push_event(h, what, id, c) = [h EXCEPT !.q = Append(h.q, [type |-> what, id |-> id, c |-> c])]
<1> DEFINE m == [type |-> what, id |-> id, c |-> c]
           t == Android!app_push_event(h, what, id, c)
<1>1. t = IF Len(h.q) = QueueLen THEN [h EXCEPT !.odd = @ \cup {"event written nowhere"}] ELSE [h EXCEPT !.q = Append(h.q, m)]
  BY DEF Android!app_push_event, Android!Odd
<1> HIDE DEF m, t
<1>2. Passed(h, h)
  BY PassedOn
<1>3. Passed(h, t)
  BY <1>1, <1>2, PassedOn
<1> QED
  BY <1>1, <1>3 DEF m, t

\* The library knows no less.
LEMMA KnownStill ==
  ASSUME NEW h, Known(h), NEW t, t.q = h.q, t.seen = h.seen, t.odd = h.odd, t.app = h.app, DOMAIN t.devices = DOMAIN h.devices
  PROVE  Known(t)
BY DEF Known

Pushing(h, what, id, c, D, t) == t = [Android!app_push_event(h, what, id, c) EXCEPT !.devices = D]

\* app_push_event, when there is room.
LEMMA Pushed ==
  ASSUME NEW h, Known(h), Fields \subseteq DOMAIN h, QueueLen \in Nat, Len(h.q) < QueueLen,
         NEW what, NEW id, NEW c, NEW D, what \in {"CONNECT", "DISCONNECT", "CONTROLLER"},
         what = "CONNECT" <=> id \notin DOMAIN h.devices,
         Becomes(what, id, DOMAIN h.devices, DOMAIN D),
         NEW t, Pushing(h, what, id, c, D, t)
  PROVE  Known(t) /\ t.devices = D /\ Len(t.q) = Len(h.q) + 1 /\ Passed(h, t)
<1> DEFINE m == [type |-> what, id |-> id, c |-> c]
           g == Android!app_push_event(h, what, id, c)
<1>1. Len(h.q) # QueueLen
  <2>1. Listed(h.q)
    BY DEF Known
  <2>2. Len(h.q) \in Nat
    BY <2>1, AppendListed
  <2> QED
    BY <2>2
<1>2. g = [h EXCEPT !.q = Append(h.q, m)] /\ Passed(h, g)
  BY <1>1, PushIs
<1>3. m.type = what /\ m.id = id
  OBVIOUS
<1>4. t = [g EXCEPT !.devices = D]
  BY DEF Pushing
<1> HIDE DEF m, g
<1>5. Passed(h, t)
  <2>1. Passed(h, g)
    BY <1>2
  <2>2. Passed(h, [g EXCEPT !.devices = D])
    BY <2>1, PassedOn
  <2> QED
    BY <1>4, <2>2
<1>6. t.devices = D /\ t.q = Append(h.q, m) /\ t.seen = h.seen /\ t.odd = h.odd
  BY <1>2, <1>4 DEF Fields
<1>7. Known(t) /\ Len(t.q) = Len(h.q) + 1
  <2>1. m.type \in {"CONNECT", "DISCONNECT", "CONTROLLER"} /\ (m.type = "CONNECT" <=> m.id \notin DOMAIN h.devices)
    BY <1>3
  <2>2. Becomes(m.type, m.id, DOMAIN h.devices, DOMAIN t.devices)
    BY <1>3, <1>6
  <2>3. t.q = Append(h.q, m) /\ t.seen = h.seen /\ t.odd = h.odd
    BY <1>6
  <2> QED
    BY <1>5, <2>1, <2>2, <2>3, PushedKnown
<1> QED
  BY <1>5, <1>6, <1>7

\* The controller is one the library has.
LEMMA Getting ==
  ASSUME NEW h, Fields \subseteq DOMAIN h, NEW id
  PROVE  LET t == Android!app_get_controller(h, id)
         IN /\ Passed(h, t)
            /\ Known(h) /\ QueueLen \in Nat /\ Len(h.q) < QueueLen =>
                 Known(t) /\ id \in DOMAIN t.devices /\ Len(t.q) \in Len(h.q)..(Len(h.q) + 1)
<1> DEFINE t == Android!app_get_controller(h, id)
           Z == Android!APP_ZEROED_CTRL
           D == HashSet(h.devices, id, Z)
           g == [h EXCEPT !.devices = D]
           u == Android!app_push_event(g, "CONNECT", id, Z)
           w == [Android!app_push_event(h, "CONNECT", id, Z) EXCEPT !.devices = D]
<1>1. t = IF id \in DOMAIN h.devices THEN h ELSE u
  BY HelpersAre DEF Android!app_get_controller
<1>2. DOMAIN D = DOMAIN h.devices \cup {id}
  BY DEF HashSet
<1> HIDE DEF Z, D
<1>3. Passed(h, h) /\ Passed(h, g)
  BY PassedOn
<1>4. Fields \subseteq DOMAIN g /\ g.q = h.q /\ g.devices = D
  BY DEF Fields
<1>5. Passed(g, u)
  <2> HIDE DEF g
  <2> QED
    BY <1>4, PushIs
<1>6. ASSUME Len(h.q) # QueueLen PROVE u = w
  <2> DEFINE m == [type |-> "CONNECT", id |-> id, c |-> Z]
  <2>1. Android!app_push_event(h, "CONNECT", id, Z) = [h EXCEPT !.q = Append(h.q, m)]
    BY <1>6, PushIs
  <2>2. u = [g EXCEPT !.q = Append(h.q, m)]
    <3> HIDE DEF g
    <3> QED
      BY <1>4, <1>6, PushIs
  <2> HIDE DEF m, u
  <2>3. w = [[h EXCEPT !.q = Append(h.q, m)] EXCEPT !.devices = D]
    BY <2>1
  <2> QED
    BY <2>2, <2>3
<1> HIDE DEF t, g, u
<1>7. Passed(h, t)
  BY <1>1, <1>3, <1>5, PassedOn
<1>8. ASSUME Known(h), QueueLen \in Nat, Len(h.q) < QueueLen
      PROVE  Known(t) /\ id \in DOMAIN t.devices /\ Len(t.q) \in Len(h.q)..(Len(h.q) + 1)
  <2>1. Len(h.q) \in Nat
    <3>1. Listed(h.q)
      BY <1>8 DEF Known
    <3> QED
      BY <3>1, AppendListed
  <2>2. CASE id \in DOMAIN h.devices
    BY <1>1, <1>8, <2>1, <2>2
  <2>3. CASE id \notin DOMAIN h.devices
    <3>1. t = w
      BY <1>1, <1>6, <1>8, <2>1, <2>3
    <3> DEFINE what == "CONNECT"
    <3>2. Pushing(h, what, id, Z, D, w)
      BY DEF Pushing
    <3>3. what \in {"CONNECT", "DISCONNECT", "CONTROLLER"} /\ (what = "CONNECT" <=> id \notin DOMAIN h.devices)
          /\ Becomes(what, id, DOMAIN h.devices, DOMAIN D)
      BY <1>2, <2>3 DEF Becomes
    <3> HIDE DEF w, what
    <3>4. Known(w) /\ w.devices = D /\ Len(w.q) = Len(h.q) + 1
      BY <1>8, <3>2, <3>3, Pushed
    <3> QED
      BY <1>2, <2>1, <3>1, <3>4
  <2> QED
    BY <2>2, <2>3
<1> QED
  BY <1>7, <1>8 DEF t

\* The program is told of a controller the library has, if there is something to tell.
LEMMA Telling ==
  ASSUME NEW h, Fields \subseteq DOMAIN h, NEW id
  PROVE  LET t == Android!app_push_controller_event(h, id)
         IN /\ Passed(h, t)
            /\ Known(h) /\ QueueLen \in Nat /\ Len(h.q) < QueueLen /\ id \in DOMAIN h.devices =>
                 Known(t) /\ Len(t.q) \in Len(h.q)..(Len(h.q) + 1)
<1> DEFINE t == Android!app_push_controller_event(h, id)
           c == Android!Clean(h.devices[id])
           g == [h EXCEPT !.dedupe = Android!HashSet(@, id, c)]
           u == Android!app_push_event(g, "CONTROLLER", id, c)
<1>1. t \in {g, u}
  BY DEF Android!app_push_controller_event, Android!mty_hid_dedupe
<1> HIDE DEF c
<1>2. Passed(h, g)
  <2>1. Passed(h, h)
    BY PassedOn
  <2> QED
    BY <2>1, PassedOn
<1>3. Fields \subseteq DOMAIN g /\ g.q = h.q /\ g.devices = h.devices /\ g.seen = h.seen /\ g.odd = h.odd /\ g.app = h.app
  BY DEF Fields
<1> HIDE DEF t, g
<1>4. Passed(g, u)
  BY <1>3, PushIs
<1>5. Passed(h, t)
  <2> HIDE DEF u
  <2> QED
    BY <1>1, <1>2, <1>4, PassedOn
<1>6. ASSUME Known(h), QueueLen \in Nat, Len(h.q) < QueueLen, id \in DOMAIN h.devices
      PROVE  Known(t) /\ Len(t.q) \in Len(h.q)..(Len(h.q) + 1)
  <2>1. Len(h.q) \in Nat
    <3>1. Listed(h.q)
      BY <1>6 DEF Known
    <3> QED
      BY <3>1, AppendListed
  <2>2. Known(g)
    BY <1>3, <1>6, KnownStill
  <2>3. CASE t = g
    BY <1>3, <2>1, <2>2, <2>3
  <2>4. CASE t = u
    <3> DEFINE D == g.devices
               w == [u EXCEPT !.devices = D]
    <3>1. "devices" \in DOMAIN u /\ u.devices = D
      <4>1. Len(g.q) # QueueLen
        BY <1>3, <1>6, <2>1
      <4>2. u = [g EXCEPT !.q = Append(g.q, [type |-> "CONTROLLER", id |-> id, c |-> c])]
        BY <1>3, <4>1, PushIs
      <4> QED
        BY <1>3, <4>2 DEF Fields
    <3>2. u = w
      <4>1. u = [x \in DOMAIN u |-> u[x]]
        <5>1. Len(g.q) # QueueLen
          BY <1>3, <1>6, <2>1
        <5>2. u = [g EXCEPT !.q = Append(g.q, [type |-> "CONTROLLER", id |-> id, c |-> c])]
          BY <1>3, <5>1, PushIs
        <5> QED
          BY <5>2
      <4> HIDE DEF u, D
      <4> QED
        BY <3>1, <4>1
    <3>3. DOMAIN D = DOMAIN g.devices \cup {id}
      BY <1>3, <1>6
    <3> DEFINE what == "CONTROLLER"
    <3>4. Pushing(g, what, id, c, D, w)
      BY DEF Pushing
    <3>5. /\ Len(g.q) < QueueLen
          /\ what \in {"CONNECT", "DISCONNECT", "CONTROLLER"} /\ (what = "CONNECT" <=> id \notin DOMAIN g.devices)
          /\ Becomes(what, id, DOMAIN g.devices, DOMAIN D)
      BY <1>3, <1>6, <3>3 DEF Becomes
    <3> HIDE DEF D, w, what
    <3>6. Known(w) /\ Len(w.q) = Len(g.q) + 1
      BY <1>3, <1>6, <2>2, <3>4, <3>5, Pushed
    <3> QED
      BY <1>3, <2>1, <2>4, <3>2, <3>6
  <2> QED
    BY <1>1, <2>3, <2>4
<1> QED
  BY <1>5, <1>6 DEF t

\* The library forgets a controller.
LEMMA Removing ==
  ASSUME NEW h, Fields \subseteq DOMAIN h, NEW id
  PROVE  LET t == Android!app_unplug(h, id)
         IN /\ Passed(h, t)
            /\ Known(h) /\ QueueLen \in Nat /\ Len(h.q) < QueueLen =>
                 Known(t) /\ Len(t.q) \in Len(h.q)..(Len(h.q) + 1)
<1> DEFINE t == Android!app_unplug(h, id)
           Z == Android!APP_ZEROED_CTRL
           D == HashPop(h.devices, id)
           u == Android!app_push_event(h, "DISCONNECT", id, Z)
           w == [u EXCEPT !.devices = D]
           what == "DISCONNECT"
<1>1. t = IF id \notin DOMAIN h.devices THEN h ELSE [u EXCEPT !.devices = HashPop(@, id)]
  BY HelpersAre DEF Android!app_unplug, Android!app_remove_controller
<1>2. Passed(h, h)
  BY PassedOn
<1>3. Passed(h, u)
  <2> HIDE DEF Z
  <2> QED
    BY PushIs
<1>4. DOMAIN D = DOMAIN h.devices \ {id}
  BY HashIs
<1> HIDE DEF t, Z
<1>5. [u EXCEPT !.devices = HashPop(@, id)] = [u EXCEPT !.devices = HashPop(u.devices, id)]
  OBVIOUS
<1>6. Passed(h, t)
  <2> HIDE DEF u
  <2>1. Passed(h, [u EXCEPT !.devices = HashPop(u.devices, id)])
    BY <1>3, PassedOn
  <2> QED
    BY <1>1, <1>2, <1>5, <2>1
<1>7. ASSUME Known(h), QueueLen \in Nat, Len(h.q) < QueueLen
      PROVE  Known(t) /\ Len(t.q) \in Len(h.q)..(Len(h.q) + 1)
  <2>1. Len(h.q) \in Nat
    <3>1. Listed(h.q)
      BY <1>7 DEF Known
    <3> QED
      BY <3>1, AppendListed
  <2>2. CASE id \notin DOMAIN h.devices
    BY <1>1, <1>7, <2>1, <2>2
  <2>3. CASE id \in DOMAIN h.devices
    <3>1. u.devices = h.devices
      <4>1. Len(h.q) # QueueLen
        BY <1>7, <2>1
      <4>2. u = [h EXCEPT !.q = Append(h.q, [type |-> "DISCONNECT", id |-> id, c |-> Z])]
        BY <4>1, PushIs
      <4> QED
        BY <4>2 DEF Fields
    <3>2. t = w
      <4> HIDE DEF u
      <4> QED
        BY <1>1, <1>5, <2>3, <3>1
    <3>3. Pushing(h, what, id, Z, D, w)
      BY DEF Pushing
    <3>4. what \in {"CONNECT", "DISCONNECT", "CONTROLLER"} /\ (what = "CONNECT" <=> id \notin DOMAIN h.devices)
          /\ Becomes(what, id, DOMAIN h.devices, DOMAIN D)
      BY <1>4, <2>3 DEF Becomes
    <3> HIDE DEF w, what, D
    <3>5. Known(w) /\ Len(w.q) = Len(h.q) + 1
      BY <1>7, <3>3, <3>4, Pushed
    <3> QED
      BY <2>1, <3>2, <3>5
  <2> QED
    BY <2>2, <2>3
<1> QED
  BY <1>6, <1>7 DEF t

\* The library gets what a controller does.
Does(h, id, X, t) ==
  t = Android!app_push_controller_event([Android!app_get_controller(h, id) EXCEPT !.devices[id] = X], id)

\* app_button and app_axis tell of a device first when they do not know it: two events at most.
LEMMA Doing ==
  ASSUME NEW h, Fields \subseteq DOMAIN h, NEW id, NEW X,
         NEW t, Does(h, id, X, t)
  PROVE  /\ Passed(h, t)
         /\ Known(h) /\ QueueLen \in Nat /\ Len(h.q) + 2 <= QueueLen =>
              Known(t) /\ Len(t.q) \in Len(h.q)..(Len(h.q) + 2)
<1> DEFINE g == Android!app_get_controller(h, id)
           D == [g.devices EXCEPT ![id] = X]
           u == [g EXCEPT !.devices = D]
           w == Android!app_push_controller_event(u, id)
<1>1. t = w
  BY DEF Does
<1>2. Passed(h, g)
  BY Getting
<1> HIDE DEF g, D
<1>3. Passed(h, u)
  BY <1>2, PassedOn
<1>4. Fields \subseteq DOMAIN u /\ u.q = g.q /\ u.seen = g.seen /\ u.odd = g.odd /\ u.app = g.app /\ DOMAIN u.devices = DOMAIN g.devices
  BY <1>2 DEF Passed, Fields, D
<1> HIDE DEF u
<1>5. Passed(u, w)
  BY <1>4, Telling
<1> HIDE DEF w
<1>6. Passed(h, w)
  BY <1>3, <1>5, PassedOn
<1>7. ASSUME Known(h), QueueLen \in Nat, Len(h.q) + 2 <= QueueLen
      PROVE  Known(w) /\ Len(w.q) \in Len(h.q)..(Len(h.q) + 2)
  <2>1. Len(h.q) \in Nat
    <3>1. Listed(h.q)
      BY <1>7 DEF Known
    <3> QED
      BY <3>1, AppendListed
  <2>2. Len(h.q) < QueueLen
    BY <1>7, <2>1
  <2>3. Known(g) /\ id \in DOMAIN g.devices /\ Len(g.q) \in Len(h.q)..(Len(h.q) + 1)
    BY <1>7, <2>2, Getting DEF g
  <2>4. Known(u)
    BY <1>4, <2>3, KnownStill
  <2>5. Len(u.q) < QueueLen /\ id \in DOMAIN u.devices /\ Len(u.q) \in Len(h.q)..(Len(h.q) + 1)
    BY <1>4, <1>7, <2>1, <2>3
  <2>6. Known(w) /\ Len(w.q) \in Len(u.q)..(Len(u.q) + 1)
    BY <1>4, <1>7, <2>4, <2>5, Telling DEF w
  <2> QED
    BY <2>1, <2>5, <2>6
<1> QED
  BY <1>1, <1>6, <1>7

LEMMA Button ==
  ASSUME NEW h, Fields \subseteq DOMAIN h, NEW id, NEW code, NEW pressed
  PROVE  LET t == Android!app_button(h, id, code, pressed)
         IN /\ Passed(h, t)
            /\ Known(h) /\ QueueLen \in Nat /\ Len(h.q) + 2 <= QueueLen =>
                 Known(t) /\ Len(t.q) \in Len(h.q)..(Len(h.q) + 2)
<1> DEFINE g == Android!app_get_controller(h, id)
           up == IF code \in Android!Dpad THEN Android!Dpad ELSE {code}
           B == IF pressed THEN (g.devices[id].buttons \ up) \cup {code} ELSE g.devices[id].buttons \ up
           X == [g.devices[id] EXCEPT !.buttons = B]
           t == Android!app_button(h, id, code, pressed)
<1>1. t = Android!app_push_controller_event([g EXCEPT !.devices[id].buttons = IF pressed THEN (@ \ up) \cup {code} ELSE @ \ up], id)
  BY DEF Android!app_button
<1> HIDE DEF t, up
<1>2. [g EXCEPT !.devices[id].buttons = IF pressed THEN (@ \ up) \cup {code} ELSE @ \ up] = [g EXCEPT !.devices[id] = X]
  <2> HIDE DEF g
  <2> QED
    OBVIOUS
<1> HIDE DEF X
<1>3. Does(h, id, X, t)
  BY <1>1, <1>2 DEF Does
<1>4. /\ Passed(h, t)
      /\ Known(h) /\ QueueLen \in Nat /\ Len(h.q) + 2 <= QueueLen => Known(t) /\ Len(t.q) \in Len(h.q)..(Len(h.q) + 2)
  <2> HIDE DEF g
  <2> QED
    BY <1>3, Doing
<1> QED
  BY <1>4 DEF t

LEMMA Motion ==
  ASSUME NEW h, Fields \subseteq DOMAIN h, NEW id, NEW vals
  PROVE  LET t == Android!app_axis(h, id, vals)
         IN /\ Passed(h, t)
            /\ Known(h) /\ QueueLen \in Nat /\ Len(h.q) + 2 <= QueueLen =>
                 Known(t) /\ Len(t.q) \in Len(h.q)..(Len(h.q) + 2)
<1> DEFINE g == Android!app_get_controller(h, id)
           Value(u) == IF u \in DOMAIN vals THEN vals[u] ELSE IF u \in Android!Sticks THEN 128 ELSE 0
           Stick(u) == LET n == IF u \in Android!Inverted THEN 128 - Value(u) ELSE Value(u) - 128
                       IN Android!mty_hid_s_to_s16(Android!Axis(u, u, n, -128, 127))
           hat == IF "HatX" \in DOMAIN vals THEN vals["HatX"] ELSE 128
           side == IF hat = 0 THEN {"left"} ELSE IF hat = 255 THEN {"right"} ELSE {}
           A == [x \in 1..6 |-> IF Android!Std[x] \in Android!Sticks THEN Stick(Android!Std[x])
                                ELSE Android!Axis(Android!Std[x], Android!Std[x], Value(Android!Std[x]), 0, 255)]
           X == [[g.devices[id] EXCEPT !.axes = A] EXCEPT !.buttons = (@ \ Android!Dpad) \cup side]
           t == Android!app_axis(h, id, vals)
<1>1. t = Android!app_push_controller_event([g EXCEPT !.devices[id].axes = A, !.devices[id].buttons = (@ \ Android!Dpad) \cup side], id)
  BY DEF Android!app_axis
<1> HIDE DEF t, A, side
<1>2. [g EXCEPT !.devices[id].axes = A, !.devices[id].buttons = (@ \ Android!Dpad) \cup side] = [g EXCEPT !.devices[id] = X]
  <2> HIDE DEF g
  <2> QED
    OBVIOUS
<1> HIDE DEF X
<1>3. Does(h, id, X, t)
  BY <1>1, <1>2 DEF Does
<1>4. /\ Passed(h, t)
      /\ Known(h) /\ QueueLen \in Nat /\ Len(h.q) + 2 <= QueueLen => Known(t) /\ Len(t.q) \in Len(h.q)..(Len(h.q) + 2)
  <2> HIDE DEF g
  <2> QED
    BY <1>3, Doing
<1> QED
  BY <1>4 DEF t

\* An event or a message leaves the controllers alone.
LEMMA PassedLoose ==
  ASSUME NEW h, NEW t, Loose(h), Passed(h, t), plat \in Elsewhere
  PROVE  Loose(t)
<1>1. Padded(h, t) /\ Posted(t)
  BY DEF Loose, Passed, Padded, Posted
<1> QED
  BY <1>1, LooseOn

\* What the program knows, after an event.
Eventful(h, type, id, t) ==
  /\ Passed(h, t) /\ t.q = h.q /\ t.devices = h.devices /\ t.gps = h.gps
  /\ Becomes(type, id, DOMAIN h.seen, DOMAIN t.seen)
  /\ (type = "CONNECT" <=> id \notin DOMAIN h.seen) => t.odd = h.odd

\* What event_func does to what the program knows.
LEMMA EventIs ==
  ASSUME NEW h, Fields \subseteq DOMAIN h, NEW type, NEW id, NEW c
  PROVE  Eventful(h, type, id, event_func(h, type, id, c))
<1> DEFINE D == IF type = "DISCONNECT" THEN HashPop(h.seen, id) ELSE HashSet(h.seen, id, c)
           g == [h EXCEPT !.seen = D]
           w == [g EXCEPT !.odd = @ \cup {type}]
           t == event_func(h, type, id, c)
<1>1. t \in {g, w} /\ ((type = "CONNECT" <=> id \notin DOMAIN h.seen) => t = g)
  <2> DEFINE known == id \in DOMAIN h.seen
             quiet == type # "CONNECT" /\ id < h.quiet
             e == IF type = "DISCONNECT" THEN [h EXCEPT !.seen = HashPop(@, id)] ELSE [h EXCEPT !.seen = HashSet(@, id, c)]
  <2>1. e = g
    OBVIOUS
  <2>2. t = IF known = (type # "CONNECT") \/ quiet THEN e ELSE [e EXCEPT !.odd = @ \cup {type}]
    BY DEF event_func, Odd
  <2> HIDE DEF t, e, g, quiet
  <2> QED
    BY <2>1, <2>2
<1>2. Becomes(type, id, DOMAIN h.seen, DOMAIN D)
  <2>1. DOMAIN HashSet(h.seen, id, c) = DOMAIN h.seen \cup {id} /\ DOMAIN HashPop(h.seen, id) = DOMAIN h.seen \ {id}
    BY HashIs
  <2> QED
    BY <2>1 DEF Becomes
<1> HIDE DEF t, D
<1>3. Passed(h, h)
  BY PassedOn
<1>4. Passed(h, g)
  BY <1>3, PassedOn
<1>5. Passed(h, w)
  <2> HIDE DEF g
  <2> QED
    BY <1>4, PassedOn
<1>6. g.q = h.q /\ g.devices = h.devices /\ g.gps = h.gps /\ g.seen = D /\ g.odd = h.odd
  BY DEF Fields
<1>7. w.q = h.q /\ w.devices = h.devices /\ w.gps = h.gps /\ w.seen = D
  BY DEF Fields
<1> HIDE DEF g, w
<1>8. Eventful(h, type, id, t)
  BY <1>1, <1>2, <1>4, <1>5, <1>6, <1>7 DEF Eventful
<1> QED
  BY <1>8 DEF t

Sound(h) == Known(h) /\ Room(h)

LEMMA Sums ==
  ASSUME NEW a \in Nat, NEW b \in Nat, NEW x \in Nat, NEW y \in Nat, NEW z \in Nat, a + 2 * b + 2 * (x + y) <= z
  PROVE  /\ (a - 1) + 2 * b + 2 * (x + y) <= z
         /\ b >= 1 => a + 2 <= z
         /\ \A c \in a..(a + 2) : c + 2 * (b - 1) + 2 * (x + y) <= z
OBVIOUS

\* The program's thread takes one event.
LEMMA AndroidRun ==
  ASSUME Loose(s), plat = "android", AppRun
  PROVE  Loose(s') /\ (Sound(s) => Sound(s'))
<1> DEFINE m == s.q[1]
           g == [s EXCEPT !.q = Tail(@)]
<1>1. s.app = "alive" /\ s.q # <<>> /\ s' = event_func(g, Head(s.q).type, Head(s.q).id, Head(s.q).c)
  <2>1. s' \in Android!AppRun(s) /\ s.app = "alive"
    BY DEF AppRun
  <2>2. s' \in {event_func(g, x.type, x.id, x.c) : x \in IF s.q = <<>> THEN {} ELSE {Head(s.q)}}
    BY <2>1, EventFuncsAre DEF Android!AppRun, Android!First
  <2> HIDE DEF g
  <2> QED
    BY <2>1, <2>2
<1>2. Fields \subseteq DOMAIN s
  BY DEF Loose, Shaped
<1>3. Passed(s, s)
  BY <1>2, PassedOn
<1>4. Passed(s, g) /\ Fields \subseteq DOMAIN g
  <2>1. Passed(s, [s EXCEPT !.q = Tail(s.q)])
    BY <1>3, PassedOn
  <2> QED
    BY <2>1 DEF Passed
<1>5. g.q = Tail(s.q) /\ g.devices = s.devices /\ g.seen = s.seen /\ g.odd = s.odd
  BY <1>2 DEF Fields
<1> HIDE DEF g, m
<1>6. Eventful(g, Head(s.q).type, Head(s.q).id, s')
  <2>1. Eventful(g, Head(s.q).type, Head(s.q).id, event_func(g, Head(s.q).type, Head(s.q).id, Head(s.q).c))
    BY <1>4, EventIs
  <2> QED
    BY <1>1, <2>1
<1>7. Passed(s, s')
  BY <1>4, <1>6, PassedOn DEF Eventful
<1>8. Loose(s')
  BY <1>7, PassedLoose DEF Elsewhere
<1>9. ASSUME Sound(s) PROVE Sound(s')
  <2>1. Listed(s.q) /\ Announces(s.q, s.seen, DOMAIN s.devices) /\ s.odd = {}
    BY <1>1, <1>9 DEF Sound, Known
  <2>2. Listed(Tail(s.q)) /\ Len(Tail(s.q)) = Len(s.q) - 1 /\ Len(s.q) \in Nat /\ Head(s.q) = s.q[1]
    BY <1>1, <2>1, TailListed
  <2>3. Becomes(s.q[1].type, s.q[1].id, DOMAIN s.seen, DOMAIN s'.seen)
    BY <1>5, <1>6, <2>2 DEF Eventful
  <2> DEFINE q == s.q
             seen == s.seen
             now == s'.seen
             D == DOMAIN s.devices
  <2>4. Announces(q, seen, D) /\ q # <<>> /\ Becomes(q[1].type, q[1].id, DOMAIN seen, DOMAIN now)
    BY <1>1, <2>1, <2>3
  <2> HIDE DEF q, seen, now, D
  <2>5. Announces(Tail(q), now, D) /\ (q[1].type = "CONNECT" <=> q[1].id \notin DOMAIN seen)
    BY <2>4, AnnouncesLess
  <2>6. s'.odd = s.odd /\ s'.q = Tail(s.q) /\ s'.devices = s.devices
    BY <1>5, <1>6, <2>2, <2>5 DEF Eventful, q, seen
  <2>7. Known(s')
    BY <1>1, <1>7, <2>1, <2>2, <2>5, <2>6 DEF Known, Passed, q, now, D
  <2>8. Room(s')
    <3>1. s'.os = s.os /\ s'.moves = s.moves /\ s'.plugs = s.plugs
      BY <1>7 DEF Passed
    <3>2. Len(s.os) \in Nat /\ s.moves \in Nat /\ s.plugs \in Nat
      <4>1. Listed(s.os) /\ s.moves \in Nat /\ s.plugs \in Nat
        BY DEF Loose, Posted
      <4> QED
        BY <4>1, AppendListed
    <3>3. QueueLen \in Nat
      BY ControllersAssumption
    <3>4. Len(s.q) + 2 * Len(s.os) + 2 * (s.moves + s.plugs) <= QueueLen
      BY <1>9 DEF Sound, Room
    <3> DEFINE a == Len(s.q)
               b == Len(s.os)
               x == s.moves
               y == s.plugs
    <3>5. a \in Nat /\ b \in Nat /\ x \in Nat /\ y \in Nat /\ a + 2 * b + 2 * (x + y) <= QueueLen
      BY <2>2, <3>2, <3>4
    <3>6. Len(s'.q) = a - 1 /\ Len(s'.os) = b /\ s'.moves = x /\ s'.plugs = y
      BY <2>2, <2>6, <3>1
    <3> HIDE DEF a, b, x, y
    <3>7. (a - 1) + 2 * b + 2 * (x + y) <= QueueLen
      BY <3>3, <3>5, Sums
    <3> QED
      BY <3>6, <3>7 DEF Room
  <2> QED
    BY <2>7, <2>8 DEF Sound
<1> QED
  BY <1>8, <1>9

\* The thread of the user interface takes what the system says: it may need room for two events.
LEMMA MatoyaRun ==
  ASSUME Loose(s), Matoya
  PROVE  Loose(s') /\ (Sound(s) => Sound(s'))
<1> DEFINE m == Head(s.os)
           g == [s EXCEPT !.os = Tail(@)]
<1>1. plat = "android" /\ s.os # <<>>
      /\ s' = CASE m.what = "remove" -> Android!app_unplug(g, m.id)
                [] m.what = "button" -> Android!app_button(g, m.id, m.code, m.vals[m.code] = 1)
                [] m.what = "axis"   -> Android!app_axis(g, m.id, m.vals)
  <2> DEFINE F(x) == CASE x.what = "remove" -> Android!app_unplug(g, x.id)
                       [] x.what = "button" -> Android!app_button(g, x.id, x.code, x.vals[x.code] = 1)
                       [] x.what = "axis"   -> Android!app_axis(g, x.id, x.vals)
  <2>1. plat = "android" /\ s' \in {F(x) : x \in IF s.os = <<>> THEN {} ELSE {Head(s.os)}}
    BY DEF Matoya, Android!Matoya, Android!First
  <2>2. s' = F(m) /\ s.os # <<>>
    <3> HIDE DEF F
    <3> QED
      BY <2>1
  <2> QED
    BY <2>1, <2>2
<1>2. Fields \subseteq DOMAIN s /\ Listed(s.os) /\ s.moves \in Nat /\ s.plugs \in Nat
  BY DEF Loose, Shaped, Posted
<1>3. Listed(Tail(s.os)) /\ Len(s.os) \in Nat /\ Len(Tail(s.os)) = Len(s.os) - 1 /\ m = s.os[1] /\ 1 \in DOMAIN s.os
      /\ DOMAIN s.os = 1..Len(s.os) /\ \A k \in DOMAIN Tail(s.os) : Tail(s.os)[k] = s.os[k + 1] /\ k + 1 \in DOMAIN s.os
  BY <1>1, <1>2, TailListed
<1>4. m.what \in {"remove", "button", "axis"}
  BY <1>3 DEF Loose, Posted
<1>5. /\ Fields \subseteq DOMAIN g /\ g.os = Tail(s.os) /\ g.pads = s.pads /\ g.moves = s.moves /\ g.plugs = s.plugs
      /\ g.q = s.q /\ g.devices = s.devices /\ g.seen = s.seen /\ g.odd = s.odd /\ g.app = s.app
  BY <1>2 DEF Fields
<1> HIDE DEF g, m
<1>6. Loose(g)
  <2>1. Posted(g)
    BY <1>3, <1>5 DEF Loose, Posted
  <2>2. Padded(s, g)
    BY <1>5 DEF Loose, Padded
  <2> QED
    BY <1>1, <2>1, <2>2, LooseOn DEF Elsewhere
<1>7. /\ Passed(g, s')
      /\ Known(g) /\ QueueLen \in Nat /\ Len(g.q) + 2 <= QueueLen => Known(s') /\ Len(s'.q) \in Len(g.q)..(Len(g.q) + 2)
  <2>1. CASE m.what = "remove"
    <3> DEFINE t == Android!app_unplug(g, m.id)
    <3>1. s' = t
      BY <1>1, <2>1
    <3>2. /\ Passed(g, t)
          /\ Known(g) /\ QueueLen \in Nat /\ Len(g.q) < QueueLen => Known(t) /\ Len(t.q) \in Len(g.q)..(Len(g.q) + 1)
      BY <1>5, Removing
    <3>3. Known(g) => Len(g.q) \in Nat
      <4>1. Known(g) => Listed(g.q)
        BY DEF Known
      <4> QED
        BY <4>1, AppendListed
    <3> HIDE DEF t
    <3> QED
      BY <3>1, <3>2, <3>3
  <2>2. CASE m.what = "button"
    <3> DEFINE t == Android!app_button(g, m.id, m.code, m.vals[m.code] = 1)
    <3>1. s' = t
      BY <1>1, <2>2
    <3> QED
      BY <1>5, <3>1, Button
  <2>3. CASE m.what = "axis"
    <3> DEFINE t == Android!app_axis(g, m.id, m.vals)
    <3>1. s' = t
      BY <1>1, <2>3
    <3> QED
      BY <1>5, <3>1, Motion
  <2> QED
    BY <1>4, <2>1, <2>2, <2>3
<1>8. Loose(s')
  BY <1>1, <1>6, <1>7, PassedLoose DEF Elsewhere
<1>9. ASSUME Sound(s) PROVE Sound(s')
  <2>1. Known(g)
    BY <1>5, <1>9, KnownStill DEF Sound
  <2>2. Len(s.q) \in Nat
    <3>1. Listed(s.q)
      BY <1>9 DEF Sound, Known
    <3> QED
      BY <3>1, AppendListed
  <2>3. QueueLen \in Nat
    BY ControllersAssumption
  <2>4. Len(s.q) + 2 * Len(s.os) + 2 * (s.moves + s.plugs) <= QueueLen
    BY <1>9 DEF Sound, Room
  <2> DEFINE a == Len(s.q)
             b == Len(s.os)
             x == s.moves
             y == s.plugs
  <2>5. a \in Nat /\ b \in Nat /\ x \in Nat /\ y \in Nat /\ a + 2 * b + 2 * (x + y) <= QueueLen
    BY <1>2, <1>3, <2>2, <2>4
  <2>6. b >= 1 /\ Len(g.q) = a
    BY <1>3, <1>5
  <2> HIDE DEF a, b, x, y
  <2>7. a + 2 <= QueueLen /\ \A c \in a..(a + 2) : c + 2 * (b - 1) + 2 * (x + y) <= QueueLen
    BY <2>3, <2>5, <2>6, Sums
  <2>8. Known(s') /\ Len(s'.q) \in a..(a + 2)
    BY <1>7, <2>1, <2>3, <2>6, <2>7
  <2>9. Len(s'.os) = b - 1 /\ s'.moves = x /\ s'.plugs = y
    BY <1>3, <1>5, <1>7 DEF Passed, b, x, y
  <2>10. Room(s')
    BY <2>7, <2>8, <2>9 DEF Room
  <2> QED
    BY <2>8, <2>10 DEF Sound
<1> QED
  BY <1>8, <1>9

-----------------------------------------------------------------------------
(* The web: the messages of one round. *)

Spoken(q, seen, gps) ==
  /\ Listed(q) /\ \A k, j \in DOMAIN q : q[k].id = q[j].id => k = j
  /\ \A k \in DOMAIN q : /\ q[k].id \in DOMAIN gps
                         /\ q[k].state = 1 <=> q[k].id \notin DOMAIN seen
                         /\ q[k].state = 2 <=> gps[q[k].id] = FALSE
  /\ \A x \in DOMAIN gps : gps[x] \in BOOLEAN /\ ((\A k \in DOMAIN q : q[k].id # x) => (gps[x] = TRUE <=> x \in DOMAIN seen))

Heard(h) ==
  /\ h.odd = {} /\ h.app \in {"none", "alive"} /\ (h.app = "none" => h.q = <<>>)
  /\ Spoken(h.q, h.seen, h.gps) /\ DOMAIN h.gps = {p - 1 : p \in DOMAIN h.pads}

\* No window is made a second time, no application in the same activity or worker, no browser polls
\* before there is one, and the queue of Android has room for all that may happen.
Sane ==
  /\ Faults \cap {"again", "remade", "early"} = {}
  /\ \A c \in Cases : c.plat = "android" => 2 * (c.moves + c.plugs) <= QueueLen

Else(h) ==
  /\ Loose(h)
  /\ Sane => (plat = "android" => Sound(h)) /\ (plat = "web" => Heard(h))

Sum(h) == Len(h.os) + h.moves + h.plugs

\* Nothing the library has changes, and nothing more can come.
LEMMA ElseStill ==
  ASSUME NEW h, Else(h), plat \in Elsewhere, NEW t, Beside(h, t), Posted(t), Sum(t) <= Sum(h)
  PROVE  Else(t)
<1>1. Loose(t)
  BY LooseOn DEF Else, Beside
<1>2. ASSUME Sane, plat = "android" PROVE Sound(t)
  <2>1. Known(h) /\ Room(h)
    BY <1>2 DEF Else, Sound
  <2>2. Known(t)
    BY <2>1, KnownStill DEF Beside
  <2>3. Len(h.os) \in Nat /\ h.moves \in Nat /\ h.plugs \in Nat /\ Len(t.os) \in Nat /\ t.moves \in Nat /\ t.plugs \in Nat
    <3>1. Listed(h.os) /\ h.moves \in Nat /\ h.plugs \in Nat /\ Listed(t.os) /\ t.moves \in Nat /\ t.plugs \in Nat
      BY DEF Else, Loose, Posted
    <3> QED
      BY <3>1, AppendListed
  <2>4. Len(h.q) \in Nat
    <3>1. Listed(h.q)
      BY <2>1 DEF Known
    <3> QED
      BY <3>1, AppendListed
  <2>5. QueueLen \in Nat
    BY ControllersAssumption
  <2>6. Len(t.q) = Len(h.q)
    BY DEF Beside
  <2> DEFINE a == Len(h.q)
             b == Len(h.os)
             x == h.moves
             y == h.plugs
             d == Len(t.os)
             v == t.moves
             w == t.plugs
  <2>7. a + 2 * b + 2 * (x + y) <= QueueLen
    BY <2>1 DEF Room
  <2>8. d + v + w <= b + x + y
    BY DEF Sum
  <2>9. a \in Nat /\ b \in Nat /\ x \in Nat /\ y \in Nat /\ d \in Nat /\ v \in Nat /\ w \in Nat
    BY <2>3, <2>4
  <2> HIDE DEF a, b, x, y, d, v, w
  <2>10. a + 2 * d + 2 * (v + w) <= QueueLen
    BY <2>5, <2>7, <2>8, <2>9
  <2>11. Room(t)
    BY <2>6, <2>10 DEF Room, a, d, v, w
  <2> QED
    BY <2>2, <2>11 DEF Sound
<1>3. ASSUME Sane, plat = "web" PROVE Heard(t)
  BY <1>3 DEF Else, Heard, Beside, Padded
<1> QED
  BY <1>1, <1>2, <1>3 DEF Else

\* What stays, when what is named here does.
LEMMA ElseAs ==
  ASSUME NEW h, Else(h), plat \in Elsewhere, NEW t, Beside(h, t), t.os = h.os, t.moves = h.moves, t.plugs = h.plugs
  PROVE  Else(t)
<1>1. Posted(t)
  BY DEF Else, Loose, Posted
<1>2. Sum(t) <= Sum(h)
  <2>1. Sum(t) = Sum(h)
    BY DEF Sum
  <2>2. Listed(h.os) /\ h.moves \in Nat /\ h.plugs \in Nat
    BY DEF Else, Loose, Posted
  <2>3. Sum(h) \in Nat
    BY <2>2, AppendListed DEF Sum
  <2> QED
    BY <2>1, <2>3
<1> QED
  BY <1>1, <1>2, ElseStill

-----------------------------------------------------------------------------
(* The controllers. *)

Grown(p, d) == Renewed(p, d) /\ d.answers = <<>>

\* One controller changes.
LEMMA GrownIs ==
  ASSUME Else(s), NEW p \in Pads
  PROVE  Grown(p, s.pads[p])
BY DEF Else, Loose, Padded, Grown, Renewed, Pads

LEMMA GrownPad ==
  ASSUME Else(s), NEW p \in Pads, NEW d, Grown(p, d)
  PROVE  LET t == [s EXCEPT !.pads[p] = d]
         IN Beside(s, t) /\ t.os = s.os /\ t.moves = s.moves /\ t.plugs = s.plugs
<1>1. /\ Loose(s) /\ p \in DOMAIN s.pads /\ PadFields \subseteq DOMAIN d /\ d.kind = s.pads[p].kind
      /\ d.in \in BOOLEAN /\ d.motor \in 0..1 /\ d.want \in -1..1 /\ d.answers = <<>>
  BY DEF Else, Grown, Renewed, Pads
<1> QED
  BY <1>1, BesidePad

\* What happens to the controllers.
LEMMA ElsePlug ==
  ASSUME Else(s), plat \in Elsewhere, NEW p \in Pads, Plug(p)
  PROVE  Else(s')
<1> DEFINE pad == s.pads[p]
           packet == IF "still" \in Faults THEN 0 ELSE pad.packet + 1
           new == [pad EXCEPT !.in = TRUE, !.pos = pad.rest, !.packet = packet, !.id = s.next,
                              !.ready = ~is_xinput(p)]
           d == IF plat = "android" THEN new ELSE [new EXCEPT !.id = pad.id]
           n == IF plat = "android" THEN s.next + 1 ELSE s.next
           t == [s EXCEPT !.pads[p] = d, !.next = IF plat = "android" THEN @ + 1 ELSE @]
           u == [s EXCEPT !.pads[p] = d]
           w == [u EXCEPT !.next = n]
<1>1. s' = t
  BY DEF Plug, Arrival, Elsewhere
<1>2. Grown(p, pad)
  BY GrownIs
<1>3. Grown(p, d)
  <2>1. PadFields \subseteq DOMAIN pad /\ pad.kind = s.pads[p].kind /\ pad.answers = <<>>
        /\ pad.motor \in 0..1 /\ pad.want \in -1..1
    BY <1>2 DEF Grown, Renewed
  <2> HIDE DEF pad, packet
  <2>2. DOMAIN new = DOMAIN pad /\ new.kind = pad.kind /\ new.answers = pad.answers /\ new.in = TRUE
        /\ new.motor = pad.motor /\ new.want = pad.want
    BY <2>1 DEF PadFields
  <2> HIDE DEF new
  <2>3. DOMAIN d = DOMAIN pad /\ d.kind = pad.kind /\ d.answers = pad.answers /\ d.in = TRUE
        /\ d.motor = pad.motor /\ d.want = pad.want
    BY <2>2
  <2> HIDE DEF d
  <2> QED
    BY <2>1, <2>3 DEF Grown, Renewed
<1>4. t = w
  <2> HIDE DEF d
  <2> QED
    OBVIOUS
<1> HIDE DEF d, n, t
<1>5. Beside(s, u) /\ u.os = s.os /\ u.moves = s.moves /\ u.plugs = s.plugs
  BY <1>3, GrownPad
<1> HIDE DEF u
<1>6. Beside(s, w)
  BY <1>5, BesideOn
<1>7. w.os = s.os /\ w.moves = s.moves /\ w.plugs = s.plugs
  BY <1>5 DEF Beside, Padded, Fields
<1> HIDE DEF w
<1> QED
  BY <1>1, <1>4, <1>6, <1>7, ElseAs

LEMMA ElseReady ==
  ASSUME Else(s), plat \in Elsewhere, NEW p \in Pads, Ready(p)
  PROVE  Else(s')
<1> DEFINE d == [s.pads[p] EXCEPT !.ready = TRUE]
           t == [s EXCEPT !.pads[p].ready = TRUE]
           u == [s EXCEPT !.pads[p] = d]
<1>1. s' = t
  BY DEF Ready, Arrival, Elsewhere
<1>2. Grown(p, s.pads[p])
  BY GrownIs
<1>3. Grown(p, d)
  BY <1>2 DEF Grown, Renewed, PadFields
<1>4. t = u
  OBVIOUS
<1> HIDE DEF d, t
<1>5. Beside(s, u) /\ u.os = s.os /\ u.moves = s.moves /\ u.plugs = s.plugs
  BY <1>3, GrownPad
<1> HIDE DEF u
<1> QED
  BY <1>1, <1>4, <1>5, ElseAs

LEMMA ElseAnswer ==
  ASSUME Else(s), NEW p \in Pads
  PROVE  ~Answer(p)
BY GrownIs DEF Answer, Grown

\* The system has one more thing to say.
LEMMA PostedMore ==
  ASSUME NEW h, Loose(h), NEW m, m.what \in {"remove", "button", "axis"},
         NEW O, O \in {Append(h.os, m), <<m>> \o h.os}
  PROVE  Listed(O) /\ Len(O) = Len(h.os) + 1 /\ Len(h.os) \in Nat /\ \A k \in DOMAIN O : O[k].what \in {"remove", "button", "axis"}
<1>1. Listed(h.os) /\ \A k \in DOMAIN h.os : h.os[k].what \in {"remove", "button", "axis"}
  BY DEF Loose, Posted
<1> DEFINE n == Len(h.os)
<1>2. CASE O = Append(h.os, m)
  <2>1. Listed(O) /\ n \in Nat /\ Len(O) = n + 1 /\ DOMAIN h.os = 1..n /\ DOMAIN O = 1..(n + 1)
        /\ (\A k \in 1..n : O[k] = h.os[k]) /\ O[n + 1] = m
    BY <1>1, <1>2, AppendListed
  <2> HIDE DEF n
  <2>2. \A k \in 1..(n + 1) : k \in 1..n \/ k = n + 1
    BY <2>1
  <2> QED
    BY <1>1, <2>1, <2>2 DEF n
<1>3. CASE O = <<m>> \o h.os
  <2>1. /\ Listed(<<m>> \o h.os) /\ n \in Nat /\ Len(<<m>> \o h.os) = n + 1
        /\ DOMAIN (<<m>> \o h.os) = 1..(n + 1) /\ DOMAIN h.os = 1..n
        /\ (<<m>> \o h.os)[1] = m /\ \A k \in 1..n : (<<m>> \o h.os)[k + 1] = h.os[k]
    <3> DEFINE q == h.os
    <3>1. Listed(q)
      BY <1>1
    <3> HIDE DEF q
    <3>2. /\ Listed(<<m>> \o q) /\ Len(q) \in Nat /\ Len(<<m>> \o q) = Len(q) + 1
          /\ DOMAIN (<<m>> \o q) = 1..(Len(q) + 1) /\ DOMAIN q = 1..Len(q)
          /\ (<<m>> \o q)[1] = m /\ \A k \in 1..Len(q) : (<<m>> \o q)[k + 1] = q[k]
      BY <3>1, PrependListed
    <3> QED
      BY <3>2 DEF q
  <2>2. Listed(O) /\ n \in Nat /\ Len(O) = n + 1 /\ DOMAIN h.os = 1..n /\ DOMAIN O = 1..(n + 1)
        /\ O[1] = m /\ \A k \in 1..n : O[k + 1] = h.os[k]
    BY <1>3, <2>1
  <2> HIDE DEF n
  <2>3. \A k \in 1..(n + 1) : k = 1 \/ (k - 1 \in 1..n /\ (k - 1) + 1 = k)
    BY <2>2
  <2>4. ASSUME NEW k \in DOMAIN O PROVE O[k].what \in {"remove", "button", "axis"}
    <3>1. CASE k = 1
      BY <2>2, <3>1
    <3>2. CASE k - 1 \in 1..n /\ (k - 1) + 1 = k
      <4>1. O[k] = h.os[k - 1] /\ k - 1 \in DOMAIN h.os
        BY <2>2, <3>2
      <4> QED
        BY <1>1, <4>1
    <3> QED
      BY <2>2, <2>3, <3>1, <3>2
  <2> QED
    BY <2>2, <2>4 DEF n
<1> QED
  BY <1>2, <1>3

LEMMA ElseUnplug ==
  ASSUME Else(s), plat \in Elsewhere, NEW p \in Pads, Unplug(p)
  PROVE  Else(s')
<1> DEFINE pad == s.pads[p]
           gone == [pad EXCEPT !.in = FALSE, !.ready = ~is_xinput(p), !.pos = pad.rest, !.motor = 0, !.want = -1,
                               !.answers = <<>>, !.events = <<>>, !.effect = FALSE]
           x == s.plugs - 1
           m == [what |-> "remove", id |-> pad.id]
           t == [s EXCEPT !.pads[p] = gone, !.plugs = @ - 1]
           u == [s EXCEPT !.pads[p] = gone]
           w == [u EXCEPT !.plugs = x]
           O == IF "ghost" \in Faults THEN <<m>> \o t.os ELSE Append(t.os, m)
           y == [w EXCEPT !.os = O]
<1>1. /\ s.plugs > 0
      /\ plat = "android" => s' = [t EXCEPT !.os = O]
      /\ plat = "web" => s' = t
  BY DEF Unplug
<1>2. t = w
  <2> HIDE DEF gone
  <2> QED
    OBVIOUS
<1>3. Grown(p, pad)
  BY GrownIs
<1>4. Grown(p, gone)
  <2>1. PadFields \subseteq DOMAIN pad /\ pad.kind = s.pads[p].kind
    BY <1>3 DEF Grown, Renewed
  <2>2. 0 \in 0..1 /\ -1 \in -1..1 /\ FALSE \in BOOLEAN
    OBVIOUS
  <2> HIDE DEF pad
  <2>3. DOMAIN gone = DOMAIN pad
    OBVIOUS
  <2>4. gone.kind = pad.kind /\ gone.in = FALSE
    BY <2>1 DEF PadFields
  <2>5. gone.motor = 0 /\ gone.want = -1 /\ gone.answers = <<>>
    BY <2>1 DEF PadFields
  <2> HIDE DEF gone
  <2>6. PadFields \subseteq DOMAIN gone /\ gone.kind = s.pads[p].kind
    BY <2>1, <2>3, <2>4
  <2>7. gone.in \in BOOLEAN /\ gone.motor \in 0..1 /\ gone.want \in -1..1
    BY <2>2, <2>4, <2>5
  <2> QED
    BY <2>5, <2>6, <2>7 DEF Grown, Renewed
<1> HIDE DEF gone
<1>5. Beside(s, u) /\ u.os = s.os /\ u.moves = s.moves /\ u.plugs = s.plugs
  BY <1>4, GrownPad
<1>6. s.plugs \in Nat /\ s.moves \in Nat /\ Listed(s.os)
  BY DEF Else, Loose, Posted
<1>7. x \in Nat /\ x + 1 = s.plugs
  BY <1>1, <1>6
<1>8. m.what = "remove"
  OBVIOUS
<1> HIDE DEF u, x, t, m
<1>9. Beside(s, w)
  BY <1>5, BesideOn
<1>10. w.os = s.os /\ w.moves = s.moves /\ w.plugs = x
  BY <1>5 DEF Beside, Padded, Fields
<1> HIDE DEF w
<1>11. Len(s.os) \in Nat
  BY <1>6, AppendListed
<1>12. CASE plat = "web"
  <2>1. Posted(w)
    BY <1>6, <1>7, <1>10 DEF Posted, Else, Loose
  <2>2. Sum(w) <= Sum(s)
    <3>1. Sum(w) = Len(s.os) + s.moves + x /\ Sum(s) = Len(s.os) + s.moves + s.plugs
      BY <1>10 DEF Sum
    <3> QED
      BY <1>6, <1>7, <1>11, <3>1
  <2> QED
    BY <1>1, <1>2, <1>9, <1>12, <2>1, <2>2, ElseStill
<1>13. CASE plat = "android"
  <2>1. s' = y
    BY <1>1, <1>2, <1>13
  <2>2. O \in {Append(s.os, m), <<m>> \o s.os}
    BY <1>2, <1>10
  <2> HIDE DEF O
  <2>3. Listed(O) /\ Len(O) = Len(s.os) + 1 /\ \A k \in DOMAIN O : O[k].what \in {"remove", "button", "axis"}
    <3>1. Loose(s) /\ m.what \in {"remove", "button", "axis"}
      BY <1>8 DEF Else
    <3> QED
      BY <2>2, <3>1, PostedMore
  <2>4. Beside(s, y)
    BY <1>9, BesideOn
  <2>5. y.os = O /\ y.moves = s.moves /\ y.plugs = x
    BY <1>9, <1>10 DEF Beside, Padded, Fields
  <2> HIDE DEF y
  <2>6. Posted(y)
    BY <1>6, <1>7, <2>3, <2>5 DEF Posted
  <2>7. Sum(y) <= Sum(s)
    <3>1. Sum(y) = (Len(s.os) + 1) + s.moves + x /\ Sum(s) = Len(s.os) + s.moves + s.plugs
      BY <2>3, <2>5 DEF Sum
    <3> QED
      BY <1>6, <1>7, <1>11, <3>1
  <2> QED
    BY <2>1, <2>4, <2>6, <2>7, ElseStill
<1> QED
  BY <1>12, <1>13 DEF Elsewhere

LEMMA ElseEffect ==
  ASSUME Else(s), plat \in Elsewhere, NEW p \in Pads, EffectEnds(p)
  PROVE  Else(s')
<1>1. Grown(p, s.pads[p])
  BY GrownIs
<1>2. PICK d : Renewed(p, d) /\ d.answers = s.pads[p].answers /\ s' = [s EXCEPT !.pads[p] = d]
  BY <1>1, EffectIs DEF Grown
<1>3. Grown(p, d)
  BY <1>1, <1>2 DEF Grown
<1> DEFINE k == [s EXCEPT !.pads[p] = d]
<1>4. Beside(s, k) /\ k.os = s.os /\ k.moves = s.moves /\ k.plugs = s.plugs
  BY <1>3, GrownPad
<1>5. s' = k
  BY <1>2
<1> HIDE DEF k
<1> QED
  BY <1>4, <1>5, ElseAs

LEMMA ElseMove ==
  ASSUME Else(s), plat \in Elsewhere, NEW p \in Pads, NEW u, NEW v, Move(p, u, v)
  PROVE  Else(s')
<1> DEFINE pad == s.pads[p]
           pos == [pad.pos EXCEPT ![u] = v]
           t == [s EXCEPT !.pads[p].pos = pos, !.pads[p].packet = IF is_xinput(p) THEN @ + 1 ELSE @, !.moves = @ - 1]
           packet == IF is_xinput(p) THEN pad.packet + 1 ELSE pad.packet
           d == [[pad EXCEPT !.pos = pos] EXCEPT !.packet = packet]
           k == [s EXCEPT !.pads[p] = d]
           x == s.moves - 1
           w == [k EXCEPT !.moves = x]
           button == u \in pad.buttons
           m == [what |-> IF button THEN "button" ELSE "axis", id |-> pad.id, code |-> u,
                 vals |-> IF button THEN [z \in {u} |-> v] ELSE Restrict(pos, DOMAIN pos \ pad.buttons)]
           O == Append(t.os, m)
           y == [w EXCEPT !.os = O]
<1>1. t = w
  OBVIOUS
<1>2. /\ s.moves > 0
      /\ plat = "android" => s' = [t EXCEPT !.os = O]
      /\ plat = "web" => s' = t
  <2> DEFINE t1 == [t EXCEPT !.pads[p].events = Append(@, [code |-> u, v |-> v])]
             t2 == [t EXCEPT !.os = O]
             t3 == Enqueued(t, [what |-> "report", p |-> p, r |-> [id |-> "guide", vals |-> [z \in {u} |-> v]]])
  <2>1. s.moves > 0 /\ s' = CASE plat = "x11" /\ p \in DOMAIN s.devices -> t1
                              [] plat = "android" -> t2
                              [] plat \in {"windows", "mac"} /\ u = "guide" /\ pad.v1 -> t3
                              [] OTHER -> t
    BY DEF Move
  <2> HIDE DEF t1, t2, t3, t, pad, x
  <2>2. CASE plat = "android"
    BY <2>1, <2>2 DEF t2
  <2>3. CASE plat = "web"
    <3>1. ~(plat = "x11" /\ p \in DOMAIN s.devices) /\ ~(plat = "android") /\ ~(plat \in {"windows", "mac"} /\ u = "guide" /\ pad.v1)
      BY <2>3
    <3>2. s' = t
      BY <2>1, <3>1
    <3> QED
      BY <2>1, <2>3, <3>2
  <2> QED
    BY <2>2, <2>3 DEF Elsewhere
<1>3. Grown(p, pad)
  BY GrownIs
<1> HIDE DEF pos, packet
<1>4. Grown(p, d)
  BY <1>3 DEF Grown, Renewed, PadFields
<1>5. m.what \in {"remove", "button", "axis"}
  OBVIOUS
<1> HIDE DEF d, m, t, pad
<1>6. Beside(s, k) /\ k.os = s.os /\ k.moves = s.moves /\ k.plugs = s.plugs
  BY <1>4, GrownPad
<1>7. s.plugs \in Nat /\ s.moves \in Nat /\ Listed(s.os)
  BY DEF Else, Loose, Posted
<1>8. x \in Nat /\ x + 1 = s.moves
  BY <1>2, <1>7
<1> HIDE DEF k, x
<1>9. Beside(s, w)
  BY <1>6, BesideOn
<1>10. w.os = s.os /\ w.moves = x /\ w.plugs = s.plugs
  BY <1>6 DEF Beside, Padded, Fields
<1> HIDE DEF w
<1>11. Len(s.os) \in Nat
  BY <1>7, AppendListed
<1>12. CASE plat = "web"
  <2>1. Posted(w)
    BY <1>7, <1>8, <1>10 DEF Posted, Else, Loose
  <2>2. Sum(w) <= Sum(s)
    <3>1. Sum(w) = Len(s.os) + x + s.plugs /\ Sum(s) = Len(s.os) + s.moves + s.plugs
      BY <1>10 DEF Sum
    <3> QED
      BY <1>7, <1>8, <1>11, <3>1
  <2> QED
    BY <1>1, <1>2, <1>9, <1>12, <2>1, <2>2, ElseStill
<1>13. CASE plat = "android"
  <2>1. s' = y
    BY <1>1, <1>2, <1>13
  <2>2. O \in {Append(s.os, m), <<m>> \o s.os}
    BY <1>1, <1>10
  <2> HIDE DEF O
  <2>3. Listed(O) /\ Len(O) = Len(s.os) + 1 /\ \A i \in DOMAIN O : O[i].what \in {"remove", "button", "axis"}
    <3>1. Loose(s)
      BY DEF Else
    <3> QED
      BY <1>5, <2>2, <3>1, PostedMore
  <2>4. Beside(s, y)
    BY <1>9, BesideOn
  <2>5. y.os = O /\ y.moves = x /\ y.plugs = s.plugs
    BY <1>9, <1>10 DEF Beside, Padded, Fields
  <2> HIDE DEF y
  <2>6. Posted(y)
    BY <1>7, <1>8, <2>3, <2>5 DEF Posted
  <2>7. Sum(y) <= Sum(s)
    <3>1. Sum(y) = (Len(s.os) + 1) + x + s.plugs /\ Sum(s) = Len(s.os) + s.moves + s.plugs
      BY <2>3, <2>5 DEF Sum
    <3> QED
      BY <1>7, <1>8, <1>11, <3>1
  <2> QED
    BY <2>1, <2>4, <2>6, <2>7, ElseStill
<1> QED
  BY <1>12, <1>13 DEF Elsewhere

-----------------------------------------------------------------------------
(* The program, on Android and the web. *)

LEMMA ElseFocus ==
  ASSUME Else(s), plat \in Elsewhere, Focus
  PROVE  Else(s')
<1> DEFINE x == s.focuses - 1
           t == [s EXCEPT !.focuses = x]
           y == ~t.focus
           u == [t EXCEPT !.focus = y]
<1>1. s' = u
  BY DEF Focus, Elsewhere
<1> HIDE DEF x, y
<1>2. Beside(s, s)
  BY BesideOn DEF Else
<1>3. Beside(s, t)
  BY <1>2, BesideOn
<1>4. Beside(s, u)
  <2> HIDE DEF t
  <2> QED
    BY <1>3, BesideOn
<1>5. u.os = s.os /\ u.moves = s.moves /\ u.plugs = s.plugs
  BY DEF Else, Loose, Shaped, Fields
<1> HIDE DEF u
<1> QED
  BY <1>1, <1>4, <1>5, ElseAs

\* There is no rumble on Android; a page asks the browser.
LEMMA ElseRumble ==
  ASSUME Else(s), plat \in Elsewhere, NEW id, NEW v \in 0..1, MTY_AppRumbleController(id, v)
  PROVE  Else(s')
<1> DEFINE asked == {p \in Pads : IdOf(p) = id /\ s.pads[p].in /\ s.pads[p].ready /\ ~Queued(p, {"arrive", "remove"})}
           t == CASE plat = "windows" -> Windows!MTY_AppRumbleController(s, id, v)
                  [] plat = "mac"     -> Mac!MTY_AppRumbleController(s, id, v)
                  [] plat = "x11"     -> X11!MTY_AppRumbleController(s, id, v)
                  [] plat = "android" -> Android!MTY_AppRumbleController(s, id, v)
                  [] plat = "web"     -> Web!MTY_AppRumbleController(s, id, v)
           P == [p \in Pads |-> IF p \in asked THEN [t.pads[p] EXCEPT !.want = v] ELSE t.pads[p]]
           x == t.rumbles - 1
<1>1. s' = [t EXCEPT !.rumbles = @ - 1,
                     !.pads = [p \in Pads |-> IF p \in asked THEN [@[p] EXCEPT !.want = v] ELSE @[p]]]
  BY DEF MTY_AppRumbleController
<1>2. t \in {s, [s EXCEPT !.pads[id + 1].motor = v]}
  <2>1. CASE plat = "android"
    BY <2>1 DEF Android!MTY_AppRumbleController
  <2>2. CASE plat = "web"
    <3>1. t = IF Web!Slot(s, id).in THEN [s EXCEPT !.pads[id + 1].motor = v] ELSE s
      BY <2>2 DEF Web!MTY_AppRumbleController, Web!mty_rumble_gamepad
    <3> HIDE DEF t
    <3> QED
      BY <3>1
  <2> QED
    BY <2>1, <2>2 DEF Elsewhere
<1> HIDE DEF t
<1>3. s' = [t EXCEPT !.rumbles = x, !.pads = P]
  <2> HIDE DEF asked
  <2> QED
    BY <1>1
<1>4. Fields \subseteq DOMAIN s /\ Padded(s, s)
  BY DEF Else, Loose, Padded
<1>5. /\ Fields \subseteq DOMAIN t /\ t.q = s.q /\ t.seen = s.seen /\ t.devices = s.devices /\ t.odd = s.odd /\ t.gps = s.gps
      /\ t.app = s.app /\ t.os = s.os /\ t.moves = s.moves /\ t.plugs = s.plugs
  BY <1>2, <1>4 DEF Fields
<1>6. \A p \in DOMAIN s.pads : t.pads[p] \in {s.pads[p], [s.pads[p] EXCEPT !.motor = v]}
  <2>1. CASE t = s
    BY <2>1
  <2>2. CASE t = [s EXCEPT !.pads[id + 1].motor = v]
    <3>1. t.pads = [s.pads EXCEPT ![id + 1].motor = v]
      BY <1>4, <2>2 DEF Fields
    <3> DEFINE e == id + 1
    <3>2. t.pads = [s.pads EXCEPT ![e].motor = v]
      BY <3>1
    <3> HIDE DEF e
    <3> QED
      BY <3>2
  <2> QED
    BY <1>2, <2>1, <2>2
<1> HIDE DEF x, P
<1>7. /\ Fields \subseteq DOMAIN s' /\ s'.q = s.q /\ s'.seen = s.seen /\ s'.devices = s.devices /\ s'.odd = s.odd /\ s'.gps = s.gps
      /\ s'.app = s.app /\ s'.os = s.os /\ s'.moves = s.moves /\ s'.plugs = s.plugs /\ s'.pads = P
  BY <1>3, <1>5 DEF Fields
<1>8. DOMAIN P = DOMAIN s.pads /\ \A p \in DOMAIN s.pads : P[p] \in {t.pads[p], [t.pads[p] EXCEPT !.want = v]}
  BY DEF P, Pads
<1>9. v \in 0..1 /\ v \in -1..1
  OBVIOUS
<1>10. ASSUME NEW p \in DOMAIN s.pads
       PROVE  /\ PadFields \subseteq DOMAIN P[p] /\ P[p].kind = s.pads[p].kind
              /\ P[p].in \in BOOLEAN /\ P[p].motor \in 0..1 /\ P[p].want \in -1..1
              /\ P[p].answers = <<>>
  <2> DEFINE a == s.pads[p]
             b == t.pads[p]
             c == P[p]
  <2>1. /\ PadFields \subseteq DOMAIN a
        /\ a.in \in BOOLEAN /\ a.motor \in 0..1 /\ a.want \in -1..1
        /\ a.answers = <<>>
    BY <1>4 DEF Padded
  <2>2. b \in {a, [a EXCEPT !.motor = v]} /\ c \in {b, [b EXCEPT !.want = v]}
    BY <1>6, <1>8
  <2>3. a.kind = s.pads[p].kind
    OBVIOUS
  <2> HIDE DEF a, b, c
  <2>4. /\ PadFields \subseteq DOMAIN b /\ b.kind = a.kind
        /\ b.in \in BOOLEAN /\ b.motor \in 0..1 /\ b.want \in -1..1 /\ b.answers = <<>>
    BY <1>9, <2>1, <2>2 DEF PadFields
  <2>5. /\ PadFields \subseteq DOMAIN c /\ c.kind = b.kind
        /\ c.in \in BOOLEAN /\ c.motor \in 0..1 /\ c.want \in -1..1 /\ c.answers = <<>>
    BY <1>9, <2>2, <2>4 DEF PadFields
  <2> QED
    BY <2>3, <2>4, <2>5 DEF c
<1>11. Beside(s, s')
  BY <1>7, <1>8, <1>10 DEF Beside, Padded
<1> QED
  BY <1>7, <1>11, ElseAs

LEMMA ElseDestroy ==
  ASSUME Else(s), plat \in Elsewhere, MTY_AppDestroy
  PROVE  Else(s')
<1> DEFINE t == CASE plat = "windows" -> Windows!MTY_AppDestroy(s)
                  [] plat = "mac"     -> Mac!MTY_AppDestroy(s)
                  [] plat = "x11"     -> X11!MTY_AppDestroy(s)
                  [] plat = "android" -> s
                  [] plat = "web"     -> Web!MTY_AppDestroy(s)
<1>1. s' = [t EXCEPT !.app = IF plat = "web" THEN @ ELSE "none", !.apps = @ - 1, !.seen = <<>>,
                     !.pads = [p \in DOMAIN s.pads |-> [@[p] EXCEPT !.want = -1]]]
  BY DEF MTY_AppDestroy, Pads
<1>2. plat = "web" => "remade" \in Faults
  BY DEF MTY_AppDestroy
<1>3. Fields \subseteq DOMAIN s /\ Padded(s, s)
  BY DEF Else, Loose, Padded
<1>4. /\ Fields \subseteq DOMAIN t /\ t.pads = s.pads /\ t.os = s.os /\ t.moves = s.moves /\ t.plugs = s.plugs
      /\ t.q = s.q /\ t.odd = s.odd
  <2>1. CASE plat = "android"
    BY <1>3, <2>1
  <2>2. CASE plat = "web"
    <3>1. t = [s EXCEPT !.dedupe = <<>>, !.app = "freed"]
      BY <2>2 DEF Web!MTY_AppDestroy
    <3> HIDE DEF t
    <3> QED
      BY <1>3, <3>1 DEF Fields
  <2> QED
    BY <2>1, <2>2 DEF Elsewhere
<1> HIDE DEF t
<1>5. /\ Fields \subseteq DOMAIN s' /\ s'.os = s.os /\ s'.moves = s.moves /\ s'.plugs = s.plugs
      /\ s'.q = s.q /\ s'.odd = s.odd /\ s'.seen = <<>> /\ (plat = "android" => s'.app = "none")
      /\ s'.pads = [p \in DOMAIN s.pads |-> [s.pads[p] EXCEPT !.want = -1]]
  BY <1>1, <1>4 DEF Fields
<1>6. Padded(s, s')
  <2>1. DOMAIN s'.pads = DOMAIN s.pads
    BY <1>5
  <2>2. -1 \in -1..1
    OBVIOUS
  <2>3. ASSUME NEW p \in DOMAIN s.pads
        PROVE  /\ PadFields \subseteq DOMAIN s'.pads[p] /\ s'.pads[p].kind = s.pads[p].kind
               /\ s'.pads[p].in \in BOOLEAN /\ s'.pads[p].motor \in 0..1 /\ s'.pads[p].want \in -1..1
               /\ s'.pads[p].answers = <<>>
    <3>1. s'.pads[p] = [s.pads[p] EXCEPT !.want = -1]
      BY <1>5
    <3>2. PadFields \subseteq DOMAIN s.pads[p]
          /\ s.pads[p].in \in BOOLEAN /\ s.pads[p].motor \in 0..1 /\ s.pads[p].answers = <<>>
      BY <1>3 DEF Padded
    <3> QED
      BY <2>2, <3>1, <3>2 DEF PadFields
  <2> QED
    BY <1>5, <2>1, <2>3 DEF Padded
<1>7. Loose(s')
  <2>1. Posted(s') /\ Loose(s)
    BY <1>5 DEF Else, Loose, Posted
  <2> QED
    BY <1>6, <2>1, LooseOn
<1>8. ASSUME Sane, plat = "android" PROVE Sound(s')
  <2>1. Known(s) /\ Room(s)
    BY <1>8 DEF Else, Sound
  <2>2. Room(s')
    BY <1>5, <2>1 DEF Room
  <2>3. Known(s')
    BY <1>5, <1>8, <2>1 DEF Known
  <2> QED
    BY <2>2, <2>3 DEF Sound
<1>9. Sane => plat # "web"
  BY <1>2 DEF Sane
<1> QED
  BY <1>7, <1>8, <1>9 DEF Else

\* A new application.
LEMMA ElseCreated ==
  ASSUME NEW h, Else(h), h.app # "alive", plat \in Elsewhere
  PROVE  Else(Created(plat, h))
<1> DEFINE t == Created(plat, h)
<1>1. Fields \subseteq DOMAIN h /\ Padded(h, h) /\ Posted(h) /\ Loose(h)
  BY DEF Else, Loose, Padded
<1>2. CASE plat = "android"
  <2> DEFINE u == [h EXCEPT !.devices = <<>>, !.dedupe = <<>>, !.q = <<>>, !.os = <<>>]
             w == [u EXCEPT !.devices = <<>>, !.dedupe = <<>>, !.q = <<>>]
  <2>1. t = [(IF "remade" \in Faults THEN h ELSE w) EXCEPT !.app = "alive"]
    BY <1>2 DEF Created, Android!app_start, Android!app_stop
  <2>2. CASE "remade" \in Faults
    <3>1. t = [h EXCEPT !.app = "alive"]
      BY <2>1, <2>2
    <3> HIDE DEF t
    <3>2. Fields \subseteq DOMAIN t /\ t.pads = h.pads /\ t.os = h.os /\ t.moves = h.moves /\ t.plugs = h.plugs
      BY <1>1, <3>1 DEF Fields
    <3>3. Padded(h, t) /\ Posted(t)
      BY <1>1, <3>2 DEF Padded, Posted
    <3>4. Loose(t)
      BY <1>1, <3>3, LooseOn
    <3>5. ~Sane
      BY <2>2 DEF Sane
    <3> QED
      BY <3>4, <3>5 DEF Else, t
  <2>3. CASE "remade" \notin Faults
    <3>1. t = [w EXCEPT !.app = "alive"]
      BY <2>1, <2>3
    <3>2. /\ Fields \subseteq DOMAIN w /\ w.pads = h.pads /\ w.os = <<>> /\ w.moves = h.moves /\ w.plugs = h.plugs
          /\ w.q = <<>> /\ w.devices = <<>> /\ w.seen = h.seen /\ w.odd = h.odd
      BY <1>1 DEF Fields
    <3> HIDE DEF t, w
    <3>3. /\ Fields \subseteq DOMAIN t /\ t.pads = h.pads /\ t.os = <<>> /\ t.moves = h.moves /\ t.plugs = h.plugs
          /\ t.q = <<>> /\ t.devices = <<>> /\ t.seen = h.seen /\ t.odd = h.odd /\ t.app = "alive"
      BY <3>1, <3>2 DEF Fields
    <3>4. Padded(h, t) /\ Posted(t)
      BY <1>1, <3>3, EmptyListed DEF Padded, Posted
    <3>5. Loose(t)
      BY <1>1, <3>4, LooseOn
    <3>6. ASSUME Sane PROVE Sound(t)
      <4>1. Known(h) /\ Room(h)
        BY <1>2, <3>6 DEF Else, Sound
      <4>2. t.odd = {} /\ t.seen = <<>>
        BY <3>3, <4>1 DEF Known
      <4>3. \A i : i \notin 1..((0 + 1) - 1)
        OBVIOUS
      <4>4. Announces(<<>>, <<>>, {})
        BY <4>3, EmptyListed, EmptyIs DEF Announces, TellsOf
      <4>5. Known(t)
        BY <3>3, <4>2, <4>4, EmptyListed, EmptyIs DEF Known
      <4>6. Len(h.q) \in Nat /\ Len(h.os) \in Nat /\ h.moves \in Nat /\ h.plugs \in Nat
        <5>1. Listed(h.q) /\ Listed(h.os) /\ h.moves \in Nat /\ h.plugs \in Nat
          BY <1>1, <4>1 DEF Known, Posted
        <5> QED
          BY <5>1, AppendListed
      <4>7. QueueLen \in Nat
        BY ControllersAssumption
      <4> DEFINE a == Len(h.q)
                 b == Len(h.os)
                 x == h.moves
                 y == h.plugs
      <4>8. a + 2 * b + 2 * (x + y) <= QueueLen /\ a \in Nat /\ b \in Nat /\ x \in Nat /\ y \in Nat
        BY <4>1, <4>6 DEF Room
      <4> HIDE DEF a, b, x, y
      <4>9. 0 + 2 * 0 + 2 * (x + y) <= QueueLen
        BY <4>7, <4>8
      <4>10. Room(t)
        BY <3>3, <4>9, EmptyListed DEF Room, x, y
      <4> QED
        BY <4>5, <4>10 DEF Sound
    <3> QED
      BY <1>2, <3>5, <3>6 DEF Else, t
  <2> QED
    BY <2>2, <2>3
<1>3. CASE plat = "web"
  <2> DEFINE u == [h EXCEPT !.dedupe = <<>>, !.app = "alive"]
  <2>1. t = [u EXCEPT !.app = "alive"]
    BY <1>3 DEF Created, Web!MTY_AppCreate
  <2> HIDE DEF t
  <2>2. /\ Fields \subseteq DOMAIN t /\ t.pads = h.pads /\ t.os = h.os /\ t.moves = h.moves /\ t.plugs = h.plugs
        /\ t.q = h.q /\ t.seen = h.seen /\ t.gps = h.gps /\ t.odd = h.odd /\ t.app = "alive"
    BY <1>1, <2>1 DEF Fields
  <2>3. Padded(h, t) /\ Posted(t)
    BY <1>1, <2>2 DEF Padded, Posted
  <2>4. Loose(t)
    BY <1>1, <2>3, LooseOn
  <2>5. Sane => Heard(t)
    BY <1>3, <2>2 DEF Else, Heard
  <2> QED
    BY <1>3, <2>4, <2>5 DEF Else, t
<1> QED
  BY <1>2, <1>3 DEF Elsewhere

-----------------------------------------------------------------------------
(* The web. *)

\* One more message.
LEMMA SpokenMore ==
  ASSUME NEW q, NEW seen, NEW gps, Spoken(q, seen, gps), NEW m, m.id \in DOMAIN gps, \A k \in DOMAIN q : q[k].id # m.id,
         m.state = 1 <=> ~gps[m.id], m.state = 2 => gps[m.id], NEW now, DOMAIN now = DOMAIN gps,
         \A x \in DOMAIN gps : now[x] = IF x = m.id THEN m.state # 2 ELSE gps[x]
  PROVE  /\ Spoken(Append(q, m), seen, now)
         /\ \A k \in DOMAIN Append(q, m) : Append(q, m)[k].id = m.id \/ \E j \in DOMAIN q : Append(q, m)[k].id = q[j].id
<1> DEFINE r == Append(q, m)
           n == Len(q)
<1>1. Listed(r) /\ n \in Nat /\ Len(r) = n + 1 /\ DOMAIN q = 1..n /\ DOMAIN r = 1..(n + 1) /\ r[n + 1] = m /\ \A k \in 1..n : r[k] = q[k]
  BY AppendListed DEF Spoken
<1> HIDE DEF r, n
<1>2. \A k \in DOMAIN r : k = n + 1 \/ (k \in DOMAIN q /\ k # n + 1)
  BY <1>1
<1>3. n + 1 \in DOMAIN r /\ \A k \in DOMAIN q : k \in DOMAIN r
  BY <1>1
<1>4. gps[m.id] \in BOOLEAN /\ (gps[m.id] = TRUE <=> m.id \in DOMAIN seen)
  BY DEF Spoken
<1>5. ASSUME NEW k \in DOMAIN r
      PROVE  /\ r[k].id \in DOMAIN now
             /\ r[k].state = 1 <=> r[k].id \notin DOMAIN seen
             /\ r[k].state = 2 <=> now[r[k].id] = FALSE
  <2>1. CASE k = n + 1
    BY <1>1, <1>4, <2>1
  <2>2. CASE k \in DOMAIN q
    <3>1. r[k] = q[k] /\ q[k].id # m.id
      BY <1>1, <2>2
    <3>2. /\ q[k].id \in DOMAIN gps
          /\ q[k].state = 1 <=> q[k].id \notin DOMAIN seen
          /\ q[k].state = 2 <=> gps[q[k].id] = FALSE
      BY <2>2 DEF Spoken
    <3> QED
      BY <3>1, <3>2
  <2> QED
    BY <1>2, <2>1, <2>2
<1>6. \A k, j \in DOMAIN r : r[k].id = r[j].id => k = j
  <2>1. \A k, j \in DOMAIN q : q[k].id = q[j].id => k = j
    BY DEF Spoken
  <2>2. \A k \in DOMAIN q : r[k] = q[k]
    BY <1>1
  <2> QED
    BY <1>1, <1>2, <2>1, <2>2
<1>7. ASSUME NEW x \in DOMAIN now
      PROVE  now[x] \in BOOLEAN /\ ((\A k \in DOMAIN r : r[k].id # x) => (now[x] = TRUE <=> x \in DOMAIN seen))
  <2>1. CASE x = m.id
    BY <1>1, <1>3, <2>1
  <2>2. CASE x # m.id
    <3>1. now[x] = gps[x] /\ x \in DOMAIN gps
      BY <2>2
    <3>2. gps[x] \in BOOLEAN /\ ((\A k \in DOMAIN q : q[k].id # x) => (gps[x] = TRUE <=> x \in DOMAIN seen))
      BY <3>1 DEF Spoken
    <3>3. (\A k \in DOMAIN r : r[k].id # x) => \A k \in DOMAIN q : q[k].id # x
      BY <1>1, <1>3
    <3> QED
      BY <3>1, <3>2, <3>3
  <2> QED
    BY <2>1, <2>2
<1>8. Spoken(r, seen, now)
  BY <1>1, <1>5, <1>6, <1>7 DEF Spoken
<1>9. \A k \in DOMAIN r : r[k].id = m.id \/ \E j \in DOMAIN q : r[k].id = q[j].id
  BY <1>1, <1>2
<1> QED
  BY <1>8, <1>9 DEF r

\* The worker reads the first message.
LEMMA SpokenLess ==
  ASSUME NEW q, NEW seen, NEW gps, Spoken(q, seen, gps), q # <<>>, NEW now,
         \A x : x \in DOMAIN now <=> (IF x = q[1].id THEN q[1].state # 2 ELSE x \in DOMAIN seen)
  PROVE  Spoken(Tail(q), now, gps)
<1> DEFINE r == Tail(q)
<1>1. /\ Listed(r) /\ DOMAIN q = 1..Len(q) /\ Len(q) \in Nat /\ Len(r) = Len(q) - 1 /\ DOMAIN r = 1..Len(r) /\ 1 \in DOMAIN q
      /\ \A k \in DOMAIN r : r[k] = q[k + 1] /\ k + 1 \in DOMAIN q
  BY TailListed DEF Spoken
<1> HIDE DEF r
<1>2. \A k \in DOMAIN q : k = 1 \/ (k - 1 \in DOMAIN r /\ r[k - 1] = q[k])
  <2>1. \A k \in DOMAIN q : k = 1 \/ (k - 1 \in DOMAIN r /\ (k - 1) + 1 = k)
    BY <1>1
  <2> QED
    BY <1>1, <2>1
<1>3. \A k, j \in DOMAIN q : q[k].id = q[j].id => k = j
  BY DEF Spoken
<1>4. ASSUME NEW k \in DOMAIN r
      PROVE  /\ r[k].id \in DOMAIN gps
             /\ r[k].state = 1 <=> r[k].id \notin DOMAIN now
             /\ r[k].state = 2 <=> gps[r[k].id] = FALSE
  <2>1. r[k] = q[k + 1] /\ k + 1 \in DOMAIN q /\ k + 1 # 1
    BY <1>1
  <2>2. r[k].id # q[1].id
    BY <1>1, <1>3, <2>1
  <2>3. /\ r[k].id \in DOMAIN gps
        /\ r[k].state = 1 <=> r[k].id \notin DOMAIN seen
        /\ r[k].state = 2 <=> gps[r[k].id] = FALSE
    BY <2>1 DEF Spoken
  <2> QED
    BY <2>2, <2>3
<1>5. ASSUME NEW k \in DOMAIN r, NEW j \in DOMAIN r, r[k].id = r[j].id PROVE k = j
  <2>1. k + 1 = j + 1
    BY <1>1, <1>3, <1>5
  <2> QED
    BY <1>1, <2>1
<1>6. ASSUME NEW x \in DOMAIN gps
      PROVE  gps[x] \in BOOLEAN /\ ((\A k \in DOMAIN r : r[k].id # x) => (gps[x] = TRUE <=> x \in DOMAIN now))
  <2>1. gps[x] \in BOOLEAN /\ ((\A k \in DOMAIN q : q[k].id # x) => (gps[x] = TRUE <=> x \in DOMAIN seen))
    BY DEF Spoken
  <2>2. CASE x = q[1].id
    <3>1. q[1].state = 2 <=> gps[x] = FALSE
      BY <1>1, <2>2 DEF Spoken
    <3> QED
      BY <2>1, <2>2, <3>1
  <2>3. CASE x # q[1].id
    <3>1. (\A k \in DOMAIN r : r[k].id # x) => \A k \in DOMAIN q : q[k].id # x
      BY <1>2, <2>3
    <3> QED
      BY <2>1, <2>3, <3>1
  <2> QED
    BY <2>2, <2>3
<1>7. Spoken(r, now, gps)
  BY <1>1, <1>4, <1>5, <1>6 DEF Spoken
<1> QED
  BY <1>7 DEF r

\* One slot is looked at.
LEMMA SlotPolled ==
  ASSUME NEW w, Fields \subseteq DOMAIN w, NEW x
  PROVE  LET t == Web!PolledSlot(w, x)
         IN /\ Passed(w, t) /\ t.seen = w.seen /\ t.odd = w.odd
            /\ Spoken(w.q, w.seen, w.gps) /\ x \in DOMAIN w.gps /\ (\A k \in DOMAIN w.q : w.q[k].id # x) =>
                 /\ Spoken(t.q, t.seen, t.gps) /\ DOMAIN t.gps = DOMAIN w.gps
                 /\ \A k \in DOMAIN t.q : t.q[k].id = x \/ \E j \in DOMAIN w.q : t.q[k].id = w.q[j].id
<1> DEFINE t == Web!PolledSlot(w, x)
           n == IF w.gps[x] THEN 0 ELSE 1
           a == [id |-> x, state |-> n, vals |-> Web!Slot(w, x).pos]
           b == [id |-> x, state |-> 2, vals |-> [u \in {} |-> 0]]
           A == [w EXCEPT !.q = Append(w.q, a), !.gps[x] = (n # 2)]
           B == [w EXCEPT !.q = Append(w.q, b), !.gps[x] = (2 # 2)]
<1>1. t = CASE Web!Slot(w, x).in -> A [] ~Web!Slot(w, x).in /\ w.gps[x] -> B [] OTHER -> w
  BY DEF Web!PolledSlot
<1>2. t = A \/ (t = B /\ w.gps[x]) \/ t = w
  <2> HIDE DEF t, A, B
  <2> QED
    BY <1>1
<1> DEFINE now(y) == [w.gps EXCEPT ![x] = (y # 2)]
           New(m) == [[w EXCEPT !.q = Append(w.q, m)] EXCEPT !.gps = now(m.state)]
<1>3. A = New(a) /\ B = New(b)
  OBVIOUS
<1>4. a.id = x /\ b.id = x /\ a.state = n /\ b.state = 2
  OBVIOUS
<1>5. n \in {0, 1} /\ (n = 1 <=> ~w.gps[x])
  OBVIOUS
<1> HIDE DEF t, a, b, A, B
<1>6. Passed(w, w)
  BY PassedOn
<1>7. ASSUME NEW m, m.id = x
      PROVE  /\ Passed(w, New(m)) /\ New(m).seen = w.seen /\ New(m).odd = w.odd
             /\ New(m).q = Append(w.q, m) /\ New(m).gps = now(m.state)
  <2> DEFINE g == now(m.state)
             u == [w EXCEPT !.q = Append(w.q, m)]
  <2> HIDE DEF g
  <2>1. Passed(w, u)
    BY <1>6, PassedOn
  <2>2. Passed(w, [u EXCEPT !.gps = g])
    <3> HIDE DEF u
    <3> QED
      BY <2>1, PassedOn
  <2>3. [u EXCEPT !.gps = g].seen = w.seen /\ [u EXCEPT !.gps = g].odd = w.odd /\ [u EXCEPT !.gps = g].q = Append(w.q, m)
        /\ [u EXCEPT !.gps = g].gps = g
    BY DEF Fields
  <2> QED
    BY <2>2, <2>3 DEF g
<1>8. ASSUME Spoken(w.q, w.seen, w.gps), x \in DOMAIN w.gps, \A k \in DOMAIN w.q : w.q[k].id # x,
             NEW m, m.id = x, m.state = 1 <=> ~w.gps[x], m.state = 2 => w.gps[x]
      PROVE  /\ Spoken(Append(w.q, m), w.seen, now(m.state)) /\ DOMAIN now(m.state) = DOMAIN w.gps
             /\ \A k \in DOMAIN Append(w.q, m) : Append(w.q, m)[k].id = x \/ \E j \in DOMAIN w.q : Append(w.q, m)[k].id = w.q[j].id
  <2> DEFINE g == now(m.state)
             q == w.q
             seen == w.seen
             gps == w.gps
  <2>1. DOMAIN g = DOMAIN gps /\ \A y \in DOMAIN gps : g[y] = IF y = m.id THEN m.state # 2 ELSE gps[y]
    BY <1>8
  <2>2. /\ Spoken(q, seen, gps) /\ m.id \in DOMAIN gps /\ (\A k \in DOMAIN q : q[k].id # m.id)
        /\ (m.state = 1 <=> ~gps[m.id]) /\ (m.state = 2 => gps[m.id])
    BY <1>8
  <2> HIDE DEF g, q, seen, gps
  <2>3. /\ Spoken(Append(q, m), seen, g)
        /\ \A k \in DOMAIN Append(q, m) : Append(q, m)[k].id = m.id \/ \E j \in DOMAIN q : Append(q, m)[k].id = q[j].id
    BY <2>1, <2>2, SpokenMore
  <2> QED
    BY <1>8, <2>1, <2>3 DEF g, q, seen, gps
<1> HIDE DEF New, now
<1>9. Passed(w, t) /\ t.seen = w.seen /\ t.odd = w.odd
  BY <1>2, <1>3, <1>4, <1>6, <1>7
<1>10. ASSUME Spoken(w.q, w.seen, w.gps), x \in DOMAIN w.gps, \A k \in DOMAIN w.q : w.q[k].id # x
       PROVE  /\ Spoken(t.q, t.seen, t.gps) /\ DOMAIN t.gps = DOMAIN w.gps
              /\ \A k \in DOMAIN t.q : t.q[k].id = x \/ \E j \in DOMAIN w.q : t.q[k].id = w.q[j].id
  <2>1. CASE t = w
    BY <1>10, <2>1
  <2>2. CASE t = A
    <3>1. (a.state = 1 <=> ~w.gps[x]) /\ (a.state = 2 => w.gps[x])
      BY <1>4, <1>5
    <3> HIDE DEF n
    <3>2. t.q = Append(w.q, a) /\ t.seen = w.seen /\ t.gps = now(a.state)
      BY <1>3, <1>4, <1>7, <2>2
    <3> QED
      BY <1>4, <1>8, <1>10, <3>1, <3>2
  <2>3. CASE t = B /\ w.gps[x]
    <3>1. (b.state = 1 <=> ~w.gps[x]) /\ (b.state = 2 => w.gps[x])
      BY <1>4, <2>3
    <3>2. t.q = Append(w.q, b) /\ t.seen = w.seen /\ t.gps = now(b.state)
      BY <1>3, <1>4, <1>7, <2>3
    <3> QED
      BY <1>4, <1>8, <1>10, <3>1, <3>2
  <2> QED
    BY <1>2, <2>1, <2>2, <2>3
<1> QED
  BY <1>9, <1>10 DEF t

\* All slots are.
LEMMA WebPoll ==
  ASSUME Else(s), PollGamepads
  PROVE  Else(s')
<1>1. plat = "web" /\ s.q = <<>> /\ s' = Web!Steps(Web!PolledSlot, s, [x \in DOMAIN s.pads |-> x - 1])
      /\ (s.app # "none" \/ "early" \in Faults)
  BY DEF PollGamepads, Web!mty_poll_gamepads
<1>2. PICK n \in Nat : DOMAIN s.pads = 1..n
  BY DEF Else, Loose, Rowed
<1> DEFINE seq == [x \in DOMAIN s.pads |-> x - 1]
           after == After("poll", 0, s, seq, n)
           Half(w, k) == /\ Spoken(w.q, w.seen, w.gps) /\ DOMAIN w.gps = DOMAIN s.gps
                         /\ \A i \in DOMAIN w.q : w.q[i].id \in 0..(k - 1)
           T == {k \in 0..n : /\ Passed(s, after[k]) /\ after[k].seen = s.seen /\ after[k].odd = s.odd
                              /\ Heard(s) => Half(after[k], k)}
<1>3. Len(seq) = n /\ \A k \in 1..n : seq[k] = k - 1
  BY <1>2, RowIs
<1>4. s' = after[n]
  <2> DEFINE G(f) == [k \in 0..Len(seq) |-> IF k = 0 THEN s ELSE Web!Of(f[k - 1], LAMBDA b : Web!PolledSlot(b, seq[k]))]
             F(f) == [k \in 0..n |-> IF k = 0 THEN s ELSE StepOf("poll", 0, f[k - 1], seq[k])]
  <2>1. s' = (CHOOSE f : f = G(f))[Len(seq)]
    BY <1>1 DEF Web!Steps
  <2> HIDE DEF seq
  <2>2. \A f : G(f) = F(f)
    BY <1>3 DEF Web!Of, StepOf
  <2>4. after = CHOOSE f : f = F(f)
    BY DEF After, Follows
  <2> HIDE DEF after
  <2>5. (CHOOSE f : f = G(f)) = (CHOOSE f : f = F(f))
    <3> HIDE DEF F, G
    <3> QED
      BY <2>2
  <2> HIDE DEF F, G
  <2> QED
    BY <1>3, <2>1, <2>4, <2>5
<1> HIDE DEF seq
<1>5. after[0] = s /\ \A k \in 0..(n - 1) : after[k + 1] = Web!PolledSlot(after[k], k)
  <2>1. after[0] = s /\ \A k \in 0..(n - 1) : after[k + 1] = StepOf("poll", 0, after[k], seq[k + 1])
    BY FoldSteps
  <2> HIDE DEF after
  <2>2. \A k \in 0..(n - 1) : seq[k + 1] = k
    <3>1. \A k \in 0..(n - 1) : k + 1 \in 1..n /\ (k + 1) - 1 = k
      OBVIOUS
    <3> QED
      BY <1>3, <3>1
  <2> QED
    BY <2>1, <2>2 DEF StepOf
<1> HIDE DEF after
<1>6. 0 \in T
  <2>1. Passed(s, s)
    BY PassedOn DEF Else, Loose, Shaped
  <2>2. Heard(s) => Half(s, 0)
    BY <1>1, EmptyIs DEF Heard
  <2> HIDE DEF Half
  <2> QED
    BY <1>5, <2>1, <2>2
<1>7. ASSUME NEW k \in 0..(n - 1), k \in T PROVE k + 1 \in T
  <2> DEFINE w == after[k]
             t == after[k + 1]
  <2>1. k + 1 \in 0..n
    OBVIOUS
  <2>2. Passed(s, w) /\ w.seen = s.seen /\ w.odd = s.odd /\ (Heard(s) => Half(w, k)) /\ t = Web!PolledSlot(w, k)
    BY <1>5, <1>7
  <2>3. Fields \subseteq DOMAIN w
    BY <2>2 DEF Passed
  <2> HIDE DEF w, t
  <2>4. /\ Passed(w, t) /\ t.seen = w.seen /\ t.odd = w.odd
        /\ Spoken(w.q, w.seen, w.gps) /\ k \in DOMAIN w.gps /\ (\A i \in DOMAIN w.q : w.q[i].id # k) =>
             /\ Spoken(t.q, t.seen, t.gps) /\ DOMAIN t.gps = DOMAIN w.gps
             /\ \A i \in DOMAIN t.q : t.q[i].id = k \/ \E j \in DOMAIN w.q : t.q[i].id = w.q[j].id
    BY <2>2, <2>3, SlotPolled
  <2>5. Passed(s, t)
    BY <2>2, <2>4, PassedOn
  <2>6. ASSUME Heard(s) PROVE Half(t, k + 1)
    <3>1. Spoken(w.q, w.seen, w.gps) /\ DOMAIN w.gps = DOMAIN s.gps /\ \A i \in DOMAIN w.q : w.q[i].id \in 0..(k - 1)
      BY <2>2, <2>6
    <3>2. k \in DOMAIN s.gps
      <4>1. k + 1 \in DOMAIN s.pads /\ (k + 1) - 1 = k
        BY <1>2
      <4> QED
        BY <2>6, <4>1 DEF Heard
    <3>3. \A y \in 0..(k - 1) : y # k /\ y \in 0..k
      OBVIOUS
    <3>4. k \in 0..k /\ (k + 1) - 1 = k
      OBVIOUS
    <3>5. Spoken(t.q, t.seen, t.gps) /\ DOMAIN t.gps = DOMAIN w.gps
          /\ \A i \in DOMAIN t.q : t.q[i].id = k \/ \E j \in DOMAIN w.q : t.q[i].id = w.q[j].id
      BY <2>4, <3>1, <3>2, <3>3
    <3>6. \A i \in DOMAIN t.q : t.q[i].id \in 0..((k + 1) - 1)
      BY <3>1, <3>3, <3>4, <3>5
    <3> QED
      BY <3>1, <3>5, <3>6
  <2> HIDE DEF Half
  <2> QED
    BY <2>1, <2>2, <2>4, <2>5, <2>6 DEF t
<1> HIDE DEF T
<1>8. n \in T
  BY <1>6, <1>7, Upwards
<1>9. Passed(s, s') /\ s'.odd = s.odd /\ (Heard(s) => Half(s', n))
  BY <1>4, <1>8 DEF T
<1>10. Loose(s')
  BY <1>1, <1>9, PassedLoose DEF Else, Elsewhere
<1>11. ASSUME Sane PROVE Heard(s')
  <2>1. Heard(s)
    BY <1>1, <1>11 DEF Else
  <2>2. s'.app = s.app /\ s'.pads = s.pads
    BY <1>9 DEF Passed
  <2>3. s.app # "none"
    BY <1>1, <1>11 DEF Sane
  <2> QED
    BY <1>9, <2>1, <2>2, <2>3 DEF Heard
<1> QED
  BY <1>1, <1>10, <1>11 DEF Else

\* The program is told what a message says.
LEMMA MessageIs ==
  ASSUME NEW h, Fields \subseteq DOMAIN h, NEW m
  PROVE  LET t == Web!mty_window_controller(h, m)
         IN /\ Passed(h, t) /\ t.q = h.q /\ t.gps = h.gps
            /\ h.app = "alive" /\ (m.state = 1 <=> m.id \notin DOMAIN h.seen) =>
                 /\ t.odd = h.odd
                 /\ \A x : x \in DOMAIN t.seen <=> (IF x = m.id THEN m.state # 2 ELSE x \in DOMAIN h.seen)
<1> DEFINE t == Web!mty_window_controller(h, m)
           c == [axes    |-> [x \in 1..6 |-> Web!WebAxis(m.vals, Web!Std[x])],
                 buttons |-> {b \in DOMAIN m.vals \ Web!ToSet(Web!Std) : m.vals[b] = 1}]
           g == IF m.state = 1 THEN event_func(h, "CONNECT", m.id, c) ELSE h
           d == Web!Clean(c)
           e == Web!HashSet(g.dedupe, m.id, d)
           r == [g EXCEPT !.dedupe = e]
           gone == event_func(r, "DISCONNECT", m.id, d)
           told == event_func(r, "CONTROLLER", m.id, d)
           freed == [h EXCEPT !.odd = @ \cup {"freed application"}]
<1>1. t = CASE h.app = "none"  -> h
            [] h.app = "freed" -> freed
            [] h.app = "alive" /\ m.state = 2 -> gone
            [] OTHER           -> IF Web!mty_hid_dedupe(g, m.id, c).new THEN told ELSE r
  BY EventFuncsAre DEF Web!mty_window_controller, Web!mty_hid_dedupe, Web!Odd
<1> HIDE DEF t, gone, told, freed, r
<1>2. t \in {h, freed, gone, told, r} /\ (h.app = "alive" => IF m.state = 2 THEN t = gone ELSE t \in {told, r})
  <2> DEFINE N == Web!mty_hid_dedupe(g, m.id, c).new
  <2> HIDE DEF N
  <2>1. t = CASE h.app = "none"  -> h
              [] h.app = "freed" -> freed
              [] h.app = "alive" /\ m.state = 2 -> gone
              [] OTHER           -> IF N THEN told ELSE r
    BY <1>1 DEF N
  <2> QED
    BY <2>1
<1> HIDE DEF c, d
<1>3. Passed(h, h)
  BY PassedOn
<1>4. Passed(h, freed) /\ freed.q = h.q /\ freed.gps = h.gps
  <2>1. freed = [h EXCEPT !.odd = h.odd \cup {"freed application"}]
    BY DEF freed
  <2> DEFINE O == h.odd \cup {"freed application"}
  <2> HIDE DEF O
  <2>2. freed = [h EXCEPT !.odd = O]
    BY <2>1 DEF O
  <2>3. Passed(h, [h EXCEPT !.odd = O])
    BY <1>3, PassedOn
  <2> QED
    BY <2>2, <2>3 DEF Fields
<1>5. /\ Passed(h, g) /\ g.q = h.q /\ g.gps = h.gps /\ (m.state # 1 => g = h)
      /\ m.state = 1 => Eventful(h, "CONNECT", m.id, g)
  <2> DEFINE u == event_func(h, "CONNECT", m.id, c)
  <2>1. Eventful(h, "CONNECT", m.id, u)
    BY EventIs
  <2> HIDE DEF u
  <2>2. g = IF m.state = 1 THEN u ELSE h
    BY DEF u
  <2> HIDE DEF g
  <2> QED
    BY <1>3, <2>1, <2>2 DEF Eventful
<1> HIDE DEF g, e
<1>6. Passed(h, r) /\ r.q = h.q /\ r.gps = h.gps /\ r.seen = g.seen /\ r.odd = g.odd
  <2>1. Passed(h, [g EXCEPT !.dedupe = e])
    BY <1>5, PassedOn
  <2>2. r = [g EXCEPT !.dedupe = e]
    BY DEF r
  <2>3. Fields \subseteq DOMAIN g
    BY <1>5 DEF Passed
  <2> QED
    BY <1>5, <2>1, <2>2, <2>3 DEF Fields
<1>7. Fields \subseteq DOMAIN r
  BY <1>6 DEF Passed
<1>8. Eventful(r, "DISCONNECT", m.id, gone) /\ Eventful(r, "CONTROLLER", m.id, told)
  BY <1>7, EventIs DEF gone, told
<1>9. Passed(h, t) /\ t.q = h.q /\ t.gps = h.gps
  <2>1. Passed(h, gone) /\ Passed(h, told)
    BY <1>6, <1>8, PassedOn DEF Eventful
  <2>2. gone.q = h.q /\ gone.gps = h.gps /\ told.q = h.q /\ told.gps = h.gps
    BY <1>6, <1>8 DEF Eventful
  <2> QED
    BY <1>2, <1>3, <1>4, <1>6, <2>1, <2>2
<1>10. ASSUME h.app = "alive", m.state = 1 <=> m.id \notin DOMAIN h.seen
       PROVE  /\ t.odd = h.odd
              /\ \A x : x \in DOMAIN t.seen <=> (IF x = m.id THEN m.state # 2 ELSE x \in DOMAIN h.seen)
  <2>1. g.odd = h.odd /\ DOMAIN g.seen = DOMAIN h.seen \cup {m.id}
    <3>1. CASE m.state = 1
      BY <1>5, <1>10, <3>1 DEF Eventful, Becomes
    <3>2. CASE m.state # 1
      BY <1>5, <1>10, <3>2
    <3> QED
      BY <3>1, <3>2
  <2>2. CASE m.state = 2
    <3>1. t = gone
      BY <1>2, <1>10, <2>2
    <3>2. t.odd = h.odd /\ DOMAIN t.seen = DOMAIN r.seen \ {m.id}
      BY <1>6, <1>8, <2>1, <3>1 DEF Eventful, Becomes
    <3> QED
      BY <1>6, <2>1, <2>2, <3>2
  <2>3. CASE m.state # 2 /\ t = told
    <3>1. t.odd = h.odd /\ DOMAIN t.seen = DOMAIN r.seen \cup {m.id}
      BY <1>6, <1>8, <2>1, <2>3 DEF Eventful, Becomes
    <3> QED
      BY <1>6, <2>1, <2>3, <3>1
  <2>4. CASE m.state # 2 /\ t = r
    BY <1>6, <2>1, <2>4
  <2> QED
    BY <1>2, <1>10, <2>2, <2>3, <2>4
<1> QED
  BY <1>9, <1>10 DEF t

\* The program takes one message of the browser.
LEMMA WebRun ==
  ASSUME Else(s), plat = "web", AppRun
  PROVE  Else(s')
<1> DEFINE m == Head(s.q)
           g == [s EXCEPT !.q = Tail(@)]
<1>1. s.q # <<>> /\ s' = Web!mty_window_controller(g, m)
  <2> DEFINE F(x) == Web!mty_window_controller(g, x)
  <2>1. s' \in {F(x) : x \in IF s.q = <<>> THEN {} ELSE {Head(s.q)}}
    BY DEF AppRun, Web!AppRun, Web!First
  <2>2. s' = F(m) /\ s.q # <<>>
    <3> HIDE DEF F
    <3> QED
      BY <2>1
  <2> QED
    BY <2>2
<1>2. Fields \subseteq DOMAIN s /\ Loose(s)
  BY DEF Else, Loose, Shaped
<1>3. Passed(s, s)
  BY <1>2, PassedOn
<1>4. Passed(s, g) /\ Fields \subseteq DOMAIN g
  <2>1. Passed(s, [s EXCEPT !.q = Tail(s.q)])
    BY <1>3, PassedOn
  <2> QED
    BY <2>1 DEF Passed
<1>5. g.q = Tail(s.q) /\ g.gps = s.gps /\ g.seen = s.seen /\ g.odd = s.odd /\ g.app = s.app
  BY <1>2 DEF Fields
<1> HIDE DEF g, m
<1>6. /\ Passed(g, s') /\ s'.q = g.q /\ s'.gps = g.gps
      /\ g.app = "alive" /\ (m.state = 1 <=> m.id \notin DOMAIN g.seen) =>
           /\ s'.odd = g.odd
           /\ \A x : x \in DOMAIN s'.seen <=> (IF x = m.id THEN m.state # 2 ELSE x \in DOMAIN g.seen)
  <2> DEFINE t == Web!mty_window_controller(g, m)
  <2>1. /\ Passed(g, t) /\ t.q = g.q /\ t.gps = g.gps
        /\ g.app = "alive" /\ (m.state = 1 <=> m.id \notin DOMAIN g.seen) =>
             /\ t.odd = g.odd
             /\ \A x : x \in DOMAIN t.seen <=> (IF x = m.id THEN m.state # 2 ELSE x \in DOMAIN g.seen)
    BY <1>4, MessageIs
  <2>2. s' = t
    BY <1>1
  <2> HIDE DEF t
  <2> QED
    BY <2>1, <2>2
<1>7. Passed(s, s')
  BY <1>4, <1>6, PassedOn
<1>8. Loose(s')
  BY <1>2, <1>7, PassedLoose DEF Elsewhere
<1>9. ASSUME Sane PROVE Heard(s')
  <2>1. Heard(s)
    BY <1>9 DEF Else
  <2>2. s.app = "alive" /\ s.odd = {} /\ Spoken(s.q, s.seen, s.gps)
    BY <1>1, <2>1 DEF Heard
  <2>3. m = s.q[1] /\ 1 \in DOMAIN s.q
    <3>1. Listed(s.q)
      BY <2>2 DEF Spoken
    <3> QED
      BY <1>1, <3>1, TailListed DEF m
  <2>4. m.state = 1 <=> m.id \notin DOMAIN s.seen
    BY <2>2, <2>3 DEF Spoken
  <2>5. s'.odd = {} /\ \A x : x \in DOMAIN s'.seen <=> (IF x = m.id THEN m.state # 2 ELSE x \in DOMAIN s.seen)
    BY <1>5, <1>6, <2>2, <2>4
  <2> DEFINE q == s.q
             seen == s.seen
             gps == s.gps
             now == s'.seen
  <2>6. Spoken(q, seen, gps) /\ q # <<>> /\ \A x : x \in DOMAIN now <=> (IF x = q[1].id THEN q[1].state # 2 ELSE x \in DOMAIN seen)
    BY <1>1, <2>2, <2>3, <2>5
  <2> HIDE DEF q, seen, gps, now
  <2>7. Spoken(Tail(q), now, gps)
    BY <2>6, SpokenLess
  <2>8. Spoken(s'.q, s'.seen, s'.gps)
    BY <1>5, <1>6, <2>7 DEF q, now, gps
  <2>9. s'.app = "alive" /\ s'.pads = s.pads /\ s'.gps = s.gps
    BY <1>5, <1>6, <1>7, <2>2 DEF Passed
  <2> QED
    BY <2>1, <2>5, <2>8, <2>9 DEF Heard
<1> QED
  BY <1>8, <1>9 DEF Else

\* What there is before there is an application.
LEMMA StartIs ==
  ASSUME NEW c \in Cases, plat = c.plat
  PROVE  LET h == Start(c)
         IN /\ Shaped(h) /\ Rowed(h) /\ Padded(h, h) /\ Posted(h) /\ Blank(h)
            /\ h.app = "none" /\ h.os = <<>> /\ h.moves = c.moves /\ h.plugs = c.plugs
            /\ DOMAIN h.pads = 1..Len(c.pads) /\ h.gps = [x \in 0..(Len(c.pads) - 1) |-> FALSE]
<1> DEFINE h == Start(c)
           P == [p \in DOMAIN c.pads |-> Fresh(c.pads[p], p, 1)]
           n == Len(c.pads)
           gps == [x \in 0..(n - 1) |-> FALSE]
<1>1. /\ n \in Nat /\ DOMAIN c.pads = 1..n /\ c.moves \in Nat /\ c.plugs \in Nat
      /\ \A p \in DOMAIN c.pads :
           /\ c.pads[p].kind = "xinput" => plat = "windows" /\ p <= 4
           /\ plat \in {"windows", "mac"} => c.pads[p].kind \in {"nx", "ps4", "ps5", "xbox", "stadia", "xboxw", "default", "xinput"}
  BY ControllersAssumption
<1>2. /\ Fields \subseteq DOMAIN h /\ h.pads = P /\ h.gps = gps /\ h.app = "none" /\ h.q = <<>> /\ h.os = <<>>
      /\ h.devices = <<>> /\ h.rev = <<>> /\ h.seen = <<>> /\ h.odd = {} /\ h.moves = c.moves /\ h.plugs = c.plugs
      /\ h.quiet = IF plat = "windows" THEN 4 ELSE 0
  <2> HIDE DEF P, gps
  <2>1. h = [focus |-> TRUE, scan |-> FALSE, app |-> "none", pads |-> P,
             q |-> <<>>, os |-> <<>>, devices |-> <<>>, rev |-> <<>>, dedupe |-> <<>>, seen |-> <<>>, odd |-> {},
             next |-> Len(c.pads) + 1, xip |-> <<>>, fds |-> <<>>, gps |-> gps,
             quiet |-> IF c.plat = "windows" THEN 4 ELSE 0,
             apps |-> c.apps, moves |-> c.moves, plugs |-> c.plugs, rumbles |-> c.rumbles, focuses |-> c.focuses]
    BY DEF Start, P, gps
  <2> HIDE DEF h
  <2> QED
    BY <2>1 DEF Fields
<1> HIDE DEF h
<1>3. \A p \in DOMAIN P : /\ PadFields \subseteq DOMAIN P[p] /\ P[p].kind = c.pads[p].kind /\ P[p].in = TRUE
                          /\ P[p].motor = 0 /\ P[p].want = -1 /\ P[p].answers = <<>>
  <2> TAKE p \in DOMAIN P
  <2> DEFINE pad == c.pads[p]
             d == Fresh(pad, p, 1)
  <2>1. P[p] = d
    OBVIOUS
  <2> HIDE DEF pad, P
  <2>2. /\ PadFields \subseteq DOMAIN d /\ d.kind = pad.kind /\ d.in = TRUE /\ d.motor = 0 /\ d.want = -1
        /\ d.answers = <<>>
    BY DEF Fresh, PadFields
  <2> HIDE DEF d
  <2> QED
    BY <2>1, <2>2 DEF pad
<1>4. DOMAIN P = 1..n /\ DOMAIN P = DOMAIN c.pads
  BY <1>1
<1>5. 0 \in 0..1 /\ -1 \in -1..1 /\ \A p \in 1..n : p <= 4 => p \in 1..4
  BY <1>1
<1> HIDE DEF P, n, gps
<1>6. Shaped(h)
  <2>1. ASSUME NEW p \in DOMAIN P
        PROVE  /\ P[p].kind = "xinput" => plat = "windows" /\ p \in 1..4
               /\ plat \in Quick => P[p].kind \in Driven \cup {"xinput"}
    BY <1>1, <1>3, <1>4, <1>5 DEF Quick, Driven, Windows!Driven
  <2> QED
    BY <1>2, <1>3, <1>5, <2>1 DEF Shaped
<1>7. Rowed(h)
  BY <1>1, <1>2, <1>4 DEF Rowed
<1>8. Padded(h, h) /\ Posted(h)
  BY <1>1, <1>2, <1>3, <1>5, EmptyListed DEF Padded, Posted
<1>9. Blank(h)
  BY <1>2, <1>6 DEF Blank
<1> QED
  BY <1>2, <1>4, <1>6, <1>7, <1>8, <1>9 DEF h, n, gps

\* At the start.
LEMMA StartDesk ==
  ASSUME NEW c \in Cases, plat = c.plat, plat \in Desk
  PROVE  DeskInv(Created(plat, Start(c)))
<1> DEFINE h == Start(c)
           t == Created(plat, h)
<1>1. Blank(h) /\ Rowed(h)
  BY StartIs
<1> HIDE DEF h
<1>2. Tabled(t, {}, {}) /\ Mailed(t) /\ (plat = "windows" => Ordered(t)) /\ t.app = "alive" /\ t.pads = h.pads
  BY <1>1, CreatedTabled
<1> HIDE DEF t
<1>3. DeskInv(t)
  BY <1>1, <1>2 DEF DeskInv, Gone, Rowed
<1> QED
  BY <1>3 DEF t, h

\* At the start of Android and of a page.
LEMMA StartElse ==
  ASSUME NEW c \in Cases, plat = c.plat, plat \in Elsewhere
  PROVE  Else(Start(c)) /\ Start(c).app = "none"
<1> DEFINE h == Start(c)
           n == Len(c.pads)
<1>1. /\ Shaped(h) /\ Rowed(h) /\ Padded(h, h) /\ Posted(h) /\ Blank(h)
      /\ h.app = "none" /\ h.os = <<>> /\ h.moves = c.moves /\ h.plugs = c.plugs
      /\ DOMAIN h.pads = 1..n /\ h.gps = [x \in 0..(n - 1) |-> FALSE]
  BY StartIs
<1>2. n \in Nat /\ c.moves \in Nat /\ c.plugs \in Nat /\ QueueLen \in Nat
  BY ControllersAssumption
<1> HIDE DEF h, n
<1>3. h.odd = {} /\ h.q = <<>> /\ h.seen = <<>>
  BY <1>1 DEF Blank
<1>4. ASSUME Sane, plat = "android" PROVE Sound(h)
  <2>1. 2 * (c.moves + c.plugs) <= QueueLen
    BY <1>4 DEF Sane
  <2> DEFINE x == c.moves
             y == c.plugs
  <2>2. 0 + 2 * 0 + 2 * (x + y) <= QueueLen
    BY <1>2, <2>1
  <2>3. Room(h)
    BY <1>1, <1>3, <2>2, EmptyListed DEF Room
  <2> QED
    BY <1>1, <1>3, <2>3, EmptyListed DEF Sound, Known
<1>5. Heard(h)
  <2>1. DOMAIN h.gps = {p - 1 : p \in DOMAIN h.pads}
    <3>1. \A x \in 0..(n - 1) : x + 1 \in 1..n /\ x = (x + 1) - 1
      BY <1>2
    <3>2. \A p \in 1..n : p - 1 \in 0..(n - 1)
      BY <1>2
    <3> QED
      BY <1>1, <3>1, <3>2
  <2>2. \A x \in DOMAIN h.gps : h.gps[x] = FALSE
    BY <1>1
  <2>3. Spoken(<<>>, <<>>, h.gps)
    BY <2>2, EmptyListed, EmptyIs DEF Spoken
  <2> QED
    BY <1>1, <1>3, <2>1, <2>3 DEF Heard
<1>6. Else(h)
  BY <1>1, <1>4, <1>5 DEF Else, Loose
<1> QED
  BY <1>1, <1>6 DEF h

-----------------------------------------------------------------------------
(* The invariant.                                                            *)

\* The tables of the desk's platforms; what the others queue, and what the program made of it.
Orderly ==
  /\ plat \in Desk \cup Elsewhere
  /\ plat \in Desk => DeskInv(s)
  /\ plat \in Elsewhere => Else(s)

\* It holds at the start.
LEMMA OrderlyInit == Init => Orderly
<1> SUFFICES ASSUME NEW c \in Cases, plat = c.plat, s = IF c.plat = "web" THEN Start(c) ELSE Created(c.plat, Start(c))
             PROVE  Orderly
  BY DEF Init
<1>1. plat \in Desk \cup Elsewhere
  BY ControllersAssumption DEF Desk, Elsewhere
<1>2. CASE plat \in Desk
  <2>1. s = Created(plat, Start(c)) /\ plat \notin Elsewhere
    BY <1>2 DEF Desk, Elsewhere
  <2>2. DeskInv(Created(plat, Start(c)))
    BY <1>2, StartDesk
  <2> QED
    BY <1>1, <2>1, <2>2 DEF Orderly
<1>3. CASE plat \in Elsewhere
  <2>1. Else(Start(c)) /\ Start(c).app # "alive"
    BY <1>3, StartElse
  <2> DEFINE h == Start(c)
  <2> HIDE DEF h
  <2>2. Else(Created(plat, h))
    BY <1>3, <2>1, ElseCreated DEF h
  <2>3. Else(s) /\ plat \notin Desk
    BY <1>3, <2>1, <2>2 DEF h, Desk, Elsewhere
  <2> QED
    BY <1>1, <2>3 DEF Orderly
<1> QED
  BY <1>1, <1>2, <1>3

\* Each step.
LEMMA DeskStep ==
  ASSUME "again" \notin Faults, DeskInv(s), plat \in Desk, Next
  PROVE  DeskInv(s')
<1>1. CASE AppRun
  BY <1>1, DeskRun
<1>2. CASE Matoya \/ PollGamepads
  BY <1>2 DEF Matoya, PollGamepads, Desk
<1>3. CASE MTY_AppCreate
  BY <1>3, DeskCreate
<1>4. CASE MTY_AppDestroy
  BY <1>4, DeskDestroy
<1>5. CASE Focus
  BY <1>5, DeskFocus
<1>6. ASSUME NEW p \in Pads, Tick(p) \/ Plug(p) \/ Unplug(p) \/ Ready(p) \/ Report(p) \/ Answer(p) \/ EffectEnds(p)
      PROVE  DeskInv(s')
  BY <1>6, DeskTick, DeskPlug, DeskUnplug, DeskReady, DeskReport, DeskAnswer, DeskEffect
<1>7. ASSUME NEW p \in Pads, NEW u \in DOMAIN s.pads[p].turns, NEW v \in s.pads[p].turns[u], Move(p, u, v)
      PROVE  DeskInv(s')
  BY <1>7, DeskMove
<1>8. ASSUME NEW id \in DOMAIN s.seen \cup DOMAIN s.dedupe, NEW v \in 0..1, MTY_AppRumbleController(id, v)
      PROVE  DeskInv(s')
  BY <1>8, DeskRumble
<1> QED
  BY <1>1, <1>2, <1>3, <1>4, <1>5, <1>6, <1>7, <1>8 DEF Next

\* Each step, on Android and in a page.
LEMMA ElseStep ==
  ASSUME Else(s), plat \in Elsewhere, Next
  PROVE  Else(s')
<1>1. CASE AppRun
  <2>1. CASE plat = "android"
    <3>1. Loose(s') /\ (Sound(s) => Sound(s'))
      BY <1>1, <2>1, AndroidRun DEF Else
    <3> QED
      BY <2>1, <3>1 DEF Else
  <2>2. CASE plat = "web"
    BY <1>1, <2>2, WebRun
  <2> QED
    BY <2>1, <2>2 DEF Elsewhere
<1>2. CASE Matoya
  <2>1. plat = "android"
    BY <1>2 DEF Matoya
  <2>2. Loose(s') /\ (Sound(s) => Sound(s'))
    BY <1>2, MatoyaRun DEF Else
  <2> QED
    BY <2>1, <2>2 DEF Else
<1>3. CASE PollGamepads
  BY <1>3, WebPoll
<1>4. CASE MTY_AppCreate
  <2>1. s.app # "alive" /\ s' = Created(plat, s)
    BY <1>4 DEF MTY_AppCreate
  <2>2. Else(Created(plat, s))
    BY <2>1, ElseCreated
  <2> QED
    BY <2>1, <2>2
<1>5. CASE MTY_AppDestroy
  BY <1>5, ElseDestroy
<1>6. CASE Focus
  BY <1>6, ElseFocus
<1>7. ASSUME NEW p \in Pads, Tick(p) \/ Plug(p) \/ Unplug(p) \/ Ready(p) \/ Report(p) \/ Answer(p) \/ EffectEnds(p)
      PROVE  Else(s')
  <2>1. ~Tick(p) /\ ~Report(p)
    BY DEF Tick, Report, Elsewhere
  <2>2. ~Answer(p)
    BY ElseAnswer
  <2> QED
    BY <1>7, <2>1, <2>2, ElsePlug, ElseUnplug, ElseReady, ElseEffect
<1>8. ASSUME NEW p \in Pads, NEW u \in DOMAIN s.pads[p].turns, NEW v \in s.pads[p].turns[u], Move(p, u, v)
      PROVE  Else(s')
  BY <1>8, ElseMove
<1>9. ASSUME NEW id \in DOMAIN s.seen \cup DOMAIN s.dedupe, NEW v \in 0..1, MTY_AppRumbleController(id, v)
      PROVE  Else(s')
  BY <1>9, ElseRumble
<1> QED
  BY <1>1, <1>2, <1>3, <1>4, <1>5, <1>6, <1>7, <1>8, <1>9 DEF Next

\* No step changes the platform.
LEMMA PlatStays ==
  ASSUME Next
  PROVE  plat' = plat
<1>1. AppRun \/ Matoya \/ PollGamepads => plat' = plat
  BY DEF AppRun, Matoya, PollGamepads
<1>2. MTY_AppCreate \/ MTY_AppDestroy \/ Focus => plat' = plat
  BY DEF MTY_AppCreate, MTY_AppDestroy, Focus
<1>3. ASSUME NEW p, Tick(p) \/ Plug(p) \/ Unplug(p) \/ Ready(p) \/ Report(p) \/ Answer(p) \/ EffectEnds(p)
      PROVE  plat' = plat
  BY <1>3 DEF Tick, Plug, Unplug, Ready, Report, Answer, EffectEnds
<1>4. ASSUME NEW p, NEW u, NEW v, Move(p, u, v)
      PROVE  plat' = plat
  BY <1>4 DEF Move
<1>5. ASSUME NEW id, NEW v, MTY_AppRumbleController(id, v)
      PROVE  plat' = plat
  BY <1>5 DEF MTY_AppRumbleController
<1> QED
  BY <1>1, <1>2, <1>3, <1>4, <1>5 DEF Next

\* The platform stays what it was, and so does what is said of it.
LEMMA DeskPrimed ==
  ASSUME plat' = plat, DeskInv(s')
  PROVE  DeskInv(s)'
<1>1. Shaped(s') => Shaped(s)'
  BY DEF Shaped, Quick, Driven
<1>2. Numbered(s') => Numbered(s)'
  BY DEF Numbered
<1>3. Tabled(s', {}, {}) => Tabled(s, {}, {})'
  BY <1>1, <1>2 DEF Tabled, Quick, Paired, Polled, Slotted, Driving
<1> QED
  BY <1>3 DEF DeskInv, Rowed, Mailed, Gone, Ordered, InTurn

LEMMA ElsePrimed ==
  ASSUME plat' = plat, Else(s')
  PROVE  Else(s)'
<1>1. Shaped(s') => Shaped(s)'
  BY DEF Shaped, Quick, Driven
<1> QED
  BY <1>1 DEF Else, Loose, Rowed, Posted, Padded, Sound, Known, Room, Heard

\* It is inductive.
LEMMA OrderlyNext ==
  ASSUME "again" \notin Faults, Orderly, [Next]_vars
  PROVE  Orderly'
<1>1. CASE Next
  <2>1. plat' = plat
    BY <1>1, PlatStays
  <2>2. plat \in Desk => DeskInv(s)'
    BY <1>1, <2>1, DeskStep, DeskPrimed DEF Orderly
  <2>3. plat \in Elsewhere => Else(s)'
    BY <1>1, <2>1, ElseStep, ElsePrimed DEF Orderly
  <2> QED
    BY <2>1, <2>2, <2>3 DEF Orderly, Desk, Elsewhere
<1>2. CASE UNCHANGED vars
  <2>1. plat' = plat /\ s' = s
    BY <1>2 DEF vars
  <2>2. plat \in Desk => DeskInv(s)'
    BY <2>1, DeskPrimed DEF Orderly
  <2>3. plat \in Elsewhere => Else(s)'
    BY <2>1, ElsePrimed DEF Orderly
  <2> QED
    BY <2>1, <2>2, <2>3 DEF Orderly, Desk, Elsewhere
<1> QED
  BY <1>1, <1>2

\* A table by id that has each device of a table by handle, and no other, is its inverse.
LEMMA PairedRev ==
  ASSUME NEW D, NEW R, DOMAIN R = {D[p].id : p \in DOMAIN D}, R = [id \in DOMAIN R |-> R[id]],
         \A p \in DOMAIN D : R[D[p].id] = p
  PROVE  R = [id \in {D[p].id : p \in DOMAIN D} |-> CHOOSE p \in DOMAIN D : D[p].id = id]
<1>1. ASSUME NEW id \in DOMAIN R
      PROVE  R[id] = CHOOSE p \in DOMAIN D : D[p].id = id
  <2>1. PICK p \in DOMAIN D : D[p].id = id
    OBVIOUS
  <2> DEFINE q == CHOOSE r \in DOMAIN D : D[r].id = id
  <2>2. q \in DOMAIN D /\ D[q].id = id
    BY <2>1
  <2> HIDE DEF q
  <2>3. R[id] = q
    BY <2>2
  <2> QED
    BY <2>3 DEF q
<1> QED
  BY <1>1

\* It implies the two properties.
LEMMA OrderlyTypeOK == Orderly => TypeOK
<1> SUFFICES ASSUME Orderly PROVE TypeOK
  OBVIOUS
<1>1. Shaped(s)
  BY DEF Orderly, DeskInv, Tabled, Else, Loose
<1>2. plat \in {"windows", "mac", "x11", "android", "web"}
  BY DEF Orderly, Desk, Elsewhere
<1>3. \A p \in Pads : s.pads[p].in \in BOOLEAN /\ s.pads[p].motor \in 0..1 /\ s.pads[p].want \in -1..1
  BY <1>1 DEF Shaped, Pads
<1>4. ASSUME plat \in Desk
      PROVE  /\ DOMAIN s.devices \subseteq Pads
             /\ s.rev = [id \in {s.devices[p].id : p \in DOMAIN s.devices} |->
                           CHOOSE p \in DOMAIN s.devices : s.devices[p].id = id]
             /\ \A p, r \in DOMAIN s.devices : s.devices[p].id = s.devices[r].id => p = r
  <2>1. Paired(s)
    BY <1>4 DEF Orderly, DeskInv, Tabled
  <2> DEFINE D == s.devices
             R == s.rev
  <2>2. /\ DOMAIN D \subseteq Pads /\ R = [id \in DOMAIN R |-> R[id]]
        /\ \A p \in DOMAIN D : D[p].id \in DOMAIN R /\ R[D[p].id] = p
        /\ \A id \in DOMAIN R : R[id] \in DOMAIN D /\ D[R[id]].id = id
    BY <2>1 DEF Paired, Pads
  <2> HIDE DEF D, R
  <2>3. DOMAIN R = {D[p].id : p \in DOMAIN D}
    BY <2>2
  <2>4. R = [id \in {D[p].id : p \in DOMAIN D} |-> CHOOSE p \in DOMAIN D : D[p].id = id]
    BY <2>2, <2>3, PairedRev
  <2>5. \A p, r \in DOMAIN D : D[p].id = D[r].id => p = r
    BY <2>2
  <2> QED
    BY <2>2, <2>4, <2>5 DEF D, R
<1>5. ASSUME plat = "x11", NEW x \in 1..Slots
      PROVE  /\ {p \in DOMAIN s.devices : s.devices[p].slot = x} = {p \in DOMAIN s.devices : s.devices[p].id = s.fds[x]}
             /\ s.fds[x] # 0 => s.fds[x] \in DOMAIN s.rev
  <2>1. Paired(s) /\ Slotted(s)
    BY <1>5 DEF Orderly, DeskInv, Tabled, Desk
  <2>2. ASSUME NEW p \in DOMAIN s.devices
        PROVE  s.devices[p].slot = x <=> s.devices[p].id = s.fds[x]
    <3>1. s.devices[p].slot = x => s.devices[p].id = s.fds[x]
      BY <2>1 DEF Slotted
    <3>2. s.rev[s.devices[p].id] = p /\ s.devices[p].id # 0
      BY <2>1 DEF Paired, Slotted
    <3>3. s.fds[x] # 0 => s.devices[s.rev[s.fds[x]]].slot = x
      BY <2>1 DEF Slotted
    <3> QED
      BY <3>1, <3>2, <3>3
  <2> QED
    BY <2>1, <2>2 DEF Slotted
<1> QED
  BY <1>2, <1>3, <1>4, <1>5 DEF TypeOK, Desk

LEMMA OrderlyEvents == Sane /\ Orderly => EventsInOrder
BY DEF Orderly, DeskInv, Tabled, Else, Sound, Known, Heard, EventsInOrder, Elsewhere

\* The tables by handle, by id and by slot speak of the same devices, on each platform and whatever happens to its
\* controllers, unless the window that listens for them is made a second time.
THEOREM TypeCorrect ==
  ASSUME "again" \notin Faults
  PROVE  Spec => []TypeOK
<1>1. Init => Orderly
  BY OrderlyInit
<1>2. Orderly /\ [Next]_vars => Orderly'
  BY OrderlyNext
<1>3. Orderly => TypeOK
  BY OrderlyTypeOK
<1> QED
  BY <1>1, <1>2, <1>3, PTL DEF Spec

\* Each event is told in its turn.
THEOREM EventsAreInOrder ==
  ASSUME Sane
  PROVE  Spec => []EventsInOrder
<1>0. "again" \notin Faults
  BY DEF Sane
<1>1. Init => Orderly
  BY OrderlyInit
<1>2. Orderly /\ [Next]_vars => Orderly'
  BY <1>0, OrderlyNext
<1>3. Orderly => EventsInOrder
  BY OrderlyEvents
<1> QED
  BY <1>1, <1>2, <1>3, PTL DEF Spec

-----------------------------------------------------------------------------
(* What the swaps and moves of mty_hid_map_axes compute. *)

LEMMA StdIs ==
  /\ DOMAIN Std = 1..6 /\ Len(Std) = 6
  /\ \A x \in 1..6 : Std[x] \in ToSet(Std) /\ Std[x] # ""
  /\ \A x, y \in 1..6 : Std[x] = Std[y] => x = y
  /\ \A u \in ToSet(Std) : Place(u) \in 1..6 /\ Std[Place(u)] = u
  /\ "" \notin ToSet(Std)
<1>1. DOMAIN Std = 1..6 /\ Len(Std) = 6
  BY DEF Std
<1>2. \A x \in 1..6 : x = 1 \/ x = 2 \/ x = 3 \/ x = 4 \/ x = 5 \/ x = 6
  OBVIOUS
<1>3. Std[1] = "X" /\ Std[2] = "Y" /\ Std[3] = "Z" /\ Std[4] = "Rz" /\ Std[5] = "Rx" /\ Std[6] = "Ry"
  BY DEF Std
<1>0. ToSet(Std) = {Std[x] : x \in 1..6}
  BY <1>1 DEF ToSet
<1> HIDE DEF Std
<1>4. \A x \in 1..6 : Std[x] \in ToSet(Std) /\ Std[x] # ""
  BY <1>0, <1>2, <1>3
<1>5. \A x, y \in 1..6 : Std[x] = Std[y] => x = y
  BY <1>2, <1>3
<1>6. \A u \in ToSet(Std) : Place(u) \in 1..6 /\ Std[Place(u)] = u
  BY <1>0 DEF Place
<1>7. "" \notin ToSet(Std)
  BY <1>0, <1>4
<1> QED
  BY <1>1, <1>4, <1>5, <1>6, <1>7

\* An axis of this usage is where it belongs.
Settled(a, u) == u \in ToSet(Std) => a[Place(u)].usage = u

\* The same axes, in another order.
Mixed(a, o) ==
  /\ Len(a) = Len(o)
  /\ \A i \in 1..Len(o) : \E y \in 1..Len(o) : a[y] = o[i]
  /\ \A y \in 1..Len(o) : \E i \in 1..Len(o) : a[y] = o[i]

LEMMA MixedOn ==
  /\ \A a : Mixed(a, a)
  /\ \A a, b, o : Mixed(a, b) /\ Mixed(b, o) => Mixed(a, o)
<1>1. \A a : Mixed(a, a)
  BY DEF Mixed
<1>2. ASSUME NEW a, NEW b, NEW o, Mixed(a, b), Mixed(b, o) PROVE Mixed(a, o)
  <2>1. Len(a) = Len(o) /\ Len(b) = Len(o)
    BY <1>2 DEF Mixed
  <2>2. ASSUME NEW i \in 1..Len(o) PROVE \E y \in 1..Len(o) : a[y] = o[i]
    <3>1. PICK y \in 1..Len(o) : b[y] = o[i]
      BY <1>2 DEF Mixed
    <3>2. PICK z \in 1..Len(o) : a[z] = b[y]
      BY <1>2, <2>1 DEF Mixed
    <3> QED
      BY <3>1, <3>2
  <2>3. ASSUME NEW y \in 1..Len(o) PROVE \E i \in 1..Len(o) : a[y] = o[i]
    <3>1. PICK z \in 1..Len(o) : a[y] = b[z]
      BY <1>2, <2>1 DEF Mixed
    <3>2. PICK i \in 1..Len(o) : b[z] = o[i]
      BY <1>2 DEF Mixed
    <3> QED
      BY <3>1, <3>2
  <2> QED
    BY <2>1, <2>2, <2>3 DEF Mixed
<1> QED
  BY <1>1, <1>2

\* One swap.
Swapped(S, a, t, x) ==
  /\ Mixed(t, a) /\ t \in Seq(S)
  /\ \A v : Settled(a, v) => Settled(t, v)
  /\ Settled(a, a[x].usage) => t = a
  /\ Settled(t, a[x].usage)
  /\ \A i \in 1..Len(a) : i # x /\ Settled(a, a[i].usage) => Settled(t, t[i].usage)
  /\ \A y \in 1..6 : a[y].usage = Std[y] => t[y].usage = Std[y]

LEMMA SwapIs ==
  ASSUME NEW S, NEW a \in Seq(S), Len(a) >= 6, NEW x \in 1..Len(a)
  PROVE  Swapped(S, a, SwapOnce(a, x), x)
<1> DEFINE t == SwapOnce(a, x)
           u == a[x].usage
           y == Place(u)
           m == Len(a)
<1>0. m \in Nat /\ m >= 6 /\ \A i \in 1..m : a[i] \in S
  OBVIOUS
<1>1. CASE Settled(a, u)
  <2>1. t = a
    BY <1>1 DEF SwapOnce, Settled
  <2> HIDE DEF t
  <2> QED
    <3>1. t \in Seq(S) /\ Mixed(t, a) /\ Settled(t, u)
      BY <1>1, <2>1, MixedOn
    <3>2. \A i \in 1..Len(a) : i # x /\ Settled(a, a[i].usage) => Settled(t, t[i].usage)
      BY <2>1
    <3> QED
      BY <2>1, <3>1, <3>2 DEF t, u, Swapped
<1>2. CASE ~Settled(a, u)
  <2>1. u \in ToSet(Std) /\ a[y].usage # u
    BY <1>2 DEF Settled
  <2>2. y \in 1..6 /\ y \in 1..m /\ Std[y] = u
    <3>1. \A w \in ToSet(Std) : Place(w) \in 1..6 /\ Std[Place(w)] = w
      BY StdIs
    <3>2. y \in 1..6 /\ Std[y] = u
      BY <2>1, <3>1
    <3> HIDE DEF y
    <3> QED
      BY <1>0, <3>2
  <2>3. t = [a EXCEPT ![x] = a[y], ![y] = a[x]]
    BY <2>1 DEF SwapOnce
  <2>4. x # y
    BY <2>1
  <2> HIDE DEF t, y, m
  <2>5. t \in Seq(S) /\ Len(t) = m /\ t[x] = a[y] /\ t[y] = a[x] /\ \A i \in 1..m : i # x /\ i # y => t[i] = a[i]
    <3>1. t = [[a EXCEPT ![x] = a[y]] EXCEPT ![y] = a[x]]
      BY <2>3
    <3>2. a[y] \in S /\ a[x] \in S
      BY <1>0, <2>2 DEF m
    <3> QED
      BY <2>2, <2>4, <3>1, <3>2 DEF m
  <2> HIDE DEF u
  <2>6. Mixed(t, a)
    <3>1. \A i \in 1..m : \E j \in 1..m : t[j] = a[i]
      <4> TAKE i \in 1..m
      <4>1. CASE i = x
        BY <2>2, <2>5, <4>1
      <4>2. CASE i = y
        BY <2>5, <4>2 DEF m
      <4>3. CASE i # x /\ i # y
        BY <2>5, <4>3
      <4> QED
        BY <4>1, <4>2, <4>3
    <3>2. \A j \in 1..m : \E i \in 1..m : t[j] = a[i]
      <4> TAKE i \in 1..m
      <4>1. CASE i = x
        BY <2>2, <2>5, <4>1
      <4>2. CASE i = y
        BY <2>5, <4>2 DEF m
      <4>3. CASE i # x /\ i # y
        BY <2>5, <4>3
      <4> QED
        BY <4>1, <4>2, <4>3
    <3> QED
      BY <2>5, <3>1, <3>2 DEF Mixed, m
  <2>7. Settled(t, u)
    BY <2>5 DEF Settled, y, u
  <2>8. ASSUME NEW v, Settled(a, v) PROVE Settled(t, v)
    <3> SUFFICES ASSUME v \in ToSet(Std) PROVE t[Place(v)].usage = v
      BY DEF Settled
    <3> DEFINE z == Place(v)
    <3>1. z \in 1..6 /\ z \in 1..m /\ Std[z] = v
      <4>1. \A w \in ToSet(Std) : Place(w) \in 1..6 /\ Std[Place(w)] = w
        BY StdIs
      <4>2. z \in 1..6 /\ Std[z] = v
        BY <4>1
      <4> HIDE DEF z
      <4> QED
        BY <1>0, <4>2 DEF m
    <3>2. a[z].usage = v
      BY <2>8 DEF Settled
    <3> HIDE DEF z
    <3>3. z # y
      BY <2>1, <2>2, <3>1, <3>2
    <3>4. z # x
      BY <1>2, <2>8, <3>2 DEF u
    <3> QED
      BY <2>5, <3>1, <3>2, <3>3, <3>4 DEF z
  <2>9. ASSUME NEW i \in 1..m, i # x, Settled(a, a[i].usage) PROVE Settled(t, t[i].usage)
    <3>1. CASE i = y
      BY <2>5, <2>7, <3>1 DEF u
    <3>2. CASE i # y
      BY <2>5, <2>8, <2>9, <3>2
    <3> QED
      BY <3>1, <3>2
  <2>10. ASSUME NEW z \in 1..6, a[z].usage = Std[z] PROVE t[z].usage = Std[z]
    <3>0. /\ \A w \in ToSet(Std) : Place(w) \in 1..6 /\ Std[Place(w)] = w
          /\ \A i, j \in 1..6 : Std[i] = Std[j] => i = j
          /\ Std[z] \in ToSet(Std)
      BY StdIs
    <3>1. Std[z] \in ToSet(Std) /\ Place(Std[z]) = z
      BY <3>0
    <3>2. Settled(a, Std[z])
      BY <2>10, <3>1 DEF Settled
    <3> QED
      BY <2>8, <3>1, <3>2 DEF Settled
  <2> QED
    BY <1>2, <2>5, <2>6, <2>7, <2>8, <2>9, <2>10 DEF t, u, m, Swapped
<1> QED
  BY <1>1, <1>2

\* The places of the right axes.
Right(b) == {y \in 1..6 : b[y].usage = Std[y]}

\* What the swaps of one place keep.
Swapping(S, a, b, x) ==
  /\ b \in Seq(S) /\ Mixed(b, a)
  /\ \A v : Settled(a, v) => Settled(b, v)
  /\ \A i \in 1..Len(a) : i # x /\ Settled(a, a[i].usage) => Settled(b, b[i].usage)

\* How many places are right.
LEMMA RightGrows ==
  ASSUME NEW b, NEW t, Right(b) \subseteq Right(t), NEW y \in 1..6, y \notin Right(b), y \in Right(t),
         NEW k \in Nat, Cardinality(Right(b)) >= k
  PROVE  Cardinality(Right(t)) >= k + 1
<1>1. IsFiniteSet(1..6) /\ Right(b) \subseteq 1..6 /\ Right(t) \subseteq 1..6
  <2>1. IsFiniteSet(1..6)
    <3> 1 \in Int /\ 6 \in Int
      OBVIOUS
    <3> QED
      BY FS_Interval
  <2> QED
    BY <2>1 DEF Right
<1>2. IsFiniteSet(Right(b)) /\ IsFiniteSet(Right(t))
  BY <1>1, FS_Subset
<1>3. IsFiniteSet(Right(b) \cup {y}) /\ Cardinality(Right(b) \cup {y}) = Cardinality(Right(b)) + 1
  BY <1>2, FS_AddElement
<1>4. Right(b) \cup {y} \subseteq Right(t)
  OBVIOUS
<1>5. Cardinality(Right(b) \cup {y}) <= Cardinality(Right(t))
  BY <1>2, <1>4, FS_Subset
<1>6. Cardinality(Right(b)) \in Nat /\ Cardinality(Right(t)) \in Nat
  BY <1>2, FS_CardinalityType
<1> QED
  BY <1>3, <1>5, <1>6

\* All six.
LEMMA RightAll ==
  ASSUME NEW b, Cardinality(Right(b)) >= 6
  PROVE  Right(b) = 1..6
<1>0. 1 \in Int /\ 6 \in Int /\ (IF 1 > 6 THEN 0 ELSE 6 - 1 + 1) = 6
  OBVIOUS
<1>1. IsFiniteSet(1..6) /\ Cardinality(1..6) = 6
  BY <1>0, FS_Interval
<1>2. Right(b) \in SUBSET (1..6)
  BY DEF Right
<1>3. Cardinality(Right(b)) \in Nat /\ Cardinality(Right(b)) <= 6 /\ (6 = Cardinality(Right(b)) => 1..6 = Right(b))
  BY <1>1, <1>2, FS_Subset, FS_CardinalityType
<1> QED
  BY <1>3

\* The swaps of one place settle it.
LEMMA SwapValueIs ==
  ASSUME NEW S, NEW a \in Seq(S), Len(a) >= 6, NEW x \in 1..Len(a)
  PROVE  LET t == hid_swap_value(a, x)
         IN Swapping(S, a, t, x) /\ Settled(t, t[x].usage)
<1> DEFINE after == After("swap once", x, a, Std, 6)
           P(b, k) == Swapping(S, a, b, x) /\ (Settled(b, b[x].usage) \/ Cardinality(Right(b)) >= k)
           T == {k \in 0..6 : P(after[k], k)}
           t == hid_swap_value(a, x)
<1>0. DOMAIN Std = 1..6 /\ Len(Std) = 6
  BY StdIs
<1>1. t = after[6]
  <2> DEFINE G(f) == [k \in 0..Len(Std) |-> IF k = 0 THEN a ELSE Of(f[k - 1], LAMBDA b : SwapOnce(b, x))]
             F(f) == [k \in 0..6 |-> IF k = 0 THEN a ELSE StepOf("swap once", x, f[k - 1], Std[k])]
  <2>1. t = (CHOOSE f : f = G(f))[Len(Std)]
    BY DEF hid_swap_value, Steps
  <2>2. \A f : G(f) = F(f)
    BY <1>0 DEF Of, StepOf
  <2>4. after = CHOOSE f : f = F(f)
    BY DEF After, Follows
  <2> HIDE DEF after
  <2>5. (CHOOSE f : f = G(f)) = (CHOOSE f : f = F(f))
    <3> HIDE DEF F, G
    <3> QED
      BY <2>2
  <2> HIDE DEF F, G, t
  <2> QED
    BY <1>0, <2>1, <2>4, <2>5
<1> HIDE DEF t
<1>2. after[0] = a /\ \A k \in 0..5 : after[k + 1] = SwapOnce(after[k], x)
  <2>0. 6 \in Nat /\ 0 \in 0..6 /\ \A k \in 0..5 : k + 1 \in 0..6 /\ k + 1 # 0 /\ (k + 1) - 1 = k
    OBVIOUS
  <2>1. Follows(after, "swap once", x, a, Std, 6)
    BY <2>0, FoldIs
  <2> HIDE DEF after
  <2>2. \A k \in 0..6 : after[k] = IF k = 0 THEN a ELSE StepOf("swap once", x, after[k - 1], Std[k])
    BY <2>1 DEF Follows
  <2> QED
    BY <2>0, <2>2 DEF StepOf
<1> HIDE DEF after
<1>3. 0 \in T
  <2>1. Cardinality(Right(a)) \in Nat
    <3>0. 1 \in Int /\ 6 \in Int
      OBVIOUS
    <3>1. IsFiniteSet(1..6)
      BY <3>0, FS_Interval
    <3>2. Right(a) \in SUBSET (1..6)
      BY DEF Right
    <3> QED
      BY <3>1, <3>2, FS_Subset, FS_CardinalityType
  <2>2. Swapping(S, a, a, x)
    BY MixedOn DEF Swapping
  <2>3. 0 \in 0..6 /\ Cardinality(Right(a)) >= 0
    BY <2>1
  <2> QED
    BY <1>2, <2>2, <2>3
<1>4. ASSUME NEW k \in 0..5, k \in T PROVE k + 1 \in T
  <2> DEFINE b == after[k]
             c == SwapOnce(b, x)
             u == b[x].usage
  <2>1. P(b, k) /\ k \in Nat /\ k + 1 \in 0..6 /\ after[k + 1] = c
    BY <1>2, <1>4
  <2> HIDE DEF b, T
  <2>2. b \in Seq(S) /\ Len(b) = Len(a)
    BY <2>1 DEF Swapping, Mixed
  <2>3. /\ Mixed(c, b) /\ c \in Seq(S)
        /\ \A v : Settled(b, v) => Settled(c, v)
        /\ Settled(b, u) => c = b
        /\ Settled(c, u)
        /\ \A i \in 1..Len(b) : i # x /\ Settled(b, b[i].usage) => Settled(c, c[i].usage)
        /\ \A y \in 1..6 : b[y].usage = Std[y] => c[y].usage = Std[y]
    <3> HIDE DEF c
    <3>1. Len(b) >= 6 /\ x \in 1..Len(b)
      BY <2>2
    <3>2. Swapped(S, b, SwapOnce(b, x), x)
      BY <2>2, <3>1, SwapIs
    <3> QED
      BY <3>2 DEF Swapped, c, u
  <2> HIDE DEF c, P
  <2>4. Swapping(S, a, c, x)
    <3>1. Mixed(c, a)
      BY <2>1, <2>3, MixedOn DEF P, Swapping
    <3> QED
      BY <2>1, <2>2, <2>3, <3>1 DEF P, Swapping
  <2>5. CASE Settled(b, u)
    <3>1. c = b
      BY <2>3, <2>5
    <3>2. P(c, k + 1)
      BY <2>4, <2>5, <3>1 DEF P, u
    <3> QED
      BY <2>1, <3>2 DEF T
  <2>6. CASE ~Settled(b, u)
    <3> DEFINE y == Place(u)
    <3>1. u \in ToSet(Std) /\ b[y].usage # u /\ c[y].usage = u
      BY <2>3, <2>6 DEF Settled
    <3>2. y \in 1..6 /\ Std[y] = u
      <4>1. \A w \in ToSet(Std) : Place(w) \in 1..6 /\ Std[Place(w)] = w
        BY StdIs
      <4> QED
        BY <3>1, <4>1
    <3>3. Right(b) \subseteq Right(c)
      BY <2>3 DEF Right
    <3> HIDE DEF y, u
    <3>4. y \notin Right(b) /\ y \in Right(c)
      BY <3>1, <3>2 DEF Right
    <3>5. Cardinality(Right(b)) >= k
      BY <2>1, <2>6 DEF P, u
    <3>6. Cardinality(Right(c)) >= k + 1
      BY <2>1, <3>2, <3>3, <3>4, <3>5, RightGrows
    <3>7. P(c, k + 1)
      BY <2>4, <3>6 DEF P
    <3> QED
      BY <2>1, <3>7 DEF T
  <2> QED
    BY <2>5, <2>6
<1>5. 6 \in T
  <2> HIDE DEF T
  <2>1. 6 \in Nat /\ 6 - 1 = 5
    OBVIOUS
  <2>2. \A k \in 0..(6 - 1) : k \in T => k + 1 \in T
    BY <1>4, <2>1
  <2> QED
    BY <1>3, <2>1, <2>2, Upwards
<1>6. P(t, 6)
  BY <1>1, <1>5
<1>7. Settled(t, t[x].usage)
  <2>1. ASSUME Cardinality(Right(t)) >= 6 PROVE Settled(t, t[x].usage)
    <3>1. \A y \in 1..6 : t[y].usage = Std[y]
      BY <2>1, RightAll DEF Right
    <3>2. \A w \in ToSet(Std) : Place(w) \in 1..6 /\ Std[Place(w)] = w
      BY StdIs
    <3> QED
      BY <3>1, <3>2 DEF Settled
  <2> QED
    BY <1>6, <2>1
<1> QED
  BY <1>6, <1>7 DEF t

\* All axes are in their places.
AllSettled(a, k) == \A i \in 1..k : Settled(a, a[i].usage)

LEMMA SwapsAre ==
  ASSUME NEW S, NEW a \in Seq(S), Len(a) >= 6
  PROVE  LET t == Steps(hid_swap_value, a, [x \in DOMAIN a |-> x])
         IN t \in Seq(S) /\ Mixed(t, a) /\ AllSettled(t, Len(a))
<1> DEFINE n == Len(a)
           seq == [x \in DOMAIN a |-> x]
           after == After("swap", "", a, seq, n)
           P(b, k) == b \in Seq(S) /\ Mixed(b, a) /\ AllSettled(b, k)
           T == {k \in 0..n : P(after[k], k)}
           t == Steps(hid_swap_value, a, seq)
<1>0. n \in Nat /\ n >= 6 /\ DOMAIN a = 1..n /\ seq = [x \in 1..n |-> x] /\ Len(seq) = n
  <2>1. n \in Nat /\ n >= 6 /\ DOMAIN a = 1..n /\ seq = [x \in 1..n |-> x]
    OBVIOUS
  <2>2. seq \in Seq(1..n) /\ DOMAIN seq = 1..n
    BY <2>1
  <2> HIDE DEF n, seq
  <2> QED
    BY <2>1, <2>2
<1> HIDE DEF n, seq
<1>1. t = after[n]
  <2> DEFINE G(f) == [k \in 0..Len(seq) |-> IF k = 0 THEN a ELSE Of(f[k - 1], LAMBDA b : hid_swap_value(b, seq[k]))]
             F(f) == [k \in 0..n |-> IF k = 0 THEN a ELSE StepOf("swap", "", f[k - 1], seq[k])]
  <2>1. t = (CHOOSE f : f = G(f))[Len(seq)]
    BY DEF Steps
  <2>2. \A f : G(f) = F(f)
    <3>1. \A b, k : StepOf("swap", "", b, k) = hid_swap_value(b, k)
      BY DEF StepOf
    <3> QED
      BY <1>0, <3>1 DEF Of
  <2>4. after = CHOOSE f : f = F(f)
    BY DEF After, Follows
  <2> HIDE DEF after
  <2>5. (CHOOSE f : f = G(f)) = (CHOOSE f : f = F(f))
    <3> HIDE DEF F, G
    <3> QED
      BY <2>2
  <2> HIDE DEF F, G, t
  <2> QED
    BY <1>0, <2>1, <2>4, <2>5
<1> HIDE DEF t
<1>2. after[0] = a /\ \A k \in 0..(n - 1) : after[k + 1] = hid_swap_value(after[k], k + 1)
  <2>0. /\ n \in Nat /\ 0 \in 0..n
        /\ \A k \in 0..(n - 1) : k + 1 \in 0..n /\ k + 1 # 0 /\ (k + 1) - 1 = k /\ seq[k + 1] = k + 1
    BY <1>0
  <2>1. Follows(after, "swap", "", a, seq, n)
    BY <2>0, FoldIs
  <2> HIDE DEF after
  <2>2. \A k \in 0..n : after[k] = IF k = 0 THEN a ELSE StepOf("swap", "", after[k - 1], seq[k])
    BY <2>1 DEF Follows
  <2> QED
    BY <2>0, <2>2 DEF StepOf
<1> HIDE DEF after
<1>3. 0 \in T
  <2>1. 0 \in 0..n /\ 1..0 = {}
    BY <1>0
  <2>2. P(a, 0)
    BY <2>1, MixedOn DEF AllSettled
  <2> QED
    BY <1>2, <2>1, <2>2
<1>4. ASSUME NEW k \in 0..(n - 1), k \in T PROVE k + 1 \in T
  <2> DEFINE b == after[k]
             x == k + 1
             c == hid_swap_value(b, x)
  <2>1. P(b, k) /\ k \in Nat /\ x \in 0..n /\ x \in 1..n /\ after[x] = c
    BY <1>0, <1>2, <1>4
  <2> HIDE DEF b, T, x
  <2>2. b \in Seq(S) /\ Len(b) = n
    BY <2>1 DEF Mixed, n
  <2>3. Swapping(S, b, c, x) /\ Settled(c, c[x].usage)
    <3> HIDE DEF c
    <3>1. Len(b) >= 6 /\ x \in 1..Len(b)
      BY <1>0, <2>1, <2>2
    <3> QED
      BY <2>2, <3>1, SwapValueIs DEF c
  <2> HIDE DEF c
  <2>4. AllSettled(c, x)
    <3> SUFFICES ASSUME NEW i \in 1..x PROVE Settled(c, c[i].usage)
      BY DEF AllSettled
    <3>1. CASE i = x
      BY <2>3, <3>1
    <3>2. CASE i # x
      <4>1. i \in 1..k /\ i \in 1..n
        BY <1>0, <2>1, <3>2 DEF x
      <4>2. Settled(b, b[i].usage)
        BY <2>1, <4>1 DEF AllSettled
      <4> QED
        BY <2>2, <2>3, <3>2, <4>1, <4>2 DEF Swapping
    <3> QED
      BY <3>1, <3>2
  <2>5. c \in Seq(S) /\ Mixed(c, a)
    BY <2>1, <2>3, MixedOn DEF Swapping
  <2> QED
    BY <2>1, <2>4, <2>5 DEF T, x
<1>5. n \in T
  <2> HIDE DEF T
  <2> QED
    BY <1>0, <1>3, <1>4, Upwards
<1>6. P(t, n)
  BY <1>1, <1>5
<1> QED
  BY <1>6 DEF t, n, seq

\* The axes that are made.
NewAxis(u, w) ==
  IF w = "stick" THEN Axis(u, "", 0, -32768, 32767)
  ELSE IF w = "pressed" THEN Axis(u, "", 255, 0, 255) ELSE Axis(u, "", 0, 0, 255)
NewAxes == {NewAxis(u, w) : u \in ToSet(Std), w \in {"stick", "pressed", "rest"}}

LEMMA NewAxesAre ==
  ASSUME NEW u \in ToSet(Std)
  PROVE  /\ NewAxis(u, "stick") \in NewAxes /\ NewAxis(u, "pressed") \in NewAxes /\ NewAxis(u, "rest") \in NewAxes
BY DEF NewAxes

\* One place gets its axis.
MoveStep(S, b, t, x) ==
  /\ t \in Seq(S) /\ Len(t) \in Len(b)..(Len(b) + 1) /\ t[x].usage = Std[x]
  /\ \A i \in 1..Len(b) : i # x => t[i] = b[i]
  /\ b[x].usage = Std[x] => t = b
  /\ b[x].usage \notin {"", Std[x]} => Len(t) = Len(b) + 1 /\ t[Len(b) + 1] = b[x]

LEMMA MoveIs ==
  ASSUME NEW S, NewAxes \subseteq S, NEW b \in Seq(S), Len(b) >= 6, AxisMax \in Nat, Len(b) < AxisMax,
         NEW x \in 1..6, NEW buttons
  PROVE  MoveStep(S, b, hid_move_value(b, x, buttons), x)
<1> DEFINE t == hid_move_value(b, x, buttons)
           u == Std[x]
           pressed == (u = "Rx" /\ "LT" \in buttons) \/ (u = "Ry" /\ "RT" \in buttons)
           new == IF u \in Sticks THEN Axis(u, "", 0, -32768, 32767)
                  ELSE Axis(u, "", IF pressed THEN 255 ELSE 0, 0, 255)
           more == IF b[x].usage = "" THEN b ELSE Append(b, b[x])
           n == Len(b)
<1>0. n \in Nat /\ n >= 6 /\ n < AxisMax /\ x \in 1..n /\ AxisMax \in Nat /\ ~(n >= AxisMax)
  OBVIOUS
<1>1. u \in ToSet(Std) /\ u # ""
  BY StdIs
<1>2. t = IF b[x].usage = u \/ n >= AxisMax THEN b ELSE [more EXCEPT ![x] = new]
  BY DEF hid_move_value
<1>3. new \in S /\ new.usage = u
  <2> HIDE DEF pressed, u
  <2>1. new.usage = u
    BY DEF Axis
  <2>2. CASE u \in Sticks
    <3>1. new = NewAxis(u, "stick")
      BY <2>2 DEF NewAxis
    <3> HIDE DEF new
    <3> QED
      BY <1>1, <2>1, <3>1, NewAxesAre
  <2>3. CASE u \notin Sticks /\ pressed
    <3>1. new = NewAxis(u, "pressed")
      BY <2>3 DEF NewAxis
    <3> HIDE DEF new
    <3> QED
      BY <1>1, <2>1, <3>1, NewAxesAre
  <2>4. CASE u \notin Sticks /\ ~pressed
    <3>1. new = NewAxis(u, "rest")
      BY <2>4 DEF NewAxis
    <3> HIDE DEF new
    <3> QED
      BY <1>1, <2>1, <3>1, NewAxesAre
  <2> HIDE DEF new
  <2> QED
    BY <2>2, <2>3, <2>4
<1> HIDE DEF t, new, pressed
<1>4. CASE b[x].usage = u
  <2>1. t = b
    BY <1>2, <1>4
  <2>2. n \in n..(n + 1)
    BY <1>0
  <2> QED
    BY <1>4, <2>1, <2>2 DEF t, MoveStep
<1>5. CASE b[x].usage # u /\ b[x].usage = ""
  <2>0. ~(b[x].usage = u \/ n >= AxisMax)
    BY <1>0, <1>5
  <2>1. t = [b EXCEPT ![x] = new]
    BY <1>2, <1>5, <2>0
  <2> HIDE DEF u
  <2>2. t \in Seq(S) /\ Len(t) = n /\ t[x] = new /\ \A i \in 1..n : i # x => t[i] = b[i]
    BY <1>0, <1>3, <2>1
  <2>3. Len(t) \in n..(n + 1) /\ t[x].usage = u
    BY <1>0, <1>3, <2>2
  <2> QED
    BY <1>5, <2>2, <2>3 DEF t, u, MoveStep
<1>6. CASE b[x].usage # u /\ b[x].usage # ""
  <2>1. more = Append(b, b[x])
    BY <1>6
  <2> HIDE DEF more, u
  <2>2. b[x] \in S
    BY <1>0
  <2>3. more \in Seq(S) /\ Len(more) = n + 1 /\ more[n + 1] = b[x] /\ \A i \in 1..n : more[i] = b[i]
    BY <1>0, <2>1, <2>2
  <2>m. ~(b[x].usage = u \/ n >= AxisMax)
    BY <1>0, <1>6
  <2>4. t = [more EXCEPT ![x] = new]
    BY <1>2, <2>m
  <2> HIDE DEF n
  <2>5. x \in 1..(n + 1) /\ x # n + 1 /\ n + 1 \in 1..(n + 1) /\ \A i \in 1..n : i \in 1..(n + 1)
    BY <1>0
  <2>6. t \in Seq(S) /\ Len(t) = n + 1 /\ t[x] = new /\ \A i \in 1..(n + 1) : i # x => t[i] = more[i]
    BY <1>0, <1>3, <2>3, <2>4, <2>5
  <2>7. t[n + 1] = b[x] /\ \A i \in 1..n : i # x => t[i] = b[i]
    BY <2>3, <2>5, <2>6
  <2>8. Len(t) \in n..(n + 1) /\ t[x].usage = u
    BY <1>0, <1>3, <2>6
  <2> QED
    BY <1>6, <2>6, <2>7, <2>8 DEF t, u, n, MoveStep
<1> QED
  BY <1>4, <1>5, <1>6

\* All six places.
Moving(a, b, k) ==
  /\ Len(b) \in Len(a)..(Len(a) + k)
  /\ \A y \in 1..k : b[y].usage = Std[y] /\ (a[y].usage = Std[y] => b[y] = a[y])
  /\ \A y \in (k + 1)..Len(a) : b[y] = a[y]
  /\ \A y \in 1..k : a[y].usage \notin {"", Std[y]} => \E z \in (Len(a) + 1)..Len(b) : b[z] = a[y]

Moves(a, buttons) == Steps(LAMBDA b, x : hid_move_value(b, x, buttons), a, [x \in 1..6 |-> x])

LEMMA MovesAre ==
  ASSUME NEW S, NewAxes \subseteq S, NEW a \in Seq(S), Len(a) >= 6, AxisMax \in Nat, Len(a) + 6 <= AxisMax, NEW buttons
  PROVE  Moves(a, buttons) \in Seq(S) /\ Moving(a, Moves(a, buttons), 6)
<1> DEFINE m == Len(a)
           seq == [x \in 1..6 |-> x]
           after == After("move", buttons, a, seq, 6)
           P(b, k) == b \in Seq(S) /\ Moving(a, b, k)
           T == {k \in 0..6 : P(after[k], k)}
           t == Steps(LAMBDA b, x : hid_move_value(b, x, buttons), a, seq)
<1>0. m \in Nat /\ m >= 6 /\ m + 6 <= AxisMax /\ Len(seq) = 6 /\ \A k \in 1..6 : seq[k] = k
  <2>1. seq \in Seq(1..6) /\ DOMAIN seq = 1..6 /\ \A k \in 1..6 : seq[k] = k
    OBVIOUS
  <2> HIDE DEF seq
  <2> QED
    BY <2>1
<1> HIDE DEF seq
<1>1. t = after[6]
  <2> DEFINE G(f) == [k \in 0..Len(seq) |-> IF k = 0 THEN a ELSE Of(f[k - 1], LAMBDA b : hid_move_value(b, seq[k], buttons))]
             F(f) == [k \in 0..6 |-> IF k = 0 THEN a ELSE StepOf("move", buttons, f[k - 1], seq[k])]
  <2>1. t = (CHOOSE f : f = G(f))[Len(seq)]
    BY DEF Steps
  <2>2. \A f : G(f) = F(f)
    BY <1>0 DEF Of, StepOf
  <2>4. after = CHOOSE f : f = F(f)
    BY DEF After, Follows
  <2> HIDE DEF after
  <2>5. (CHOOSE f : f = G(f)) = (CHOOSE f : f = F(f))
    <3> HIDE DEF F, G
    <3> QED
      BY <2>2
  <2> HIDE DEF F, G, t
  <2> QED
    BY <1>0, <2>1, <2>4, <2>5
<1> HIDE DEF t
<1>2. after[0] = a /\ \A k \in 0..5 : after[k + 1] = hid_move_value(after[k], k + 1, buttons)
  <2>0. 6 \in Nat /\ 0 \in 0..6 /\ \A k \in 0..5 : k + 1 \in 0..6 /\ k + 1 # 0 /\ (k + 1) - 1 = k /\ seq[k + 1] = k + 1
    BY <1>0
  <2>1. Follows(after, "move", buttons, a, seq, 6)
    BY <2>0, FoldIs
  <2> HIDE DEF after
  <2>2. \A k \in 0..6 : after[k] = IF k = 0 THEN a ELSE StepOf("move", buttons, after[k - 1], seq[k])
    BY <2>1 DEF Follows
  <2> QED
    BY <2>0, <2>2 DEF StepOf
<1> HIDE DEF after
<1>3. 0 \in T
  <2>1. 0 \in 0..6 /\ 1..0 = {} /\ m \in m..(m + 0)
    BY <1>0
  <2>2. Moving(a, a, 0)
    BY <2>1 DEF Moving
  <2> QED
    BY <1>2, <2>1, <2>2
<1>4. ASSUME NEW k \in 0..5, k \in T PROVE k + 1 \in T
  <2> DEFINE b == after[k]
             x == k + 1
             c == hid_move_value(b, x, buttons)
             n == Len(b)
  <2>1. P(b, k) /\ k \in Nat /\ x \in 0..6 /\ x \in 1..6 /\ after[x] = c
    BY <1>2, <1>4
  <2> HIDE DEF b, T
  <2>r. b \in Seq(S) /\ Moving(a, b, k)
    BY <2>1
  <2>n. Len(b) \in Len(a)..(Len(a) + k) /\ \A y \in (k + 1)..Len(a) : b[y] = a[y]
    BY <2>r DEF Moving
  <2>2. n \in Nat /\ n \in m..(m + k) /\ n >= 6 /\ n < AxisMax /\ x \in 1..m
    BY <1>0, <2>1, <2>n
  <2>3. b[x] = a[x]
    <3>1. x \in (k + 1)..Len(a)
      BY <1>0, <2>1
    <3> HIDE DEF x
    <3> QED
      BY <2>n, <3>1
  <2>k. k \in Nat /\ x = k + 1
    BY <2>1
  <2> HIDE DEF x
  <2>4. /\ c \in Seq(S) /\ Len(c) \in n..(n + 1) /\ c[x].usage = Std[x]
        /\ \A i \in 1..n : i # x => c[i] = b[i]
        /\ b[x].usage = Std[x] => c = b
        /\ b[x].usage \notin {"", Std[x]} => Len(c) = n + 1 /\ c[n + 1] = b[x]
    <3> HIDE DEF c
    <3>1. b \in Seq(S) /\ Len(b) >= 6 /\ Len(b) < AxisMax /\ x \in 1..6
      BY <2>1, <2>2, <2>r
    <3> HIDE DEF P
    <3>2. MoveStep(S, b, hid_move_value(b, x, buttons), x)
      BY <3>1, MoveIs
    <3> QED
      BY <2>2, <3>2 DEF c, MoveStep
  <2> HIDE DEF c, P, m, n
  <2>m. Moving(a, b, k) /\ x = k + 1
    BY <2>1 DEF P, x
  <2>5. Len(c) \in m..(m + x)
    <3>1. Len(c) \in n..(n + 1)
      BY <2>4
    <3> QED
      BY <1>0, <2>2, <2>k, <3>1
  <2>6. ASSUME NEW y \in 1..x PROVE c[y].usage = Std[y] /\ (a[y].usage = Std[y] => c[y] = a[y])
    <3>1. CASE y = x
      BY <2>3, <2>4, <3>1
    <3>2. CASE y # x
      <4>1. y \in 1..k /\ y \in 1..n
        BY <2>1, <2>2, <2>m, <3>2
      <4>2. c[y] = b[y]
        BY <2>4, <3>2, <4>1
      <4> QED
        BY <2>m, <4>1, <4>2 DEF Moving
    <3> QED
      BY <3>1, <3>2
  <2>7. ASSUME NEW y \in (x + 1)..m PROVE c[y] = a[y]
    <3>1. y \in (k + 1)..m /\ y \in 1..n /\ y # x
      BY <1>0, <2>1, <2>2, <2>m
    <3>2. c[y] = b[y]
      BY <2>4, <3>1
    <3> QED
      BY <2>m, <3>1, <3>2 DEF Moving, m
  <2>8. ASSUME NEW y \in 1..x, a[y].usage \notin {"", Std[y]} PROVE \E z \in (m + 1)..Len(c) : c[z] = a[y]
    <3>1. CASE y = x
      <4>1. Len(c) = n + 1 /\ c[n + 1] = a[y]
        BY <2>3, <2>4, <2>8, <3>1
      <4>2. n + 1 \in (m + 1)..Len(c)
        <5>1. n >= m
          BY <1>0, <2>2
        <5> QED
          BY <1>0, <2>2, <4>1, <5>1
      <4> QED
        BY <4>1, <4>2
    <3>2. CASE y # x
      <4>1. y \in 1..k
        BY <2>1, <2>m, <3>2
      <4>2. PICK z \in (m + 1)..n : b[z] = a[y]
        BY <2>8, <2>m, <4>1 DEF Moving, m, n
      <4>3. z \in 1..n /\ z # x /\ z \in (m + 1)..Len(c)
        <5>1. n >= m /\ Len(c) >= n /\ Len(c) \in Nat /\ z \in Nat /\ z <= n /\ z >= m + 1 /\ x <= m
          <6>1. Len(c) \in n..(n + 1) /\ z \in (m + 1)..n
            BY <2>4, <4>2
          <6> QED
            BY <1>0, <2>2, <6>1
        <5> QED
          BY <1>0, <2>2, <5>1
      <4> QED
        BY <2>4, <4>2, <4>3
    <3> QED
      BY <3>1, <3>2
  <2>9. Moving(a, c, x)
    BY <2>5, <2>6, <2>7, <2>8 DEF Moving, m
  <2>10. P(c, k + 1)
    BY <2>4, <2>9, <2>m DEF P
  <2> QED
    BY <2>1, <2>10, <2>m DEF T
<1>5. 6 \in T
  <2> HIDE DEF T
  <2>1. 6 \in Nat /\ 6 - 1 = 5
    OBVIOUS
  <2>2. \A k \in 0..(6 - 1) : k \in T => k + 1 \in T
    BY <1>4, <2>1
  <2> QED
    BY <1>3, <2>1, <2>2, Upwards
<1>6. P(t, 6)
  BY <1>1, <1>5
<1> QED
  BY <1>6 DEF t, seq, Moves

\* An axis as the program gets it.
ToS16(a) ==
  CASE a.usage \in Sticks -> mty_hid_u_to_s16(a, a.usage \in Inverted)
    [] a.usage \in Bytewise -> mty_hid_u_to_u8(a)
    [] OTHER -> a

LEMMA ToS16Keeps ==
  ASSUME NEW a, {"usage", "from"} \subseteq DOMAIN a
  PROVE  ToS16(a).usage = a.usage /\ ToS16(a).from = a.from
<1> DEFINE Keeps(b) == b.usage = a.usage /\ b.from = a.from
<1>1. ASSUME NEW invert PROVE Keeps(mty_hid_u_to_s16(a, invert))
  <2> DEFINE d == Scaled(a.v - a.lo, 65535, a.hi - a.lo)
             v == IF invert THEN 32767 - d ELSE d - 32768
             t == [a EXCEPT !.v = v, !.lo = -32768, !.hi = 32767]
  <2>1. mty_hid_u_to_s16(a, invert) = IF a.lo = 0 /\ a.hi = 0 THEN a ELSE t
    BY DEF mty_hid_u_to_s16
  <2> HIDE DEF v
  <2>2. t = [[[a EXCEPT !.v = v] EXCEPT !.lo = -32768] EXCEPT !.hi = 32767]
    OBVIOUS
  <2>3. Keeps(t)
    BY <2>2
  <2> HIDE DEF t
  <2> QED
    BY <2>1, <2>3
<1>2. Keeps(mty_hid_u_to_u8(a))
  <2> DEFINE v == Scaled(a.v - a.lo, 255, a.hi - a.lo)
             t == [a EXCEPT !.v = v, !.lo = 0, !.hi = 255]
  <2>1. mty_hid_u_to_u8(a) = IF a.lo = 0 /\ a.hi = 0 THEN a ELSE t
    BY DEF mty_hid_u_to_u8
  <2> HIDE DEF v
  <2>2. t = [[[a EXCEPT !.v = v] EXCEPT !.lo = 0] EXCEPT !.hi = 255]
    OBVIOUS
  <2>3. Keeps(t)
    BY <2>2
  <2> HIDE DEF t
  <2> QED
    BY <2>1, <2>3
<1> HIDE DEF Keeps
<1>3. Keeps(a)
  BY DEF Keeps
<1>4. CASE a.usage \in Sticks
  <2>1. a.usage \notin Bytewise
    BY <1>4 DEF Sticks, Bytewise
  <2>2. ToS16(a) = mty_hid_u_to_s16(a, a.usage \in Inverted)
    BY <1>4, <2>1 DEF ToS16
  <2> QED
    BY <1>1, <2>2 DEF Keeps
<1>5. CASE a.usage \notin Sticks /\ a.usage \in Bytewise
  <2>1. ToS16(a) = mty_hid_u_to_u8(a)
    BY <1>5 DEF ToS16
  <2> QED
    BY <1>2, <2>1 DEF Keeps
<1>6. CASE a.usage \notin Sticks /\ a.usage \notin Bytewise
  <2>1. ToS16(a) = a
    BY <1>6 DEF ToS16
  <2> QED
    BY <1>3, <2>1 DEF Keeps
<1> QED
  BY <1>4, <1>5, <1>6

\* There are six axes at least.
SixAxes(axes) == axes \o (IF Len(axes) < 6 THEN [x \in 1..(6 - Len(axes)) |-> NoAxis] ELSE <<>>)

LEMMA SixAxesAre ==
  ASSUME NEW S, NEW axes \in Seq(S), NoAxis \in S
  PROVE  /\ SixAxes(axes) \in Seq(S) /\ Len(SixAxes(axes)) = IF Len(axes) < 6 THEN 6 ELSE Len(axes)
         /\ \A i \in 1..Len(axes) : SixAxes(axes)[i] = axes[i]
         /\ \A i \in (Len(axes) + 1)..Len(SixAxes(axes)) : SixAxes(axes)[i] = NoAxis
<1> DEFINE n == Len(axes)
           rest == [x \in 1..(6 - n) |-> NoAxis]
<1>1. n \in Nat
  OBVIOUS
<1>2. CASE n < 6
  <2>1. 6 - n \in Nat
    BY <1>1, <1>2
  <2>2. rest \in Seq(S) /\ Len(rest) = 6 - n /\ \A x \in 1..(6 - n) : rest[x] = NoAxis
    BY <2>1
  <2>3. SixAxes(axes) = axes \o rest
    BY <1>2 DEF SixAxes
  <2> HIDE DEF rest
  <2>4. SixAxes(axes) \in Seq(S) /\ Len(SixAxes(axes)) = 6 /\ \A i \in 1..n : SixAxes(axes)[i] = axes[i]
    BY <1>1, <1>2, <2>2, <2>3
  <2>5. ASSUME NEW i \in (n + 1)..6 PROVE SixAxes(axes)[i] = NoAxis
    <3>1. i - n \in 1..(6 - n) /\ i \in 1..6 /\ i > n
      BY <1>1, <1>2
    <3> QED
      BY <1>1, <2>2, <2>3, <3>1
  <2> QED
    BY <1>2, <2>4, <2>5
<1>3. CASE ~(n < 6)
  <2>1. SixAxes(axes) = axes \o <<>>
    BY <1>3 DEF SixAxes
  <2>2. SixAxes(axes) = axes
    BY <2>1
  <2>3. (n + 1)..n = {}
    BY <1>1
  <2> QED
    BY <1>3, <2>2, <2>3
<1> QED
  BY <1>2, <1>3

\* The axes that mty_hid_map_axes gives, and those it is given: the six places have their axes,
\* which are of the controller if it has any of that usage, and its other axes are somewhere.
InPlace(axes, from) ==
  /\ \A x \in 1..6 : x \in DOMAIN axes /\ axes[x].usage = Std[x]
  /\ \A i \in 1..Len(from) : from[i].usage \in ToSet(Std) =>
       \E j \in 1..Len(from) : from[j].usage = from[i].usage /\ axes[Place(from[i].usage)].from = from[j].from
  /\ \A i \in 1..Len(from) : from[i].usage \notin ToSet(Std) \cup {""} =>
       \E x \in DOMAIN axes : axes[x].usage = from[i].usage /\ axes[x].from = from[i].from

\* mty_hid_map_axes, for any axes of a controller that leave room for six more: each standard
\* axis is at its place, with the value of an axis of that usage if the controller has one,
\* and no other axis is lost.
THEOREM MapAxesInPlace ==
  ASSUME NEW S, \A a \in S : {"usage", "from"} \subseteq DOMAIN a, NEW c, c.axes \in Seq(S),
         AxisMax \in Nat, Len(c.axes) + 6 <= AxisMax, 12 <= AxisMax
  PROVE  InPlace(mty_hid_map_axes(c).axes, c.axes)
<1> DEFINE from == c.axes
           n == Len(from)
           room == SixAxes(from)
           m == Len(room)
           W == S \cup NewAxes \cup {NoAxis}
           swapped == Steps(hid_swap_value, room, [x \in DOMAIN room |-> x])
           buttons == hid_convert_dpad(swapped, c.buttons)
           moved == Moves(swapped, buttons)
           axes == [x \in DOMAIN moved |-> ToS16(moved[x])]
<1>1. mty_hid_map_axes(c).axes = axes
  <2> DEFINE M(a, b) == [axes    |-> Of(Moves(a, b), LAMBDA v : [x \in DOMAIN v |-> ToS16(v[x])]),
                         buttons |-> b]
  <2>1. \A a, b : M(a, b).axes = [x \in DOMAIN Moves(a, b) |-> ToS16(Moves(a, b)[x])]
    BY DEF Of
  <2>2. mty_hid_map_axes(c) = Of(swapped, LAMBDA a : Of(hid_convert_dpad(a, c.buttons), LAMBDA b : M(a, b)))
    BY DEF mty_hid_map_axes, SixAxes, ToS16, Moves
  <2> HIDE DEF M, swapped
  <2>3. Of(swapped, LAMBDA a : Of(hid_convert_dpad(a, c.buttons), LAMBDA b : M(a, b))) =
          Of(hid_convert_dpad(swapped, c.buttons), LAMBDA b : M(swapped, b))
    BY DEF Of
  <2>4. Of(hid_convert_dpad(swapped, c.buttons), LAMBDA b : M(swapped, b)) = M(swapped, buttons)
    BY DEF Of
  <2> QED
    BY <2>1, <2>2, <2>3, <2>4
<1>2. /\ room \in Seq(W) /\ m = (IF n < 6 THEN 6 ELSE n) /\ n \in Nat
      /\ \A i \in 1..n : room[i] = from[i]
      /\ \A i \in (n + 1)..m : room[i] = NoAxis
  <2>1. from \in Seq(W) /\ NoAxis \in W
    OBVIOUS
  <2> HIDE DEF W, from
  <2> QED
    BY <2>1, SixAxesAre
<1>3. m \in Nat /\ m >= 6 /\ n \in Nat /\ n <= m /\ m + 6 <= AxisMax
  <2>1. n + 6 <= AxisMax
    OBVIOUS
  <2> HIDE DEF m, n
  <2> QED
    BY <1>2, <2>1
<1> HIDE DEF room, W, swapped, buttons, moved, axes, from
<1>4. swapped \in Seq(W) /\ Mixed(swapped, room) /\ AllSettled(swapped, m)
  BY <1>2, <1>3, SwapsAre DEF swapped
<1>5. Len(swapped) = m
  BY <1>4 DEF Mixed
<1>6. moved \in Seq(W) /\ Moving(swapped, moved, 6)
  <2>1. NewAxes \subseteq W
    BY DEF W
  <2>2. Len(swapped) >= 6 /\ Len(swapped) + 6 <= AxisMax
    BY <1>3, <1>5
  <2> QED
    BY <1>4, <2>1, <2>2, MovesAre DEF moved
<1>7. Len(moved) \in Nat /\ Len(moved) >= m /\ DOMAIN moved = 1..Len(moved)
  <2>1. Len(moved) \in Len(swapped)..(Len(swapped) + 6)
    BY <1>6 DEF Moving
  <2>2. DOMAIN moved = 1..Len(moved)
    BY <1>6
  <2> HIDE DEF m
  <2> QED
    BY <1>3, <1>5, <2>1, <2>2
<1>8. ASSUME NEW x \in 1..Len(moved) PROVE x \in DOMAIN axes /\ axes[x].usage = moved[x].usage /\ axes[x].from = moved[x].from
  <2>1. moved[x] \in W /\ x \in DOMAIN moved
    BY <1>6, <1>7
  <2>2. {"usage", "from"} \subseteq DOMAIN moved[x]
    <3>1. \A a \in NewAxes : {"usage", "from"} \subseteq DOMAIN a
      <4> SUFFICES ASSUME NEW a \in NewAxes PROVE {"usage", "from"} \subseteq DOMAIN a
        OBVIOUS
      <4>1. PICK u, w : a = NewAxis(u, w)
        BY DEF NewAxes
      <4> DEFINE r1 == Axis(u, "", 0, -32768, 32767)
                 r2 == Axis(u, "", 255, 0, 255)
                 r3 == Axis(u, "", 0, 0, 255)
      <4>2. {"usage", "from"} \subseteq DOMAIN r1 /\ {"usage", "from"} \subseteq DOMAIN r2 /\ {"usage", "from"} \subseteq DOMAIN r3
        BY DEF Axis
      <4>3. NewAxis(u, w) = IF w = "stick" THEN r1 ELSE IF w = "pressed" THEN r2 ELSE r3
        BY DEF NewAxis
      <4> HIDE DEF r1, r2, r3
      <4> QED
        BY <4>1, <4>2, <4>3
    <3>2. {"usage", "from"} \subseteq DOMAIN NoAxis
      BY DEF NoAxis, Axis
    <3> QED
      BY <2>1, <3>1, <3>2 DEF W
  <2> QED
    BY <2>1, <2>2, ToS16Keeps DEF axes
<1>9. ASSUME NEW x \in 1..6 PROVE x \in DOMAIN axes /\ axes[x].usage = Std[x]
  <2>1. x \in 1..Len(moved)
    BY <1>3, <1>7
  <2> QED
    BY <1>6, <1>8, <2>1 DEF Moving
<1>10. NoAxis.usage = ""
  BY DEF NoAxis, Axis
<1>11. ASSUME NEW i \in 1..n, from[i].usage \in ToSet(Std)
       PROVE  \E j \in 1..n : from[j].usage = from[i].usage /\ axes[Place(from[i].usage)].from = from[j].from
  <2> DEFINE u == from[i].usage
             y == Place(u)
  <2>0. y \in 1..6 /\ Std[y] = u /\ u # ""
    <3>1. \A w \in ToSet(Std) : Place(w) \in 1..6 /\ Std[Place(w)] = w /\ w # ""
      BY StdIs
    <3> QED
      BY <1>11, <3>1
  <2>1. i \in 1..m /\ room[i] = from[i] /\ y \in 1..m /\ y \in 1..Len(moved)
    <3> HIDE DEF y, n, m
    <3> QED
      <4>1. i \in 1..m /\ y \in 1..m
        <5>1. y \in 1..6
          BY <2>0
        <5> HIDE DEF y, n, m
        <5> QED
          BY <1>3, <5>1
      <4>2. m <= Len(moved) /\ Len(moved) \in Nat
        BY <1>3, <1>7
      <4>3. y \in 1..Len(moved)
        BY <1>3, <4>1, <4>2
      <4> QED
        BY <1>2, <4>1, <4>3
  <2>2. PICK z \in 1..m : swapped[z] = room[i]
    BY <1>4, <2>1 DEF Mixed
  <2>3. swapped[y].usage = u
    <3>1. Settled(swapped, swapped[z].usage)
      BY <1>4 DEF AllSettled
    <3> QED
      BY <1>11, <2>1, <2>2, <3>1 DEF Settled
  <2>4. PICK k \in 1..m : room[k] = swapped[y]
    BY <1>4, <2>1 DEF Mixed
  <2>5. k \in 1..n
    <3>1. k \notin (n + 1)..m
      BY <1>2, <1>10, <2>0, <2>3, <2>4
    <3> HIDE DEF n, m
    <3> QED
      BY <1>2, <1>3, <3>1
  <2>6. moved[y] = swapped[y]
    BY <1>6, <2>0, <2>3 DEF Moving
  <2>7. axes[y].from = from[k].from /\ from[k].usage = u
    BY <1>2, <1>8, <2>1, <2>3, <2>4, <2>5, <2>6
  <2> QED
    BY <2>5, <2>7
<1>12. ASSUME NEW i \in 1..n, from[i].usage \notin ToSet(Std) \cup {""}
       PROVE  \E x \in DOMAIN axes : axes[x].usage = from[i].usage /\ axes[x].from = from[i].from
  <2> DEFINE u == from[i].usage
  <2>1. i \in 1..m /\ room[i] = from[i]
    <3> HIDE DEF n, m
    <3> QED
      BY <1>2, <1>3
  <2>2. PICK z \in 1..m : swapped[z] = room[i]
    BY <1>4, <2>1 DEF Mixed
  <2>3. \E x \in 1..Len(moved) : moved[x] = from[i]
    <3>1. CASE z \in 1..6
      <4>1. Std[z] \in ToSet(Std)
        BY <3>1, StdIs
      <4>2. swapped[z].usage \notin {"", Std[z]}
        BY <1>12, <2>1, <2>2, <4>1
      <4>3. PICK x \in (m + 1)..Len(moved) : moved[x] = swapped[z]
        BY <1>5, <1>6, <3>1, <4>2 DEF Moving
      <4>4. x \in 1..Len(moved)
        <5> HIDE DEF m
        <5> QED
          BY <1>3, <1>7
      <4> QED
        BY <2>1, <2>2, <4>3, <4>4
    <3>2. CASE z \notin 1..6
      <4>1. z \in (6 + 1)..m /\ z \in 1..Len(moved)
        <5> HIDE DEF m
        <5> QED
          BY <1>3, <1>7, <3>2
      <4>2. moved[z] = swapped[z]
        BY <1>5, <1>6, <4>1 DEF Moving
      <4> QED
        BY <2>1, <2>2, <4>1, <4>2
    <3> QED
      BY <3>1, <3>2
  <2> QED
    BY <1>8, <2>3
<1>13. InPlace(axes, from)
  BY <1>9, <1>11, <1>12 DEF InPlace
<1> QED
  BY <1>1, <1>13 DEF from
=============================================================================

--------------------------- MODULE GraphicsProofs ---------------------------
(***************************************************************************)
(* Graphics: what presents, waits; what is shown, is of one frame; and the  *)
(* state is of its type, for any number of layers and textures, any images  *)
(* and any intervals.                                                       *)
(*                                                                         *)
(* An invariant, Good, holds of the state between any two of the operations *)
(* of which a call consists: a call on a back end is a composition of       *)
(* operators, and there is a lemma on each of them, from the driver's       *)
(* (GfxDriver) over those of the back ends to the calls.  Good names what   *)
(* an operator may change: the back end in use and whether gfx_mutex is     *)
(* held, b, and the formats of the layers and of their planes, q.           *)
(***************************************************************************)
EXTENDS Graphics, FiniteSetTheorems, NaturalsInduction, WellFoundedInduction, TLAPS

-----------------------------------------------------------------------------
(* The invariant. *)

Timed(h) ==
  /\ {"ctx", "drift"} \subseteq DOMAIN h /\ {"rem", "interval", "dev"} \subseteq DOMAIN h.ctx
  /\ h.drift = h.ctx.rem /\ h.ctx.rem \in 0..99 /\ h.ctx.interval \in Nat
  /\ h.ctx.dev \in 0..2

Counted(h) ==
  /\ {"api", "ref", "device", "hash"} \subseteq DOMAIN h
  /\ h.api \in APIs \cup {"none"} /\ h.ref \in Nat /\ h.device \in 0..1 /\ h.hash \in BOOLEAN
  /\ h.api \in {"d3d11", "d3d12"} => plat = "windows"
  /\ h.api \in {"gl", "metal"} => plat # "windows"

Held(h) ==
  /\ {"live", "old"} \subseteq DOMAIN h
  /\ IF plat = "windows" THEN DOMAIN h.live = Owners /\ h.old \subseteq Living(h) ELSE h.old = {}

Named == Formats \cup {"none"}
PlaneIds == {1, 2}
Extents == 0..2
Quads == [Layers -> [fmt : Named, plane : [PlaneIds -> [fmt : Named, size : Extents]]]]

Framed(h, q) ==
  /\ {"quad", "err"} \subseteq DOMAIN h /\ h.quad = q /\ q \in Quads
  /\ "redraw" \notin Faults => "planes of two frames" \notin h.err

\* The back end in use, and whether gfx_mutex is held.
Off(a) == [api |-> a, lock |-> FALSE]
On(a)  == [api |-> a, lock |-> TRUE]

Good(h, b, q) ==
  /\ Timed(h) /\ Counted(h) /\ Held(h) /\ Framed(h, q)
  /\ "lock" \in DOMAIN h /\ h.api = b.api /\ ("refresh" \notin Faults => h.lock = b.lock)

-----------------------------------------------------------------------------
(* The driver. *)

LEMMA ErrorGood ==
  ASSUME NEW h, NEW b, NEW q, Good(h, b, q), NEW w, w # "planes of two frames" \/ "redraw" \in Faults
  PROVE  Good(Error(h, w), b, q)
<1> DEFINE k == Error(h, w)
<1>1. Timed(k) /\ Counted(k)
  BY DEF Good, Error, Timed, Counted
<1>2. Held(k)
  BY DEF Good, Error, Held, Living
<1>3. Framed(k, q) /\ "lock" \in DOMAIN k /\ k.lock = h.lock /\ k.api = h.api
  BY DEF Good, Error, Framed, Counted
<1>4. QED
  BY <1>1, <1>2, <1>3 DEF Good

LEMMA MakeAllGood ==
  ASSUME NEW h, NEW b, NEW q, Good(h, b, q), NEW o, NEW names
  PROVE  Good(MakeAll(h, o, names), b, q)
<1> DEFINE S == Range(names)
           k == [h EXCEPT !.has[o] = @ \cup S, !.live[o] = @ \cup S]
<1>1. Timed(k) /\ Counted(k)
  BY DEF Good, Timed, Counted
<1>2. Held(k)
  BY DEF Good, Held, Living
<1>3. Framed(k, q) /\ "lock" \in DOMAIN k /\ k.lock = h.lock /\ k.api = h.api
  BY DEF Good, Framed, Counted
<1>4. Good(k, b, q)
  BY <1>1, <1>2, <1>3 DEF Good
<1>5. QED
  BY <1>3, <1>4, ErrorGood DEF MakeAll

LEMMA FreeAllGood ==
  ASSUME NEW h, NEW b, NEW q, Good(h, b, q), NEW o, NEW names
  PROVE  Good(FreeAll(h, o, names), b, q)
<1> DEFINE S == Range(names) \cap h.has[o]
           k == [h EXCEPT !.has[o] = @ \ S, !.live[o] = @ \ S,
                          !.old = IF h.live[o] \subseteq S THEN @ \ {o} ELSE @,
                          !.rec = IF o \in @ THEN @ \cup {Gone} ELSE @]
<1>1. Timed(k) /\ Counted(k)
  BY DEF Good, Timed, Counted
<1>2. Held(k)
  <2>1. /\ {"live", "old"} \subseteq DOMAIN h
        /\ IF plat = "windows" THEN DOMAIN h.live = Owners /\ h.old \subseteq Living(h) ELSE h.old = {}
    BY DEF Good, Held
  <2>2. k.old \subseteq h.old /\ (h.live[o] \subseteq S => o \notin k.old)
    BY <2>1
  <2>3. ASSUME plat = "windows"
        PROVE  /\ DOMAIN k.live = Owners
               /\ \A x \in Owners : k.live[x] = IF x = o THEN h.live[x] \ S ELSE h.live[x]
    BY <2>1, <2>3
  <2>4. ASSUME plat = "windows" PROVE k.old \subseteq Living(k)
    <3> SUFFICES ASSUME NEW x \in k.old PROVE x \in Living(k)
      OBVIOUS
    <3> HIDE DEF k, S
    <3>1. x \in Owners \ {Ctx} /\ h.live[x] # {}
      BY <2>1, <2>2, <2>4 DEF Living
    <3>2. k.live[x] # {}
      BY <2>2, <2>3, <2>4, <3>1
    <3>3. QED
      BY <3>1, <3>2 DEF Living
  <2>5. QED
    BY <2>1, <2>2, <2>3, <2>4 DEF Held
<1>3. Framed(k, q) /\ "lock" \in DOMAIN k /\ k.lock = h.lock /\ k.api = h.api
  BY DEF Good, Framed, Counted
<1>4. Good(k, b, q)
  BY <1>1, <1>2, <1>3 DEF Good
<1>5. \/ FreeAll(h, o, names) = h \/ FreeAll(h, o, names) = k
      \/ FreeAll(h, o, names) = Error(k, "freed twice")
      \/ FreeAll(h, o, names) = Error(k, "freed before its children")
  <2> DEFINE twice == ~(S \subseteq h.live[o]) /\ (h.api # "gl" \/ Living(h) # {})
             early == o = Ctx /\ FreedEarly(h, names)
  <2>1. FreeAll(h, o, names) = CASE S = {} -> h
                                 [] twice -> Error(k, "freed twice")
                                 [] early -> Error(k, "freed before its children")
                                 [] OTHER -> k
    BY DEF FreeAll
  <2> HIDE DEF S, k, twice, early
  <2>2. QED
    BY <2>1
<1> HIDE DEF k, S
<1>6. Good(Error(k, "freed twice"), b, q) /\ Good(Error(k, "freed before its children"), b, q)
  BY <1>4, ErrorGood
<1>7. QED
  BY <1>3, <1>4, <1>5, <1>6


\* Two states that differ only in fields the invariant does not look at.
Alike(h, k) ==
  /\ {"ctx", "drift", "api", "ref", "device", "hash", "live", "old", "quad", "err", "lock"} \subseteq DOMAIN k
  /\ {"rem", "interval", "dev"} \subseteq DOMAIN k.ctx
  /\ k.ctx.rem = h.ctx.rem /\ k.ctx.interval = h.ctx.interval /\ k.ctx.dev \in 0..2
  /\ k.drift = h.drift /\ k.api = h.api /\ k.ref = h.ref /\ k.device = h.device
  /\ k.hash = h.hash /\ k.live = h.live /\ k.old = h.old /\ k.quad = h.quad
  /\ k.err = h.err /\ k.lock = h.lock

LEMMA AlikeGood ==
  ASSUME NEW h, NEW k, NEW b, NEW q, Good(h, b, q), Alike(h, k)
  PROVE  Good(k, b, q)
<1>1. Timed(k) /\ Counted(k)
  BY DEF Good, Alike, Timed, Counted
<1>2. Held(k)
  BY DEF Good, Alike, Held, Living
<1>3. Framed(k, q) /\ "lock" \in DOMAIN k /\ k.lock = h.lock /\ k.api = h.api
  BY DEF Good, Alike, Framed, Counted
<1>4. QED
  BY <1>1, <1>2, <1>3 DEF Good

LEMMA FieldsGood ==
  ASSUME NEW h, NEW b, NEW q, Good(h, b, q), NEW x
  PROVE  /\ Good([h EXCEPT !.ptr = x], b, q) /\ Good([h EXCEPT !.rec = x], b, q)
         /\ Good([h EXCEPT !.sent = x], b, q) /\ Good([h EXCEPT !.len = x], b, q)
         /\ Good([h EXCEPT !.ctx.bb = x], b, q) /\ Good([h EXCEPT !.ctx.size = x], b, q)
         /\ Good([h EXCEPT !.ctx.init = x], b, q) /\ Good([h EXCEPT !.win.up = x], b, q)
         /\ Good([h EXCEPT !.win.size = x], b, q)
         /\ x \in 0..2 => Good([h EXCEPT !.ctx.dev = x], b, q)
         /\ \A y : Good([h EXCEPT !.len[x] = y], b, q)
<1>0. /\ {"ctx", "drift", "api", "ref", "device", "hash", "live", "old", "quad", "err", "lock"} \subseteq DOMAIN h
      /\ {"rem", "interval", "dev"} \subseteq DOMAIN h.ctx /\ h.ctx.dev \in 0..2
  BY DEF Good, Timed, Counted, Held, Framed
<1>1. Alike(h, [h EXCEPT !.ptr = x])
  BY <1>0 DEF Alike
<1>2. Alike(h, [h EXCEPT !.rec = x])
  BY <1>0 DEF Alike
<1>3. Alike(h, [h EXCEPT !.sent = x])
  BY <1>0 DEF Alike
<1>4. Alike(h, [h EXCEPT !.len = x])
  BY <1>0 DEF Alike
<1>5. Alike(h, [h EXCEPT !.ctx.bb = x])
  BY <1>0 DEF Alike
<1>6. Alike(h, [h EXCEPT !.ctx.size = x])
  BY <1>0 DEF Alike
<1>7. Alike(h, [h EXCEPT !.ctx.init = x])
  BY <1>0 DEF Alike
<1>8. Alike(h, [h EXCEPT !.win.up = x])
  BY <1>0 DEF Alike
<1>9. Alike(h, [h EXCEPT !.win.size = x])
  BY <1>0 DEF Alike
<1>10. x \in 0..2 => Alike(h, [h EXCEPT !.ctx.dev = x])
  BY <1>0 DEF Alike
<1>11. \A y : Alike(h, [h EXCEPT !.len[x] = y])
  BY <1>0 DEF Alike
<1>12. QED
  BY <1>1, <1>2, <1>3, <1>4, <1>5, <1>6, <1>7, <1>8, <1>9, <1>10, <1>11, AlikeGood

LEMMA DriverGood ==
  ASSUME NEW h, NEW b, NEW q, Good(h, b, q)
  PROVE  /\ \A w : w # "planes of two frames" => Good(Error(h, w), b, q)
         /\ \A o, names : /\ Good(MakeAll(h, o, names), b, q)
                          /\ Good(FreeAll(h, o, names), b, q)
                          /\ Good(Destroyed(h, o, names), b, q)
         /\ \A o, n : Good(Make(h, o, n), b, q) /\ Good(Free(h, o, n), b, q)
         /\ \A uses : Good(Use(h, uses), b, q) /\ Good(Record(h, uses), b, q)
         /\ Good(Submit(h), b, q) /\ Good(NewDevice(h), b, q)
<1>1. \A w : w # "planes of two frames" => Good(Error(h, w), b, q)
  BY ErrorGood
<1>2. ASSUME NEW o, NEW names
      PROVE  /\ Good(MakeAll(h, o, names), b, q) /\ Good(FreeAll(h, o, names), b, q)
             /\ Good(Destroyed(h, o, names), b, q)
  BY MakeAllGood, FreeAllGood, FieldsGood DEF Destroyed
<1>3. ASSUME NEW o, NEW n PROVE Good(Make(h, o, n), b, q) /\ Good(Free(h, o, n), b, q)
  BY <1>2 DEF Make, Free
<1>4. ASSUME NEW uses PROVE Good(Use(h, uses), b, q) /\ Good(Record(h, uses), b, q)
  <2>1. Good(Use(h, uses), b, q)
    BY <1>1 DEF Use
  <2>2. QED
    BY <2>1, FieldsGood DEF Record
<1>5. Good(Submit(h), b, q)
  BY <1>1, FieldsGood DEF Submit
<1>6. Good(NewDevice(h), b, q)
  <2>1. \A x \in 0..2 : Good([h EXCEPT !.ctx.dev = x], b, q)
    BY FieldsGood
  <2>2. Good([h EXCEPT !.ctx.dev = 1], b, q) /\ Good([h EXCEPT !.ctx.dev = 2], b, q)
    BY <2>1
  <2>3. NewDevice(h) = [h EXCEPT !.ctx.dev = 1] \/ NewDevice(h) = [h EXCEPT !.ctx.dev = 2]
    BY DEF NewDevice
  <2>4. QED
    BY <2>2, <2>3
<1>7. QED
  BY <1>1, <1>2, <1>3, <1>4, <1>5, <1>6

LEMMA Remainder ==
  ASSUME NEW r \in 0..99, NEW n \in Nat
  PROVE  r + n - 100 * ((r + n) \div 100) = (r + n) % 100 /\ (r + n) % 100 \in 0..99
<1>1. \A m \in Nat : m % 100 \in 0..99
  OBVIOUS
<1>2. ASSUME NEW m \in Nat PROVE m - 100 * (m \div 100) = m % 100
  OBVIOUS
<1>3. QED
  BY <1>1, <1>2

\* struct sync: what is not waited for is what remains.
LEMMA SyncGood ==
  ASSUME NEW h, NEW b, NEW q, Good(h, b, q)
  PROVE  /\ Good(sync_next_interval(h), b, q)
         /\ \A interval \in Nat : Good(sync_set_interval(h, interval), b, q)
<1>1. ASSUME NEW k, k = sync_next_interval(h) PROVE Good(k, b, q)
  <2> DEFINE rem == h.ctx.rem + h.ctx.interval
  <2>1. Timed(h) /\ h.ctx.rem \in 0..99 /\ h.ctx.interval \in Nat /\ rem \in Nat
    BY DEF Good, Timed
  <2>2. rem % 100 \in 0..99 /\ h.drift + h.ctx.interval - 100 * (rem \div 100) = rem % 100
    <3>1. h.drift = h.ctx.rem
      BY <2>1 DEF Timed
    <3>2. h.ctx.rem + h.ctx.interval - 100 * (rem \div 100) = rem % 100 /\ rem % 100 \in 0..99
      BY <2>1, Remainder
    <3>3. QED
      BY <3>1, <3>2
  <2>3. k.drift = rem % 100 /\ k.ctx.rem = rem % 100
    BY <1>1, <2>1, <2>2 DEF sync_next_interval, Timed
  <2>4. Timed(k)
    BY <1>1, <2>1, <2>2, <2>3 DEF sync_next_interval, Timed
  <2>5. Counted(k) /\ "lock" \in DOMAIN k /\ k.lock = h.lock /\ k.api = h.api
    BY <1>1 DEF sync_next_interval, Good, Counted
  <2>6. Held(k) /\ Framed(k, q)
    <3>1. Held(h) /\ Framed(h, q)
      BY DEF Good
    <3>2. /\ {"live", "old", "quad", "err"} \subseteq DOMAIN k
          /\ k.live = h.live /\ k.old = h.old /\ k.quad = h.quad /\ k.err = h.err
      BY <1>1, <3>1 DEF sync_next_interval, Held, Framed
    <3>3. QED
      BY <3>1, <3>2 DEF Held, Framed, Living
  <2>7. QED
    BY <2>4, <2>5, <2>6 DEF Good
<1>2. ASSUME NEW interval \in Nat, NEW k, k = sync_set_interval(h, interval) PROVE Good(k, b, q)
  <2>1. Timed(k)
    <3>1. Timed(h)
      BY DEF Good
    <3>2. k.drift = 0 /\ k.ctx.rem = 0 /\ k.ctx.interval = interval /\ k.ctx.dev = h.ctx.dev
      BY <1>2, <3>1 DEF sync_set_interval, Timed
    <3>3. QED
      BY <1>2, <3>1, <3>2 DEF sync_set_interval, Timed
  <2>2. Counted(k) /\ Held(k) /\ Framed(k, q) /\ "lock" \in DOMAIN k /\ k.lock = h.lock /\ k.api = h.api
    BY <1>2 DEF sync_set_interval, Good, Counted, Held, Living, Framed
  <2>3. QED
    BY <2>1, <2>2 DEF Good
<1>3. QED
  BY <1>1, <1>2

\* gfx_mutex.
LEMMA LockGood ==
  ASSUME NEW h, NEW a, NEW q
  PROVE  /\ Good(h, Off(a), q) => Good(mty_gfx_lock(h), On(a), q)
         /\ Good(h, On(a), q) \/ Good(h, Off(a), q) => Good(mty_gfx_unlock(h), Off(a), q)
<1>0. /\ Off(a).api = a /\ On(a).api = a /\ Off(a).lock = FALSE /\ On(a).lock = TRUE
      /\ "locked twice" # "planes of two frames" /\ "not locked" # "planes of two frames"
  BY DEF Off, On
<1>1. ASSUME NEW b, Good(h, b, q), b.api = a, NEW c, c.api = a, NEW k, k = [h EXCEPT !.lock = c.lock]
      PROVE  Good(k, c, q)
  <2>1. Timed(k) /\ Counted(k)
    BY <1>1 DEF Good, Timed, Counted
  <2>2. Held(k) /\ Framed(k, q) /\ "lock" \in DOMAIN k /\ k.lock = c.lock /\ k.api = c.api
    BY <1>1 DEF Good, Held, Living, Framed, Counted
  <2>3. QED
    BY <2>1, <2>2 DEF Good
<1>2. ASSUME NEW b, Good(h, b, q), b.api = a, NEW c, c.api = a, "refresh" \in Faults
      PROVE  Good(Error(h, "locked twice"), c, q) /\ Good(Error(h, "not locked"), c, q)
  <2>1. Good(Error(h, "locked twice"), b, q) /\ Good(Error(h, "not locked"), b, q)
    BY <1>0, <1>2, DriverGood
  <2>2. QED
    BY <1>2, <2>1 DEF Good
<1>3. Good(h, Off(a), q) => Good(mty_gfx_lock(h), On(a), q)
  <2> SUFFICES ASSUME Good(h, Off(a), q) PROVE Good(mty_gfx_lock(h), On(a), q)
    OBVIOUS
  <2>1. CASE h.lock
    <3>1. mty_gfx_lock(h) = Error(h, "locked twice") /\ "refresh" \in Faults
      BY <1>0, <2>1 DEF mty_gfx_lock, Good
    <3>2. QED
      BY <1>0, <1>2, <3>1
  <2>2. CASE ~h.lock
    <3>1. mty_gfx_lock(h) = [h EXCEPT !.lock = On(a).lock]
      BY <1>0, <2>2 DEF mty_gfx_lock
    <3>2. QED
      BY <1>0, <1>1, <3>1
  <2>3. QED
    BY <2>1, <2>2
<1>4. ASSUME NEW b, Good(h, b, q), b = On(a) \/ b = Off(a) PROVE Good(mty_gfx_unlock(h), Off(a), q)
  <2>1. CASE h.lock
    <3>1. mty_gfx_unlock(h) = [h EXCEPT !.lock = Off(a).lock]
      BY <1>0, <2>1 DEF mty_gfx_unlock
    <3>2. QED
      BY <1>0, <1>1, <1>4, <3>1
  <2>2. CASE ~h.lock
    <3>1. mty_gfx_unlock(h) = Error(h, "not locked")
      BY <2>2 DEF mty_gfx_unlock
    <3>2. CASE b = Off(a)
      <4>1. Good(Error(h, "not locked"), b, q)
        BY <1>0, <1>4, DriverGood
      <4>2. QED
        BY <3>1, <3>2, <4>1
    <3>3. CASE b = On(a)
      <4>1. "refresh" \in Faults
        BY <1>0, <1>4, <2>2, <3>3 DEF Good
      <4>2. QED
        BY <1>0, <1>2, <1>4, <3>1, <3>3, <4>1
    <3>4. QED
      BY <1>4, <3>2, <3>3
  <2>3. QED
    BY <2>1, <2>2
<1>5. QED
  BY <1>3, <1>4

-----------------------------------------------------------------------------
(* The formats of a layer and of its planes. *)

LEMMA QuadGood ==
  ASSUME NEW h, NEW b, NEW q, Good(h, b, q), NEW r \in Quads
  PROVE  Good([h EXCEPT !.quad = r], b, r)
<1> DEFINE k == [h EXCEPT !.quad = r]
<1>1. Timed(k) /\ Counted(k)
  BY DEF Good, Timed, Counted
<1>2. Held(k) /\ "lock" \in DOMAIN k /\ k.lock = h.lock /\ k.api = h.api
  BY DEF Good, Held, Living, Counted
<1>3. Framed(k, r)
  BY DEF Good, Framed
<1>4. QED
  BY <1>1, <1>2, <1>3 DEF Good

\* A plane has the frame's format and size; a layer has the frame's format.
With(q, l, p, fmt, size) == [q EXCEPT ![l].plane[p] = [fmt |-> fmt, size |-> size]]
Formatted(q, l, fmt) == IF fmt = "none" THEN q ELSE [q EXCEPT ![l].fmt = fmt]
Filled(q, l, fmt, size) ==
  CASE fmt = "bgra" -> With(q, l, 1, fmt, size)
    [] fmt = "nv12" -> With(With(q, l, 1, fmt, size), l, 2, fmt, size)
    [] OTHER -> q
Complete(q, l, fmt, size) == Filled(Formatted(q, l, fmt), l, fmt, size)

FmtOf(q, l) == q[l].fmt
PlaneOf(q, l, p) == q[l].plane[p]

LEMMA WithType ==
  ASSUME NEW q \in Quads, NEW l \in Layers, NEW p \in PlaneIds, NEW fmt \in Named, NEW size \in Extents
  PROVE  /\ With(q, l, p, fmt, size) \in Quads
         /\ FmtOf(With(q, l, p, fmt, size), l) = FmtOf(q, l)
         /\ PlaneOf(With(q, l, p, fmt, size), l, p) = [fmt |-> fmt, size |-> size]
         /\ \A x \in PlaneIds \ {p} : PlaneOf(With(q, l, p, fmt, size), l, x) = PlaneOf(q, l, x)
         /\ PlaneOf(q, l, p) = [fmt |-> fmt, size |-> size] => With(q, l, p, fmt, size) = q
<1> USE DEF Quads, PlaneIds, Extents, FmtOf, PlaneOf
<1>1. With(q, l, p, fmt, size) \in Quads
  BY DEF With
<1>2. /\ FmtOf(With(q, l, p, fmt, size), l) = FmtOf(q, l)
      /\ PlaneOf(With(q, l, p, fmt, size), l, p) = [fmt |-> fmt, size |-> size]
      /\ \A x \in PlaneIds \ {p} : PlaneOf(With(q, l, p, fmt, size), l, x) = PlaneOf(q, l, x)
  BY DEF With
<1>3. PlaneOf(q, l, p) = [fmt |-> fmt, size |-> size] => With(q, l, p, fmt, size) = q
  BY DEF With
<1>4. QED
  BY <1>1, <1>2, <1>3

LEMMA FormattedType ==
  ASSUME NEW q \in Quads, NEW l \in Layers, NEW fmt \in Named
  PROVE  /\ Formatted(q, l, fmt) \in Quads
         /\ FmtOf(Formatted(q, l, fmt), l) = IF fmt = "none" THEN FmtOf(q, l) ELSE fmt
         /\ [q EXCEPT ![l] = NewQuad] \in Quads
<1> USE DEF Quads, PlaneIds, Extents, FmtOf, PlaneOf
<1>1. Formatted(q, l, fmt) \in Quads
  BY DEF Formatted
<1>2. [q EXCEPT ![l] = NewQuad] \in Quads
  BY DEF NewQuad, NoPlane, Named
<1>3. FmtOf(Formatted(q, l, fmt), l) = IF fmt = "none" THEN FmtOf(q, l) ELSE fmt
  BY DEF Formatted
<1>4. QED
  BY <1>1, <1>2, <1>3

LEMMA PlaneGood ==
  ASSUME NEW h, NEW b, NEW q, Good(h, b, q),
         NEW l \in Layers, NEW p \in PlaneIds, NEW fmt \in Named, NEW size \in Extents
  PROVE  /\ Good(SetPlane(h, l, p, fmt, size), b, With(q, l, p, fmt, size))
         /\ Good(NoPlaneAt(h, l, p), b, With(q, l, p, "none", 0))
<1>1. h.quad = q /\ q \in Quads
  BY DEF Good, Framed
<1>2. "none" \in Named /\ 0 \in Extents
  BY DEF Named, Extents
<1>3. With(q, l, p, fmt, size) \in Quads /\ With(q, l, p, "none", 0) \in Quads
  <2>1. With(q, l, p, fmt, size) \in Quads
    BY <1>1, WithType
  <2>2. With(q, l, p, "none", 0) \in Quads
    BY <1>1, <1>2, WithType
  <2>3. QED
    BY <2>1, <2>2
<1>4. SetPlane(h, l, p, fmt, size) = [h EXCEPT !.quad = With(q, l, p, fmt, size)]
  BY <1>1 DEF SetPlane, With
<1>5. NoPlaneAt(h, l, p) = [h EXCEPT !.quad = With(q, l, p, "none", 0)]
  BY <1>1 DEF NoPlaneAt, NoPlane, With
<1>6. QED
  BY <1>3, <1>4, <1>5, QuadGood

LEMMA FormatGood ==
  ASSUME NEW h, NEW b, NEW q, Good(h, b, q), NEW l \in Layers, NEW fmt \in Named
  PROVE  /\ Good(SetFormat(h, l, fmt), b, Formatted(q, l, fmt))
         /\ Good([h EXCEPT !.quad[l] = NewQuad], b, [q EXCEPT ![l] = NewQuad])
<1>1. h.quad = q /\ q \in Quads
  BY DEF Good, Framed
<1>2. Formatted(q, l, fmt) \in Quads /\ [q EXCEPT ![l] = NewQuad] \in Quads
  BY <1>1, FormattedType
<1>3. SetFormat(h, l, fmt) = IF fmt = "none" THEN h ELSE [h EXCEPT !.quad = Formatted(q, l, fmt)]
  BY <1>1 DEF SetFormat, Formatted
<1>4. [h EXCEPT !.quad[l] = NewQuad] = [h EXCEPT !.quad = [q EXCEPT ![l] = NewQuad]]
  BY <1>1
<1>5. fmt = "none" => Formatted(q, l, fmt) = q
  BY DEF Formatted
<1>6. QED
  BY <1>2, <1>3, <1>4, <1>5, QuadGood

\* Whatever the formats are.
Some(h, b) == \E q : Good(h, b, q)

LEMMA SamePlane ==
  ASSUME NEW h, NEW b, NEW q, Good(h, b, q),
         NEW l \in Layers, NEW p \in PlaneIds, NEW fmt \in Named, NEW size \in Extents,
         h.quad[l].plane[p] = [fmt |-> fmt, size |-> size]
  PROVE  Good(h, b, With(q, l, p, fmt, size))
<1>1. q \in Quads /\ PlaneOf(q, l, p) = [fmt |-> fmt, size |-> size]
  BY DEF Good, Framed, PlaneOf
<1>2. With(q, l, p, fmt, size) = q
  BY <1>1, WithType
<1>3. QED
  BY <1>2

\* The planes that a quad shows belong to one frame, unless one is repeated after one
\* that failed.
Whole(q, l) ==
  "redraw" \in Faults \/ \E size \in {1, 2} : \A p \in Range(Planes(FmtOf(q, l))) :
    PlaneOf(q, l, p) = [fmt |-> FmtOf(q, l), size |-> size]

Drawable(q, l, fmt, size) ==
  \/ fmt \in Formats /\ size \in {1, 2}
  \/ fmt = "none" /\ size = 0 /\ Whole(q, l)

LEMMA WholeGood ==
  ASSUME NEW h, NEW b, NEW q, Good(h, b, q), NEW l, Whole(q, l)
  PROVE  Good(Shown(h, l), b, q)
<1>1. h.quad = q
  BY DEF Good, Framed
<1>2. OneFrame(h, l) \/ "redraw" \in Faults
  BY <1>1 DEF OneFrame, Whole, FmtOf, PlaneOf
<1>3. QED
  BY <1>2, ErrorGood DEF Shown

LEMMA CompleteWhole ==
  ASSUME NEW q \in Quads, NEW l \in Layers, NEW fmt, NEW size, Drawable(q, l, fmt, size)
  PROVE  Complete(q, l, fmt, size) \in Quads /\ Whole(Complete(q, l, fmt, size), l)
<1> DEFINE r == Formatted(q, l, fmt)
           one == With(r, l, 1, fmt, size)
           two == With(one, l, 2, fmt, size)
<1>0. /\ fmt \in Named /\ size \in Extents /\ 1 \in PlaneIds /\ 2 \in PlaneIds
      /\ Range(<<1>>) = {1} /\ Range(<<1, 2>>) = {1, 2}
  BY DEF Drawable, Named, Range, Extents, PlaneIds
<1>1. r \in Quads /\ FmtOf(r, l) = IF fmt = "none" THEN FmtOf(q, l) ELSE fmt
  BY <1>0, FormattedType
<1> HIDE DEF r
<1>2. ASSUME NEW x \in Quads, NEW p \in PlaneIds
      PROVE  /\ With(x, l, p, fmt, size) \in Quads
             /\ FmtOf(With(x, l, p, fmt, size), l) = FmtOf(x, l)
             /\ PlaneOf(With(x, l, p, fmt, size), l, p) = [fmt |-> fmt, size |-> size]
             /\ \A y \in PlaneIds \ {p} : PlaneOf(With(x, l, p, fmt, size), l, y) = PlaneOf(x, l, y)
  <2>1. fmt \in Named /\ size \in Extents
    BY <1>0
  <2>2. With(x, l, p, fmt, size) \in Quads
    BY <2>1, WithType
  <2>3. FmtOf(With(x, l, p, fmt, size), l) = FmtOf(x, l)
    BY <2>1, WithType
  <2>4. PlaneOf(With(x, l, p, fmt, size), l, p) = [fmt |-> fmt, size |-> size]
    BY <2>1, WithType
  <2>5. \A y \in PlaneIds \ {p} : PlaneOf(With(x, l, p, fmt, size), l, y) = PlaneOf(x, l, y)
    BY <2>1, WithType
  <2>6. QED
    BY <2>2, <2>3, <2>4, <2>5
<1>3. /\ one \in Quads /\ FmtOf(one, l) = FmtOf(r, l)
      /\ PlaneOf(one, l, 1) = [fmt |-> fmt, size |-> size]
  BY <1>0, <1>1, <1>2
<1> HIDE DEF one
<1>4. /\ two \in Quads /\ FmtOf(two, l) = FmtOf(r, l) /\ PlaneOf(two, l, 1) = PlaneOf(one, l, 1)
      /\ PlaneOf(two, l, 2) = [fmt |-> fmt, size |-> size]
  BY <1>0, <1>2, <1>3
<1> HIDE DEF two
<1>5. CASE fmt = "bgra" /\ size \in {1, 2}
  <2>1. Complete(q, l, fmt, size) = one
    BY <1>5 DEF Complete, Filled, one, r
  <2>2. FmtOf(one, l) = fmt /\ Planes(FmtOf(one, l)) = <<1>>
    BY <1>1, <1>3, <1>5 DEF Planes
  <2>3. Whole(one, l)
    BY <1>0, <1>3, <1>5, <2>2 DEF Whole
  <2>4. QED
    BY <1>3, <2>1, <2>3
<1>6. CASE fmt = "nv12" /\ size \in {1, 2}
  <2>1. Complete(q, l, fmt, size) = two
    BY <1>6 DEF Complete, Filled, two, one, r
  <2>2. FmtOf(two, l) = fmt /\ Planes(FmtOf(two, l)) = <<1, 2>>
    BY <1>1, <1>4, <1>6 DEF Planes
  <2>3. Whole(two, l)
    BY <1>0, <1>3, <1>4, <1>6, <2>2 DEF Whole
  <2>4. QED
    BY <1>4, <2>1, <2>3
<1>7. CASE fmt = "none" /\ Whole(q, l)
  <2>1. Complete(q, l, fmt, size) = q
    BY <1>7 DEF Complete, Filled, Formatted
  <2>2. QED
    BY <1>7, <2>1
<1>8. QED
  BY <1>5, <1>6, <1>7 DEF Drawable, Formats

\* What loading a plane, and a frame, leads to.
PlaneLoaded(r, b, q, l, p, fmt, size) ==
  Some(r.g, b) /\ (r.ok => Good(r.g, b, With(q, l, p, fmt, size)))
Loaded(r, b, q, l, fmt, size) ==
  Some(r.g, b) /\ (r.ok => Good(r.g, b, Filled(q, l, fmt, size)))

LEMMA FrameLoaded ==
  ASSUME NEW h, NEW b, NEW q, Good(h, b, q), NEW l, NEW fmt, NEW size, NEW r,
         \/ fmt = "none" /\ r = Result(h, TRUE)
         \/ fmt = "bgra" /\ PlaneLoaded(r, b, q, l, 1, fmt, size)
         \/ fmt = "nv12" /\ \E s : /\ PlaneLoaded(s, b, q, l, 1, fmt, size)
                                   /\ ~s.ok => r = s
                                   /\ s.ok => PlaneLoaded(r, b, With(q, l, 1, fmt, size), l, 2, fmt, size)
  PROVE  Loaded(r, b, q, l, fmt, size)
<1>1. CASE fmt = "none" /\ r = Result(h, TRUE)
  <2>1. r.g = h /\ Filled(q, l, fmt, size) = q
    BY <1>1 DEF Result, Filled
  <2>2. QED
    BY <2>1 DEF Loaded, Some
<1>2. CASE fmt = "bgra" /\ PlaneLoaded(r, b, q, l, 1, fmt, size)
  <2>1. Filled(q, l, fmt, size) = With(q, l, 1, fmt, size)
    BY <1>2 DEF Filled
  <2>2. QED
    BY <1>2, <2>1 DEF Loaded, PlaneLoaded
<1>3. CASE fmt = "nv12" /\ \E s : /\ PlaneLoaded(s, b, q, l, 1, fmt, size)
                                  /\ ~s.ok => r = s
                                  /\ s.ok => PlaneLoaded(r, b, With(q, l, 1, fmt, size), l, 2, fmt, size)
  <2>1. Filled(q, l, fmt, size) = With(With(q, l, 1, fmt, size), l, 2, fmt, size)
    BY <1>3 DEF Filled
  <2>2. QED
    BY <1>3, <2>1 DEF Loaded, PlaneLoaded
<1>4. QED
  BY <1>1, <1>2, <1>3

\* A frame that was loaded may be shown.
LEMMA LoadedShown ==
  ASSUME NEW h, NEW b, NEW q, Good(h, b, q), NEW l \in Layers, NEW fmt, NEW size,
         Drawable(q, l, fmt, size), NEW r, Loaded(r, b, Formatted(q, l, fmt), l, fmt, size)
  PROVE  Some(r.g, b) /\ (r.ok => Some(Shown(r.g, l), b))
<1>1. q \in Quads
  BY DEF Good, Framed
<1>2. Whole(Complete(q, l, fmt, size), l)
  BY <1>1, CompleteWhole
<1>3. Some(r.g, b) /\ (r.ok => Good(r.g, b, Complete(q, l, fmt, size)))
  BY DEF Loaded, Complete
<1>4. r.ok => Good(Shown(r.g, l), b, Complete(q, l, fmt, size))
  BY <1>2, <1>3, WholeGood
<1>5. QED
  BY <1>3, <1>4 DEF Some

\* Structures.
LEMMA StepsGood ==
  ASSUME NEW h, NEW b, NEW q, Good(h, b, q), NEW o, NEW names
  PROVE  /\ Good([h EXCEPT !.ptr = @ \cup {o}], b, q)
         /\ Good(MakeAll([h EXCEPT !.ptr = @ \cup {o}], o, names), b, q)
<1>1. Good([h EXCEPT !.ptr = @ \cup {o}], b, q)
  BY FieldsGood
<1>2. QED
  BY <1>1, DriverGood

\* A device that was lost.
LEMMA LostGood ==
  ASSUME NEW h, NEW b, NEW q, Good(h, b, q), plat = "windows"
  PROVE  Good([h EXCEPT !.old = @ \cup Living(h)], b, q)
<1> DEFINE k == [h EXCEPT !.old = @ \cup Living(h)]
<1>1. Timed(k) /\ Counted(k)
  BY DEF Good, Timed, Counted
<1>2. Living(k) = Living(h)
  BY DEF Living
<1>3. Held(k)
  <2>1. /\ {"live", "old"} \subseteq DOMAIN h /\ DOMAIN h.live = Owners /\ h.old \subseteq Living(h)
    BY DEF Good, Held
  <2>2. /\ {"live", "old"} \subseteq DOMAIN k /\ DOMAIN k.live = Owners /\ k.old \subseteq Living(h)
    BY <2>1
  <2>3. QED
    BY <1>2, <2>2 DEF Held
<1>4. Framed(k, q) /\ "lock" \in DOMAIN k /\ k.lock = h.lock /\ k.api = h.api
  BY DEF Good, Framed, Counted
<1>5. QED
  BY <1>1, <1>3, <1>4 DEF Good

\* A new context counts the blanks from the start.
LEMMA StartGood ==
  ASSUME NEW h, NEW b, NEW q, Good(h, b, q)
  PROVE  Good(sync_set_interval(h, 0), b, q)
<1>1. 0 \in Nat
  OBVIOUS
<1>2. QED
  BY <1>1, SyncGood

\* The formats of a layer change alone, and those of a plane as a whole.
LEMMA WithAlone ==
  ASSUME NEW q \in Quads, NEW l \in Layers, NEW r, NEW x, r = [q EXCEPT ![l] = x],
         NEW p, NEW fmt, NEW size
  PROVE  \E y : With(r, l, p, fmt, size) = [q EXCEPT ![l] = y]
<1>1. With(r, l, p, fmt, size) = [q EXCEPT ![l] = [x EXCEPT !.plane[p] = [fmt |-> fmt, size |-> size]]]
  BY DEF With, Quads
<1>2. QED
  BY <1>1

LEMMA WithTwice ==
  ASSUME NEW q \in Quads, NEW l \in Layers, NEW p, NEW f, NEW s, NEW fmt, NEW size
  PROVE  With(With(q, l, p, f, s), l, p, fmt, size) = With(q, l, p, fmt, size)
<1> DEFINE v == [fmt |-> fmt, size |-> size]
           x == [q[l] EXCEPT !.plane[p] = [fmt |-> f, size |-> s]]
<1>1. With(q, l, p, f, s) = [q EXCEPT ![l] = x]
  BY DEF With
<1>2. With(With(q, l, p, f, s), l, p, fmt, size) = [q EXCEPT ![l] = [x EXCEPT !.plane[p] = v]]
  BY <1>1 DEF With, Quads
<1>3. "plane" \in DOMAIN q[l]
  BY DEF Quads
<1>4. [x EXCEPT !.plane[p] = v] = [q[l] EXCEPT !.plane[p] = v]
  BY <1>3
<1>5. QED
  BY <1>2, <1>4 DEF With

LEMMA QuadOnly ==
  ASSUME NEW q \in Quads, NEW l \in Layers
  PROVE  /\ q = [q EXCEPT ![l] = q[l]]
         /\ \A x : [[q EXCEPT ![l] = x] EXCEPT ![l] = NewQuad] = [q EXCEPT ![l] = NewQuad]
BY DEF Quads

LEMMA QuadsEmptied ==
  ASSUME NEW h, NEW b, NEW q, Good(h, b, q), NEW l \in Layers
  PROVE  /\ q = [q EXCEPT ![l] = q[l]]
         /\ \E x : With(With(q, l, 1, "none", 0), l, 2, "none", 0) = [q EXCEPT ![l] = x]
<1>1. q \in Quads
  BY DEF Good, Framed
<1>2. q = [q EXCEPT ![l] = q[l]]
  BY <1>1, QuadOnly
<1>3. PICK x : With(q, l, 1, "none", 0) = [q EXCEPT ![l] = x]
  BY <1>1, <1>2, WithAlone
<1>4. \E y : With(With(q, l, 1, "none", 0), l, 2, "none", 0) = [q EXCEPT ![l] = y]
  BY <1>1, <1>3, WithAlone
<1>5. QED
  BY <1>2, <1>4

LEMMA ResultIs == \A k, ok : Result(k, ok).g = k /\ Result(k, ok).ok = ok
BY DEF Result

\* What the creation of a structure leads to.
Created(r, b, q) == Some(r.g, b) /\ (r.ok => Good(r.g, b, q))

LEMMA HasGood ==
  ASSUME NEW h, NEW b, NEW q, Good(h, b, q), NEW o, NEW x
  PROVE  Good([h EXCEPT !.has[o] = x], b, q)
<1>1. /\ {"ctx", "drift", "api", "ref", "device", "hash", "live", "old", "quad", "err", "lock"} \subseteq DOMAIN h
      /\ {"rem", "interval", "dev"} \subseteq DOMAIN h.ctx /\ h.ctx.dev \in 0..2
  BY DEF Good, Timed, Counted, Held, Framed
<1>2. Alike(h, [h EXCEPT !.has[o] = x])
  BY <1>1 DEF Alike
<1>3. QED
  BY <1>2, AlikeGood

\* Elsewhere a device that is lost takes its objects with it.
LEMMA EmptiedGood ==
  ASSUME NEW h, NEW b, NEW q, Good(h, b, q), plat # "windows", NEW live
  PROVE  Good([h EXCEPT !.live = live], b, q)
<1> DEFINE k == [h EXCEPT !.live = live]
<1>1. Timed(k) /\ Counted(k)
  BY DEF Good, Timed, Counted
<1>2. Held(k)
  BY DEF Good, Held
<1>3. Framed(k, q) /\ "lock" \in DOMAIN k /\ k.lock = h.lock /\ k.api = h.api
  BY DEF Good, Framed, Counted
<1>4. QED
  BY <1>1, <1>2, <1>3 DEF Good

-----------------------------------------------------------------------------
(* Vulkan. *)

\* The count of the library's users.
LEMMA VkRefGood ==
  ASSUME NEW h, NEW b, NEW q, Good(h, b, q)
  PROVE  /\ \A r \in vkproc_global_init(h) : Good(r.g, b, q)
         /\ Good(vkproc_global_destroy(h), b, q)
<1>1. ASSUME NEW n \in Nat PROVE Good([h EXCEPT !.ref = n], b, q)
  <2> DEFINE k == [h EXCEPT !.ref = n]
  <2>1. Timed(k) /\ Counted(k)
    BY DEF Good, Timed, Counted
  <2>2. Held(k) /\ Framed(k, q) /\ "lock" \in DOMAIN k /\ k.lock = h.lock
    BY DEF Good, Held, Living, Framed
  <2>3. QED
    BY <2>1, <2>2 DEF Good
<1>2. h.ref \in Nat
  BY DEF Good, Counted
<1>3. \A r \in vkproc_global_init(h) : Good(r.g, b, q)
  <2>1. Good([h EXCEPT !.ref = h.ref + 1], b, q)
    BY <1>1, <1>2
  <2>2. QED
    BY <2>1 DEF vkproc_global_init, Result
<1>4. Good(vkproc_global_destroy(h), b, q)
  <2>1. CASE h.ref = 0
    BY <2>1 DEF vkproc_global_destroy
  <2>2. CASE h.ref # 0
    <3>1. Good([h EXCEPT !.ref = h.ref - 1], b, q) /\ Good([h EXCEPT !.ref = 0], b, q)
      BY <1>1, <1>2, <2>2
    <3>2. Good(Error([h EXCEPT !.ref = 0], "unloaded while in use"), b, q)
      BY <3>1, DriverGood
    <3>3. QED
      BY <2>2, <3>1, <3>2 DEF vkproc_global_destroy
  <2>3. QED
    BY <2>1, <2>2
<1>5. QED
  BY <1>3, <1>4

LEMMA VkSharedGood ==
  ASSUME NEW h, NEW b, NEW q, Good(h, b, q)
  PROVE  /\ \A o, names : Good(DestroyedVk(h, o, names), b, q)
         /\ \A o : Good(vk_destroy_image(h, o), b, q)
         /\ \A o : Good(vk_image_gpu_copy(h, o), b, q)
         /\ Good(vk_ctx_destroy_swapchain(h), b, q)
         /\ Good(mty_vk_ctx_destroy(h), b, q)
         /\ \A r \in vk_ctx_refresh_surface(h) : Good(r.g, b, q) /\ ("refresh" \notin Faults => r.ok)
         /\ Good(vk_ctx_swapchain_barrier(h), b, q)
<1>1. ASSUME NEW o, NEW names PROVE Good(DestroyedVk(h, o, names), b, q)
  BY DriverGood, VkRefGood DEF DestroyedVk
<1>2. ASSUME NEW o PROVE Good(vk_destroy_image(h, o), b, q)
  BY DriverGood DEF vk_destroy_image
<1>3. ASSUME NEW o PROVE Good(vk_image_gpu_copy(h, o), b, q)
  BY DriverGood DEF vk_image_gpu_copy
<1>4. Good(vk_ctx_destroy_swapchain(h), b, q)
  BY DriverGood, FieldsGood DEF vk_ctx_destroy_swapchain
<1>5. Good(mty_vk_ctx_destroy(h), b, q)
  BY <1>1, FieldsGood DEF mty_vk_ctx_destroy
<1>6. ASSUME NEW r \in vk_ctx_refresh_surface(h) PROVE Good(r.g, b, q) /\ ("refresh" \notin Faults => r.ok)
  <2> DEFINE m == IF h.win.up THEN Free(h, Ctx, "surface") ELSE Error(h, "no window")
  <2>1. Good(m, b, q)
    BY DriverGood
  <2>2. r = Result(Make(m, Ctx, "surface"), TRUE) \/ (r = Result(m, FALSE) /\ "refresh" \in Faults)
    BY DEF vk_ctx_refresh_surface
  <2> HIDE DEF m
  <2>3. Good(Make(m, Ctx, "surface"), b, q)
    BY <2>1, DriverGood
  <2>4. QED
    BY <2>1, <2>2, <2>3 DEF Result
<1>7. Good(vk_ctx_swapchain_barrier(h), b, q)
  BY DriverGood DEF vk_ctx_swapchain_barrier
<1>8. QED
  BY <1>1, <1>2, <1>3, <1>4, <1>5, <1>6, <1>7

LEMMA VkCreatesGood ==
  ASSUME NEW h, NEW b, NEW q, Good(h, b, q)
  PROVE  /\ \A o : \A r \in vk_create_image(h, o) : Good(r.g, b, q)
         /\ \A r \in vk_ctx_create_swapchain(h) :
              Good(r.g, b, q) /\ ("refresh" \notin Faults => r.ok)
<1>1. ASSUME NEW o, NEW r \in vk_create_image(h, o) PROVE Good(r.g, b, q)
  <2>1. \/ r.g = MakeAll(h, o, ImageSteps)
        \/ \E k : r.g = vk_destroy_image(MakeAll(h, o, SubSeq(ImageSteps, 1, k)), o)
    BY DEF vk_create_image, Result
  <2>2. \A names : Good(MakeAll(h, o, names), b, q)
    BY DriverGood
  <2>3. \A names : Good(vk_destroy_image(MakeAll(h, o, names), o), b, q)
    BY <2>2, VkSharedGood
  <2>4. QED
    BY <2>1, <2>2, <2>3
<1>2. ASSUME NEW r \in vk_ctx_create_swapchain(h)
      PROVE  Good(r.g, b, q) /\ ("refresh" \notin Faults => r.ok)
  <2> DEFINE k == MakeAll(h, Ctx, <<"swapchain", "views", "fbs">>)
  <2>1. Good(k, b, q)
    BY DriverGood
  <2>2. \/ r.g = [k EXCEPT !.ctx.size = h.win.size] /\ r.ok
        \/ r.g = h /\ "refresh" \in Faults
    BY DEF vk_ctx_create_swapchain, Result
  <2> HIDE DEF k
  <2>3. Good([k EXCEPT !.ctx.size = h.win.size], b, q)
    BY <2>1, FieldsGood
  <2>4. QED
    BY <2>1, <2>2, <2>3
<1>3. QED
  BY <1>1, <1>2

LEMMA VkRefreshGood ==
  ASSUME NEW h, NEW a, NEW q, Good(h, Off(a), q)
  PROVE  \A k \in vk_ctx_refresh_swapchain(h) : Good(k, Off(a), q)
<1>1. CASE plat # "android"
  <2>1. Good(vk_ctx_destroy_swapchain(h), Off(a), q)
    BY VkSharedGood
  <2>2. \A r \in vk_ctx_create_swapchain(vk_ctx_destroy_swapchain(h)) : Good(r.g, Off(a), q)
    BY <2>1, VkCreatesGood
  <2>3. QED
    BY <1>1, <2>2 DEF vk_ctx_refresh_swapchain
<1>2. CASE plat = "android"
  <2> DEFINE f == vk_ctx_destroy_swapchain(mty_gfx_lock(h))
             had == Then(vk_ctx_refresh_surface(f), vk_ctx_create_swapchain)
  <2>1. Good(mty_gfx_lock(h), On(a), q)
    BY LockGood
  <2>2. Good(f, On(a), q)
    BY <2>1, VkSharedGood
  <2>4. \A k \in vk_ctx_refresh_swapchain(h) :
          k = h \/ \E r \in had : k = IF r.ok THEN mty_gfx_unlock(r.g) ELSE r.g
    BY <1>2 DEF vk_ctx_refresh_swapchain
  <2> HIDE DEF f
  <2>3. ASSUME NEW r \in had PROVE Good(r.g, On(a), q) /\ ("refresh" \notin Faults => r.ok)
    <3>1. PICK t \in vk_ctx_refresh_surface(f) : r \in IF t.ok THEN vk_ctx_create_swapchain(t.g) ELSE {t}
      BY DEF Then
    <3>2. Good(t.g, On(a), q) /\ ("refresh" \notin Faults => t.ok)
      BY <2>2, VkSharedGood
    <3>3. \A x \in vk_ctx_create_swapchain(t.g) : Good(x.g, On(a), q) /\ ("refresh" \notin Faults => x.ok)
      BY <3>2, VkCreatesGood
    <3>4. QED
      BY <3>1, <3>2, <3>3
  <2> HIDE DEF had
  <2>5. ASSUME NEW r \in had
        PROVE  Good(IF r.ok THEN mty_gfx_unlock(r.g) ELSE r.g, Off(a), q)
    <3>1. Good(r.g, On(a), q) /\ ("refresh" \notin Faults => r.ok)
      BY <2>3
    <3>2. Good(mty_gfx_unlock(r.g), Off(a), q)
      BY <3>1, LockGood
    <3>3. ~r.ok => Good(r.g, Off(a), q)
      BY <3>1 DEF Good, Off, On
    <3>4. QED
      BY <3>2, <3>3
  <2>6. QED
    BY <2>4, <2>5
<1>3. QED
  BY <1>1, <1>2

\* The results of a structure's creation.
LEMMA VkContextGood ==
  ASSUME NEW h, NEW a, NEW q, Good(h, Off(a), q)
  PROVE  \A r \in mty_vk_ctx_create(h) : Good(r.g, Off(a), q)
<1> DEFINE made == CreateVk(h, Ctx, VkContextSteps, mty_vk_ctx_destroy)
           locked(k) == IF plat # "android" THEN k
                        ELSE mty_gfx_unlock(IF k.win.up THEN mty_gfx_lock(k) ELSE Error(k, "no window"))
<1>1. \A r \in made : Good(r.g, Off(a), q)
  <2>1. ASSUME NEW k, Good(k, Off(a), q), NEW r \in Create(k, Ctx, VkContextSteps, mty_vk_ctx_destroy)
        PROVE  Good(r.g, Off(a), q)
    <3> DEFINE m(i) == MakeAll([k EXCEPT !.ptr = @ \cup {Ctx}], Ctx, SubSeq(VkContextSteps, 1, i))
    <3>1. Good([k EXCEPT !.ptr = @ \cup {Ctx}], Off(a), q)
      BY <2>1, FieldsGood
    <3>2. ASSUME NEW i PROVE Good(m(i), Off(a), q)
      BY <3>1, DriverGood
    <3>3. PICK i : r = Result(m(i), TRUE) \/ r = Result(mty_vk_ctx_destroy(m(i)), FALSE)
      BY <2>1 DEF Create
    <3> HIDE DEF m
    <3>4. Good(m(i), Off(a), q) /\ Good(mty_vk_ctx_destroy(m(i)), Off(a), q)
      BY <3>2, VkSharedGood
    <3>5. r.g = m(i) \/ r.g = mty_vk_ctx_destroy(m(i))
      BY <3>3 DEF Result
    <3>6. QED
      BY <3>4, <3>5
  <2>2. ASSUME NEW r \in made PROVE Good(r.g, Off(a), q)
    <3> DEFINE begun == {IF s.ok THEN s ELSE Result(mty_vk_ctx_destroy([s.g EXCEPT !.ptr = @ \cup {Ctx}]), FALSE) :
                           s \in vkproc_global_init(h)}
    <3>1. PICK t \in begun : r \in IF t.ok THEN Create(t.g, Ctx, VkContextSteps, mty_vk_ctx_destroy) ELSE {t}
      BY DEF CreateVk, Then
    <3>2. PICK s \in vkproc_global_init(h) :
            t = IF s.ok THEN s ELSE Result(mty_vk_ctx_destroy([s.g EXCEPT !.ptr = @ \cup {Ctx}]), FALSE)
      OBVIOUS
    <3> HIDE DEF made, begun
    <3>3. Good(s.g, Off(a), q)
      BY VkRefGood
    <3>4. Good(mty_vk_ctx_destroy([s.g EXCEPT !.ptr = @ \cup {Ctx}]), Off(a), q)
      BY <3>3, FieldsGood, VkSharedGood
    <3>5. Good(t.g, Off(a), q)
      BY <3>2, <3>3, <3>4 DEF Result
    <3>6. QED
      BY <2>1, <3>1, <3>5
  <2>3. QED
    BY <2>2
<1>2. ASSUME NEW k, Good(k, Off(a), q) PROVE Good(locked(k), Off(a), q)
  <2>1. Good(mty_gfx_lock(k), On(a), q) /\ Good(Error(k, "no window"), Off(a), q)
    BY <1>2, LockGood, DriverGood
  <2>2. QED
    BY <1>2, <2>1, LockGood
<1>3. ASSUME NEW k, Good(k, Off(a), q), NEW x PROVE Good([k EXCEPT !.ctx.size = x, !.ctx.dev = 1], Off(a), q)
  <2>1. Good([k EXCEPT !.ctx.size = x], Off(a), q)
    BY <1>3, FieldsGood
  <2>2. 1 \in 0..2
    OBVIOUS
  <2>3. QED
    BY <2>1, <2>2, FieldsGood
<1>4. ASSUME NEW r \in mty_vk_ctx_create(h) PROVE Good(r.g, Off(a), q)
  <2>1. PICK s \in made :
          r = Result(IF s.ok THEN [locked(s.g) EXCEPT !.ctx.size = h.win.size, !.ctx.dev = 1]
                        ELSE s.g, s.ok)
    BY DEF mty_vk_ctx_create
  <2> HIDE DEF made, locked
  <2>2. r.g = s.g \/ r.g = [locked(s.g) EXCEPT !.ctx.size = h.win.size, !.ctx.dev = 1]
    BY <2>1 DEF Result
  <2>3. Good(s.g, Off(a), q) /\ Good(locked(s.g), Off(a), q)
    BY <1>1, <1>2
  <2>4. Good([locked(s.g) EXCEPT !.ctx.size = h.win.size, !.ctx.dev = 1], Off(a), q)
    BY <1>3, <2>3
  <2>5. QED
    BY <2>2, <2>3, <2>4
<1>5. QED
  BY <1>4

LEMMA VkSurfaceGood ==
  ASSUME NEW h, NEW a, NEW q, Good(h, Off(a), q)
  PROVE  \A r \in mty_vk_ctx_get_surface(h) : Good(r.g, Off(a), q)
<1> DEFINE kept(k) == [k EXCEPT !.ctx.bb = FALSE]
           drawn(k) == [vk_ctx_swapchain_barrier(Record(k, {<<Ctx, {"sem0", "cmd", "views", "fbs"}>>}))
                          EXCEPT !.ctx.bb = TRUE]
           stale(k, e) == IF e = "suboptimal" THEN Error(k, "semaphore stays signaled") ELSE k
           used(k) == Use(k, {<<Ctx, {"swapchain"}>>})
           unbegun(k) == Error(k, "semaphore stays signaled")
<1>1. ASSUME NEW k, Good(k, Off(a), q), NEW e
      PROVE  /\ Good(drawn(k), Off(a), q) /\ Good(used(k), Off(a), q) /\ Good(unbegun(k), Off(a), q)
             /\ \A j \in vk_ctx_refresh_swapchain(stale(k, e)) : Good(kept(j), Off(a), q)
  <2>1. Good(Record(k, {<<Ctx, {"sem0", "cmd", "views", "fbs"}>>}), Off(a), q)
    BY <1>1, DriverGood
  <2>2. Good(drawn(k), Off(a), q)
    BY <2>1, VkSharedGood, FieldsGood
  <2>3. Good(used(k), Off(a), q) /\ Good(unbegun(k), Off(a), q)
    BY <1>1, DriverGood
  <2>4. Good(stale(k, e), Off(a), q)
    BY <1>1, DriverGood
  <2>5. \A j \in vk_ctx_refresh_swapchain(stale(k, e)) : Good(kept(j), Off(a), q)
    <3> HIDE DEF stale
    <3>1. QED
      BY <2>4, VkRefreshGood, FieldsGood
  <2>6. QED
    BY <2>2, <2>3, <2>5
<1>2. ASSUME NEW r \in mty_vk_ctx_get_surface(h), r # Result(h, TRUE)
      PROVE  \E k \in {h} \cup vk_ctx_refresh_swapchain(h), e \in Acquisitions :
               \/ r = Result(drawn(used(k)), TRUE) \/ r = Result(unbegun(used(k)), FALSE)
               \/ \E j \in vk_ctx_refresh_swapchain(stale(used(k), e)) : r = Result(kept(j), FALSE)
  <2> DEFINE step(k, e) ==
               CASE e = "out of date" \/ (e = "suboptimal" /\ plat # "android") ->
                      {Result(kept(j), FALSE) : j \in vk_ctx_refresh_swapchain(stale(k, e))}
                 [] OTHER -> {Result(drawn(k), TRUE)}
                             \cup (IF "alloc" \in Faults THEN {Result(unbegun(k), FALSE)} ELSE {})
             from == IF h.ctx.size # h.win.size THEN vk_ctx_refresh_swapchain(h) ELSE {h}
  <2>1. r \in UNION {UNION {step(used(k), e) : e \in Acquisitions} : k \in from}
    BY <1>2 DEF mty_vk_ctx_get_surface
  <2> HIDE DEF kept, drawn, stale, used, unbegun
  <2>2. PICK k \in from, e \in Acquisitions : r \in step(used(k), e)
    <3> HIDE DEF step
    <3>1. QED
      BY <2>1
  <2>3. k \in {h} \cup vk_ctx_refresh_swapchain(h)
    OBVIOUS
  <2>4. \/ r = Result(drawn(used(k)), TRUE) \/ r = Result(unbegun(used(k)), FALSE)
        \/ \E j \in vk_ctx_refresh_swapchain(stale(used(k), e)) : r = Result(kept(j), FALSE)
    BY <2>2
  <2>5. QED
    BY <2>3, <2>4
<1> HIDE DEF kept, drawn, stale, used, unbegun
<1>3. ASSUME NEW r \in mty_vk_ctx_get_surface(h) PROVE Good(r.g, Off(a), q)
  <2>1. CASE r = Result(h, TRUE)
    BY <2>1 DEF Result
  <2>2. CASE r # Result(h, TRUE)
    <3>1. PICK k \in {h} \cup vk_ctx_refresh_swapchain(h), e \in Acquisitions :
            \/ r = Result(drawn(used(k)), TRUE) \/ r = Result(unbegun(used(k)), FALSE)
            \/ \E j \in vk_ctx_refresh_swapchain(stale(used(k), e)) : r = Result(kept(j), FALSE)
      BY <1>2, <2>2
    <3>2. Good(used(k), Off(a), q)
      BY <1>1, VkRefreshGood
    <3>3. \/ r.g = drawn(used(k)) \/ r.g = unbegun(used(k))
          \/ \E j \in vk_ctx_refresh_swapchain(stale(used(k), e)) : r.g = kept(j)
      BY <3>1 DEF Result
    <3>4. QED
      BY <1>1, <3>2, <3>3
  <2>3. QED
    BY <2>1, <2>2
<1>4. QED
  BY <1>3

LEMMA VkPresentGood ==
  ASSUME NEW h, NEW a, NEW q, Good(h, Off(a), q)
  PROVE  \A k \in mty_vk_ctx_present(h) : Good(k, Off(a), q)
<1> DEFINE recorded == Record(vk_ctx_swapchain_barrier(h), {<<Ctx, {"sem1", "swapchain"}>>})
           shown == [Submit(recorded) EXCEPT !.ctx.bb = FALSE]
<1>1. Good(vk_ctx_swapchain_barrier(h), Off(a), q)
  BY VkSharedGood
<1>2. Good(recorded, Off(a), q)
  BY <1>1, DriverGood
<1> HIDE DEF recorded
<1>3. Good(shown, Off(a), q)
  BY <1>2, DriverGood, FieldsGood
<1>4. mty_vk_ctx_present(h) = IF ~h.ctx.bb THEN {h} ELSE {shown} \cup vk_ctx_refresh_swapchain(shown)
  BY DEF mty_vk_ctx_present, recorded
<1> HIDE DEF shown
<1>5. QED
  BY <1>3, <1>4, VkRefreshGood

\* Layers.
LEMMA VkLayerGood ==
  ASSUME NEW h, NEW b, NEW q, Good(h, b, q), NEW l
  PROVE  /\ Good(mty_vk_destroy(h, l), b, q)
         /\ Good(mty_vk_clear(h, l), b, q)
<1>1. \A o : Good(vk_destroy_image(h, o), b, q)
  BY VkSharedGood
<1>2. \A o, x : Good(vk_destroy_image(vk_destroy_image(h, o), x), b, q)
  BY <1>1, VkSharedGood
<1>3. \A o, names : Good(DestroyedVk(h, o, names), b, q)
  BY VkSharedGood
<1>4. Good(mty_vk_destroy(h, l), b, q)
  <2> DEFINE k == vk_destroy_image(vk_destroy_image(h, Plane(l, 1)), Plane(l, 2))
  <2>1. \A names : Good(DestroyedVk(k, Quad(l), names), b, q)
    BY <1>2, VkSharedGood
  <2>2. \E names : \/ mty_vk_destroy(h, l) = DestroyedVk(h, Quad(l), names)
                   \/ mty_vk_destroy(h, l) = DestroyedVk(k, Quad(l), names)
    BY DEF mty_vk_destroy
  <2>3. QED
    BY <1>3, <2>1, <2>2
<1>5. Good(mty_vk_clear(h, l), b, q)
  BY DriverGood DEF mty_vk_clear
<1>6. QED
  BY <1>4, <1>5

LEMMA VkCreateGood ==
  ASSUME NEW h, NEW b, NEW q, Good(h, b, q), NEW l
  PROVE  \A r \in mty_vk_create(h, l) : Good(r.g, b, q)
<1>1. ASSUME NEW k, Good(k, b, q), NEW r \in Create(k, Quad(l), VkQuadSteps, LAMBDA x : mty_vk_destroy(x, l))
      PROVE  Good(r.g, b, q)
  <2> DEFINE m(i) == MakeAll([k EXCEPT !.ptr = @ \cup {Quad(l)}], Quad(l), SubSeq(VkQuadSteps, 1, i))
  <2>1. Good([k EXCEPT !.ptr = @ \cup {Quad(l)}], b, q)
    BY <1>1, FieldsGood
  <2>2. ASSUME NEW i PROVE Good(m(i), b, q)
    BY <2>1, DriverGood
  <2>3. PICK i : r = Result(m(i), TRUE) \/ r = Result(mty_vk_destroy(m(i), l), FALSE)
    BY <1>1 DEF Create
  <2> HIDE DEF m
  <2>4. Good(m(i), b, q) /\ Good(mty_vk_destroy(m(i), l), b, q)
    BY <2>2, VkLayerGood
  <2>5. r.g = m(i) \/ r.g = mty_vk_destroy(m(i), l)
    BY <2>3 DEF Result
  <2>6. QED
    BY <2>4, <2>5
<1>2. ASSUME NEW r \in mty_vk_create(h, l) PROVE Good(r.g, b, q)
  <2> DEFINE gone(s) == mty_vk_destroy([s.g EXCEPT !.ptr = @ \cup {Quad(l)}], l)
             begun == {IF s.ok THEN s ELSE Result(gone(s), FALSE) : s \in vkproc_global_init(h)}
  <2>1. PICK t \in begun :
          r \in IF t.ok THEN Create(t.g, Quad(l), VkQuadSteps, LAMBDA x : mty_vk_destroy(x, l)) ELSE {t}
    BY DEF mty_vk_create, CreateVk, Then
  <2>2. PICK s \in vkproc_global_init(h) : t = IF s.ok THEN s ELSE Result(gone(s), FALSE)
    OBVIOUS
  <2> HIDE DEF begun
  <2>3. Good(s.g, b, q)
    BY VkRefGood
  <2>4. Good(gone(s), b, q)
    BY <2>3, FieldsGood, VkLayerGood
  <2> HIDE DEF gone
  <2>5. Good(t.g, b, q)
    BY <2>2, <2>3, <2>4 DEF Result
  <2>6. QED
    BY <1>1, <2>1, <2>5
<1>3. QED
  BY <1>2

LEMMA VkPlaneGood ==
  ASSUME NEW h, NEW b, NEW q, Good(h, b, q),
         NEW l \in Layers, NEW p \in PlaneIds, NEW fmt \in Named, NEW size \in Extents,
         NEW r \in vk_refresh_image(h, l, p, fmt, size)
  PROVE  Some(r.g, b) /\ (r.ok => Good(r.g, b, With(q, l, p, fmt, size)))
<1> DEFINE o == Plane(l, p)
           made == vk_create_image(vk_destroy_image(h, o), o)
           kept(k) == SetPlane(k, l, p, fmt, size)
           copied(k) == vk_image_gpu_copy(kept(k), o)
           failed(k) == NoPlaneAt(vk_destroy_image(k, o), l, p)
<1>1. ASSUME NEW s \in made
      PROVE  Good(copied(s.g), b, With(q, l, p, fmt, size)) /\ Some(failed(s.g), b) /\ Some(kept(s.g), b)
  <2>1. Good(vk_destroy_image(h, o), b, q)
    BY VkSharedGood
  <2>2. Good(s.g, b, q)
    BY <2>1, VkCreatesGood
  <2> HIDE DEF made, o
  <2>3. Good(kept(s.g), b, With(q, l, p, fmt, size))
    BY <2>2, PlaneGood
  <2> HIDE DEF kept
  <2>4. Good(copied(s.g), b, With(q, l, p, fmt, size))
    BY <2>3, VkSharedGood
  <2>5. Good(vk_destroy_image(s.g, o), b, q)
    BY <2>2, VkSharedGood
  <2>6. Good(failed(s.g), b, With(q, l, p, "none", 0))
    BY <2>5, PlaneGood
  <2>7. QED
    BY <2>3, <2>4, <2>6 DEF Some
<1>2. CASE Differs(h, l, p, "image", fmt, size)
  <2> DEFINE up(s) == {Result(copied(s.g), TRUE), Result(kept(s.g), FALSE)}
             all == UNION {IF s.ok THEN up(s) ELSE {Result(failed(s.g), FALSE)} : s \in made}
  <2>0. r \in all
    BY <1>2 DEF vk_refresh_image
  <2> HIDE DEF made, copied, kept, failed
  <2>1. PICK s \in made : r \in IF s.ok THEN up(s) ELSE {Result(failed(s.g), FALSE)}
    <3> HIDE DEF up
    <3>1. QED
      BY <2>0
  <2>2. (r.ok /\ r.g = copied(s.g)) \/ (~r.ok /\ r.g = failed(s.g)) \/ (~r.ok /\ r.g = kept(s.g))
    BY <2>1 DEF Result
  <2>3. QED
    BY <1>1, <2>2 DEF Some
<1>3. CASE ~Differs(h, l, p, "image", fmt, size)
  <2>1. r.g = vk_image_gpu_copy(h, o) \/ (r.g = h /\ ~r.ok)
    BY <1>3 DEF vk_refresh_image, Result
  <2>2. h.quad[l].plane[p] = [fmt |-> fmt, size |-> size]
    BY <1>3 DEF Differs
  <2>3. Good(h, b, With(q, l, p, fmt, size))
    BY <2>2, SamePlane
  <2>4. Good(r.g, b, With(q, l, p, fmt, size))
    BY <2>1, <2>3, VkSharedGood
  <2>5. QED
    BY <2>4 DEF Some
<1>4. QED
  BY <1>2, <1>3

LEMMA VkReloadGood ==
  ASSUME NEW h, NEW b, NEW q, Good(h, b, q),
         NEW l \in Layers, NEW fmt \in Named, NEW size \in Extents,
         NEW r \in fmt_reload_textures(h, l, fmt, size, vk_refresh_image)
  PROVE  Loaded(r, b, q, l, fmt, size)
<1>1. \A k, p : Good(k, b, p) =>
        /\ \A s \in vk_refresh_image(k, l, 1, fmt, size) : PlaneLoaded(s, b, p, l, 1, fmt, size)
        /\ \A s \in vk_refresh_image(k, l, 2, fmt, size) : PlaneLoaded(s, b, p, l, 2, fmt, size)
  <2>1. 1 \in PlaneIds /\ 2 \in PlaneIds
    BY DEF PlaneIds
  <2>2. QED
    BY <2>1, VkPlaneGood DEF PlaneLoaded
<1>2. CASE fmt = "bgra"
  BY <1>1, <1>2, FrameLoaded DEF fmt_reload_textures
<1>3. CASE fmt = "nv12"
  <2>1. PICK s \in vk_refresh_image(h, l, 1, fmt, size) :
          r \in IF s.ok THEN vk_refresh_image(s.g, l, 2, fmt, size) ELSE {s}
    BY <1>3 DEF fmt_reload_textures, Then
  <2>2. PlaneLoaded(s, b, q, l, 1, fmt, size)
    BY <1>1
  <2>3. s.ok => PlaneLoaded(r, b, With(q, l, 1, fmt, size), l, 2, fmt, size)
    BY <1>1, <2>1, <2>2 DEF PlaneLoaded
  <2>4. QED
    BY <1>3, <2>1, <2>2, <2>3, FrameLoaded
<1>4. CASE fmt = "none"
  <2>1. r = Result(h, TRUE)
    BY <1>4 DEF fmt_reload_textures
  <2>2. QED
    BY <1>4, <2>1, FrameLoaded
<1>5. QED
  BY <1>2, <1>3, <1>4 DEF Named, Formats

LEMMA VkRenderGood ==
  ASSUME NEW h, NEW b, NEW q, Good(h, b, q),
         NEW l \in Layers, NEW fmt, NEW size, Drawable(q, l, fmt, size),
         NEW k \in mty_vk_render(h, l, fmt, size)
  PROVE  Some(k, b)
<1> DEFINE f == SetFormat(h, l, fmt)
           loaded == fmt_reload_textures(f, l, fmt, size, vk_refresh_image)
<1>1. fmt \in Named /\ size \in Extents
  BY DEF Drawable, Named, Extents
<1>2. Good(f, b, Formatted(q, l, fmt))
  BY <1>1, FormatGood
<1> DEFINE open(x) == Error(Record(x, {<<Quad(l), {"rp", "pipeline"}>>}), "render pass left open")
           draw(x) == {Result(VkDraw(x, l), TRUE)} \cup (IF "map" \in Faults THEN {Result(open(x), FALSE)} ELSE {})
<1>3. k = f \/ \E s \in loaded : k = s.g \/ (s.ok /\ k = VkDraw(s.g, l)) \/ k = open(s.g)
  <2>1. k = f \/ \E t \in Then(loaded, draw) : k = t.g
    BY DEF mty_vk_render
  <2> HIDE DEF f, loaded, draw
  <2>2. ASSUME NEW t \in Then(loaded, draw) PROVE \E s \in loaded : t = s \/ (s.ok /\ t \in draw(s.g))
    BY DEF Then
  <2> HIDE DEF open
  <2>3. \A x, t : t \in draw(x) => t.g = VkDraw(x, l) \/ t.g = open(x)
    BY DEF draw, Result
  <2>4. QED
    BY <2>1, <2>2, <2>3
<1> HIDE DEF f
<1>4. ASSUME NEW s \in loaded PROVE Some(s.g, b) /\ (s.ok => Some(VkDraw(s.g, l), b)) /\ Some(open(s.g), b)
  <2>1. Some(s.g, b) /\ (s.ok => Some(Shown(s.g, l), b))
    BY <1>1, <1>2, VkReloadGood, LoadedShown
  <2>2. s.ok => Some(VkDraw(s.g, l), b)
    BY <2>1, DriverGood DEF Some, VkDraw
  <2>3. Some(open(s.g), b)
    <3>1. \A x : Some(x, b) => \A uses : Some(Record(x, uses), b)
      BY DriverGood DEF Some
    <3>2. \A x : Some(x, b) => Some(Error(x, "render pass left open"), b)
      BY DriverGood DEF Some
    <3>3. QED
      BY <2>1, <3>1, <3>2
  <2>4. QED
    BY <2>1, <2>2, <2>3
<1> HIDE DEF loaded, open
<1>5. QED
  BY <1>2, <1>3, <1>4 DEF Some

\* The UI.
LEMMA VkTextureGood ==
  ASSUME NEW h, NEW b, NEW q, Good(h, b, q), NEW o
  PROVE  /\ Good(mty_vk_ui_destroy_texture(h, o), b, q)
         /\ \A r \in mty_vk_ui_create_texture(h, o) : Good(r.g, b, q)
<1>1. Good(mty_vk_ui_destroy_texture(h, o), b, q)
  <2> DEFINE k == vk_destroy_image(Free(h, o, "dset"), o)
  <2>1. Good(k, b, q)
    BY DriverGood, VkSharedGood
  <2>2. \/ mty_vk_ui_destroy_texture(h, o) = h
        \/ mty_vk_ui_destroy_texture(h, o) = [k EXCEPT !.ptr = @ \ {o}, !.sent = @ \ {o}]
    BY DEF mty_vk_ui_destroy_texture
  <2> HIDE DEF k
  <2>3. Good([k EXCEPT !.ptr = @ \ {o}, !.sent = @ \ {o}], b, q)
    BY <2>1, FieldsGood
  <2>4. QED
    BY <2>2, <2>3
<1>2. ASSUME NEW r \in mty_vk_ui_create_texture(h, o) PROVE Good(r.g, b, q)
  <2> DEFINE names == ImageSteps \o <<"dset">>
             m(i) == MakeAll(h, o, SubSeq(names, 1, i))
  <2>1. PICK i : \/ r = Result([MakeAll(h, o, names) EXCEPT !.ptr = @ \cup {o}], TRUE)
                 \/ r = Result(vk_destroy_image(m(i), o), FALSE)
    BY DEF mty_vk_ui_create_texture
  <2> HIDE DEF names
  <2>2. Good([MakeAll(h, o, names) EXCEPT !.ptr = @ \cup {o}], b, q)
    BY DriverGood, FieldsGood
  <2>3. Good(vk_destroy_image(m(i), o), b, q)
    BY DriverGood, VkSharedGood
  <2>4. r.g = [MakeAll(h, o, names) EXCEPT !.ptr = @ \cup {o}] \/ r.g = vk_destroy_image(m(i), o)
    BY <2>1 DEF Result
  <2>5. QED
    BY <2>2, <2>3, <2>4
<1>3. QED
  BY <1>1, <1>2

LEMMA VkUIGood ==
  ASSUME NEW h, NEW b, NEW q, Good(h, b, q)
  PROVE  Good(mty_vk_ui_destroy(h), b, q)
<1> DEFINE freed == FreeAll(h, UI, <<"ib", "ibmem", "vb", "vbmem">>)
           cleared == [mty_vk_ui_destroy_texture(freed, Clear) EXCEPT !.len = NewLen]
<1>1. Good(freed, b, q)
  BY DriverGood
<1> HIDE DEF freed
<1>2. Good(cleared, b, q)
  BY <1>1, VkTextureGood, FieldsGood
<1>3. \E names : \/ mty_vk_ui_destroy(h) = DestroyedVk(h, UI, names)
                 \/ mty_vk_ui_destroy(h) = DestroyedVk(cleared, UI, names)
  BY DEF mty_vk_ui_destroy, freed
<1> HIDE DEF cleared
<1>4. QED
  BY <1>2, <1>3, VkSharedGood

LEMMA VkUICreateGood ==
  ASSUME NEW h, NEW b, NEW q, Good(h, b, q)
  PROVE  \A r \in mty_vk_ui_create(h) : Good(r.g, b, q)
<1> DEFINE begun == CreateVk(h, UI, VkUISteps, mty_vk_ui_destroy)
<1>1. ASSUME NEW k, Good(k, b, q), NEW r \in Create(k, UI, VkUISteps, mty_vk_ui_destroy)
      PROVE  Good(r.g, b, q)
  <2> DEFINE m(i) == MakeAll([k EXCEPT !.ptr = @ \cup {UI}], UI, SubSeq(VkUISteps, 1, i))
  <2>1. Good([k EXCEPT !.ptr = @ \cup {UI}], b, q)
    BY <1>1, FieldsGood
  <2>2. ASSUME NEW i PROVE Good(m(i), b, q)
    BY <2>1, DriverGood
  <2>3. PICK i : r = Result(m(i), TRUE) \/ r = Result(mty_vk_ui_destroy(m(i)), FALSE)
    BY <1>1 DEF Create
  <2> HIDE DEF m
  <2>4. Good(m(i), b, q) /\ Good(mty_vk_ui_destroy(m(i)), b, q)
    BY <2>2, VkUIGood
  <2>5. r.g = m(i) \/ r.g = mty_vk_ui_destroy(m(i))
    BY <2>3 DEF Result
  <2>6. QED
    BY <2>4, <2>5
<1>2. ASSUME NEW r \in begun PROVE Good(r.g, b, q)
  <2> DEFINE gone(s) == mty_vk_ui_destroy([s.g EXCEPT !.ptr = @ \cup {UI}])
             first == {IF s.ok THEN s ELSE Result(gone(s), FALSE) : s \in vkproc_global_init(h)}
  <2>1. PICK t \in first : r \in IF t.ok THEN Create(t.g, UI, VkUISteps, mty_vk_ui_destroy) ELSE {t}
    BY <1>2 DEF CreateVk, Then
  <2>2. PICK s \in vkproc_global_init(h) : t = IF s.ok THEN s ELSE Result(gone(s), FALSE)
    OBVIOUS
  <2> HIDE DEF begun, first
  <2>3. Good(s.g, b, q)
    BY VkRefGood
  <2>4. Good(gone(s), b, q)
    BY <2>3, FieldsGood, VkUIGood
  <2> HIDE DEF gone
  <2>5. Good(t.g, b, q)
    BY <2>2, <2>3, <2>4 DEF Result
  <2>6. QED
    BY <1>1, <2>1, <2>5
<1>3. ASSUME NEW r \in mty_vk_ui_create(h) PROVE Good(r.g, b, q)
  <2>1. PICK s \in Then(begun, LAMBDA x : mty_vk_ui_create_texture(x, Clear)) :
          r = IF s.ok THEN s ELSE Result(mty_vk_ui_destroy(s.g), FALSE)
    BY <1>3 DEF mty_vk_ui_create
  <2> HIDE DEF begun
  <2>2. PICK t \in begun : s \in IF t.ok THEN mty_vk_ui_create_texture(t.g, Clear) ELSE {t}
    BY <2>1 DEF Then
  <2>3. Good(s.g, b, q)
    BY <1>2, <2>2, VkTextureGood
  <2>4. r.g = s.g \/ r.g = mty_vk_ui_destroy(s.g)
    BY <2>1 DEF Result
  <2>5. QED
    BY <2>3, <2>4, VkUIGood
<1>4. QED
  BY <1>3

LEMMA VkUIRenderGood ==
  ASSUME NEW h, NEW b, NEW q, Good(h, b, q), NEW need
  PROVE  \A k \in mty_vk_ui_render(h, need) : Good(k, b, q)
<1>1. ASSUME NEW k, Good(k, b, q), NEW x, NEW r \in vk_ui_resize_buffer(k, x, need)
      PROVE  Good(r.g, b, q)
  <2> DEFINE names == <<x, IF x = "vb" THEN "vbmem" ELSE "ibmem">>
             j == [FreeAll(k, UI, names) EXCEPT !.len[x] = need]
  <2>1. r.g = k \/ r.g = MakeAll(j, UI, names) \/ r.g = j
    BY <1>1 DEF vk_ui_resize_buffer, Result
  <2> HIDE DEF names
  <2>2. Good(FreeAll(k, UI, names), b, q)
    BY <1>1, DriverGood
  <2>3. Good(j, b, q)
    BY <2>2, FieldsGood
  <2> HIDE DEF j
  <2>4. Good(MakeAll(j, UI, names), b, q)
    BY <2>3, DriverGood
  <2>5. QED
    BY <1>1, <2>1, <2>3, <2>4
<1>2. ASSUME NEW k, Good(k, b, q) PROVE Good(VkUIDraw(k), b, q)
  <2>1. \A uses, x : Good([Record(k, uses) EXCEPT !.sent = x], b, q)
    BY <1>2, DriverGood, FieldsGood
  <2>2. \E uses, x : VkUIDraw(k) = [Record(k, uses) EXCEPT !.sent = x]
    BY DEF VkUIDraw
  <2>3. QED
    BY <2>1, <2>2
<1>3. ASSUME NEW k \in mty_vk_ui_render(h, need) PROVE Good(k, b, q)
  <2>1. PICK r \in vk_ui_resize_buffer(h, "vb", need) :
          \E s \in IF r.ok THEN vk_ui_resize_buffer(r.g, "ib", need) ELSE {r} :
            k = s.g \/ k = VkUIDraw(s.g)
    BY <1>3 DEF mty_vk_ui_render, Then, Result
  <2>2. PICK s \in IF r.ok THEN vk_ui_resize_buffer(r.g, "ib", need) ELSE {r} :
          k = s.g \/ k = VkUIDraw(s.g)
    BY <2>1
  <2>3. Good(r.g, b, q)
    BY <1>1
  <2>4. Good(s.g, b, q)
    BY <1>1, <2>2, <2>3
  <2>5. QED
    BY <1>2, <2>2, <2>4
<1>4. QED
  BY <1>3

-----------------------------------------------------------------------------
(* Direct3D 12. *)

LEMMA D3D12CoreGood ==
  ASSUME NEW h, NEW b, NEW q, Good(h, b, q), plat = "windows"
  PROVE  /\ Good(d3d12_core_free(h), b, q)
         /\ \A r \in d3d12_core_init(h) : Good(r.g, b, q)
         /\ \A k \in CoreAgain(h) : Good(k, b, q)
<1>1. ASSUME NEW k, Good(k, b, q) PROVE Good(d3d12_core_free(k), b, q)
  <2> DEFINE names == <<"buffers", "waitable", "swap_chain3", "fence", "rtv_heap", "cl", "ca", "cq", "device">>
             f == FreeAll(k, Ctx, names)
             e == [f EXCEPT !.ctx.bb = FALSE, !.rec = {}]
  <2>1. d3d12_core_free(k) = [f EXCEPT !.ctx.bb = FALSE, !.rec = {}, !.old = @ \cup Living(f)]
    BY DEF d3d12_core_free
  <2> HIDE DEF names
  <2>2. Good(f, b, q)
    BY <1>1, DriverGood
  <2> HIDE DEF f
  <2>3. Good(e, b, q)
    BY <2>2, FieldsGood
  <2>4. Living(e) = Living(f) /\ e.old = f.old
    BY DEF Living
  <2>5. d3d12_core_free(k) = [e EXCEPT !.old = @ \cup Living(e)]
    BY <2>1, <2>4
  <2> HIDE DEF e
  <2>6. QED
    BY <2>3, <2>5, LostGood
<1>2. ASSUME NEW k, Good(k, b, q), NEW r \in d3d12_core_init(k) PROVE Good(r.g, b, q)
  <2>1. PICK names : \/ r = Result(FreeAll(NewDevice(MakeAll(k, Ctx, names)), Ctx, D3D12Temporaries), TRUE)
                     \/ r = Result(d3d12_core_free(FreeAll(MakeAll(k, Ctx, names), Ctx, D3D12Temporaries)), FALSE)
    BY <1>2 DEF d3d12_core_init
  <2>2. Good(MakeAll(k, Ctx, names), b, q)
    BY <1>2, DriverGood
  <2>3. Good(NewDevice(MakeAll(k, Ctx, names)), b, q)
    BY <2>2, DriverGood
  <2>4. Good(FreeAll(NewDevice(MakeAll(k, Ctx, names)), Ctx, D3D12Temporaries), b, q)
    BY <2>3, DriverGood
  <2>5. Good(FreeAll(MakeAll(k, Ctx, names), Ctx, D3D12Temporaries), b, q)
    BY <2>2, DriverGood
  <2>6. Good(d3d12_core_free(FreeAll(MakeAll(k, Ctx, names), Ctx, D3D12Temporaries)), b, q)
    BY <1>1, <2>5
  <2>7. QED
    BY <2>1, <2>4, <2>6 DEF Result
<1>3. \A k \in CoreAgain(h) : Good(k, b, q)
  <2>1. Good(d3d12_core_free(h), b, q)
    BY <1>1
  <2>2. \A r \in d3d12_core_init(d3d12_core_free(h)) : Good(r.g, b, q)
    BY <1>2, <2>1
  <2>3. QED
    BY <2>2 DEF CoreAgain
<1>4. QED
  BY <1>1, <1>2, <1>3

LEMMA D3D12ContextGood ==
  ASSUME NEW h, NEW b, NEW q, Good(h, b, q), plat = "windows"
  PROVE  /\ Good(mty_d3d12_ctx_destroy(h), b, q)
         /\ \A r \in mty_d3d12_ctx_create(h) : Good(r.g, b, q)
<1>1. ASSUME NEW k, Good(k, b, q) PROVE Good(mty_d3d12_ctx_destroy(k), b, q)
  <2>1. Good(Free(k, Ctx, "dxgi_sync"), b, q)
    BY <1>1, DriverGood
  <2>2. Good(d3d12_core_free(Free(k, Ctx, "dxgi_sync")), b, q)
    BY <2>1, D3D12CoreGood
  <2>3. QED
    BY <1>1, <2>2, FieldsGood DEF mty_d3d12_ctx_destroy
<1>2. ASSUME NEW r \in mty_d3d12_ctx_create(h) PROVE Good(r.g, b, q)
  <2> DEFINE k == [h EXCEPT !.ptr = @ \cup {Ctx}, !.ctx.size = h.win.size]
  <2>1. Good([h EXCEPT !.ptr = @ \cup {Ctx}], b, q)
    BY FieldsGood
  <2>2. Good(k, b, q)
    BY <2>1, FieldsGood
  <2>3. PICK s \in d3d12_core_init(sync_set_interval(k, 0)) :
          r = IF s.ok THEN s ELSE Result(mty_d3d12_ctx_destroy(s.g), FALSE)
    BY <1>2 DEF mty_d3d12_ctx_create, sync_set_interval
  <2> HIDE DEF k
  <2>4. Good(sync_set_interval(k, 0), b, q)
    BY <2>2, StartGood
  <2>5. Good(s.g, b, q)
    BY <2>3, <2>4, D3D12CoreGood
  <2>6. r.g = s.g \/ r.g = mty_d3d12_ctx_destroy(s.g)
    BY <2>3 DEF Result
  <2>7. QED
    BY <1>1, <2>5, <2>6
<1>3. QED
  BY <1>1, <1>2

LEMMA D3D12SurfaceGood ==
  ASSUME NEW h, NEW b, NEW q, Good(h, b, q), plat = "windows"
  PROVE  \A r \in mty_d3d12_ctx_get_surface(h) : Good(r.g, b, q)
<1> DEFINE f == Free(Use(h, {<<Ctx, {"swap_chain3"}>>}), Ctx, "buffers")
<1>1. Good(Use(h, {<<Ctx, {"swap_chain3"}>>}), b, q)
  BY DriverGood
<1>2. Good(f, b, q)
  BY <1>1, DriverGood
<1>3. ASSUME NEW r \in d3d12_ctx_refresh(h) PROVE Good(r.g, b, q)
  <2>1. \/ r = Result(h, TRUE) \/ r = Result(f, FALSE) \/ \E k \in CoreAgain(f) : r = Result(k, FALSE)
        \/ \E k \in d3d12_core_refresh_buffers(f) : r = Result([k EXCEPT !.ctx.size = h.win.size], TRUE)
    BY <1>3 DEF d3d12_ctx_refresh
  <2> HIDE DEF f
  <2>2. \A k \in CoreAgain(f) : Good(k, b, q)
    BY <1>2, D3D12CoreGood
  <2>3. \A k \in d3d12_core_refresh_buffers(f) : Good([k EXCEPT !.ctx.size = h.win.size], b, q)
    <3>1. Good(Make(f, Ctx, "buffers"), b, q)
      BY <1>2, DriverGood
    <3>2. \A k \in d3d12_core_refresh_buffers(f) : k = f \/ k = Make(f, Ctx, "buffers")
      BY DEF d3d12_core_refresh_buffers
    <3>3. QED
      BY <1>2, <3>1, <3>2, FieldsGood
  <2>4. QED
    BY <1>2, <2>1, <2>2, <2>3 DEF Result
<1>4. ASSUME NEW r \in mty_d3d12_ctx_get_surface(h) PROVE Good(r.g, b, q)
  <2> DEFINE use == {<<Ctx, {"swap_chain3", "buffers", "cl"}>>}
             drawn(k) == [Record(k, use) EXCEPT !.ctx.bb = TRUE]
  <2>1. \/ r = Result(h, TRUE)
        \/ \E s \in d3d12_ctx_refresh(h) : r = s \/ r = Result(drawn(s.g), TRUE)
    BY <1>4 DEF mty_d3d12_ctx_get_surface, Then
  <2> HIDE DEF use
  <2>2. \A s \in d3d12_ctx_refresh(h) : Good(s.g, b, q) /\ Good(drawn(s.g), b, q)
    BY <1>3, DriverGood, FieldsGood
  <2> HIDE DEF drawn
  <2>3. QED
    BY <2>1, <2>2 DEF Result
<1>5. QED
  BY <1>4

\* The interval, and what presents.
LEMMA D3D12PresentGood ==
  ASSUME NEW h, NEW b, NEW q, Good(h, b, q), plat = "windows"
  PROVE  /\ \A n \in Nat : \A k \in mty_d3d12_ctx_set_sync_interval(h, n) : Good(k, b, q)
         /\ \A k \in mty_d3d12_ctx_present(h) : Good(k, b, q)
<1>1. ASSUME NEW n \in Nat, NEW k \in mty_d3d12_ctx_set_sync_interval(h, n) PROVE Good(k, b, q)
  <2>1. k = sync_set_interval(h, n) \/ k = Make(sync_set_interval(h, n), Ctx, "dxgi_sync")
    BY <1>1 DEF mty_d3d12_ctx_set_sync_interval, dxgi_sync_create
  <2>2. Good(sync_set_interval(h, n), b, q)
    BY SyncGood
  <2>3. QED
    BY <2>1, <2>2, DriverGood
<1>2. ASSUME NEW k \in mty_d3d12_ctx_present(h) PROVE Good(k, b, q)
  <2> DEFINE s == Submit(Record(h, {<<Ctx, {"cq", "cl", "swap_chain3"}>>}))
             n == sync_next_interval(s)
  <2>1. Good(Record(h, {<<Ctx, {"cq", "cl", "swap_chain3"}>>}), b, q)
    BY DriverGood
  <2>2. Good(s, b, q)
    BY <2>1, DriverGood
  <2>3. Good(n, b, q)
    BY <2>2, SyncGood
  <2>4. \/ k = h \/ k \in CoreAgain(n) \/ k = [h EXCEPT !.rec = @ \cup {Gone}]
        \/ k = [Use(n, {<<Ctx, {"fence", "ca", "waitable"}>>}) EXCEPT !.ctx.bb = FALSE]
    BY <1>2 DEF mty_d3d12_ctx_present
  <2> HIDE DEF s, n
  <2>5. Good([Use(n, {<<Ctx, {"fence", "ca", "waitable"}>>}) EXCEPT !.ctx.bb = FALSE], b, q)
    BY <2>3, DriverGood, FieldsGood
  <2>6. Good([h EXCEPT !.rec = @ \cup {Gone}], b, q)
    BY FieldsGood
  <2>7. QED
    BY <2>3, <2>4, <2>5, <2>6, D3D12CoreGood
<1>3. QED
  BY <1>1, <1>2

\* Layers.
LEMMA D3D12PlaneLost ==
  ASSUME NEW h, NEW b, NEW q, Good(h, b, q), NEW l \in Layers, NEW p \in PlaneIds
  PROVE  Good(d3d12_destroy_resource(h, l, p), b, With(q, l, p, "none", 0))
<1> DEFINE f == FreeAll(h, Plane(l, p), <<"buffer", "resource">>)
<1>1. Good(f, b, q)
  BY DriverGood
<1> HIDE DEF f
<1>2. "none" \in Named /\ 0 \in Extents
  BY DEF Named, Extents
<1>3. Good(NoPlaneAt(f, l, p), b, With(q, l, p, "none", 0))
  BY <1>1, <1>2, PlaneGood
<1>4. QED
  BY <1>3 DEF d3d12_destroy_resource, f

\* Its layer is the only one that a renderer's end changes.
LEMMA D3D12LayerGood ==
  ASSUME NEW h, NEW b, NEW q, Good(h, b, q), NEW l \in Layers
  PROVE  /\ \E x : Good(mty_d3d12_destroy(h, l), b, [q EXCEPT ![l] = x])
         /\ Good(mty_d3d12_clear(h), b, q)
<1>1. \E x : Good(mty_d3d12_destroy(h, l), b, [q EXCEPT ![l] = x])
  <2> DEFINE k == d3d12_destroy_resource(d3d12_destroy_resource(h, l, 1), l, 2)
             r == With(With(q, l, 1, "none", 0), l, 2, "none", 0)
  <2>1. 1 \in PlaneIds /\ 2 \in PlaneIds
    BY DEF PlaneIds
  <2>2. Good(d3d12_destroy_resource(h, l, 1), b, With(q, l, 1, "none", 0))
    BY <2>1, D3D12PlaneLost
  <2>3. Good(k, b, r)
    BY <2>1, <2>2, D3D12PlaneLost
  <2>4. \E names : mty_d3d12_destroy(h, l) = h \/ mty_d3d12_destroy(h, l) = Destroyed(k, Quad(l), names)
    BY DEF mty_d3d12_destroy
  <2>5. q = [q EXCEPT ![l] = q[l]] /\ \E x : r = [q EXCEPT ![l] = x]
    BY QuadsEmptied
  <2> HIDE DEF k, r
  <2>6. \A names : Good(Destroyed(k, Quad(l), names), b, r)
    BY <2>3, DriverGood
  <2>7. QED
    BY <2>4, <2>5, <2>6
<1>2. Good(mty_d3d12_clear(h), b, q)
  BY DriverGood DEF mty_d3d12_clear
<1>3. QED
  BY <1>1, <1>2

LEMMA D3D12CreateGood ==
  ASSUME NEW h, NEW b, NEW q, Good(h, b, q), NEW l \in Layers
  PROVE  \A r \in mty_d3d12_create(h, l) : Created(r, b, q)
<1> DEFINE m(i) == MakeAll([h EXCEPT !.ptr = @ \cup {Quad(l)}], Quad(l), SubSeq(D3D12QuadSteps, 1, i))
<1>1. ASSUME NEW r \in mty_d3d12_create(h, l) PROVE Created(r, b, q)
  <2>1. PICK i : r = Result(m(i), TRUE) \/ r = Result(mty_d3d12_destroy(m(i), l), FALSE)
    BY <1>1 DEF mty_d3d12_create, Create
  <2>2. Good(m(i), b, q)
    BY StepsGood
  <2> HIDE DEF m
  <2>3. Some(mty_d3d12_destroy(m(i), l), b)
    BY <2>2, D3D12LayerGood DEF Some
  <2>4. (r.g = m(i) /\ r.ok) \/ (r.g = mty_d3d12_destroy(m(i), l) /\ ~r.ok)
    BY <2>1 DEF Result
  <2>5. QED
    BY <2>2, <2>3, <2>4 DEF Created, Some
<1>2. QED
  BY <1>1

LEMMA D3D12PlaneGood ==
  ASSUME NEW h, NEW b, NEW q, Good(h, b, q),
         NEW l \in Layers, NEW p \in PlaneIds, NEW fmt \in Named, NEW size \in Extents,
         NEW r \in d3d12_refresh_resource(h, l, p, fmt, size)
  PROVE  PlaneLoaded(r, b, q, l, p, fmt, size)
<1> DEFINE o == Plane(l, p)
           f == d3d12_destroy_resource(h, l, p)
           s == SetPlane(MakeAll(f, o, <<"buffer", "resource">>), l, p, fmt, size)
<1>1. ASSUME NEW k, Good(k, b, With(q, l, p, fmt, size)), NEW x \in d3d12_crop_copy(k, l, p)
      PROVE  PlaneLoaded(x, b, q, l, p, fmt, size)
  <2>1. (x.g = Record(k, {<<Plane(l, p), {"buffer", "resource"}>>}) /\ x.ok) \/ (x.g = k /\ ~x.ok)
    BY <1>1 DEF d3d12_crop_copy, Result
  <2>2. Good(Record(k, {<<Plane(l, p), {"buffer", "resource"}>>}), b, With(q, l, p, fmt, size))
    BY <1>1, DriverGood
  <2>3. QED
    BY <1>1, <2>1, <2>2 DEF PlaneLoaded, Some
<1>2. CASE Differs(h, l, p, "resource", fmt, size)
  <2>1. \/ r = Result(f, FALSE) \/ r = Result(d3d12_destroy_resource(Make(f, o, "buffer"), l, p), FALSE)
        \/ r \in d3d12_crop_copy(s, l, p)
    BY <1>2 DEF d3d12_refresh_resource
  <2>2. Good(f, b, With(q, l, p, "none", 0))
    BY D3D12PlaneLost
  <2> HIDE DEF f, o
  <2>3. /\ Good(Make(f, o, "buffer"), b, With(q, l, p, "none", 0))
        /\ Good(MakeAll(f, o, <<"buffer", "resource">>), b, With(q, l, p, "none", 0))
    BY <2>2, DriverGood
  <2>4. Some(d3d12_destroy_resource(Make(f, o, "buffer"), l, p), b)
    BY <2>3, D3D12PlaneLost DEF Some
  <2>5. Good(s, b, With(q, l, p, fmt, size))
    <3>1. Good(s, b, With(With(q, l, p, "none", 0), l, p, fmt, size))
      BY <2>3, PlaneGood
    <3>2. q \in Quads
      BY DEF Good, Framed
    <3>3. QED
      BY <3>1, <3>2, WithTwice
  <2> HIDE DEF s
  <2>6. r \in d3d12_crop_copy(s, l, p) => PlaneLoaded(r, b, q, l, p, fmt, size)
    BY <1>1, <2>5
  <2>7. QED
    BY <2>1, <2>2, <2>4, <2>6 DEF Result, PlaneLoaded, Some
<1>3. CASE ~Differs(h, l, p, "resource", fmt, size)
  <2>1. r \in d3d12_crop_copy(h, l, p)
    BY <1>3 DEF d3d12_refresh_resource
  <2>2. h.quad[l].plane[p] = [fmt |-> fmt, size |-> size]
    BY <1>3 DEF Differs
  <2>3. Good(h, b, With(q, l, p, fmt, size))
    BY <2>2, SamePlane
  <2>4. QED
    BY <1>1, <2>1, <2>3
<1>4. QED
  BY <1>2, <1>3

LEMMA D3D12ReloadGood ==
  ASSUME NEW h, NEW b, NEW q, Good(h, b, q),
         NEW l \in Layers, NEW fmt \in Named, NEW size \in Extents,
         NEW r \in fmt_reload_textures(h, l, fmt, size, d3d12_refresh_resource)
  PROVE  Loaded(r, b, q, l, fmt, size)
<1>1. \A k, p : Good(k, b, p) =>
        /\ \A s \in d3d12_refresh_resource(k, l, 1, fmt, size) : PlaneLoaded(s, b, p, l, 1, fmt, size)
        /\ \A s \in d3d12_refresh_resource(k, l, 2, fmt, size) : PlaneLoaded(s, b, p, l, 2, fmt, size)
  <2>1. 1 \in PlaneIds /\ 2 \in PlaneIds
    BY DEF PlaneIds
  <2>2. QED
    BY <2>1, D3D12PlaneGood DEF PlaneLoaded
<1>2. CASE fmt = "bgra"
  BY <1>1, <1>2, FrameLoaded DEF fmt_reload_textures
<1>3. CASE fmt = "nv12"
  <2>1. PICK s \in d3d12_refresh_resource(h, l, 1, fmt, size) :
          r \in IF s.ok THEN d3d12_refresh_resource(s.g, l, 2, fmt, size) ELSE {s}
    BY <1>3 DEF fmt_reload_textures, Then
  <2>2. PlaneLoaded(s, b, q, l, 1, fmt, size)
    BY <1>1
  <2>3. s.ok => PlaneLoaded(r, b, With(q, l, 1, fmt, size), l, 2, fmt, size)
    BY <1>1, <2>1, <2>2 DEF PlaneLoaded
  <2>4. QED
    BY <1>3, <2>1, <2>2, <2>3, FrameLoaded
<1>4. CASE fmt = "none"
  <2>1. r = Result(h, TRUE)
    BY <1>4 DEF fmt_reload_textures
  <2>2. QED
    BY <1>4, <2>1, FrameLoaded
<1>5. QED
  BY <1>2, <1>3, <1>4 DEF Named, Formats

LEMMA D3D12RenderGood ==
  ASSUME NEW h, NEW b, NEW q, Good(h, b, q),
         NEW l \in Layers, NEW fmt, NEW size, Drawable(q, l, fmt, size),
         NEW k \in mty_d3d12_render(h, l, fmt, size)
  PROVE  Some(k, b)
<1> DEFINE f == SetFormat(h, l, fmt)
           loaded == fmt_reload_textures(f, l, fmt, size, d3d12_refresh_resource)
<1>1. fmt \in Named /\ size \in Extents
  BY DEF Drawable, Named, Extents
<1>2. Good(f, b, Formatted(q, l, fmt))
  BY <1>1, FormatGood
<1>3. k = f \/ \E s \in loaded : k = s.g \/ (s.ok /\ k = D3D12Draw(s.g, l))
  BY DEF mty_d3d12_render, Then, Result
<1> HIDE DEF f
<1>4. ASSUME NEW s \in loaded PROVE Some(s.g, b) /\ (s.ok => Some(D3D12Draw(s.g, l), b))
  <2>1. Some(s.g, b) /\ (s.ok => Some(Shown(s.g, l), b))
    BY <1>1, <1>2, D3D12ReloadGood, LoadedShown
  <2>2. QED
    BY <2>1, DriverGood DEF Some, D3D12Draw
<1> HIDE DEF loaded
<1>5. QED
  BY <1>2, <1>3, <1>4 DEF Some

\* The UI.
LEMMA D3D12TextureGood ==
  ASSUME NEW h, NEW b, NEW q, Good(h, b, q), NEW o
  PROVE  /\ Good(mty_d3d12_ui_destroy_texture(h, o), b, q)
         /\ \A r \in mty_d3d12_ui_create_texture(h, o) : Good(r.g, b, q)
<1>1. ASSUME NEW k, Good(k, b, q) PROVE Good(mty_d3d12_ui_destroy_texture(k, o), b, q)
  BY <1>1, DriverGood, FieldsGood DEF mty_d3d12_ui_destroy_texture
<1>2. ASSUME NEW r \in mty_d3d12_ui_create_texture(h, o) PROVE Good(r.g, b, q)
  <2> DEFINE m(names) == MakeAll([h EXCEPT !.ptr = @ \cup {o}], o, names)
  <2>1. PICK names : r = Result(m(names), TRUE) \/ r = Result(mty_d3d12_ui_destroy_texture(m(names), o), FALSE)
    BY <1>2 DEF mty_d3d12_ui_create_texture, Create
  <2>2. Good(m(names), b, q)
    BY StepsGood
  <2> HIDE DEF m
  <2>3. Good(mty_d3d12_ui_destroy_texture(m(names), o), b, q)
    BY <1>1, <2>2
  <2>4. QED
    BY <2>1, <2>2, <2>3 DEF Result
<1>3. QED
  BY <1>1, <1>2

LEMMA D3D12UIGood ==
  ASSUME NEW h, NEW b, NEW q, Good(h, b, q)
  PROVE  Good(mty_d3d12_ui_destroy(h), b, q)
<1> DEFINE cleared == [mty_d3d12_ui_destroy_texture(h, Clear) EXCEPT !.len = NewLen]
<1>1. Good(cleared, b, q)
  BY D3D12TextureGood, FieldsGood
<1>2. \E names : mty_d3d12_ui_destroy(h) = h \/ mty_d3d12_ui_destroy(h) = Destroyed(cleared, UI, names)
  BY DEF mty_d3d12_ui_destroy
<1> HIDE DEF cleared
<1>3. QED
  BY <1>1, <1>2, DriverGood

LEMMA D3D12UICreateGood ==
  ASSUME NEW h, NEW b, NEW q, Good(h, b, q)
  PROVE  \A r \in mty_d3d12_ui_create(h) : Good(r.g, b, q)
<1> DEFINE steps == <<"blob", "rs", "pipeline">>
           freed(k) == Free(k, UI, "blob")
           begun == Create(h, UI, steps, LAMBDA x : mty_d3d12_ui_destroy(freed(x)))
           rs == {Result(freed(s.g), s.ok) : s \in begun}
<1>1. ASSUME NEW r \in rs PROVE Good(r.g, b, q)
  <2> DEFINE m(names) == MakeAll([h EXCEPT !.ptr = @ \cup {UI}], UI, names)
  <2>1. PICK s \in begun : r = Result(freed(s.g), s.ok)
    BY <1>1
  <2> HIDE DEF freed
  <2>2. PICK names : s = Result(m(names), TRUE) \/ s = Result(mty_d3d12_ui_destroy(freed(m(names))), FALSE)
    BY DEF Create
  <2>3. Good(m(names), b, q)
    BY StepsGood
  <2> HIDE DEF m, begun
  <2>4. Good(freed(m(names)), b, q)
    BY <2>3, DriverGood DEF freed
  <2>5. Good(mty_d3d12_ui_destroy(freed(m(names))), b, q)
    BY <2>4, D3D12UIGood
  <2>6. Good(s.g, b, q)
    BY <2>2, <2>3, <2>5 DEF Result
  <2>7. Good(freed(s.g), b, q)
    BY <2>6, DriverGood DEF freed
  <2>8. QED
    BY <2>1, <2>7 DEF Result
<1>2. ASSUME NEW r \in mty_d3d12_ui_create(h) PROVE Good(r.g, b, q)
  <2>1. PICK s \in Then(rs, LAMBDA x : mty_d3d12_ui_create_texture(x, Clear)) :
          r = IF s.ok THEN s ELSE Result(mty_d3d12_ui_destroy(s.g), FALSE)
    BY <1>2 DEF mty_d3d12_ui_create
  <2> HIDE DEF rs
  <2>2. PICK t \in rs : s \in IF t.ok THEN mty_d3d12_ui_create_texture(t.g, Clear) ELSE {t}
    BY <2>1 DEF Then
  <2>3. Good(s.g, b, q)
    BY <1>1, <2>2, D3D12TextureGood
  <2>4. r.g = s.g \/ r.g = mty_d3d12_ui_destroy(s.g)
    BY <2>1 DEF Result
  <2>5. QED
    BY <2>3, <2>4, D3D12UIGood
<1>3. QED
  BY <1>2

LEMMA D3D12UIRenderGood ==
  ASSUME NEW h, NEW b, NEW q, Good(h, b, q), NEW need
  PROVE  \A k \in mty_d3d12_ui_render(h, need) : Good(k, b, q)
<1>1. ASSUME NEW k, Good(k, b, q), NEW x, NEW r \in d3d12_ui_resize_buffer(k, x, need)
      PROVE  Good(r.g, b, q)
  <2> DEFINE f == Free(k, UI, x)
             j == Make(f, UI, x)
  <2>1. r.g = k \/ r.g = [j EXCEPT !.len[x] = need] \/ r.g = f
    BY <1>1 DEF d3d12_ui_resize_buffer, Result
  <2>2. Good(f, b, q)
    BY <1>1, DriverGood
  <2> HIDE DEF f
  <2>3. Good(j, b, q)
    BY <2>2, DriverGood
  <2> HIDE DEF j
  <2>4. Good([j EXCEPT !.len[x] = need], b, q)
    BY <2>3, FieldsGood
  <2>5. QED
    BY <1>1, <2>1, <2>2, <2>4
<1>2. ASSUME NEW k, Good(k, b, q) PROVE Good(D3D12UIDraw(k), b, q) /\ Good(Use(k, {<<UI, {"vb", "ib"}>>}), b, q)
  <2>1. \A uses, x : Good([Record(k, uses) EXCEPT !.sent = x], b, q)
    BY <1>2, DriverGood, FieldsGood
  <2>2. \E uses, x : D3D12UIDraw(k) = [Record(k, uses) EXCEPT !.sent = x]
    BY DEF D3D12UIDraw
  <2>3. QED
    BY <1>2, <2>1, <2>2, DriverGood
<1>3. ASSUME NEW k \in mty_d3d12_ui_render(h, need) PROVE Good(k, b, q)
  <2> DEFINE sized == Then(d3d12_ui_resize_buffer(h, "vb", need), LAMBDA x : d3d12_ui_resize_buffer(x, "ib", need))
             used(x) == Use(x, {<<UI, {"vb", "ib"}>>})
  <2>1. k \in {r.g : r \in Then(sized, LAMBDA x : {Result(used(x), FALSE), Result(D3D12UIDraw(x), TRUE)})}
    BY <1>3 DEF mty_d3d12_ui_render
  <2> HIDE DEF sized, used
  <2>2. PICK s \in sized : k = s.g \/ k = used(s.g) \/ k = D3D12UIDraw(s.g)
    BY <2>1 DEF Then, Result
  <2>3. PICK r \in d3d12_ui_resize_buffer(h, "vb", need) :
          s \in IF r.ok THEN d3d12_ui_resize_buffer(r.g, "ib", need) ELSE {r}
    BY <2>2 DEF sized, Then
  <2>4. Good(r.g, b, q)
    BY <1>1
  <2>5. Good(s.g, b, q)
    BY <1>1, <2>3, <2>4
  <2>6. QED
    BY <1>2, <2>2, <2>5 DEF used
<1>4. QED
  BY <1>3

-----------------------------------------------------------------------------
(* Direct3D 11. *)

LEMMA D3D11DeviceGood ==
  ASSUME NEW h, NEW b, NEW q, Good(h, b, q), plat = "windows"
  PROVE  /\ Good(d3d11_ctx_free(h), b, q)
         /\ \A r \in d3d11_ctx_init(h) : Good(r.g, b, q)
         /\ \A k \in DeviceAgain(h) : Good(k, b, q)
<1>1. ASSUME NEW k, Good(k, b, q) PROVE Good(d3d11_ctx_free(k), b, q)
  <2> DEFINE f == FreeAll(k, Ctx, <<"back_buffer", "waitable", "swap_chain2", "context", "device">>)
  <2>1. d3d11_ctx_free(k) = [f EXCEPT !.old = @ \cup Living(f)]
    BY DEF d3d11_ctx_free
  <2>2. Good(f, b, q)
    BY <1>1, DriverGood
  <2> HIDE DEF f
  <2>3. QED
    BY <2>1, <2>2, LostGood
<1>2. ASSUME NEW k, Good(k, b, q), NEW r \in d3d11_ctx_init(k) PROVE Good(r.g, b, q)
  <2>1. PICK names : \/ r = Result(FreeAll(NewDevice(MakeAll(k, Ctx, names)), Ctx, D3D11Temporaries), TRUE)
                     \/ r = Result(d3d11_ctx_free(FreeAll(MakeAll(k, Ctx, names), Ctx, D3D11Temporaries)), FALSE)
    BY <1>2 DEF d3d11_ctx_init
  <2>2. Good(MakeAll(k, Ctx, names), b, q)
    BY <1>2, DriverGood
  <2>3. Good(NewDevice(MakeAll(k, Ctx, names)), b, q)
    BY <2>2, DriverGood
  <2>4. Good(FreeAll(NewDevice(MakeAll(k, Ctx, names)), Ctx, D3D11Temporaries), b, q)
    BY <2>3, DriverGood
  <2>5. Good(FreeAll(MakeAll(k, Ctx, names), Ctx, D3D11Temporaries), b, q)
    BY <2>2, DriverGood
  <2>6. Good(d3d11_ctx_free(FreeAll(MakeAll(k, Ctx, names), Ctx, D3D11Temporaries)), b, q)
    BY <1>1, <2>5
  <2>7. QED
    BY <2>1, <2>4, <2>6 DEF Result
<1>3. \A k \in DeviceAgain(h) : Good(k, b, q)
  <2>1. Good(d3d11_ctx_free(h), b, q)
    BY <1>1
  <2>2. \A r \in d3d11_ctx_init(d3d11_ctx_free(h)) : Good(r.g, b, q)
    BY <1>2, <2>1
  <2>3. QED
    BY <2>2 DEF DeviceAgain
<1>4. QED
  BY <1>1, <1>2, <1>3

LEMMA D3D11ContextGood ==
  ASSUME NEW h, NEW b, NEW q, Good(h, b, q), plat = "windows"
  PROVE  /\ Good(mty_d3d11_ctx_destroy(h), b, q)
         /\ \A r \in mty_d3d11_ctx_create(h) : Good(r.g, b, q)
<1>1. ASSUME NEW k, Good(k, b, q) PROVE Good(mty_d3d11_ctx_destroy(k), b, q)
  <2>1. Good(Free(k, Ctx, "dxgi_sync"), b, q)
    BY <1>1, DriverGood
  <2>2. Good(d3d11_ctx_free(Free(k, Ctx, "dxgi_sync")), b, q)
    BY <2>1, D3D11DeviceGood
  <2>3. QED
    BY <1>1, <2>2, FieldsGood DEF mty_d3d11_ctx_destroy
<1>2. ASSUME NEW r \in mty_d3d11_ctx_create(h) PROVE Good(r.g, b, q)
  <2> DEFINE k == [h EXCEPT !.ptr = @ \cup {Ctx}, !.ctx.size = h.win.size]
  <2>1. Good([h EXCEPT !.ptr = @ \cup {Ctx}], b, q)
    BY FieldsGood
  <2>2. Good(k, b, q)
    BY <2>1, FieldsGood
  <2>3. PICK s \in d3d11_ctx_init(sync_set_interval(k, 0)) :
          r = IF s.ok THEN s ELSE Result(mty_d3d11_ctx_destroy(s.g), FALSE)
    BY <1>2 DEF mty_d3d11_ctx_create, sync_set_interval
  <2> HIDE DEF k
  <2>4. Good(sync_set_interval(k, 0), b, q)
    BY <2>2, StartGood
  <2>5. Good(s.g, b, q)
    BY <2>3, <2>4, D3D11DeviceGood
  <2>6. r.g = s.g \/ r.g = mty_d3d11_ctx_destroy(s.g)
    BY <2>3 DEF Result
  <2>7. QED
    BY <1>1, <2>5, <2>6
<1>3. QED
  BY <1>1, <1>2

LEMMA D3D11SurfaceGood ==
  ASSUME NEW h, NEW b, NEW q, Good(h, b, q), plat = "windows"
  PROVE  \A r \in mty_d3d11_ctx_get_surface(h) : Good(r.g, b, q)
<1>1. ASSUME NEW k \in d3d11_ctx_refresh(h) PROVE Good(k, b, q)
  <2> DEFINE f == Use(h, {<<Ctx, {"swap_chain2"}>>})
  <2>1. k = h \/ k = f \/ k = [f EXCEPT !.ctx.size = h.win.size] \/ k \in DeviceAgain(f)
    BY <1>1 DEF d3d11_ctx_refresh
  <2>2. Good(f, b, q)
    BY DriverGood
  <2> HIDE DEF f
  <2>3. Good([f EXCEPT !.ctx.size = h.win.size], b, q)
    BY <2>2, FieldsGood
  <2>4. QED
    BY <2>1, <2>2, <2>3, D3D11DeviceGood
<1>2. ASSUME NEW r \in mty_d3d11_ctx_get_surface(h) PROVE Good(r.g, b, q)
  <2> DEFINE used(k) == Use(k, {<<Ctx, {"swap_chain2", "device"}>>})
  <2>1. \/ r = Result(h, TRUE) \/ r = Result(h, FALSE)
        \/ \E k \in d3d11_ctx_refresh(h) :
             r = Result(used(k), FALSE) \/ r = Result(Make(used(k), Ctx, "back_buffer"), TRUE)
    BY <1>2 DEF mty_d3d11_ctx_get_surface
  <2>2. \A k \in d3d11_ctx_refresh(h) : Good(used(k), b, q)
    BY <1>1, DriverGood
  <2> HIDE DEF used
  <2>3. \A k \in d3d11_ctx_refresh(h) : Good(Make(used(k), Ctx, "back_buffer"), b, q)
    BY <2>2, DriverGood
  <2>4. QED
    BY <2>1, <2>2, <2>3 DEF Result
<1>3. QED
  BY <1>2

\* The interval, and what presents.
LEMMA D3D11PresentGood ==
  ASSUME NEW h, NEW b, NEW q, Good(h, b, q), plat = "windows"
  PROVE  /\ \A n \in Nat : \A k \in mty_d3d11_ctx_set_sync_interval(h, n) : Good(k, b, q)
         /\ \A k \in mty_d3d11_ctx_present(h) : Good(k, b, q)
<1>1. ASSUME NEW n \in Nat, NEW k \in mty_d3d11_ctx_set_sync_interval(h, n) PROVE Good(k, b, q)
  <2>1. k = sync_set_interval(h, n) \/ k = Make(sync_set_interval(h, n), Ctx, "dxgi_sync")
    BY <1>1 DEF mty_d3d11_ctx_set_sync_interval, dxgi_sync_create
  <2>2. Good(sync_set_interval(h, n), b, q)
    BY SyncGood
  <2>3. QED
    BY <2>1, <2>2, DriverGood
<1>2. ASSUME NEW k \in mty_d3d11_ctx_present(h) PROVE Good(k, b, q)
  <2> DEFINE u == Use(sync_next_interval(h), {<<Ctx, {"swap_chain2"}>>})
             f == Free(u, Ctx, "back_buffer")
  <2>1. k = h \/ k = Use(f, {<<Ctx, {"waitable"}>>}) \/ k \in DeviceAgain(f)
    BY <1>2 DEF mty_d3d11_ctx_present
  <2>2. Good(sync_next_interval(h), b, q)
    BY SyncGood
  <2>3. Good(u, b, q)
    BY <2>2, DriverGood
  <2> HIDE DEF u
  <2>4. Good(f, b, q)
    BY <2>3, DriverGood
  <2> HIDE DEF f
  <2>5. QED
    BY <2>1, <2>4, DriverGood, D3D11DeviceGood
<1>3. QED
  BY <1>1, <1>2

\* Layers.
LEMMA D3D11PlaneLost ==
  ASSUME NEW h, NEW b, NEW q, Good(h, b, q), NEW l \in Layers, NEW p \in PlaneIds
  PROVE  Good(d3d11_destroy_resource(h, l, p), b, With(q, l, p, "none", 0))
<1> DEFINE f == FreeAll(h, Plane(l, p), <<"srv", "resource">>)
<1>1. Good(f, b, q)
  BY DriverGood
<1> HIDE DEF f
<1>2. "none" \in Named /\ 0 \in Extents
  BY DEF Named, Extents
<1>3. Good(NoPlaneAt(f, l, p), b, With(q, l, p, "none", 0))
  BY <1>1, <1>2, PlaneGood
<1>4. QED
  BY <1>3 DEF d3d11_destroy_resource, f

\* Its layer is the only one that a renderer's end changes.
LEMMA D3D11LayerGood ==
  ASSUME NEW h, NEW b, NEW q, Good(h, b, q), NEW l \in Layers
  PROVE  /\ \E x : Good(mty_d3d11_destroy(h, l), b, [q EXCEPT ![l] = x])
         /\ Good(mty_d3d11_clear(h), b, q)
<1>1. \E x : Good(mty_d3d11_destroy(h, l), b, [q EXCEPT ![l] = x])
  <2> DEFINE k == d3d11_destroy_resource(d3d11_destroy_resource(h, l, 1), l, 2)
             r == With(With(q, l, 1, "none", 0), l, 2, "none", 0)
  <2>1. 1 \in PlaneIds /\ 2 \in PlaneIds
    BY DEF PlaneIds
  <2>2. Good(d3d11_destroy_resource(h, l, 1), b, With(q, l, 1, "none", 0))
    BY <2>1, D3D11PlaneLost
  <2>3. Good(k, b, r)
    BY <2>1, <2>2, D3D11PlaneLost
  <2>4. \E names : mty_d3d11_destroy(h, l) = h \/ mty_d3d11_destroy(h, l) = Destroyed(k, Quad(l), names)
    BY DEF mty_d3d11_destroy
  <2>5. q = [q EXCEPT ![l] = q[l]] /\ \E x : r = [q EXCEPT ![l] = x]
    BY QuadsEmptied
  <2> HIDE DEF k, r
  <2>6. \A names : Good(Destroyed(k, Quad(l), names), b, r)
    BY <2>3, DriverGood
  <2>7. QED
    BY <2>4, <2>5, <2>6
<1>2. Good(mty_d3d11_clear(h), b, q)
  BY DriverGood DEF mty_d3d11_clear
<1>3. QED
  BY <1>1, <1>2

LEMMA D3D11CreateGood ==
  ASSUME NEW h, NEW b, NEW q, Good(h, b, q), NEW l \in Layers
  PROVE  \A r \in mty_d3d11_create(h, l) : Created(r, b, q)
<1> DEFINE m(i) == MakeAll([h EXCEPT !.ptr = @ \cup {Quad(l)}], Quad(l), SubSeq(D3D11QuadSteps, 1, i))
<1>1. ASSUME NEW r \in mty_d3d11_create(h, l) PROVE Created(r, b, q)
  <2>1. PICK i : r = Result(m(i), TRUE) \/ r = Result(mty_d3d11_destroy(m(i), l), FALSE)
    BY <1>1 DEF mty_d3d11_create, Create
  <2>2. Good(m(i), b, q)
    BY StepsGood
  <2> HIDE DEF m
  <2>3. Some(mty_d3d11_destroy(m(i), l), b)
    BY <2>2, D3D11LayerGood DEF Some
  <2>4. (r.g = m(i) /\ r.ok) \/ (r.g = mty_d3d11_destroy(m(i), l) /\ ~r.ok)
    BY <2>1 DEF Result
  <2>5. QED
    BY <2>2, <2>3, <2>4 DEF Created, Some
<1>2. QED
  BY <1>1

LEMMA D3D11PlaneGood ==
  ASSUME NEW h, NEW b, NEW q, Good(h, b, q),
         NEW l \in Layers, NEW p \in PlaneIds, NEW fmt \in Named, NEW size \in Extents,
         NEW r \in d3d11_refresh_resource(h, l, p, fmt, size)
  PROVE  PlaneLoaded(r, b, q, l, p, fmt, size)
<1> DEFINE o == Plane(l, p)
           f == d3d11_destroy_resource(h, l, p)
           made(k) == Free(MakeAll(f, o, SubSeq(<<"texture", "resource", "srv">>, 1, k)), o, "texture")
           s == SetPlane(made(3), l, p, fmt, size)
<1>1. ASSUME NEW k, Good(k, b, With(q, l, p, fmt, size)), NEW x \in d3d11_crop_copy(k, l, p)
      PROVE  PlaneLoaded(x, b, q, l, p, fmt, size)
  <2>1. \E uses : x.g = Use(k, uses)
    BY <1>1 DEF d3d11_crop_copy, Result
  <2>2. Good(x.g, b, With(q, l, p, fmt, size))
    BY <1>1, <2>1, DriverGood
  <2>3. QED
    BY <2>2 DEF PlaneLoaded, Some
<1>2. CASE Differs(h, l, p, "resource", fmt, size)
  <2>1. \/ \E k : r = Result(d3d11_destroy_resource(made(k), l, p), FALSE)
        \/ r \in d3d11_crop_copy(s, l, p)
    BY <1>2 DEF d3d11_refresh_resource
  <2>2. Good(f, b, With(q, l, p, "none", 0))
    BY D3D11PlaneLost
  <2> HIDE DEF f, o
  <2>3. ASSUME NEW k PROVE Good(made(k), b, With(q, l, p, "none", 0))
    <3> DEFINE j == MakeAll(f, o, SubSeq(<<"texture", "resource", "srv">>, 1, k))
    <3>1. Good(j, b, With(q, l, p, "none", 0))
      BY <2>2, DriverGood
    <3> HIDE DEF j
    <3>2. Good(Free(j, o, "texture"), b, With(q, l, p, "none", 0))
      BY <3>1, DriverGood
    <3>3. QED
      BY <3>2 DEF j
  <2> HIDE DEF made
  <2>4. ASSUME NEW k PROVE Some(d3d11_destroy_resource(made(k), l, p), b)
    BY <2>3, D3D11PlaneLost DEF Some
  <2>5. Good(s, b, With(q, l, p, fmt, size))
    <3>1. Good(s, b, With(With(q, l, p, "none", 0), l, p, fmt, size))
      BY <2>3, PlaneGood
    <3>2. q \in Quads
      BY DEF Good, Framed
    <3>3. QED
      BY <3>1, <3>2, WithTwice
  <2> HIDE DEF s
  <2>6. r \in d3d11_crop_copy(s, l, p) => PlaneLoaded(r, b, q, l, p, fmt, size)
    BY <1>1, <2>5
  <2>7. QED
    BY <2>1, <2>4, <2>6 DEF Result, PlaneLoaded
<1>3. CASE ~Differs(h, l, p, "resource", fmt, size)
  <2>1. r \in d3d11_crop_copy(h, l, p)
    BY <1>3 DEF d3d11_refresh_resource
  <2>2. h.quad[l].plane[p] = [fmt |-> fmt, size |-> size]
    BY <1>3 DEF Differs
  <2>3. Good(h, b, With(q, l, p, fmt, size))
    BY <2>2, SamePlane
  <2>4. QED
    BY <1>1, <2>1, <2>3
<1>4. QED
  BY <1>2, <1>3

LEMMA D3D11ReloadGood ==
  ASSUME NEW h, NEW b, NEW q, Good(h, b, q),
         NEW l \in Layers, NEW fmt \in Named, NEW size \in Extents,
         NEW r \in fmt_reload_textures(h, l, fmt, size, d3d11_refresh_resource)
  PROVE  Loaded(r, b, q, l, fmt, size)
<1>1. \A k, p : Good(k, b, p) =>
        /\ \A s \in d3d11_refresh_resource(k, l, 1, fmt, size) : PlaneLoaded(s, b, p, l, 1, fmt, size)
        /\ \A s \in d3d11_refresh_resource(k, l, 2, fmt, size) : PlaneLoaded(s, b, p, l, 2, fmt, size)
  <2>1. 1 \in PlaneIds /\ 2 \in PlaneIds
    BY DEF PlaneIds
  <2>2. QED
    BY <2>1, D3D11PlaneGood DEF PlaneLoaded
<1>2. CASE fmt = "bgra"
  BY <1>1, <1>2, FrameLoaded DEF fmt_reload_textures
<1>3. CASE fmt = "nv12"
  <2>1. PICK s \in d3d11_refresh_resource(h, l, 1, fmt, size) :
          r \in IF s.ok THEN d3d11_refresh_resource(s.g, l, 2, fmt, size) ELSE {s}
    BY <1>3 DEF fmt_reload_textures, Then
  <2>2. PlaneLoaded(s, b, q, l, 1, fmt, size)
    BY <1>1
  <2>3. s.ok => PlaneLoaded(r, b, With(q, l, 1, fmt, size), l, 2, fmt, size)
    BY <1>1, <2>1, <2>2 DEF PlaneLoaded
  <2>4. QED
    BY <1>3, <2>1, <2>2, <2>3, FrameLoaded
<1>4. CASE fmt = "none"
  <2>1. r = Result(h, TRUE)
    BY <1>4 DEF fmt_reload_textures
  <2>2. QED
    BY <1>4, <2>1, FrameLoaded
<1>5. QED
  BY <1>2, <1>3, <1>4 DEF Named, Formats

LEMMA D3D11RenderGood ==
  ASSUME NEW h, NEW b, NEW q, Good(h, b, q),
         NEW l \in Layers, NEW fmt, NEW size, Drawable(q, l, fmt, size),
         NEW k \in mty_d3d11_render(h, l, fmt, size)
  PROVE  Some(k, b)
<1> DEFINE f == SetFormat(h, l, fmt)
           loaded == fmt_reload_textures(f, l, fmt, size, d3d11_refresh_resource)
<1>1. fmt \in Named /\ size \in Extents
  BY DEF Drawable, Named, Extents
<1>2. Good(f, b, Formatted(q, l, fmt))
  BY <1>1, FormatGood
<1>3. k = f \/ \E s \in loaded : k = s.g \/ (s.ok /\ k = D3D11Draw(s.g, l))
  BY DEF mty_d3d11_render, Then, Result
<1> HIDE DEF f
<1>4. ASSUME NEW s \in loaded PROVE Some(s.g, b) /\ (s.ok => Some(D3D11Draw(s.g, l), b))
  <2>1. Some(s.g, b) /\ (s.ok => Some(Shown(s.g, l), b))
    BY <1>1, <1>2, D3D11ReloadGood, LoadedShown
  <2>2. QED
    BY <2>1, DriverGood DEF Some, D3D11Draw
<1> HIDE DEF loaded
<1>5. QED
  BY <1>2, <1>3, <1>4 DEF Some

\* The UI.
LEMMA D3D11TextureGood ==
  ASSUME NEW h, NEW b, NEW q, Good(h, b, q), NEW o
  PROVE  /\ Good(mty_d3d11_ui_destroy_texture(h, o), b, q)
         /\ \A r \in mty_d3d11_ui_create_texture(h, o) : Good(r.g, b, q)
<1>1. Good(mty_d3d11_ui_destroy_texture(h, o), b, q)
  BY DriverGood DEF mty_d3d11_ui_destroy_texture
<1>2. ASSUME NEW r \in mty_d3d11_ui_create_texture(h, o) PROVE Good(r.g, b, q)
  <2> DEFINE made(k) == FreeAll(MakeAll(h, o, SubSeq(<<"texture", "resource", "srv">>, 1, k)), o,
                                <<"resource", "texture">>)
  <2>1. PICK k : r = Result(made(k), FALSE) \/ r = Result([made(k) EXCEPT !.ptr = @ \cup {o}], TRUE)
    BY <1>2 DEF mty_d3d11_ui_create_texture
  <2>2. \A names : Good(FreeAll(MakeAll(h, o, names), o, <<"resource", "texture">>), b, q)
    <3>1. ASSUME NEW names PROVE Good(MakeAll(h, o, names), b, q)
      BY DriverGood
    <3>2. QED
      BY <3>1, DriverGood
  <2>3. Good(made(k), b, q)
    BY <2>2
  <2> HIDE DEF made
  <2>4. Good([made(k) EXCEPT !.ptr = @ \cup {o}], b, q)
    BY <2>3, FieldsGood
  <2>5. QED
    BY <2>1, <2>3, <2>4 DEF Result
<1>3. QED
  BY <1>1, <1>2

LEMMA D3D11UIGood ==
  ASSUME NEW h, NEW b, NEW q, Good(h, b, q)
  PROVE  /\ Good(mty_d3d11_ui_destroy(h), b, q)
         /\ \A r \in mty_d3d11_ui_create(h) : Good(r.g, b, q)
<1>1. ASSUME NEW k, Good(k, b, q) PROVE Good(mty_d3d11_ui_destroy(k), b, q)
  BY <1>1, DriverGood, FieldsGood DEF mty_d3d11_ui_destroy
<1>2. ASSUME NEW r \in mty_d3d11_ui_create(h) PROVE Good(r.g, b, q)
  <2> DEFINE m(names) == MakeAll([h EXCEPT !.ptr = @ \cup {UI}], UI, names)
  <2>1. PICK names : r = Result(m(names), TRUE) \/ r = Result(mty_d3d11_ui_destroy(m(names)), FALSE)
    BY <1>2 DEF mty_d3d11_ui_create, Create
  <2>2. Good(m(names), b, q)
    BY StepsGood
  <2> HIDE DEF m
  <2>3. Good(mty_d3d11_ui_destroy(m(names)), b, q)
    BY <1>1, <2>2
  <2>4. QED
    BY <2>1, <2>2, <2>3 DEF Result
<1>3. QED
  BY <1>1, <1>2

LEMMA D3D11UIRenderGood ==
  ASSUME NEW h, NEW b, NEW q, Good(h, b, q), NEW need
  PROVE  \A k \in mty_d3d11_ui_render(h, need) : Good(k, b, q)
<1>1. ASSUME NEW k, Good(k, b, q), NEW x, NEW r \in d3d11_ui_resize_buffer(k, x, need)
      PROVE  Good(r.g, b, q)
  <2> DEFINE res == IF x = "vb" THEN "vbres" ELSE "ibres"
             f == FreeAll(k, UI, <<res, x>>)
             j == MakeAll(f, UI, <<x, res>>)
  <2>1. r.g = k \/ r.g = [j EXCEPT !.len[x] = need] \/ r.g = f \/ r.g = Make(f, UI, x)
    BY <1>1 DEF d3d11_ui_resize_buffer, Result
  <2>2. Good(f, b, q)
    BY <1>1, DriverGood
  <2> HIDE DEF f
  <2>3. Good(j, b, q) /\ Good(Make(f, UI, x), b, q)
    BY <2>2, DriverGood
  <2> HIDE DEF j
  <2>4. Good([j EXCEPT !.len[x] = need], b, q)
    BY <2>3, FieldsGood
  <2>5. QED
    BY <1>1, <2>1, <2>2, <2>3, <2>4
<1>2. ASSUME NEW k, Good(k, b, q)
      PROVE  /\ Good(D3D11UIDraw(k), b, q) /\ Good(Use(k, {<<UI, {"vbres", "ibres"}>>}), b, q)
             /\ Good(Error(k, "buffer stays mapped"), b, q)
  BY <1>2, DriverGood DEF D3D11UIDraw
<1>3. ASSUME NEW k \in mty_d3d11_ui_render(h, need) PROVE Good(k, b, q)
  <2> DEFINE sized == Then(d3d11_ui_resize_buffer(h, "vb", need), LAMBDA x : d3d11_ui_resize_buffer(x, "ib", need))
             used(x) == Use(x, {<<UI, {"vbres", "ibres"}>>})
             stuck(x) == Error(used(x), "buffer stays mapped")
             draw(x) == {Result(used(x), FALSE), Result(D3D11UIDraw(x), TRUE)}
                        \cup (IF "map" \in Faults THEN {Result(stuck(x), FALSE)} ELSE {})
  <2>1. k \in {r.g : r \in Then(sized, draw)}
    BY <1>3 DEF mty_d3d11_ui_render
  <2> HIDE DEF sized, used, stuck
  <2>a. \A x, t : t \in draw(x) => t.g = used(x) \/ t.g = D3D11UIDraw(x) \/ t.g = stuck(x)
    BY DEF Result
  <2> HIDE DEF draw
  <2>2. PICK s \in sized : k = s.g \/ k = used(s.g) \/ k = D3D11UIDraw(s.g) \/ k = stuck(s.g)
    BY <2>1, <2>a DEF Then
  <2>3. PICK r \in d3d11_ui_resize_buffer(h, "vb", need) :
          s \in IF r.ok THEN d3d11_ui_resize_buffer(r.g, "ib", need) ELSE {r}
    BY <2>2 DEF sized, Then
  <2>4. Good(r.g, b, q)
    BY <1>1
  <2>5. Good(s.g, b, q)
    BY <1>1, <2>3, <2>4
  <2>6. QED
    BY <1>2, <2>2, <2>5 DEF used, stuck
<1>4. QED
  BY <1>3

-----------------------------------------------------------------------------
(* Metal. *)

LEMMA MetalContextGood ==
  ASSUME NEW h, NEW b, NEW q, Good(h, b, q)
  PROVE  /\ Good(mty_metal_ctx_destroy(h), b, q)
         /\ \A r \in mty_metal_ctx_create(h) : Good(r.g, b, q)
         /\ \A r \in mty_metal_ctx_get_surface(h) : Good(r.g, b, q)
<1>1. Good(mty_metal_ctx_destroy(h), b, q)
  BY DriverGood DEF mty_metal_ctx_destroy
<1>2. ASSUME NEW r \in mty_metal_ctx_create(h) PROVE Good(r.g, b, q)
  <2> DEFINE m == MakeAll(h, Ctx, <<"layer", "cq">>)
             p == [m EXCEPT !.ptr = @ \cup {Ctx}]
             d == [p EXCEPT !.ctx.dev = 1]
             k == [d EXCEPT !.ctx.size = 0]
  <2>1. r.g = h \/ r.g = sync_set_interval(k, 0)
    BY <1>2 DEF mty_metal_ctx_create, sync_set_interval, Result
  <2>2. Good(m, b, q)
    BY DriverGood
  <2> HIDE DEF m
  <2>3. Good(p, b, q)
    BY <2>2, FieldsGood
  <2> HIDE DEF p
  <2>4. Good(d, b, q)
    <3>1. 1 \in 0..2
      OBVIOUS
    <3>2. QED
      BY <2>3, <3>1, FieldsGood
  <2> HIDE DEF d
  <2>5. Good(k, b, q)
    BY <2>4, FieldsGood
  <2> HIDE DEF k
  <2>6. QED
    BY <2>1, <2>5, StartGood
<1>3. ASSUME NEW r \in mty_metal_ctx_get_surface(h) PROVE Good(r.g, b, q)
  <2> DEFINE f == [h EXCEPT !.ctx.size = h.win.size]
             u == Use(f, {<<Ctx, {"layer"}>>})
  <2>1. r.g = h \/ r.g = u \/ r.g = Make(u, Ctx, "back_buffer")
    BY <1>3 DEF mty_metal_ctx_get_surface, metal_ctx_refresh, Result
  <2>2. Good(f, b, q)
    BY FieldsGood
  <2> HIDE DEF f
  <2>3. Good(u, b, q)
    BY <2>2, DriverGood
  <2> HIDE DEF u
  <2>4. QED
    BY <2>1, <2>3, DriverGood
<1>4. QED
  BY <1>1, <1>2, <1>3

LEMMA MetalPresentGood ==
  ASSUME NEW h, NEW b, NEW q, Good(h, b, q)
  PROVE  /\ \A n \in Nat : \A k \in mty_metal_ctx_set_sync_interval(h, n) : Good(k, b, q)
         /\ \A k \in mty_metal_ctx_present(h) : Good(k, b, q)
<1>1. ASSUME NEW n \in Nat, NEW k \in mty_metal_ctx_set_sync_interval(h, n) PROVE Good(k, b, q)
  <2>1. k = sync_set_interval(h, n)
    BY <1>1 DEF mty_metal_ctx_set_sync_interval
  <2>2. QED
    BY <2>1, SyncGood
<1>2. ASSUME NEW k \in mty_metal_ctx_present(h) PROVE Good(k, b, q)
  <2> DEFINE u == Use(h, {<<Ctx, {"cq", "back_buffer"}>>})
             n == sync_next_interval(u)
  <2>1. \/ k = h \/ k = Free(n, Ctx, "back_buffer")
        \/ k = Free(display_link_wait(n), Ctx, "back_buffer")
    BY <1>2 DEF mty_metal_ctx_present
  <2>2. Good(u, b, q)
    BY DriverGood
  <2> HIDE DEF u
  <2>3. Good(n, b, q)
    BY <2>2, SyncGood
  <2> HIDE DEF n
  <2>4. Good(display_link_wait(n), b, q)
    BY <2>3, DriverGood DEF display_link_wait
  <2>5. QED
    BY <2>1, <2>3, <2>4, DriverGood
<1>3. QED
  BY <1>1, <1>2

\* Layers.
LEMMA MetalLayerGood ==
  ASSUME NEW h, NEW b, NEW q, Good(h, b, q), NEW l
  PROVE  /\ Good(mty_metal_destroy(h, l), b, q)
         /\ Good(mty_metal_clear(h), b, q)
         /\ \A r \in mty_metal_create(h, l) : Good(r.g, b, q)
<1>1. ASSUME NEW k, Good(k, b, q) PROVE Good(mty_metal_destroy(k, l), b, q)
  <2> DEFINE x == Free(k, Plane(l, 1), "texture")
             y == Free(x, Plane(l, 2), "texture")
  <2>1. \E names : mty_metal_destroy(k, l) = k \/ mty_metal_destroy(k, l) = Destroyed(y, Quad(l), names)
    BY DEF mty_metal_destroy
  <2>2. Good(x, b, q)
    BY <1>1, DriverGood
  <2> HIDE DEF x
  <2>3. Good(y, b, q)
    BY <2>2, DriverGood
  <2> HIDE DEF y
  <2>4. QED
    BY <1>1, <2>1, <2>3, DriverGood
<1>2. Good(mty_metal_clear(h), b, q)
  BY DriverGood DEF mty_metal_clear
<1>3. ASSUME NEW r \in mty_metal_create(h, l) PROVE Good(r.g, b, q)
  <2> DEFINE m(names) == MakeAll([h EXCEPT !.ptr = @ \cup {Quad(l)}], Quad(l), names)
  <2>1. PICK names : r = Result(m(names), TRUE) \/ r = Result(mty_metal_destroy(m(names), l), FALSE)
    BY <1>3 DEF mty_metal_create, Create
  <2>2. Good(m(names), b, q)
    BY StepsGood
  <2> HIDE DEF m
  <2>3. Good(mty_metal_destroy(m(names), l), b, q)
    BY <1>1, <2>2
  <2>4. QED
    BY <2>1, <2>2, <2>3 DEF Result
<1>4. QED
  BY <1>1, <1>2, <1>3

LEMMA MetalPlaneGood ==
  ASSUME NEW h, NEW b, NEW q, Good(h, b, q),
         NEW l \in Layers, NEW p \in PlaneIds, NEW fmt \in Named, NEW size \in Extents,
         NEW r \in metal_refresh_resource(h, l, p, fmt, size)
  PROVE  PlaneLoaded(r, b, q, l, p, fmt, size)
<1> DEFINE o == Plane(l, p)
           f == Free(h, o, "texture")
           a == Make(f, o, "texture")
<1>1. CASE r = Result(h, FALSE)
  BY <1>1 DEF Result, PlaneLoaded, Some
<1>2. CASE r # Result(h, FALSE) /\ Differs(h, l, p, "texture", fmt, size)
  <2>1. r = Result(SetPlane(a, l, p, fmt, size), TRUE)
    BY <1>2 DEF metal_refresh_resource, Assign
  <2>2. Good(f, b, q)
    BY DriverGood
  <2> HIDE DEF f
  <2>3. Good(a, b, q)
    BY <2>2, DriverGood
  <2> HIDE DEF a
  <2>4. Good(SetPlane(a, l, p, fmt, size), b, With(q, l, p, fmt, size))
    BY <2>3, PlaneGood
  <2>5. QED
    BY <2>1, <2>4 DEF Result, PlaneLoaded, Some
<1>3. CASE r # Result(h, FALSE) /\ ~Differs(h, l, p, "texture", fmt, size)
  <2>1. r = Result(Use(h, {<<o, {"texture"}>>}), TRUE)
    BY <1>3 DEF metal_refresh_resource
  <2>2. h.quad[l].plane[p] = [fmt |-> fmt, size |-> size]
    BY <1>3 DEF Differs
  <2>3. Good(h, b, With(q, l, p, fmt, size))
    BY <2>2, SamePlane
  <2>4. Good(Use(h, {<<o, {"texture"}>>}), b, With(q, l, p, fmt, size))
    BY <2>3, DriverGood
  <2>5. QED
    BY <2>1, <2>4 DEF Result, PlaneLoaded, Some
<1>4. QED
  BY <1>1, <1>2, <1>3

LEMMA MetalReloadGood ==
  ASSUME NEW h, NEW b, NEW q, Good(h, b, q),
         NEW l \in Layers, NEW fmt \in Named, NEW size \in Extents,
         NEW r \in fmt_reload_textures(h, l, fmt, size, metal_refresh_resource)
  PROVE  Loaded(r, b, q, l, fmt, size)
<1>1. \A k, p : Good(k, b, p) =>
        /\ \A s \in metal_refresh_resource(k, l, 1, fmt, size) : PlaneLoaded(s, b, p, l, 1, fmt, size)
        /\ \A s \in metal_refresh_resource(k, l, 2, fmt, size) : PlaneLoaded(s, b, p, l, 2, fmt, size)
  <2>1. 1 \in PlaneIds /\ 2 \in PlaneIds
    BY DEF PlaneIds
  <2>2. QED
    BY <2>1, MetalPlaneGood DEF PlaneLoaded
<1>2. CASE fmt = "bgra"
  BY <1>1, <1>2, FrameLoaded DEF fmt_reload_textures
<1>3. CASE fmt = "nv12"
  <2>1. PICK s \in metal_refresh_resource(h, l, 1, fmt, size) :
          r \in IF s.ok THEN metal_refresh_resource(s.g, l, 2, fmt, size) ELSE {s}
    BY <1>3 DEF fmt_reload_textures, Then
  <2>2. PlaneLoaded(s, b, q, l, 1, fmt, size)
    BY <1>1
  <2>3. s.ok => PlaneLoaded(r, b, With(q, l, 1, fmt, size), l, 2, fmt, size)
    BY <1>1, <2>1, <2>2 DEF PlaneLoaded
  <2>4. QED
    BY <1>3, <2>1, <2>2, <2>3, FrameLoaded
<1>4. CASE fmt = "none"
  <2>1. r = Result(h, TRUE)
    BY <1>4 DEF fmt_reload_textures
  <2>2. QED
    BY <1>4, <2>1, FrameLoaded
<1>5. QED
  BY <1>2, <1>3, <1>4 DEF Named, Formats

LEMMA MetalRenderGood ==
  ASSUME NEW h, NEW b, NEW q, Good(h, b, q),
         NEW l \in Layers, NEW fmt, NEW size, Drawable(q, l, fmt, size),
         NEW k \in mty_metal_render(h, l, fmt, size)
  PROVE  Some(k, b)
<1> DEFINE f == SetFormat(h, l, fmt)
           loaded == fmt_reload_textures(f, l, fmt, size, metal_refresh_resource)
<1>1. fmt \in Named /\ size \in Extents
  BY DEF Drawable, Named, Extents
<1>2. Good(f, b, Formatted(q, l, fmt))
  BY <1>1, FormatGood
<1>3. k = f \/ \E s \in loaded : k = s.g \/ (s.ok /\ k = MetalDraw(s.g, l))
  BY DEF mty_metal_render, Then, Result
<1> HIDE DEF f
<1>4. ASSUME NEW s \in loaded PROVE Some(s.g, b) /\ (s.ok => Some(MetalDraw(s.g, l), b))
  <2>1. Some(s.g, b) /\ (s.ok => Some(Shown(s.g, l), b))
    BY <1>1, <1>2, MetalReloadGood, LoadedShown
  <2>2. QED
    BY <2>1, DriverGood DEF Some, MetalDraw
<1> HIDE DEF loaded
<1>5. QED
  BY <1>2, <1>3, <1>4 DEF Some

\* The UI.
LEMMA MetalUIGood ==
  ASSUME NEW h, NEW b, NEW q, Good(h, b, q)
  PROVE  /\ Good(mty_metal_ui_destroy(h), b, q)
         /\ \A r \in mty_metal_ui_create(h) : Good(r.g, b, q)
         /\ \A need : \A k \in mty_metal_ui_render(h, need) : Good(k, b, q)
<1>1. ASSUME NEW k, Good(k, b, q) PROVE Good(mty_metal_ui_destroy(k), b, q)
  BY <1>1, DriverGood, FieldsGood DEF mty_metal_ui_destroy
<1>2. ASSUME NEW r \in mty_metal_ui_create(h) PROVE Good(r.g, b, q)
  <2> DEFINE m(names) == MakeAll([h EXCEPT !.ptr = @ \cup {UI}], UI, names)
  <2>1. PICK names : r = Result(m(names), TRUE) \/ r = Result(mty_metal_ui_destroy(m(names)), FALSE)
    BY <1>2 DEF mty_metal_ui_create, Create
  <2>2. Good(m(names), b, q)
    BY StepsGood
  <2> HIDE DEF m
  <2>3. Good(mty_metal_ui_destroy(m(names)), b, q)
    BY <1>1, <2>2
  <2>4. QED
    BY <2>1, <2>2, <2>3 DEF Result
<1>3. ASSUME NEW k, Good(k, b, q), NEW x, NEW need PROVE Good(ResizeBuffer(k, x, need), b, q)
  <2> DEFINE f == Free(k, UI, x)
             a == Make(f, UI, x)
  <2>1. ResizeBuffer(k, x, need) = k \/ ResizeBuffer(k, x, need) = [a EXCEPT !.len[x] = need]
    BY DEF ResizeBuffer, Assign
  <2>2. Good(f, b, q)
    BY <1>3, DriverGood
  <2> HIDE DEF f
  <2>3. Good(a, b, q)
    BY <2>2, DriverGood
  <2> HIDE DEF a
  <2>4. Good([a EXCEPT !.len[x] = need], b, q)
    BY <2>3, FieldsGood
  <2>5. QED
    BY <1>3, <2>1, <2>4
<1>4. ASSUME NEW need, NEW k \in mty_metal_ui_render(h, need) PROVE Good(k, b, q)
  <2>1. Good(ResizeBuffer(h, "vb", need), b, q)
    BY <1>3
  <2>2. Good(ResizeBuffer(ResizeBuffer(h, "vb", need), "ib", need), b, q)
    BY <1>3, <2>1
  <2>3. \E uses : k = Use(ResizeBuffer(ResizeBuffer(h, "vb", need), "ib", need), uses)
    BY <1>4 DEF mty_metal_ui_render
  <2>4. QED
    BY <2>2, <2>3, DriverGood
<1>5. QED
  BY <1>1, <1>2, <1>4

LEMMA MetalTextureGood ==
  ASSUME NEW h, NEW b, NEW q, Good(h, b, q), plat # "windows", NEW o
  PROVE  /\ Good(mty_metal_ui_destroy_texture(h, o), b, q)
         /\ \A r \in mty_metal_ui_create_texture(h, o) : Good(r.g, b, q)
<1>1. Good(mty_metal_ui_destroy_texture(h, o), b, q)
  <2> DEFINE live == [[h.live EXCEPT ![o] = {}] EXCEPT ![Kept] = {"texture"}]
             p == [h EXCEPT !.ptr = @ \ {o}]
             k == [p EXCEPT !.has[o] = {}]
  <2>1. Good(p, b, q)
    BY FieldsGood
  <2>2. Good(k, b, q)
    BY <2>1, HasGood
  <2>3. mty_metal_ui_destroy_texture(h, o) = h \/ mty_metal_ui_destroy_texture(h, o) = [k EXCEPT !.live = live]
    <3>1. k.live = h.live
      OBVIOUS
    <3>2. QED
      BY <3>1 DEF mty_metal_ui_destroy_texture
  <2> HIDE DEF k, live
  <2>4. Good([k EXCEPT !.live = live], b, q)
    BY <2>2, EmptiedGood
  <2>5. QED
    BY <2>3, <2>4
<1>2. ASSUME NEW r \in mty_metal_ui_create_texture(h, o) PROVE Good(r.g, b, q)
  <2> DEFINE m == Make(h, o, "texture")
  <2>1. r.g = [m EXCEPT !.ptr = @ \cup {o}]
    BY <1>2 DEF mty_metal_ui_create_texture, Result
  <2>2. Good(m, b, q)
    BY DriverGood
  <2> HIDE DEF m
  <2>3. Good([m EXCEPT !.ptr = @ \cup {o}], b, q)
    BY <2>2, FieldsGood
  <2>4. QED
    BY <2>1, <2>3
<1>3. QED
  BY <1>1, <1>2

-----------------------------------------------------------------------------
(* OpenGL. *)

LEMMA GLUseGood ==
  ASSUME NEW h, NEW b, NEW q, Good(h, b, q)
  PROVE  \A uses : Good(GLUse(h, uses), b, q)
BY DriverGood DEF GLUse

LEMMA GLContextGood ==
  ASSUME NEW h, NEW b, NEW q, Good(h, b, q), plat # "windows"
  PROVE  /\ Good(ContextLost(h), b, q) /\ Good(gl_ctx_destroy_context(h), b, q)
         /\ Good(GLCtxDestroyed(h), b, q) /\ Good(GLCtxCreated(h), b, q)
         /\ Good(mty_gl_ctx_destroy_egl_surface(h), b, q)
         /\ \A r \in mty_gl_ctx_create(h) : Good(r.g, b, q)
         /\ \A r \in gl_ctx_check(h) : Good(r.g, b, q)
<1>1. Good(ContextLost(h), b, q)
  <2> DEFINE live == [NoObjects EXCEPT ![Ctx] = h.live[Ctx]]
  <2>1. ContextLost(h) = [h EXCEPT !.live = live]
    BY DEF ContextLost
  <2> HIDE DEF live
  <2>2. QED
    BY <2>1, EmptiedGood
<1>2. Good(gl_ctx_destroy_context(h), b, q)
  <2> DEFINE k == IF Has(h, Ctx, "context") THEN ContextLost(h) ELSE h
  <2>1. Good(k, b, q)
    BY <1>1
  <2> HIDE DEF k
  <2>2. Good(FreeAll(k, Ctx, <<"context", "eglsurface">>), b, q)
    BY <2>1, DriverGood
  <2>3. QED
    BY <2>2 DEF gl_ctx_destroy_context, k
<1>3. ASSUME NEW k, Good(k, b, q) PROVE Good(GLCtxDestroyed(k), b, q) /\ Good(GLCtxCreated(k), b, q)
  BY <1>3, FieldsGood DEF GLCtxDestroyed, GLCtxCreated
<1>4. Good(mty_gl_ctx_destroy_egl_surface(h), b, q)
  <2> DEFINE k == Free(h, Ctx, "eglsurface")
  <2>1. mty_gl_ctx_destroy_egl_surface(h) = [k EXCEPT !.ctx.init = FALSE]
    BY DEF mty_gl_ctx_destroy_egl_surface
  <2>2. Good(k, b, q)
    BY DriverGood
  <2> HIDE DEF k
  <2>3. Good([k EXCEPT !.ctx.init = FALSE], b, q)
    BY <2>2, FieldsGood
  <2>4. QED
    BY <2>1, <2>3
<1>5. ASSUME NEW r \in mty_gl_ctx_create(h) PROVE Good(r.g, b, q)
  <2>1. r.g = h \/ r.g = GLCtxCreated(h) \/ r.g = Make(GLCtxCreated(h), Ctx, "context")
    BY <1>5 DEF mty_gl_ctx_create, Result
  <2>2. Good(GLCtxCreated(h), b, q)
    BY <1>3
  <2>3. QED
    BY <2>1, <2>2, DriverGood
<1>6. ASSUME NEW r \in gl_ctx_check(h) PROVE Good(r.g, b, q)
  <2> DEFINE d == gl_ctx_destroy_context(h)
             c == MakeAll(d, Ctx, <<"eglsurface", "context">>)
             n == NewDevice(c)
             i == [n EXCEPT !.ctx.init = TRUE]
  <2>1. r = Result(h, FALSE) \/ r = Result(h, TRUE) \/ r = Result(i, TRUE)
    BY <1>6 DEF gl_ctx_check, gl_ctx_create_context
  <2>2. Good(d, b, q)
    BY <1>2
  <2> HIDE DEF d
  <2>3. Good(c, b, q)
    BY <2>2, DriverGood
  <2> HIDE DEF c
  <2>4. Good(n, b, q)
    BY <2>3, DriverGood
  <2> HIDE DEF n
  <2>5. Good(i, b, q)
    BY <2>4, FieldsGood
  <2> HIDE DEF i
  <2>6. QED
    BY <2>1, <2>5 DEF Result
<1>7. QED
  BY <1>1, <1>2, <1>3, <1>4, <1>5, <1>6

\* Android's calls that lock.
LEMMA GLLockGood ==
  ASSUME NEW h, NEW a, NEW q, Good(h, Off(a), q), plat # "windows"
  PROVE  /\ \A r \in mty_gl_ctx_lock(h) :
              /\ r.ok => Good(r.g, IF plat = "android" THEN On(a) ELSE Off(a), q)
              /\ ~r.ok => Good(r.g, Off(a), q)
         /\ Good(mty_gl_ctx_destroy(h), Off(a), q)
         /\ \A k \in mty_gl_ctx_present(h) : Good(k, Off(a), q)
<1>1. Good(mty_gfx_lock(h), On(a), q) /\ \A k : Good(k, On(a), q) => Good(mty_gfx_unlock(k), Off(a), q)
  BY LockGood
<1>2. \A r \in gl_ctx_check(mty_gfx_lock(h)) : Good(r.g, On(a), q)
  BY <1>1, GLContextGood
<1>3. ASSUME NEW r \in mty_gl_ctx_lock(h)
      PROVE  /\ r.ok => Good(r.g, IF plat = "android" THEN On(a) ELSE Off(a), q)
             /\ ~r.ok => Good(r.g, Off(a), q)
  <2>1. CASE plat # "android"
    BY <1>3, <2>1 DEF mty_gl_ctx_lock, Result
  <2>2. CASE plat = "android"
    <3>1. PICK s \in gl_ctx_check(mty_gfx_lock(h)) : r = IF s.ok THEN s ELSE Result(mty_gfx_unlock(s.g), FALSE)
      BY <1>3, <2>2 DEF mty_gl_ctx_lock
    <3>2. Good(s.g, On(a), q) /\ Good(mty_gfx_unlock(s.g), Off(a), q)
      BY <1>1, <1>2
    <3>3. QED
      BY <2>2, <3>1, <3>2 DEF Result
  <2>3. QED
    BY <2>1, <2>2
<1>4. Good(mty_gl_ctx_destroy(h), Off(a), q)
  <2>1. Good(Free(ContextLost(h), Ctx, "context"), Off(a), q)
    <3>1. Good(ContextLost(h), Off(a), q)
      BY GLContextGood
    <3>2. QED
      BY <3>1, DriverGood
  <2>2. Good(mty_gfx_unlock(gl_ctx_destroy_context(mty_gfx_lock(h))), Off(a), q)
    <3>1. Good(gl_ctx_destroy_context(mty_gfx_lock(h)), On(a), q)
      BY <1>1, GLContextGood
    <3>2. QED
      BY <1>1, <3>1
  <2>3. \A k : Good(k, Off(a), q) => Good(GLCtxDestroyed(k), Off(a), q)
    BY GLContextGood
  <2>4. \/ mty_gl_ctx_destroy(h) = GLCtxDestroyed(Free(ContextLost(h), Ctx, "context"))
        \/ mty_gl_ctx_destroy(h) = GLCtxDestroyed(mty_gfx_unlock(gl_ctx_destroy_context(mty_gfx_lock(h))))
        \/ mty_gl_ctx_destroy(h) = GLCtxDestroyed(h)
    BY DEF mty_gl_ctx_destroy
  <2>5. QED
    BY <2>1, <2>2, <2>3, <2>4
<1>5. ASSUME NEW k \in mty_gl_ctx_present(h) PROVE Good(k, Off(a), q)
  <2>1. CASE plat # "android"
    <3>1. k = h \/ k = Use(h, {<<Ctx, {"context"}>>})
      BY <1>5, <2>1 DEF mty_gl_ctx_present, X11Presented, WebPresented
    <3>2. QED
      BY <3>1, DriverGood
  <2>2. CASE plat = "android"
    <3> DEFINE used(x) == Use(x, {<<Ctx, {"context", "eglsurface"}>>})
    <3>1. PICK r \in gl_ctx_check(mty_gfx_lock(h)) : k = mty_gfx_unlock(IF r.ok THEN used(r.g) ELSE r.g)
      BY <1>5, <2>2 DEF mty_gl_ctx_present
    <3>2. Good(r.g, On(a), q)
      BY <1>2
    <3>3. Good(used(r.g), On(a), q)
      BY <3>2, DriverGood
    <3> HIDE DEF used
    <3>4. QED
      BY <1>1, <3>1, <3>2, <3>3
  <2>3. QED
    BY <2>1, <2>2
<1>6. QED
  BY <1>3, <1>4, <1>5

LEMMA GLUnlockGood ==
  ASSUME NEW h, NEW a, NEW q, Good(h, IF plat = "android" THEN On(a) ELSE Off(a), q)
  PROVE  Good(mty_gl_ctx_unlock(h), Off(a), q)
<1>1. CASE plat = "android"
  BY <1>1, LockGood DEF mty_gl_ctx_unlock
<1>2. CASE plat # "android"
  BY <1>2 DEF mty_gl_ctx_unlock
<1>3. QED
  BY <1>1, <1>2

\* Layers.
LEMMA GLLayerGood ==
  ASSUME NEW h, NEW b, NEW q, Good(h, b, q), NEW l
  PROVE  /\ Good(mty_gl_destroy(h, l), b, q)
         /\ Good(mty_gl_clear(h), b, q)
         /\ \A r \in mty_gl_create(h, l) : Good(r.g, b, q)
<1>1. ASSUME NEW k, Good(k, b, q) PROVE Good(mty_gl_destroy(k, l), b, q)
  <2> DEFINE x == Free(k, Plane(l, 1), "texture")
             y == Free(x, Plane(l, 2), "texture")
  <2>1. \E names : mty_gl_destroy(k, l) = k \/ mty_gl_destroy(k, l) = Destroyed(y, Quad(l), names)
    BY DEF mty_gl_destroy, gl_res_destroy
  <2>2. Good(x, b, q)
    BY <1>1, DriverGood
  <2> HIDE DEF x
  <2>3. Good(y, b, q)
    BY <2>2, DriverGood
  <2> HIDE DEF y
  <2>4. QED
    BY <1>1, <2>1, <2>3, DriverGood
<1>2. Good(mty_gl_clear(h), b, q)
  BY GLUseGood DEF mty_gl_clear
<1>3. ASSUME NEW r \in mty_gl_create(h, l) PROVE Good(r.g, b, q)
  <2> DEFINE k == GLUse(h, {})
             m(names) == MakeAll([k EXCEPT !.ptr = @ \cup {Quad(l)}], Quad(l), names)
  <2>1. \/ r = Result(h, FALSE)
        \/ \E names : r = Result(m(names), TRUE) \/ r = Result(mty_gl_destroy(m(names), l), FALSE)
    BY <1>3 DEF mty_gl_create, Create
  <2>2. Good(k, b, q)
    BY GLUseGood
  <2> HIDE DEF k
  <2>3. \A names : Good(m(names), b, q)
    BY <2>2, StepsGood
  <2> HIDE DEF m
  <2>4. \A names : Good(mty_gl_destroy(m(names), l), b, q)
    BY <1>1, <2>3
  <2>5. QED
    BY <2>1, <2>3, <2>4 DEF Result
<1>4. QED
  BY <1>1, <1>2, <1>3

LEMMA GLPlaneGood ==
  ASSUME NEW h, NEW b, NEW q, Good(h, b, q),
         NEW l \in Layers, NEW p \in PlaneIds, NEW fmt \in Named, NEW size \in Extents,
         NEW r \in gl_refresh_resource(h, l, p, fmt, size)
  PROVE  PlaneLoaded(r, b, q, l, p, fmt, size) /\ r.ok
<1> DEFINE o == Plane(l, p)
           f == gl_res_destroy(h, l, p)
           a == Make(f, o, "texture")
<1>1. CASE Differs(h, l, p, "texture", fmt, size)
  <2>1. r = Result(SetPlane(a, l, p, fmt, size), TRUE)
    BY <1>1 DEF gl_refresh_resource
  <2>2. Good(f, b, q)
    BY DriverGood DEF gl_res_destroy
  <2> HIDE DEF f
  <2>3. Good(a, b, q)
    BY <2>2, DriverGood
  <2> HIDE DEF a
  <2>4. Good(SetPlane(a, l, p, fmt, size), b, With(q, l, p, fmt, size))
    BY <2>3, PlaneGood
  <2>5. QED
    BY <2>1, <2>4 DEF Result, PlaneLoaded, Some
<1>2. CASE ~Differs(h, l, p, "texture", fmt, size)
  <2>1. r = Result(GLUse(h, {<<o, {"texture"}>>}), TRUE)
    BY <1>2 DEF gl_refresh_resource
  <2>2. h.quad[l].plane[p] = [fmt |-> fmt, size |-> size]
    BY <1>2 DEF Differs
  <2>3. Good(h, b, With(q, l, p, fmt, size))
    BY <2>2, SamePlane
  <2>4. Good(GLUse(h, {<<o, {"texture"}>>}), b, With(q, l, p, fmt, size))
    BY <2>3, GLUseGood
  <2>5. QED
    BY <2>1, <2>4 DEF Result, PlaneLoaded, Some
<1>3. QED
  BY <1>1, <1>2

LEMMA GLReloadGood ==
  ASSUME NEW h, NEW b, NEW q, Good(h, b, q),
         NEW l \in Layers, NEW fmt \in Named, NEW size \in Extents,
         NEW r \in fmt_reload_textures(h, l, fmt, size, gl_refresh_resource)
  PROVE  Loaded(r, b, q, l, fmt, size) /\ r.ok
<1>1. \A k, p : Good(k, b, p) =>
        /\ \A s \in gl_refresh_resource(k, l, 1, fmt, size) : PlaneLoaded(s, b, p, l, 1, fmt, size) /\ s.ok
        /\ \A s \in gl_refresh_resource(k, l, 2, fmt, size) : PlaneLoaded(s, b, p, l, 2, fmt, size) /\ s.ok
  <2>1. 1 \in PlaneIds /\ 2 \in PlaneIds
    BY DEF PlaneIds
  <2>2. QED
    BY <2>1, GLPlaneGood DEF PlaneLoaded
<1>2. CASE fmt = "bgra"
  <2>1. PlaneLoaded(r, b, q, l, 1, fmt, size) /\ r.ok
    BY <1>1, <1>2 DEF fmt_reload_textures
  <2>2. QED
    BY <1>2, <2>1, FrameLoaded
<1>3. CASE fmt = "nv12"
  <2>1. PICK s \in gl_refresh_resource(h, l, 1, fmt, size) :
          r \in IF s.ok THEN gl_refresh_resource(s.g, l, 2, fmt, size) ELSE {s}
    BY <1>3 DEF fmt_reload_textures, Then
  <2>2. PlaneLoaded(s, b, q, l, 1, fmt, size) /\ s.ok
    BY <1>1
  <2>3. PlaneLoaded(r, b, With(q, l, 1, fmt, size), l, 2, fmt, size) /\ r.ok
    BY <1>1, <2>1, <2>2 DEF PlaneLoaded
  <2>4. QED
    BY <1>3, <2>1, <2>2, <2>3, FrameLoaded
<1>4. CASE fmt = "none"
  <2>1. r = Result(h, TRUE)
    BY <1>4 DEF fmt_reload_textures
  <2>2. QED
    BY <1>4, <2>1, FrameLoaded DEF Result
<1>5. QED
  BY <1>2, <1>3, <1>4 DEF Named, Formats

LEMMA GLRenderGood ==
  ASSUME NEW h, NEW b, NEW q, Good(h, b, q),
         NEW l \in Layers, NEW fmt, NEW size, Drawable(q, l, fmt, size),
         NEW k \in mty_gl_render(h, l, fmt, size)
  PROVE  Some(k, b)
<1> DEFINE f == SetFormat(h, l, fmt)
           loaded == fmt_reload_textures(f, l, fmt, size, gl_refresh_resource)
<1>1. fmt \in Named /\ size \in Extents
  BY DEF Drawable, Named, Extents
<1>2. Good(f, b, Formatted(q, l, fmt))
  BY <1>1, FormatGood
<1>3. k = f \/ \E s \in loaded : k = GLDraw(s.g, l)
  BY DEF mty_gl_render
<1> HIDE DEF f
<1>4. ASSUME NEW s \in loaded PROVE Some(GLDraw(s.g, l), b)
  <2>1. Some(Shown(s.g, l), b)
    BY <1>1, <1>2, GLReloadGood, LoadedShown
  <2>2. QED
    BY <2>1, GLUseGood DEF Some, GLDraw
<1> HIDE DEF loaded
<1>5. QED
  BY <1>2, <1>3, <1>4 DEF Some

\* The UI.
LEMMA GLUIGood ==
  ASSUME NEW h, NEW b, NEW q, Good(h, b, q)
  PROVE  /\ Good(mty_gl_ui_destroy(h), b, q)
         /\ \A r \in mty_gl_ui_create(h) : Good(r.g, b, q)
         /\ \A k \in mty_gl_ui_render(h) : Good(k, b, q)
<1>1. ASSUME NEW k, Good(k, b, q) PROVE Good(mty_gl_ui_destroy(k), b, q)
  BY <1>1, DriverGood DEF mty_gl_ui_destroy
<1>2. ASSUME NEW r \in mty_gl_ui_create(h) PROVE Good(r.g, b, q)
  <2> DEFINE k == GLUse(h, {})
             m(names) == MakeAll([k EXCEPT !.ptr = @ \cup {UI}], UI, names)
  <2>1. \/ r = Result(h, FALSE)
        \/ \E names : r = Result(m(names), TRUE) \/ r = Result(mty_gl_ui_destroy(m(names)), FALSE)
    BY <1>2 DEF mty_gl_ui_create, Create
  <2>2. Good(k, b, q)
    BY GLUseGood
  <2> HIDE DEF k
  <2>3. \A names : Good(m(names), b, q)
    BY <2>2, StepsGood
  <2> HIDE DEF m
  <2>4. \A names : Good(mty_gl_ui_destroy(m(names)), b, q)
    BY <1>1, <2>3
  <2>5. QED
    BY <2>1, <2>3, <2>4 DEF Result
<1>3. \A k \in mty_gl_ui_render(h) : Good(k, b, q)
  BY GLUseGood DEF mty_gl_ui_render
<1>4. QED
  BY <1>1, <1>2, <1>3

LEMMA GLTextureGood ==
  ASSUME NEW h, NEW b, NEW q, Good(h, b, q), NEW o
  PROVE  /\ Good(mty_gl_ui_destroy_texture(h, o), b, q)
         /\ \A r \in mty_gl_ui_create_texture(h, o) : Good(r.g, b, q)
<1>1. Good(mty_gl_ui_destroy_texture(h, o), b, q)
  BY DriverGood DEF mty_gl_ui_destroy_texture
<1>2. ASSUME NEW r \in mty_gl_ui_create_texture(h, o) PROVE Good(r.g, b, q)
  <2> DEFINE u == GLUse(h, {})
             m == Make(u, o, "texture")
  <2>1. r.g = [m EXCEPT !.ptr = @ \cup {o}]
    BY <1>2 DEF mty_gl_ui_create_texture, Result
  <2>2. Good(u, b, q)
    BY GLUseGood
  <2> HIDE DEF u
  <2>3. Good(m, b, q)
    BY <2>2, DriverGood
  <2> HIDE DEF m
  <2>4. Good([m EXCEPT !.ptr = @ \cup {o}], b, q)
    BY <2>3, FieldsGood
  <2>5. QED
    BY <2>1, <2>4
<1>3. QED
  BY <1>1, <1>2

-----------------------------------------------------------------------------
(* The tables of functions. *)

LEMMA ApiGood ==
  ASSUME NEW h, NEW b, NEW q, Good(h, b, q)
  PROVE  /\ h.api = b.api /\ h.api \in APIs \cup {"none"} /\ q \in Quads
         /\ h.api \in {"d3d11", "d3d12"} => plat = "windows"
         /\ h.api \in {"gl", "metal"} => plat # "windows"
         /\ h.device \in 0..1 /\ h.ctx.dev \in 0..2
BY DEF Good, Counted, Timed, Framed

LEMMA BackendIs == \A a : Off(a).api = a /\ On(a).api = a
BY DEF Off, On

\* A context comes and goes.
LEMMA ContextGood ==
  ASSUME NEW h, NEW a \in APIs, NEW q, Good(h, Off(a), q)
  PROVE  Good(ctx_destroy(h), Off(a), q) /\ \A r \in ctx_create(h) : Good(r.g, Off(a), q)
<1>0. h.api \in APIs /\ (h.api \in {"d3d11", "d3d12"} => plat = "windows")
      /\ (h.api \in {"gl", "metal"} => plat # "windows") /\ q \in Quads
  BY ApiGood, BackendIs
<1>1. CASE h.api = "vk"
  <2>1. ctx_destroy(h) = mty_vk_ctx_destroy(h) /\ ctx_create(h) = mty_vk_ctx_create(h)
    BY <1>1 DEF ctx_destroy, ctx_create
  <2>2. QED
    BY <1>0, <1>1, <2>1, VkContextGood, VkSharedGood
<1>2. CASE h.api = "d3d12"
  <2>1. ctx_destroy(h) = mty_d3d12_ctx_destroy(h) /\ ctx_create(h) = mty_d3d12_ctx_create(h)
    BY <1>2 DEF ctx_destroy, ctx_create
  <2>2. QED
    BY <1>0, <1>2, <2>1, D3D12ContextGood
<1>3. CASE h.api = "d3d11"
  <2>1. ctx_destroy(h) = mty_d3d11_ctx_destroy(h) /\ ctx_create(h) = mty_d3d11_ctx_create(h)
    BY <1>3 DEF ctx_destroy, ctx_create
  <2>2. QED
    BY <1>0, <1>3, <2>1, D3D11ContextGood
<1>4. CASE h.api = "metal"
  <2>1. ctx_destroy(h) = mty_metal_ctx_destroy(h) /\ ctx_create(h) = mty_metal_ctx_create(h)
    BY <1>4 DEF ctx_destroy, ctx_create
  <2>2. QED
    BY <1>0, <1>4, <2>1, MetalContextGood
<1>5. CASE h.api = "gl"
  <2>1. ctx_destroy(h) = mty_gl_ctx_destroy(h) /\ ctx_create(h) = mty_gl_ctx_create(h)
    BY <1>5 DEF ctx_destroy, ctx_create
  <2>2. QED
    BY <1>0, <1>5, <2>1, GLContextGood, GLLockGood
<1>6. QED
  BY <1>0, <1>1, <1>2, <1>3, <1>4, <1>5 DEF APIs

\* The surface of a frame.
LEMMA SurfaceGood ==
  ASSUME NEW h, NEW a \in APIs, NEW q, Good(h, Off(a), q)
  PROVE  \A r \in ctx_get_surface(h) : Good(r.g, Off(a), q)
<1>0. h.api \in APIs /\ (h.api \in {"d3d11", "d3d12"} => plat = "windows")
      /\ (h.api \in {"gl", "metal"} => plat # "windows") /\ q \in Quads
  BY ApiGood, BackendIs
<1>1. CASE h.api = "vk"
  <2>1. ctx_get_surface(h) = mty_vk_ctx_get_surface(h)
    BY <1>1 DEF ctx_get_surface
  <2>2. QED
    BY <1>0, <1>1, <2>1, VkSurfaceGood
<1>2. CASE h.api = "d3d12"
  <2>1. ctx_get_surface(h) = mty_d3d12_ctx_get_surface(h)
    BY <1>2 DEF ctx_get_surface
  <2>2. QED
    BY <1>0, <1>2, <2>1, D3D12SurfaceGood
<1>3. CASE h.api = "d3d11"
  <2>1. ctx_get_surface(h) = mty_d3d11_ctx_get_surface(h)
    BY <1>3 DEF ctx_get_surface
  <2>2. QED
    BY <1>0, <1>3, <2>1, D3D11SurfaceGood
<1>4. CASE h.api = "metal"
  <2>1. ctx_get_surface(h) = mty_metal_ctx_get_surface(h)
    BY <1>4 DEF ctx_get_surface
  <2>2. QED
    BY <1>0, <1>4, <2>1, MetalContextGood
<1>5. CASE h.api = "gl"
  <2>1. ctx_get_surface(h) = mty_gl_ctx_get_surface(h)
    BY <1>5 DEF ctx_get_surface
  <2>2. QED
    BY <1>0, <1>5, <2>1, ResultIs DEF mty_gl_ctx_get_surface, Result
<1>6. QED
  BY <1>0, <1>1, <1>2, <1>3, <1>4, <1>5 DEF APIs

\* A frame is presented.
LEMMA PresentGood ==
  ASSUME NEW h, NEW a \in APIs, NEW q, Good(h, Off(a), q)
  PROVE  \A k \in ctx_present(h) : Good(k, Off(a), q)
<1>0. h.api \in APIs /\ (h.api \in {"d3d11", "d3d12"} => plat = "windows")
      /\ (h.api \in {"gl", "metal"} => plat # "windows") /\ q \in Quads
  BY ApiGood, BackendIs
<1>1. CASE h.api = "vk"
  <2>1. ctx_present(h) = mty_vk_ctx_present(h)
    BY <1>1 DEF ctx_present
  <2>2. QED
    BY <1>0, <1>1, <2>1, VkPresentGood
<1>2. CASE h.api = "d3d12"
  <2>1. ctx_present(h) = mty_d3d12_ctx_present(h)
    BY <1>2 DEF ctx_present
  <2>2. QED
    BY <1>0, <1>2, <2>1, D3D12PresentGood
<1>3. CASE h.api = "d3d11"
  <2>1. ctx_present(h) = mty_d3d11_ctx_present(h)
    BY <1>3 DEF ctx_present
  <2>2. QED
    BY <1>0, <1>3, <2>1, D3D11PresentGood
<1>4. CASE h.api = "metal"
  <2>1. ctx_present(h) = mty_metal_ctx_present(h)
    BY <1>4 DEF ctx_present
  <2>2. QED
    BY <1>0, <1>4, <2>1, MetalPresentGood
<1>5. CASE h.api = "gl"
  <2>1. ctx_present(h) = mty_gl_ctx_present(h)
    BY <1>5 DEF ctx_present
  <2>2. QED
    BY <1>0, <1>5, <2>1, GLLockGood
<1>6. QED
  BY <1>0, <1>1, <1>2, <1>3, <1>4, <1>5 DEF APIs

\* A renderer is made; the screen is cleared.
LEMMA CreateGood ==
  ASSUME NEW h, NEW b, b.api \in APIs, NEW q, Good(h, b, q), NEW l \in Layers
  PROVE  Good(clear(h), b, q) /\ \A r \in create(h, l) : Created(r, b, q)
<1>0. h.api \in APIs /\ (h.api \in {"d3d11", "d3d12"} => plat = "windows")
      /\ (h.api \in {"gl", "metal"} => plat # "windows") /\ q \in Quads
  BY ApiGood, BackendIs
<1>1. CASE h.api = "vk"
  <2>1. clear(h) = mty_vk_clear(h, 0) /\ create(h, l) = mty_vk_create(h, l)
    BY <1>1 DEF clear, create
  <2>2. QED
    BY <1>0, <1>1, <2>1, VkLayerGood, VkCreateGood DEF Created, Some
<1>2. CASE h.api = "d3d12"
  <2>1. clear(h) = mty_d3d12_clear(h) /\ create(h, l) = mty_d3d12_create(h, l)
    BY <1>2 DEF clear, create
  <2>2. QED
    BY <1>0, <1>2, <2>1, D3D12LayerGood, D3D12CreateGood
<1>3. CASE h.api = "d3d11"
  <2>1. clear(h) = mty_d3d11_clear(h) /\ create(h, l) = mty_d3d11_create(h, l)
    BY <1>3 DEF clear, create
  <2>2. QED
    BY <1>0, <1>3, <2>1, D3D11LayerGood, D3D11CreateGood
<1>4. CASE h.api = "metal"
  <2>1. clear(h) = mty_metal_clear(h) /\ create(h, l) = mty_metal_create(h, l)
    BY <1>4 DEF clear, create
  <2>2. QED
    BY <1>0, <1>4, <2>1, MetalLayerGood DEF Created, Some
<1>5. CASE h.api = "gl"
  <2>1. clear(h) = mty_gl_clear(h) /\ create(h, l) = mty_gl_create(h, l)
    BY <1>5 DEF clear, create
  <2>2. QED
    BY <1>0, <1>5, <2>1, GLLayerGood DEF Created, Some
<1>6. QED
  BY <1>0, <1>1, <1>2, <1>3, <1>4, <1>5 DEF APIs

\* A frame is rendered.
LEMMA RenderGood ==
  ASSUME NEW h, NEW b, b.api \in APIs, NEW q, Good(h, b, q),
         NEW l \in Layers, NEW fmt, NEW size, Drawable(q, l, fmt, size)
  PROVE  \A k \in render(h, l, fmt, size) : Some(k, b)
<1>0. h.api \in APIs /\ (h.api \in {"d3d11", "d3d12"} => plat = "windows")
      /\ (h.api \in {"gl", "metal"} => plat # "windows") /\ q \in Quads
  BY ApiGood, BackendIs
<1>1. CASE h.api = "vk"
  <2>1. render(h, l, fmt, size) = mty_vk_render(h, l, fmt, size)
    BY <1>1 DEF render
  <2>2. QED
    BY <1>0, <1>1, <2>1, VkRenderGood
<1>2. CASE h.api = "d3d12"
  <2>1. render(h, l, fmt, size) = mty_d3d12_render(h, l, fmt, size)
    BY <1>2 DEF render
  <2>2. QED
    BY <1>0, <1>2, <2>1, D3D12RenderGood
<1>3. CASE h.api = "d3d11"
  <2>1. render(h, l, fmt, size) = mty_d3d11_render(h, l, fmt, size)
    BY <1>3 DEF render
  <2>2. QED
    BY <1>0, <1>3, <2>1, D3D11RenderGood
<1>4. CASE h.api = "metal"
  <2>1. render(h, l, fmt, size) = mty_metal_render(h, l, fmt, size)
    BY <1>4 DEF render
  <2>2. QED
    BY <1>0, <1>4, <2>1, MetalRenderGood
<1>5. CASE h.api = "gl"
  <2>1. render(h, l, fmt, size) = mty_gl_render(h, l, fmt, size)
    BY <1>5 DEF render
  <2>2. QED
    BY <1>0, <1>5, <2>1, GLRenderGood
<1>6. QED
  BY <1>0, <1>1, <1>2, <1>3, <1>4, <1>5 DEF APIs

\* The renderer of the UI.
LEMMA UIGood ==
  ASSUME NEW h, NEW b, b.api \in APIs, NEW q, Good(h, b, q)
  PROVE  Good(ui_destroy(h), b, q) /\ \A r \in ui_create(h) : Good(r.g, b, q)
<1>0. h.api \in APIs /\ (h.api \in {"d3d11", "d3d12"} => plat = "windows")
      /\ (h.api \in {"gl", "metal"} => plat # "windows") /\ q \in Quads
  BY ApiGood, BackendIs
<1>1. CASE h.api = "vk"
  <2>1. ui_destroy(h) = mty_vk_ui_destroy(h) /\ ui_create(h) = mty_vk_ui_create(h)
    BY <1>1 DEF ui_destroy, ui_create
  <2>2. QED
    BY <1>0, <1>1, <2>1, VkUIGood, VkUICreateGood
<1>2. CASE h.api = "d3d12"
  <2>1. ui_destroy(h) = mty_d3d12_ui_destroy(h) /\ ui_create(h) = mty_d3d12_ui_create(h)
    BY <1>2 DEF ui_destroy, ui_create
  <2>2. QED
    BY <1>0, <1>2, <2>1, D3D12UIGood, D3D12UICreateGood
<1>3. CASE h.api = "d3d11"
  <2>1. ui_destroy(h) = mty_d3d11_ui_destroy(h) /\ ui_create(h) = mty_d3d11_ui_create(h)
    BY <1>3 DEF ui_destroy, ui_create
  <2>2. QED
    BY <1>0, <1>3, <2>1, D3D11UIGood
<1>4. CASE h.api = "metal"
  <2>1. ui_destroy(h) = mty_metal_ui_destroy(h) /\ ui_create(h) = mty_metal_ui_create(h)
    BY <1>4 DEF ui_destroy, ui_create
  <2>2. QED
    BY <1>0, <1>4, <2>1, MetalUIGood
<1>5. CASE h.api = "gl"
  <2>1. ui_destroy(h) = mty_gl_ui_destroy(h) /\ ui_create(h) = mty_gl_ui_create(h)
    BY <1>5 DEF ui_destroy, ui_create
  <2>2. QED
    BY <1>0, <1>5, <2>1, GLUIGood
<1>6. QED
  BY <1>0, <1>1, <1>2, <1>3, <1>4, <1>5 DEF APIs

\* The UI is rendered.
LEMMA UIRenderGood ==
  ASSUME NEW h, NEW b, b.api \in APIs, NEW q, Good(h, b, q), NEW need
  PROVE  \A k \in ui_render(h, need) : Good(k, b, q)
<1>0. h.api \in APIs /\ (h.api \in {"d3d11", "d3d12"} => plat = "windows")
      /\ (h.api \in {"gl", "metal"} => plat # "windows") /\ q \in Quads
  BY ApiGood, BackendIs
<1>1. CASE h.api = "vk"
  <2>1. ui_render(h, need) = mty_vk_ui_render(h, need)
    BY <1>1 DEF ui_render
  <2>2. QED
    BY <1>0, <1>1, <2>1, VkUIRenderGood
<1>2. CASE h.api = "d3d12"
  <2>1. ui_render(h, need) = mty_d3d12_ui_render(h, need)
    BY <1>2 DEF ui_render
  <2>2. QED
    BY <1>0, <1>2, <2>1, D3D12UIRenderGood
<1>3. CASE h.api = "d3d11"
  <2>1. ui_render(h, need) = mty_d3d11_ui_render(h, need)
    BY <1>3 DEF ui_render
  <2>2. QED
    BY <1>0, <1>3, <2>1, D3D11UIRenderGood
<1>4. CASE h.api = "metal"
  <2>1. ui_render(h, need) = mty_metal_ui_render(h, need)
    BY <1>4 DEF ui_render
  <2>2. QED
    BY <1>0, <1>4, <2>1, MetalUIGood
<1>5. CASE h.api = "gl"
  <2>1. ui_render(h, need) = mty_gl_ui_render(h)
    BY <1>5 DEF ui_render
  <2>2. QED
    BY <1>0, <1>5, <2>1, GLUIGood
<1>6. QED
  BY <1>0, <1>1, <1>2, <1>3, <1>4, <1>5 DEF APIs

\* A texture of the UI is made.
LEMMA TextureMadeGood ==
  ASSUME NEW h, NEW b, b.api \in APIs, NEW q, Good(h, b, q), NEW o
  PROVE  \A r \in ui_create_texture(h, o) : Good(r.g, b, q)
<1>0. h.api \in APIs /\ (h.api \in {"d3d11", "d3d12"} => plat = "windows")
      /\ (h.api \in {"gl", "metal"} => plat # "windows") /\ q \in Quads
  BY ApiGood, BackendIs
<1>1. CASE h.api = "vk"
  <2>1. ui_create_texture(h, o) = mty_vk_ui_create_texture(h, o)
    BY <1>1 DEF ui_create_texture
  <2>2. QED
    BY <1>0, <1>1, <2>1, VkTextureGood
<1>2. CASE h.api = "d3d12"
  <2>1. ui_create_texture(h, o) = mty_d3d12_ui_create_texture(h, o)
    BY <1>2 DEF ui_create_texture
  <2>2. QED
    BY <1>0, <1>2, <2>1, D3D12TextureGood
<1>3. CASE h.api = "d3d11"
  <2>1. ui_create_texture(h, o) = mty_d3d11_ui_create_texture(h, o)
    BY <1>3 DEF ui_create_texture
  <2>2. QED
    BY <1>0, <1>3, <2>1, D3D11TextureGood
<1>4. CASE h.api = "metal"
  <2>1. ui_create_texture(h, o) = mty_metal_ui_create_texture(h, o)
    BY <1>4 DEF ui_create_texture
  <2>2. QED
    BY <1>0, <1>4, <2>1, MetalTextureGood
<1>5. CASE h.api = "gl"
  <2>1. ui_create_texture(h, o) = mty_gl_ui_create_texture(h, o)
    BY <1>5 DEF ui_create_texture
  <2>2. QED
    BY <1>0, <1>5, <2>1, GLTextureGood
<1>6. QED
  BY <1>0, <1>1, <1>2, <1>3, <1>4, <1>5 DEF APIs

\* A renderer and its planes are freed, and the formats with them.
LEMMA DestroyGood ==
  ASSUME NEW h, NEW b, b.api \in APIs, NEW q, Good(h, b, q), NEW l \in Layers
  PROVE  Good(destroy(h, l), b, [q EXCEPT ![l] = NewQuad])
<1> DEFINE freed == CASE h.api = "vk"    -> mty_vk_destroy(h, l)
                      [] h.api = "d3d12" -> mty_d3d12_destroy(h, l)
                      [] h.api = "d3d11" -> mty_d3d11_destroy(h, l)
                      [] h.api = "metal" -> mty_metal_destroy(h, l)
                      [] h.api = "gl"    -> mty_gl_destroy(h, l)
<1>0. h.api \in APIs /\ q \in Quads
  BY ApiGood
<1>1. q = [q EXCEPT ![l] = q[l]]
  BY <1>0, QuadOnly
<1>2. ASSUME h.api = "vk" PROVE \E x : Good(freed, b, [q EXCEPT ![l] = x])
  <2>1. freed = mty_vk_destroy(h, l)
    BY <1>2
  <2> HIDE DEF freed
  <2>2. QED
    BY <1>1, <2>1, VkLayerGood
<1>3. ASSUME h.api = "d3d12" PROVE \E x : Good(freed, b, [q EXCEPT ![l] = x])
  <2>1. freed = mty_d3d12_destroy(h, l)
    BY <1>3
  <2> HIDE DEF freed
  <2>2. QED
    BY <1>1, <2>1, D3D12LayerGood
<1>4. ASSUME h.api = "d3d11" PROVE \E x : Good(freed, b, [q EXCEPT ![l] = x])
  <2>1. freed = mty_d3d11_destroy(h, l)
    BY <1>4
  <2> HIDE DEF freed
  <2>2. QED
    BY <1>1, <2>1, D3D11LayerGood
<1>5. ASSUME h.api = "metal" PROVE \E x : Good(freed, b, [q EXCEPT ![l] = x])
  <2>1. freed = mty_metal_destroy(h, l)
    BY <1>5
  <2> HIDE DEF freed
  <2>2. QED
    BY <1>1, <2>1, MetalLayerGood
<1>6. ASSUME h.api = "gl" PROVE \E x : Good(freed, b, [q EXCEPT ![l] = x])
  <2>1. freed = mty_gl_destroy(h, l)
    BY <1>6
  <2> HIDE DEF freed
  <2>2. QED
    BY <1>1, <2>1, GLLayerGood
<1>7. destroy(h, l) = [freed EXCEPT !.quad[l] = NewQuad]
  BY DEF destroy
<1> HIDE DEF freed
<1>8. PICK x : Good(freed, b, [q EXCEPT ![l] = x])
  BY <1>0, <1>2, <1>3, <1>4, <1>5, <1>6 DEF APIs
<1> DEFINE p == [q EXCEPT ![l] = x]
<1>9. [p EXCEPT ![l] = NewQuad] = [q EXCEPT ![l] = NewQuad]
  BY <1>0, QuadOnly
<1> HIDE DEF p
<1>10. "none" \in Named /\ Good(freed, b, p)
  BY <1>8 DEF Named, p
<1>11. Good([freed EXCEPT !.quad[l] = NewQuad], b, [p EXCEPT ![l] = NewQuad])
  BY <1>10, FormatGood
<1>12. QED
  BY <1>7, <1>9, <1>11

\* A texture of the UI is freed.
LEMMA TextureFreedGood ==
  ASSUME NEW h, NEW b, b.api \in APIs, NEW q, Good(h, b, q), NEW o
  PROVE  Good(ui_destroy_texture(h, o), b, q)
<1> DEFINE freed == CASE h.api = "vk"    -> mty_vk_ui_destroy_texture(h, o)
                      [] h.api = "d3d12" -> mty_d3d12_ui_destroy_texture(h, o)
                      [] h.api = "d3d11" -> mty_d3d11_ui_destroy_texture(h, o)
                      [] h.api = "metal" -> mty_metal_ui_destroy_texture(h, o)
                      [] h.api = "gl"    -> mty_gl_ui_destroy_texture(h, o)
<1>0. h.api \in APIs /\ (h.api \in {"gl", "metal"} => plat # "windows")
  BY ApiGood
<1>1. ASSUME h.api = "vk" PROVE Good(freed, b, q)
  <2>1. freed = mty_vk_ui_destroy_texture(h, o)
    BY <1>1
  <2> HIDE DEF freed
  <2>2. QED
    BY <1>0, <1>1, <2>1, VkTextureGood
<1>2. ASSUME h.api = "d3d12" PROVE Good(freed, b, q)
  <2>1. freed = mty_d3d12_ui_destroy_texture(h, o)
    BY <1>2
  <2> HIDE DEF freed
  <2>2. QED
    BY <1>0, <1>2, <2>1, D3D12TextureGood
<1>3. ASSUME h.api = "d3d11" PROVE Good(freed, b, q)
  <2>1. freed = mty_d3d11_ui_destroy_texture(h, o)
    BY <1>3
  <2> HIDE DEF freed
  <2>2. QED
    BY <1>0, <1>3, <2>1, D3D11TextureGood
<1>4. ASSUME h.api = "metal" PROVE Good(freed, b, q)
  <2>1. freed = mty_metal_ui_destroy_texture(h, o)
    BY <1>4
  <2> HIDE DEF freed
  <2>2. QED
    BY <1>0, <1>4, <2>1, MetalTextureGood
<1>5. ASSUME h.api = "gl" PROVE Good(freed, b, q)
  <2>1. freed = mty_gl_ui_destroy_texture(h, o)
    BY <1>5
  <2> HIDE DEF freed
  <2>2. QED
    BY <1>0, <1>5, <2>1, GLTextureGood
<1>6. ui_destroy_texture(h, o) = [freed EXCEPT !.ptr = @ \ {o}]
  BY DEF ui_destroy_texture
<1> HIDE DEF freed
<1>7. Good(freed, b, q)
  BY <1>0, <1>1, <1>2, <1>3, <1>4, <1>5 DEF APIs
<1>8. \A x : Good([freed EXCEPT !.ptr = x], b, q)
  BY <1>7, FieldsGood
<1>9. QED
  BY <1>6, <1>8

\* The interval, and the lock, which one back end has.
LEMMA IntervalGood ==
  ASSUME NEW h, NEW a \in APIs, NEW q, Good(h, Off(a), q), NEW n \in Nat
  PROVE  \A k \in ctx_set_sync_interval(h, n) : Good(k, Off(a), q)
<1>0. h.api \in {"d3d11", "d3d12"} => plat = "windows"
  BY ApiGood
<1>1. CASE h.api = "d3d12"
  <2>1. ctx_set_sync_interval(h, n) = mty_d3d12_ctx_set_sync_interval(h, n)
    BY <1>1 DEF ctx_set_sync_interval
  <2>2. QED
    BY <1>0, <1>1, <2>1, D3D12PresentGood
<1>2. CASE h.api = "d3d11"
  <2>1. ctx_set_sync_interval(h, n) = mty_d3d11_ctx_set_sync_interval(h, n)
    BY <1>2 DEF ctx_set_sync_interval
  <2>2. QED
    BY <1>0, <1>2, <2>1, D3D11PresentGood
<1>3. CASE h.api = "metal"
  <2>1. ctx_set_sync_interval(h, n) = mty_metal_ctx_set_sync_interval(h, n)
    BY <1>3 DEF ctx_set_sync_interval
  <2>2. QED
    BY <2>1, MetalPresentGood
<1>4. CASE h.api \notin {"d3d12", "d3d11", "metal"}
  BY <1>4 DEF ctx_set_sync_interval
<1>5. QED
  BY <1>1, <1>2, <1>3, <1>4

\* Who holds the lock while a call draws.
Drawing(a) == IF a = "gl" THEN IF plat = "android" THEN On(a) ELSE Off(a) ELSE Off(a)

LEMMA CallGood ==
  ASSUME NEW h, NEW a, NEW q
  PROVE  /\ Good(h, Off(a), q) => \A r \in ctx_lock(h) :
                /\ r.ok => Good(r.g, Drawing(a), q)
                /\ ~r.ok => Good(r.g, Off(a), q)
         /\ Good(h, Drawing(a), q) => Good(ctx_unlock(h), Off(a), q)
         /\ Drawing(a).api = a
<1>1. Drawing(a).api = a
  BY BackendIs DEF Drawing
<1>2. ASSUME Good(h, Off(a), q), NEW r \in ctx_lock(h)
      PROVE  /\ r.ok => Good(r.g, Drawing(a), q)
             /\ ~r.ok => Good(r.g, Off(a), q)
  <2>0. h.api = a /\ (h.api = "gl" => plat # "windows")
    BY <1>2, ApiGood, BackendIs
  <2>1. CASE a = "gl"
    <3>1. r \in mty_gl_ctx_lock(h) /\ Drawing(a) = IF plat = "android" THEN On(a) ELSE Off(a)
      BY <1>2, <2>0, <2>1 DEF ctx_lock, Drawing
    <3>2. QED
      BY <1>2, <2>0, <2>1, <3>1, GLLockGood
  <2>2. CASE a # "gl"
    BY <1>2, <2>0, <2>2 DEF ctx_lock, Drawing, Result
  <2>3. QED
    BY <2>1, <2>2
<1>3. ASSUME Good(h, Drawing(a), q) PROVE Good(ctx_unlock(h), Off(a), q)
  <2>0. h.api = a
    BY <1>1, <1>3, ApiGood
  <2>1. CASE a = "gl"
    <3>1. /\ ctx_unlock(h) = mty_gl_ctx_unlock(h)
          /\ Drawing(a) = IF plat = "android" THEN On(a) ELSE Off(a)
      BY <2>0, <2>1 DEF ctx_unlock, Drawing
    <3>2. QED
      BY <1>3, <3>1, GLUnlockGood
  <2>2. CASE a # "gl"
    BY <1>3, <2>0, <2>2 DEF ctx_unlock, Drawing
  <2>3. QED
    BY <2>1, <2>2
<1>4. QED
  BY <1>1, <1>2, <1>3

LEMMA DeviceIs ==
  ASSUME NEW h, NEW b, b.api \in APIs, NEW q, Good(h, b, q)
  PROVE  ctx_get_device(h) \in {0, h.ctx.dev}
<1>1. h.api \in APIs
  BY ApiGood
<1>2. QED
  BY <1>1 DEF APIs, ctx_get_device, mty_vk_ctx_get_device, mty_d3d12_ctx_get_device,
              mty_d3d11_ctx_get_device, mty_metal_ctx_get_device, mty_gl_ctx_get_device

-----------------------------------------------------------------------------
(* What is done to every layer, or every texture, one after the other.       *)

\* A layer's formats are what they were, or are gone.
Fresher(p, q) == \A l \in Layers : p[l] \in {q[l], NewQuad}
Keeps(h, b, q) == \E p : Good(h, b, p) /\ Fresher(p, q)

LEMMA KeptIs ==
  ASSUME NEW b, b.api \in APIs, NEW q \in Quads
  PROVE  /\ \A h : Good(h, b, q) => Keeps(h, b, q)
         /\ \A h : Keeps(h, b, q) => \A l \in Layers : Keeps(destroy(h, l), b, q)
         /\ \A h : Keeps(h, b, q) => \A o : Keeps(ui_destroy_texture(h, o), b, q)
<1>1. Fresher(q, q)
  BY DEF Fresher
<1>2. ASSUME NEW h, Keeps(h, b, q), NEW l \in Layers PROVE Keeps(destroy(h, l), b, q)
  <2>1. PICK p : Good(h, b, p) /\ Fresher(p, q)
    BY <1>2 DEF Keeps
  <2>2. Good(destroy(h, l), b, [p EXCEPT ![l] = NewQuad]) /\ p \in Quads
    BY <2>1, DestroyGood, ApiGood
  <2>3. Fresher([p EXCEPT ![l] = NewQuad], q)
    BY <2>1, <2>2 DEF Fresher, Quads
  <2>4. QED
    BY <2>2, <2>3 DEF Keeps
<1>3. ASSUME NEW h, Keeps(h, b, q), NEW o PROVE Keeps(ui_destroy_texture(h, o), b, q)
  BY <1>3, TextureFreedGood DEF Keeps
<1>4. QED
  BY <1>1, <1>2, <1>3 DEF Keeps

\* Numbers are well-founded: a fold is followed to the first place where it would fail.
LEMMA Least ==
  ASSUME NEW T, T \subseteq Nat, T # {}
  PROVE  \E m \in T : \A k \in T : m <= k
<1> DEFINE Less == {ss \in Nat \X Nat : ss[1] < ss[2]}
<1>1. OpToRel(<, Nat) = Less
  BY DEF OpToRel
<1>2. IsWellFoundedOn(Less, Nat)
  BY <1>1, NatLessThanWellFounded
<1>3. PICK m \in T : \A k \in T : ~(<<k, m>> \in Less)
  <2> HIDE DEF Less
  <2>1. QED
    BY <1>2, WFMin
<1>4. ASSUME NEW k \in T PROVE ~(k < m)
  BY <1>3
<1>5. ASSUME NEW k \in T PROVE m <= k
  BY <1>4
<1>6. QED
  BY <1>5

\* What is left where a number leaves it when the next one does.
LEMMA Induction ==
  ASSUME NEW T, T \subseteq Nat, 0 \notin T, \A n \in Nat : n + 1 \in T => n \in T
  PROVE  T = {}
<1> SUFFICES ASSUME T # {} PROVE FALSE
  OBVIOUS
<1>1. PICK m \in T : \A k \in T : m <= k
  BY Least
<1>2. m \in Nat /\ m # 0
  OBVIOUS
<1>3. m - 1 \in Nat /\ (m - 1) + 1 = m
  BY <1>2
<1>4. m - 1 \in T
  BY <1>3
<1>5. QED
  BY <1>1, <1>2, <1>4

LEMMA MaxIs ==
  ASSUME NEW n \in Nat, NEW s \in SUBSET (1..(n + 1)), n + 1 \in s
  PROVE  Max(s) = n + 1
<1>1. \A y \in s : n + 1 >= y
  OBVIOUS
<1>2. PICK x \in s : x = Max(s) /\ \A y \in s : x >= y
  BY <1>1 DEF Max
<1>3. x = n + 1
  BY <1>1, <1>2
<1>4. QED
  BY <1>2, <1>3

\* The two steps that are folded.
Emptied(kind, k, x) == IF kind = "layers" THEN destroy(k, x) ELSE ui_destroy_texture(k, Tex(x))
Members(kind) == IF kind = "layers" THEN Layers ELSE Textures

LEMMA EmptiedKept ==
  ASSUME NEW b, b.api \in APIs, NEW q \in Quads, NEW h, Keeps(h, b, q), NEW kind, NEW x \in Members(kind)
  PROVE  Keeps(Emptied(kind, h, x), b, q)
<1>1. CASE kind = "layers"
  BY <1>1, KeptIs DEF Emptied, Members
<1>2. CASE kind # "layers"
  BY <1>2, KeptIs DEF Emptied
<1>3. QED
  BY <1>1, <1>2

\* A fold, as the function of sets of places that defines it.
Folds(F, S, kind, h, seq) ==
  F = [s \in S |-> IF s = {} THEN h ELSE Emptied(kind, F[s \ {Max(s)}], seq[Max(s)])]

\* There is one, for any number of places.
LEMMA FoldExists ==
  ASSUME NEW kind, NEW h, NEW seq
  PROVE  \A n \in Nat : \E F : Folds(F, SUBSET (1..n), kind, h, seq)
<1> DEFINE T == {n \in Nat : ~\E F : Folds(F, SUBSET (1..n), kind, h, seq)}
<1>1. 0 \notin T
  <2> DEFINE F == [s \in {{}} |-> h]
  <2>1. SUBSET (1..0) = {{}}
    OBVIOUS
  <2>2. Folds(F, SUBSET (1..0), kind, h, seq)
    BY <2>1 DEF Folds
  <2>3. QED
    BY <2>2
<1>2. ASSUME NEW n \in Nat, NEW E, Folds(E, SUBSET (1..n), kind, h, seq)
      PROVE  \E F : Folds(F, SUBSET (1..(n + 1)), kind, h, seq)
  <2> DEFINE m == n + 1
             F == [s \in SUBSET (1..m) |-> IF m \in s THEN Emptied(kind, E[s \ {m}], seq[m]) ELSE E[s]]
  <2>3. ASSUME NEW s \in SUBSET (1..m)
        PROVE  F[s] = IF s = {} THEN h ELSE Emptied(kind, F[s \ {Max(s)}], seq[Max(s)])
    <3>1. CASE m \in s
      <4>1. Max(s) = m
        BY <3>1, MaxIs
      <4>2. s \ {m} \in SUBSET (1..m) /\ m \notin s \ {m} /\ s # {}
        BY <3>1
      <4>3. F[s] = Emptied(kind, E[s \ {m}], seq[m]) /\ F[s \ {m}] = E[s \ {m}]
        BY <3>1, <4>2
      <4>4. QED
        BY <4>1, <4>2, <4>3
    <3>2. CASE m \notin s
      <4>1. s \in SUBSET (1..n)
        BY <3>2
      <4>2. s \ {Max(s)} \in SUBSET (1..n)
        BY <4>1
      <4>3. s \ {Max(s)} \in SUBSET (1..m) /\ m \notin s \ {Max(s)}
        BY <3>2, <4>2
      <4>4. F[s] = E[s] /\ F[s \ {Max(s)}] = E[s \ {Max(s)}]
        BY <3>2, <4>3
      <4>5. E[s] = IF s = {} THEN h ELSE Emptied(kind, E[s \ {Max(s)}], seq[Max(s)])
        BY <1>2, <4>1 DEF Folds
      <4>6. QED
        BY <4>4, <4>5
    <3>3. QED
      BY <3>1, <3>2
  <2>4. Folds(F, SUBSET (1..m), kind, h, seq)
    BY <2>3 DEF Folds
  <2>5. QED
    BY <2>4
<1>3. \A n \in Nat : n + 1 \in T => n \in T
  BY <1>2
<1>4. T \subseteq Nat
  OBVIOUS
<1>5. T = {}
  <2> HIDE DEF T
  <2>1. QED
    BY <1>1, <1>3, <1>4, Induction
<1>6. QED
  BY <1>5

\* Each step keeps the state good, so the fold does.
LEMMA FoldKept ==
  ASSUME NEW b, b.api \in APIs, NEW q \in Quads, NEW h, Keeps(h, b, q), NEW kind,
         NEW seq \in Seq(Members(kind)), NEW iter, Folds(iter, SUBSET DOMAIN seq, kind, h, seq)
  PROVE  Keeps(iter[DOMAIN seq], b, q)
<1> DEFINE N == Len(seq)
<1>2. DOMAIN seq = 1..N /\ N \in Nat
  OBVIOUS
<1>5. \A n \in Nat : n <= N => \A s \in SUBSET (1..n) : Keeps(iter[s], b, q)
  <2> DEFINE G(n) == \A s \in SUBSET (1..n) : Keeps(iter[s], b, q)
             T == {n \in Nat : n <= N /\ ~G(n)}
  <2>0. ASSUME NEW s \in SUBSET DOMAIN seq
        PROVE  iter[s] = IF s = {} THEN h ELSE Emptied(kind, iter[s \ {Max(s)}], seq[Max(s)])
    BY DEF Folds
  <2> HIDE DEF N
  <2>1. G(0)
    <3>1. ASSUME NEW s \in SUBSET (1..0) PROVE s = {} /\ s \in SUBSET DOMAIN seq
      OBVIOUS
    <3>2. QED
      BY <2>0, <3>1
  <2>2. ASSUME NEW n \in Nat, n + 1 <= N, G(n)
        PROVE  G(n + 1)
    <3> SUFFICES ASSUME NEW s \in SUBSET (1..(n + 1)) PROVE Keeps(iter[s], b, q)
      OBVIOUS
    <3>1. s \in SUBSET DOMAIN seq
      BY <1>2, <2>2
    <3>2. CASE n + 1 \notin s
      <4>1. s \in SUBSET (1..n)
        BY <3>2
      <4>2. QED
        BY <2>2, <4>1
    <3>3. CASE n + 1 \in s
      <4>1. Max(s) = n + 1
        BY <3>3, MaxIs
      <4>2. s \ {n + 1} \in SUBSET (1..n)
        OBVIOUS
      <4>3. Keeps(iter[s \ {n + 1}], b, q)
        BY <2>2, <4>2
      <4>4. iter[s] = Emptied(kind, iter[s \ {n + 1}], seq[n + 1])
        BY <2>0, <3>1, <3>3, <4>1
      <4>5. seq[n + 1] \in Members(kind)
        BY <3>1, <3>3
      <4>6. QED
        BY <4>3, <4>4, <4>5, EmptiedKept
    <3>4. QED
      BY <3>2, <3>3
  <2>3. 0 \notin T
    BY <2>1
  <2>4. \A n \in Nat : n + 1 \in T => n \in T
    <3> SUFFICES ASSUME NEW n \in Nat, n + 1 \in T PROVE n \in T
      OBVIOUS
    <3>1. n + 1 <= N /\ ~G(n + 1)
      OBVIOUS
    <3>2. ~G(n)
      BY <2>2, <3>1
    <3>3. n <= N
      BY <1>2, <3>1
    <3>4. QED
      BY <3>2, <3>3
  <2>5. T \subseteq Nat
    OBVIOUS
  <2>6. T = {}
    <3> HIDE DEF T
    <3>1. QED
      BY <2>3, <2>4, <2>5, Induction
  <2>7. QED
    BY <2>6
<1>6. Keeps(iter[DOMAIN seq], b, q)
  <2>1. QED
    BY <1>2, <1>5
<1>7. QED
  BY <1>6

-----------------------------------------------------------------------------
(* The folds of gfx_set_device.                                              *)

\* Finitely many layers, and textures, are a sequence.
LEMMA OrderedType ==
  ASSUME NEW S, IsFiniteSet(S)
  PROVE  SetToSeq(S) \in Seq(S)
<1>1. Cardinality(S) \in Nat /\ ExistsBijection(1..Cardinality(S), S)
  BY FS_NatBijection, FS_CardinalityType
<1>2. \E f \in [1..Cardinality(S) -> S] : IsInjective(f)
  BY <1>1 DEF ExistsBijection, Bijection, Injection, Surjection
<1>3. SetToSeq(S) \in [1..Cardinality(S) -> S]
  BY <1>2 DEF SetToSeq
<1>4. QED
  BY <1>1, <1>3

LEMMA LayersFolded ==
  ASSUME NEW b, b.api \in APIs, NEW q \in Quads, NEW h, Keeps(h, b, q)
  PROVE  Keeps(FoldLeft(destroy, h, SetToSeq(Layers)), b, q)
<1> DEFINE seq == SetToSeq(Layers)
           Rec(F) == F = [s \in SUBSET DOMAIN seq |->
                            IF s = {} THEN h ELSE destroy(F[s \ {Max(s)}], seq[Max(s)])]
           iter == CHOOSE F : Rec(F)
<1>1. seq \in Seq(Members("layers"))
  BY GraphicsAssumption, OrderedType DEF Members
<1>2. \A F : Folds(F, SUBSET DOMAIN seq, "layers", h, seq) <=> Rec(F)
  BY DEF Folds, Emptied
<1>3. FoldLeft(destroy, h, SetToSeq(Layers)) = iter[DOMAIN seq]
  BY DEF FoldLeft, MapThenFoldSet
<1> HIDE DEF seq, Rec
<1>4. \E F : Folds(F, SUBSET DOMAIN seq, "layers", h, seq)
  <2>1. DOMAIN seq = 1..Len(seq) /\ Len(seq) \in Nat
    BY <1>1
  <2>2. QED
    BY <2>1, FoldExists
<1>5. Folds(iter, SUBSET DOMAIN seq, "layers", h, seq)
  BY <1>2, <1>4
<1> HIDE DEF iter
<1>6. QED
  BY <1>1, <1>3, <1>5, FoldKept

LEMMA TexturesFolded ==
  ASSUME NEW b, b.api \in APIs, NEW q \in Quads, NEW h, Keeps(h, b, q)
  PROVE  Keeps(FoldLeft(LAMBDA k, t : ui_destroy_texture(k, Tex(t)), h, SetToSeq(Textures)), b, q)
<1> DEFINE seq == SetToSeq(Textures)
           Rec(F) == F = [s \in SUBSET DOMAIN seq |->
                            IF s = {} THEN h ELSE ui_destroy_texture(F[s \ {Max(s)}], Tex(seq[Max(s)]))]
           iter == CHOOSE F : Rec(F)
           left == FoldLeft(LAMBDA k, t : ui_destroy_texture(k, Tex(t)), h, SetToSeq(Textures))
<1>1. seq \in Seq(Members("textures"))
  BY GraphicsAssumption, OrderedType DEF Members
<1>2. \A F : Folds(F, SUBSET DOMAIN seq, "textures", h, seq) <=> Rec(F)
  BY DEF Folds, Emptied
<1>3. left = iter[DOMAIN seq]
  BY DEF FoldLeft, MapThenFoldSet
<1> HIDE DEF seq, Rec
<1>4. \E F : Folds(F, SUBSET DOMAIN seq, "textures", h, seq)
  <2>1. DOMAIN seq = 1..Len(seq) /\ Len(seq) \in Nat
    BY <1>1
  <2>2. QED
    BY <2>1, FoldExists
<1>5. Folds(iter, SUBSET DOMAIN seq, "textures", h, seq)
  BY <1>2, <1>4
<1> HIDE DEF iter
<1>6. Keeps(left, b, q)
  <2> HIDE DEF left
  <2>1. QED
    BY <1>1, <1>3, <1>5, FoldKept
<1>7. QED
  BY <1>6

-----------------------------------------------------------------------------
(* What the calls have in common.                                            *)

LEMMA SameDeviceGood ==
  ASSUME NEW h, NEW b, NEW q, Good(h, b, q), NEW device
  PROVE  /\ Good(SameDevice([h EXCEPT !.hash = FALSE, !.device = device]), b, q)
         /\ Good([h EXCEPT !.hash = TRUE], b, q)
<1> DEFINE k == SameDevice([h EXCEPT !.hash = FALSE, !.device = device])
           m == [h EXCEPT !.hash = TRUE]
<1>0. /\ {"ctx", "drift", "api", "ref", "device", "hash", "live", "old", "quad", "err", "lock"} \subseteq DOMAIN h
      /\ {"rem", "interval", "dev"} \subseteq DOMAIN h.ctx
  BY DEF Good, Timed, Counted, Held, Framed
<1>1. /\ k.ctx = h.ctx \/ k.ctx = [h.ctx EXCEPT !.dev = 1]
      /\ k.device \in {0, 1} /\ k.hash = FALSE /\ k.drift = h.drift /\ k.api = h.api /\ k.ref = h.ref
      /\ k.live = h.live /\ k.old = h.old /\ k.quad = h.quad /\ k.err = h.err /\ k.lock = h.lock
      /\ DOMAIN k = DOMAIN h
  BY <1>0 DEF SameDevice
<1>2. /\ m.ctx = h.ctx /\ m.device = h.device /\ m.hash = TRUE /\ m.drift = h.drift /\ m.api = h.api
      /\ m.ref = h.ref /\ m.live = h.live /\ m.old = h.old /\ m.quad = h.quad /\ m.err = h.err
      /\ m.lock = h.lock /\ DOMAIN m = DOMAIN h
  BY <1>0
<1> HIDE DEF k, m
<1>3. Timed(k) /\ Timed(m)
  BY <1>0, <1>1, <1>2 DEF Good, Timed
<1>4. Counted(k) /\ Counted(m)
  <2>0. Counted(h)
    BY DEF Good
  <2>1. k.hash \in BOOLEAN /\ m.hash \in BOOLEAN
    BY <1>1, <1>2
  <2>2. k.device \in 0..1
    BY <1>1
  <2>3. Counted(k)
    BY <1>0, <1>1, <2>0, <2>1, <2>2 DEF Counted
  <2>4. Counted(m)
    BY <1>0, <1>2, <2>0, <2>1 DEF Counted
  <2>5. QED
    BY <2>3, <2>4
<1>5. Held(k) /\ Held(m) /\ Framed(k, q) /\ Framed(m, q)
  BY <1>0, <1>1, <1>2 DEF Good, Held, Living, Framed
<1>6. Good(k, b, q) /\ Good(m, b, q)
  BY <1>0, <1>1, <1>2, <1>3, <1>4, <1>5 DEF Good
<1>7. QED
  BY <1>6 DEF k, m

LEMMA SetDeviceGood ==
  ASSUME NEW h, NEW b, b.api \in APIs, NEW q, Good(h, b, q), NEW device
  PROVE  Keeps(gfx_set_device(h, device), b, q)
<1> DEFINE quads == FoldLeft(destroy, h, SetToSeq(Layers))
           freed == FoldLeft(LAMBDA k, t : ui_destroy_texture(k, Tex(t)), quads, SetToSeq(Textures))
           textures == IF ~quads.hash THEN quads ELSE freed
           left == ui_destroy(textures)
<1>0. q \in Quads /\ Keeps(h, b, q)
  BY ApiGood, KeptIs
<1>1. CASE h.device = device
  BY <1>0, <1>1 DEF gfx_set_device
<1>2. CASE h.device # device
  <2>1. gfx_set_device(h, device) = SameDevice([left EXCEPT !.hash = FALSE, !.device = device])
    BY <1>2 DEF gfx_set_device
  <2>2. Keeps(quads, b, q)
    BY <1>0, LayersFolded
  <2> HIDE DEF quads
  <2>3. Keeps(freed, b, q)
    BY <1>0, <2>2, TexturesFolded
  <2> HIDE DEF freed
  <2>4. Keeps(textures, b, q)
    BY <2>2, <2>3
  <2> HIDE DEF textures
  <2>5. PICK p : Good(textures, b, p) /\ Fresher(p, q)
    BY <2>4 DEF Keeps
  <2>6. Good(left, b, p)
    BY <2>5, UIGood
  <2> HIDE DEF left
  <2>7. Good(SameDevice([left EXCEPT !.hash = FALSE, !.device = device]), b, p)
    BY <2>6, SameDeviceGood
  <2>8. QED
    BY <2>1, <2>5, <2>7 DEF Keeps
<1>3. QED
  BY <1>1, <1>2

LEMMA BeginGood ==
  ASSUME NEW h, NEW b, b.api \in APIs, NEW q, Good(h, b, q)
  PROVE  /\ \A l \in Layers : \A r \in gfx_begin(h, l) :
              Some(r.g, b) /\ (r.ok => Keeps(r.g, b, q))
         /\ \A r \in gfx_begin_ui(h) : Some(r.g, b)
<1> DEFINE k == gfx_set_device(h, ctx_get_device(h))
<1>1. Keeps(k, b, q)
  BY SetDeviceGood
<1>2. /\ \A l : gfx_begin(h, l) = IF Quad(l) \in k.ptr THEN {Result(k, TRUE)} ELSE create(k, l)
      /\ gfx_begin_ui(h) = {Result([r.g EXCEPT !.hash = TRUE], r.ok) :
                              r \in IF UI \in k.ptr THEN {Result(k, TRUE)} ELSE ui_create(k)}
  BY DEF gfx_begin, gfx_begin_ui
<1> HIDE DEF k
<1>3. PICK p : Good(k, b, p) /\ Fresher(p, q)
  BY <1>1 DEF Keeps
<1>4. ASSUME NEW l \in Layers, NEW r \in gfx_begin(h, l)
      PROVE  Some(r.g, b) /\ (r.ok => Keeps(r.g, b, q))
  <2>1. r = Result(k, TRUE) \/ r \in create(k, l)
    BY <1>2, <1>4
  <2>2. r = Result(k, TRUE) \/ Created(r, b, p)
    BY <1>3, <2>1, CreateGood
  <2>3. CASE r = Result(k, TRUE)
    <3>1. r.g = k
      BY <2>3, ResultIs
    <3>2. QED
      BY <1>3, <3>1 DEF Some, Keeps
  <2>4. CASE Created(r, b, p)
    BY <1>3, <2>4 DEF Created, Keeps
  <2>5. QED
    BY <2>2, <2>3, <2>4
<1>5. ASSUME NEW r \in gfx_begin_ui(h)
      PROVE  Some(r.g, b)
  <2> DEFINE begun == IF UI \in k.ptr THEN {Result(k, TRUE)} ELSE ui_create(k)
  <2>0. \A s \in begun : s = Result(k, TRUE) \/ s \in ui_create(k)
    OBVIOUS
  <2> HIDE DEF begun
  <2>1. PICK s \in begun : r = Result([s.g EXCEPT !.hash = TRUE], s.ok)
    <3>1. gfx_begin_ui(h) = {Result([s.g EXCEPT !.hash = TRUE], s.ok) : s \in begun}
      BY <1>2 DEF begun
    <3>2. QED
      BY <1>5, <3>1
  <2>2. r.g = [s.g EXCEPT !.hash = TRUE]
    BY <2>1, ResultIs
  <2>3. Good(s.g, b, p)
    <3>1. CASE s = Result(k, TRUE)
      <4>1. s.g = k
        BY <3>1, ResultIs
      <4>2. QED
        BY <1>3, <4>1
    <3>2. CASE s \in ui_create(k)
      BY <1>3, <3>2, UIGood
    <3>3. QED
      BY <2>0, <2>1, <3>1, <3>2
  <2>4. Good([s.g EXCEPT !.hash = TRUE], b, p)
    BY <2>3, SameDeviceGood
  <2>5. QED
    BY <2>2, <2>4 DEF Some
<1>6. QED
  BY <1>4, <1>5

LEMMA FresherDrawable ==
  ASSUME NEW q \in Quads, NEW p, Fresher(p, q), NEW l \in Layers, NEW fmt, NEW size, Drawable(q, l, fmt, size)
  PROVE  Drawable(p, l, fmt, size)
<1>1. CASE p[l] = q[l]
  BY <1>1 DEF Drawable, Whole, FmtOf, PlaneOf
<1>2. CASE p[l] = NewQuad
  <2>1. FmtOf(p, l) = "none" /\ Range(Planes("none")) = {}
    BY <1>2 DEF FmtOf, NewQuad, Planes, Range
  <2>2. Whole(p, l)
    BY <2>1 DEF Whole
  <2>3. QED
    BY <2>2 DEF Drawable
<1>3. QED
  BY <1>1, <1>2 DEF Fresher

-----------------------------------------------------------------------------
(* The calls that draw.                                                      *)

\* Such a call, once it has a surface, and has the lock.
LEMMA CallEnds ==
  ASSUME NEW a \in APIs, NEW q, NEW t, Good(t.g, Off(a), q), NEW k,
         \/ ~t.ok /\ k = t.g
         \/ \E s \in ctx_lock(t.g) :
              \/ ~s.ok /\ k = s.g
              \/ s.ok /\ \E x : /\ Good(s.g, Drawing(a), q) => Some(x, Drawing(a))
                               /\ k = ctx_unlock(x)
  PROVE  Some(k, Off(a))
<1>1. CASE ~t.ok /\ k = t.g
  BY <1>1 DEF Some
<1>2. ASSUME NEW s \in ctx_lock(t.g), ~s.ok, k = s.g PROVE Some(k, Off(a))
  BY <1>2, CallGood DEF Some
<1>3. ASSUME NEW s \in ctx_lock(t.g), s.ok, NEW x, Good(s.g, Drawing(a), q) => Some(x, Drawing(a)),
             k = ctx_unlock(x)
      PROVE  Some(k, Off(a))
  <2>1. Good(s.g, Drawing(a), q)
    BY <1>3, CallGood
  <2>2. PICK p : Good(x, Drawing(a), p)
    BY <1>3, <2>1 DEF Some
  <2>3. Good(k, Off(a), p)
    BY <1>3, <2>2, CallGood
  <2>4. QED
    BY <2>3 DEF Some
<1>4. QED
  BY <1>1, <1>2, <1>3

\* A quad.
LEMMA DrawQuadGood ==
  ASSUME NEW a \in APIs, NEW q, Good(g, Off(a), q), NEW l \in Layers,
         NEW fmt, NEW size, Drawable(q, l, fmt, size), DrawQuad(l, fmt, size)
  PROVE  Some(g', Off(a)) /\ plat' = plat
<1> DEFINE draw(h) == UNION {IF r.ok THEN render(r.g, l, fmt, size) ELSE {r.g} : r \in gfx_begin(h, l)}
           results == ctx_get_surface(g)
           locked == UNION {IF r.ok THEN ctx_lock(r.g) ELSE {r} : r \in results}
           ends == UNION {IF r.ok THEN {Result(ctx_unlock(k), TRUE) : k \in draw(r.g)} ELSE {r} : r \in locked}
<1>1. g' \in {r.g : r \in ends} /\ plat' = plat
  BY DEF DrawQuad, Go, Drawn, Locked, Then
<1>2. ASSUME NEW h, Good(h, Drawing(a), q), NEW k \in draw(h) PROVE Some(k, Drawing(a))
  <2>0. Drawing(a).api \in APIs
    BY CallGood
  <2>1. PICK r \in gfx_begin(h, l) : k \in (IF r.ok THEN render(r.g, l, fmt, size) ELSE {r.g})
    BY <1>2
  <2>2. Some(r.g, Drawing(a)) /\ (r.ok => Keeps(r.g, Drawing(a), q))
    BY <1>2, <2>0, BeginGood
  <2>3. ASSUME r.ok PROVE Some(k, Drawing(a))
    <3>1. PICK p : Good(r.g, Drawing(a), p) /\ Fresher(p, q)
      BY <2>2, <2>3 DEF Keeps
    <3>2. Drawable(p, l, fmt, size)
      BY <1>2, <3>1, FresherDrawable, ApiGood
    <3>3. QED
      BY <2>0, <2>1, <2>3, <3>1, <3>2, RenderGood
  <2>4. QED
    BY <2>1, <2>2, <2>3
<1> HIDE DEF draw
<1>3. PICK r \in ends : g' = r.g
  BY <1>1
<1>4. PICK s \in locked : \/ ~s.ok /\ r = s
                          \/ s.ok /\ \E x \in draw(s.g) : r = Result(ctx_unlock(x), TRUE)
  OBVIOUS
<1> HIDE DEF ends
<1>5. PICK t \in results : (~t.ok /\ s = t) \/ (t.ok /\ s \in ctx_lock(t.g))
  BY DEF locked
<1> HIDE DEF locked
<1>6. \A x : Result(ctx_unlock(x), TRUE).g = ctx_unlock(x)
  BY ResultIs
<1>7. Good(t.g, Off(a), q)
  BY SurfaceGood
<1> HIDE DEF results
<1>8. CASE ~t.ok /\ s = t
  BY <1>1, <1>3, <1>4, <1>7, <1>8 DEF Some
<1>9. CASE t.ok /\ s \in ctx_lock(t.g)
  <2>1. CASE ~s.ok /\ r = s
    BY <1>1, <1>3, <1>7, <1>9, <2>1, CallEnds
  <2>2. CASE s.ok /\ \E x \in draw(s.g) : r = Result(ctx_unlock(x), TRUE)
    <3>1. PICK x \in draw(s.g) : g' = ctx_unlock(x)
      BY <1>3, <1>6, <2>2
    <3>2. Good(s.g, Drawing(a), q) => Some(x, Drawing(a))
      BY <1>2
    <3>3. QED
      BY <1>1, <1>7, <1>9, <2>2, <3>1, <3>2, CallEnds
  <2>3. QED
    BY <1>4, <2>1, <2>2
<1>10. QED
  BY <1>5, <1>8, <1>9

\* A clear screen.
LEMMA ClearGood ==
  ASSUME NEW a \in APIs, NEW q, Good(g, Off(a), q), MTY_WindowClear
  PROVE  Some(g', Off(a)) /\ plat' = plat
<1> DEFINE draw(h) == UNION {IF r.ok THEN {clear(r.g)} ELSE {r.g} : r \in gfx_begin(h, 0)}
           results == ctx_get_surface(g)
           locked == UNION {IF r.ok THEN ctx_lock(r.g) ELSE {r} : r \in results}
           ends == UNION {IF r.ok THEN {Result(ctx_unlock(k), TRUE) : k \in draw(r.g)} ELSE {r} : r \in locked}
<1>1. g' \in {r.g : r \in ends} /\ plat' = plat
  BY DEF MTY_WindowClear, Go, Drawn, Locked, Then
<1>2. ASSUME NEW h, Good(h, Drawing(a), q), NEW k \in draw(h) PROVE Some(k, Drawing(a))
  <2>0. Drawing(a).api \in APIs
    BY CallGood
  <2>1. PICK r \in gfx_begin(h, 0) : k \in (IF r.ok THEN {clear(r.g)} ELSE {r.g})
    BY <1>2
  <2>2. PICK p : Good(r.g, Drawing(a), p)
    BY <1>2, <2>0, BeginGood, GraphicsAssumption DEF Some
  <2>3. Good(clear(r.g), Drawing(a), p)
    BY <2>0, <2>2, CreateGood, GraphicsAssumption
  <2>4. QED
    BY <2>1, <2>2, <2>3 DEF Some
<1> HIDE DEF draw
<1>3. PICK r \in ends : g' = r.g
  BY <1>1
<1>4. PICK s \in locked : \/ ~s.ok /\ r = s
                          \/ s.ok /\ \E x \in draw(s.g) : r = Result(ctx_unlock(x), TRUE)
  OBVIOUS
<1> HIDE DEF ends
<1>5. PICK t \in results : (~t.ok /\ s = t) \/ (t.ok /\ s \in ctx_lock(t.g))
  BY DEF locked
<1> HIDE DEF locked
<1>6. \A x : Result(ctx_unlock(x), TRUE).g = ctx_unlock(x)
  BY ResultIs
<1>7. Good(t.g, Off(a), q)
  BY SurfaceGood
<1> HIDE DEF results
<1>8. CASE ~t.ok /\ s = t
  BY <1>1, <1>3, <1>4, <1>7, <1>8 DEF Some
<1>9. CASE t.ok /\ s \in ctx_lock(t.g)
  <2>1. CASE ~s.ok /\ r = s
    BY <1>1, <1>3, <1>7, <1>9, <2>1, CallEnds
  <2>2. CASE s.ok /\ \E x \in draw(s.g) : r = Result(ctx_unlock(x), TRUE)
    <3>1. PICK x \in draw(s.g) : g' = ctx_unlock(x)
      BY <1>3, <1>6, <2>2
    <3>2. Good(s.g, Drawing(a), q) => Some(x, Drawing(a))
      BY <1>2
    <3>3. QED
      BY <1>1, <1>7, <1>9, <2>2, <3>1, <3>2, CallEnds
  <2>3. QED
    BY <1>4, <2>1, <2>2
<1>10. QED
  BY <1>5, <1>8, <1>9

\* The UI.
LEMMA DrawUIGood ==
  ASSUME NEW a \in APIs, NEW q, Good(g, Off(a), q), NEW need, DrawUI(need)
  PROVE  Some(g', Off(a)) /\ plat' = plat
<1> DEFINE draw(h) == UNION {IF r.ok THEN ui_render(r.g, need) ELSE {r.g} : r \in gfx_begin_ui(h)}
           results == ctx_get_surface(g)
           locked == UNION {IF r.ok THEN ctx_lock(r.g) ELSE {r} : r \in results}
           ends == UNION {IF r.ok THEN {Result(ctx_unlock(k), TRUE) : k \in draw(r.g)} ELSE {r} : r \in locked}
<1>1. g' \in {r.g : r \in ends} /\ plat' = plat
  BY DEF DrawUI, Go, Drawn, Locked, Then
<1>2. ASSUME NEW h, Good(h, Drawing(a), q), NEW k \in draw(h) PROVE Some(k, Drawing(a))
  <2>0. Drawing(a).api \in APIs
    BY CallGood
  <2>1. PICK r \in gfx_begin_ui(h) : k \in (IF r.ok THEN ui_render(r.g, need) ELSE {r.g})
    BY <1>2
  <2>2. PICK p : Good(r.g, Drawing(a), p)
    BY <1>2, <2>0, BeginGood DEF Some
  <2>3. \A x \in ui_render(r.g, need) : Good(x, Drawing(a), p)
    BY <2>0, <2>2, UIRenderGood
  <2>4. QED
    BY <2>1, <2>2, <2>3 DEF Some
<1> HIDE DEF draw
<1>3. PICK r \in ends : g' = r.g
  BY <1>1
<1>4. PICK s \in locked : \/ ~s.ok /\ r = s
                          \/ s.ok /\ \E x \in draw(s.g) : r = Result(ctx_unlock(x), TRUE)
  OBVIOUS
<1> HIDE DEF ends
<1>5. PICK t \in results : (~t.ok /\ s = t) \/ (t.ok /\ s \in ctx_lock(t.g))
  BY DEF locked
<1> HIDE DEF locked
<1>6. \A x : Result(ctx_unlock(x), TRUE).g = ctx_unlock(x)
  BY ResultIs
<1>7. Good(t.g, Off(a), q)
  BY SurfaceGood
<1> HIDE DEF results
<1>8. CASE ~t.ok /\ s = t
  BY <1>1, <1>3, <1>4, <1>7, <1>8 DEF Some
<1>9. CASE t.ok /\ s \in ctx_lock(t.g)
  <2>1. CASE ~s.ok /\ r = s
    BY <1>1, <1>3, <1>7, <1>9, <2>1, CallEnds
  <2>2. CASE s.ok /\ \E x \in draw(s.g) : r = Result(ctx_unlock(x), TRUE)
    <3>1. PICK x \in draw(s.g) : g' = ctx_unlock(x)
      BY <1>3, <1>6, <2>2
    <3>2. Good(s.g, Drawing(a), q) => Some(x, Drawing(a))
      BY <1>2
    <3>3. QED
      BY <1>1, <1>7, <1>9, <2>2, <3>1, <3>2, CallEnds
  <2>3. QED
    BY <1>4, <2>1, <2>2
<1>10. QED
  BY <1>5, <1>8, <1>9

\* Looking for a texture.
LEMMA HasUITextureGood ==
  ASSUME NEW a \in APIs, NEW q, Good(g, Off(a), q), MTY_WindowHasUITexture
  PROVE  Some(g', Off(a)) /\ plat' = plat
<1> DEFINE draw(h) == {h}
           results == {Result(g, TRUE)}
           locked == UNION {IF r.ok THEN ctx_lock(r.g) ELSE {r} : r \in results}
           ends == UNION {IF r.ok THEN {Result(ctx_unlock(k), TRUE) : k \in draw(r.g)} ELSE {r} : r \in locked}
<1>1. g' \in {r.g : r \in ends} /\ plat' = plat
  BY DEF MTY_WindowHasUITexture, Go, Locked, Then
<1>2. ASSUME NEW h, Good(h, Drawing(a), q), NEW k \in draw(h) PROVE Some(k, Drawing(a))
  BY <1>2 DEF Some
<1> HIDE DEF draw
<1>3. PICK r \in ends : g' = r.g
  BY <1>1
<1>4. PICK s \in locked : \/ ~s.ok /\ r = s
                          \/ s.ok /\ \E x \in draw(s.g) : r = Result(ctx_unlock(x), TRUE)
  OBVIOUS
<1> HIDE DEF ends
<1>5. PICK t \in results : (~t.ok /\ s = t) \/ (t.ok /\ s \in ctx_lock(t.g))
  BY DEF locked
<1> HIDE DEF locked
<1>6. \A x : Result(ctx_unlock(x), TRUE).g = ctx_unlock(x)
  BY ResultIs
<1>7. Good(t.g, Off(a), q)
  BY ResultIs
<1> HIDE DEF results
<1>8. CASE ~t.ok /\ s = t
  BY <1>1, <1>3, <1>4, <1>7, <1>8 DEF Some
<1>9. CASE t.ok /\ s \in ctx_lock(t.g)
  <2>1. CASE ~s.ok /\ r = s
    BY <1>1, <1>3, <1>7, <1>9, <2>1, CallEnds
  <2>2. CASE s.ok /\ \E x \in draw(s.g) : r = Result(ctx_unlock(x), TRUE)
    <3>1. PICK x \in draw(s.g) : g' = ctx_unlock(x)
      BY <1>3, <1>6, <2>2
    <3>2. Good(s.g, Drawing(a), q) => Some(x, Drawing(a))
      BY <1>2
    <3>3. QED
      BY <1>1, <1>7, <1>9, <2>2, <3>1, <3>2, CallEnds
  <2>3. QED
    BY <1>4, <2>1, <2>2
<1>10. QED
  BY <1>5, <1>8, <1>9

\* A texture of the UI.
LEMMA SetUITextureGood ==
  ASSUME NEW a \in APIs, NEW q, Good(g, Off(a), q), NEW t \in Textures, NEW image, SetUITexture(t, image)
  PROVE  Some(g', Off(a)) /\ plat' = plat
<1> DEFINE o == Tex(t)
           set(h) == IF image THEN {r.g : r \in ui_create_texture(h, o)} ELSE {h}
           draw(h) == UNION {IF r.ok THEN set(ui_destroy_texture(r.g, o)) ELSE {r.g} : r \in gfx_begin_ui(h)}
           results == {Result(g, TRUE)}
           locked == UNION {IF r.ok THEN ctx_lock(r.g) ELSE {r} : r \in results}
           ends == UNION {IF r.ok THEN {Result(ctx_unlock(k), TRUE) : k \in draw(r.g)} ELSE {r} : r \in locked}
<1>1. g' \in {r.g : r \in ends} /\ plat' = plat
  BY DEF SetUITexture, Go, Locked, Then
<1>2. ASSUME NEW h, Good(h, Drawing(a), q), NEW k \in draw(h) PROVE Some(k, Drawing(a))
  <2>0. Drawing(a).api \in APIs
    BY CallGood
  <2>1. PICK r \in gfx_begin_ui(h) : k \in (IF r.ok THEN set(ui_destroy_texture(r.g, o)) ELSE {r.g})
    BY <1>2
  <2>2. PICK p : Good(r.g, Drawing(a), p)
    BY <1>2, <2>0, BeginGood DEF Some
  <2> DEFINE freed == ui_destroy_texture(r.g, o)
  <2>3. Good(freed, Drawing(a), p)
    BY <2>0, <2>2, TextureFreedGood
  <2>4. k = r.g \/ k = freed \/ \E x \in ui_create_texture(freed, o) : k = x.g
    BY <2>1
  <2> HIDE DEF freed
  <2>5. \A x \in ui_create_texture(freed, o) : Good(x.g, Drawing(a), p)
    BY <2>0, <2>3, TextureMadeGood
  <2>6. QED
    BY <2>2, <2>3, <2>4, <2>5 DEF Some
<1> HIDE DEF draw
<1>3. PICK r \in ends : g' = r.g
  BY <1>1
<1>4. PICK s \in locked : \/ ~s.ok /\ r = s
                          \/ s.ok /\ \E x \in draw(s.g) : r = Result(ctx_unlock(x), TRUE)
  OBVIOUS
<1> HIDE DEF ends
<1>5. PICK z \in results : (~z.ok /\ s = z) \/ (z.ok /\ s \in ctx_lock(z.g))
  BY DEF locked
<1> HIDE DEF locked
<1>6. \A x : Result(ctx_unlock(x), TRUE).g = ctx_unlock(x)
  BY ResultIs
<1>7. Good(z.g, Off(a), q)
  BY ResultIs
<1> HIDE DEF results
<1>8. CASE ~z.ok /\ s = z
  BY <1>1, <1>3, <1>4, <1>7, <1>8 DEF Some
<1>9. CASE z.ok /\ s \in ctx_lock(z.g)
  <2>1. CASE ~s.ok /\ r = s
    BY <1>1, <1>3, <1>7, <1>9, <2>1, CallEnds
  <2>2. CASE s.ok /\ \E x \in draw(s.g) : r = Result(ctx_unlock(x), TRUE)
    <3>1. PICK x \in draw(s.g) : g' = ctx_unlock(x)
      BY <1>3, <1>6, <2>2
    <3>2. Good(s.g, Drawing(a), q) => Some(x, Drawing(a))
      BY <1>2
    <3>3. QED
      BY <1>1, <1>7, <1>9, <2>2, <3>1, <3>2, CallEnds
  <2>3. QED
    BY <1>4, <2>1, <2>2
<1>10. QED
  BY <1>5, <1>8, <1>9

-----------------------------------------------------------------------------
(* Another back end.                                                         *)

LEMMA SupportedGood ==
  ASSUME plat \in Platforms
  PROVE  /\ Default \in Supported
         /\ \A a \in Supported : /\ a \in APIs
                                 /\ a \in {"d3d11", "d3d12"} => plat = "windows"
                                 /\ a \in {"gl", "metal"} => plat # "windows"
                                 /\ a = "d3d12" => "d3d11" \in Supported
BY GraphicsAssumption DEF Default, Supported, APIs

\* The name of the back end, and a context that is new.
LEMMA RenamedGood ==
  ASSUME NEW h, NEW a, NEW q, Good(h, Off(a), q), NEW c,
         c = "none" \/ (plat \in Platforms /\ c \in Supported)
  PROVE  /\ Good([h EXCEPT !.api = c], Off(c), q)
         /\ \A d \in 0..2 : \A i :
              Good([h EXCEPT !.api = c, !.ctx = [NewCtx EXCEPT !.dev = d, !.init = i],
                             !.drift = 0], Off(c), q)
         /\ Good([h EXCEPT !.api = c, !.ctx = NewCtx, !.drift = 0], Off(c), q)
<1>0. /\ {"ctx", "drift", "api", "ref", "device", "hash", "live", "old", "quad", "err", "lock"} \subseteq DOMAIN h
      /\ {"rem", "interval", "dev"} \subseteq DOMAIN h.ctx
      /\ Off(a).lock = FALSE /\ Off(c).lock = FALSE /\ Off(c).api = c
  BY DEF Good, Timed, Counted, Held, Framed, Off
<1>1. /\ c \in APIs \cup {"none"}
      /\ c \in {"d3d11", "d3d12"} => plat = "windows"
      /\ c \in {"gl", "metal"} => plat # "windows"
  BY SupportedGood
<1>2. ASSUME NEW k, DOMAIN k = DOMAIN h, k.api = c, k.ref = h.ref, k.device = h.device, k.hash = h.hash,
             k.live = h.live, k.old = h.old, k.quad = h.quad, k.err = h.err, k.lock = h.lock, Timed(k)
      PROVE  Good(k, Off(c), q)
  <2>1. Counted(k)
    BY <1>0, <1>1, <1>2 DEF Good, Counted
  <2>2. Held(k) /\ Framed(k, q)
    BY <1>0, <1>2 DEF Good, Held, Living, Framed
  <2>3. QED
    BY <1>0, <1>2, <2>1, <2>2 DEF Good
<1>3. Good([h EXCEPT !.api = c], Off(c), q)
  <2> DEFINE k == [h EXCEPT !.api = c]
  <2>1. Timed(k)
    BY <1>0 DEF Good, Timed
  <2>2. QED
    BY <1>0, <1>2, <2>1
<1>4. ASSUME NEW x, {"rem", "interval", "dev"} \subseteq DOMAIN x, x.rem = 0, x.interval = 0, x.dev \in 0..2
      PROVE  Good([h EXCEPT !.api = c, !.ctx = x, !.drift = 0], Off(c), q)
  <2> DEFINE k == [h EXCEPT !.api = c, !.ctx = x, !.drift = 0]
  <2>1. Timed(k)
    BY <1>0, <1>4 DEF Timed
  <2>2. QED
    BY <1>0, <1>2, <2>1
<1>5. /\ \A d \in 0..2 : \A i :
           LET x == [NewCtx EXCEPT !.dev = d, !.init = i]
           IN /\ {"rem", "interval", "dev"} \subseteq DOMAIN x
                              /\ x.rem = 0 /\ x.interval = 0 /\ x.dev \in 0..2
      /\ {"rem", "interval", "dev"} \subseteq DOMAIN NewCtx
      /\ NewCtx.rem = 0 /\ NewCtx.interval = 0 /\ NewCtx.dev \in 0..2
  BY DEF NewCtx
<1>6. QED
  BY <1>3, <1>4, <1>5

LEMMA FreedGood ==
  ASSUME NEW h, NEW a \in APIs, NEW q, Good(h, Off(a), q)
  PROVE  Some(Freed(h), Off("none"))
<1> DEFINE k == gfx_set_device(h, 0)
           m == ctx_destroy(k)
           c == IF plat = "android" /\ h.api = "gl"
                THEN [NewCtx EXCEPT !.dev = h.ctx.dev, !.init = h.ctx.init] ELSE NewCtx
<1>0. Off(a).api \in APIs /\ h.ctx.dev \in 0..2
  BY BackendIs, ApiGood
<1>1. PICK p : Good(k, Off(a), p)
  BY <1>0, SetDeviceGood DEF Keeps
<1> HIDE DEF k
<1>2. Good(m, Off(a), p)
  BY <1>1, ContextGood
<1> HIDE DEF m
<1>3. Good([m EXCEPT !.api = "none", !.ctx = c, !.drift = 0], Off("none"), p)
  <2>1. CASE plat = "android" /\ h.api = "gl"
    BY <1>0, <1>2, <2>1, RenamedGood
  <2>2. CASE ~(plat = "android" /\ h.api = "gl")
    BY <1>2, <2>2, RenamedGood
  <2>3. QED
    BY <2>1, <2>2
<1>4. Freed(h) = [m EXCEPT !.api = "none", !.ctx = c, !.drift = 0]
  BY DEF Freed, m, k
<1>5. QED
  BY <1>3, <1>4 DEF Some

LEMMA CreateContextGood ==
  ASSUME plat \in Platforms, NEW h, NEW a, NEW q, Good(h, Off(a), q), NEW c \in Supported
  PROVE  \A k \in CreateContext(h, c) : Some(k, Off(c)) \/ Some(k, Off("none"))
<1> DEFINE m == [h EXCEPT !.api = c]
<1>1. Good(m, Off(c), q) /\ c \in APIs
  BY RenamedGood, SupportedGood
<1>2. CreateContext(h, c) = {IF r.ok THEN r.g ELSE [r.g EXCEPT !.api = "none", !.ctx = NewCtx, !.drift = 0] :
                               r \in ctx_create(m)}
  BY DEF CreateContext
<1> HIDE DEF m
<1>3. SUFFICES ASSUME NEW k \in CreateContext(h, c) PROVE Some(k, Off(c)) \/ Some(k, Off("none"))
  OBVIOUS
<1>4. PICK r \in ctx_create(m) : k = IF r.ok THEN r.g ELSE [r.g EXCEPT !.api = "none", !.ctx = NewCtx, !.drift = 0]
  BY <1>2
<1>5. Good(r.g, Off(c), q)
  BY <1>1, ContextGood
<1>6. Good([r.g EXCEPT !.api = "none", !.ctx = NewCtx, !.drift = 0], Off("none"), q)
  BY <1>5, RenamedGood
<1>7. QED
  BY <1>4, <1>5, <1>6 DEF Some

\* Whatever the back end is.
Sound(h) == \E a : Some(h, Off(a))

LEMMA SetGFXGood ==
  ASSUME plat \in Platforms, NEW a, NEW q, Good(g, Off(a), q), NEW api, SetGFX(api)
  PROVE  Sound(g') /\ plat' = plat
<1> DEFINE used == IF api \in Supported THEN api ELSE Default
           h == IF g.api = "none" THEN g ELSE Freed(g)
           created == CreateContext(h, used)
           again == UNION {CreateContext(k, "d3d11") : k \in {c \in created : c.api = "none"}}
           fallback == IF used # "d3d12" THEN {} ELSE again
<1>0. /\ g' \in IF api = "none" THEN {h} ELSE {c \in created : used # "d3d12" \/ c.api # "none"} \cup fallback
      /\ plat' = plat
  BY DEF SetGFX, Go
<1>1. used \in Supported
  BY SupportedGood
<1>2. g.api = a /\ (a # "none" => a \in APIs)
  BY ApiGood, BackendIs
<1>3. Sound(h)
  BY <1>2, FreedGood DEF Sound, Some
<1> HIDE DEF used, h
<1>4. PICK b, p : Good(h, Off(b), p)
  BY <1>3 DEF Sound, Some
<1>5. \A k \in created : Sound(k)
  BY <1>1, <1>4, CreateContextGood DEF Sound
<1> HIDE DEF created
<1>6. ASSUME used = "d3d12", NEW k \in again PROVE Sound(k)
  <2>1. PICK m \in created : k \in CreateContext(m, "d3d11")
    BY <1>6
  <2>2. PICK x, y : Good(m, Off(x), y)
    BY <1>5 DEF Sound, Some
  <2>3. "d3d11" \in Supported
    BY <1>1, <1>6, SupportedGood
  <2>4. QED
    BY <2>1, <2>2, <2>3, CreateContextGood DEF Sound
<1> HIDE DEF again
<1>7. QED
  BY <1>0, <1>3, <1>5, <1>6

-----------------------------------------------------------------------------
(* The invariant holds.                                                      *)

\* Between two calls nobody holds gfx_mutex.
IInv == plat \in Platforms /\ Sound(g)

LEMMA InitGood == Init => IInv
<1> SUFFICES ASSUME Init PROVE IInv
  OBVIOUS
<1> DEFINE q == [l \in Layers |-> NewQuad]
<1>1. q \in Quads
  BY DEF Quads, NewQuad, NoPlane, Named, PlaneIds, Extents
<1>2. Timed(g) /\ Counted(g)
  BY DEF Init, Timed, Counted, NewCtx
<1>3. Held(g) /\ Framed(g, q)
  BY <1>1 DEF Init, Held, Framed, Living
<1>4. "lock" \in DOMAIN g /\ g.api = "none" /\ g.lock = FALSE
  BY DEF Init
<1>5. Good(g, Off("none"), q)
  BY <1>2, <1>3, <1>4 DEF Good, Off
<1>6. QED
  BY <1>5 DEF IInv, Init, Sound, Some

LEMMA WindowGood ==
  ASSUME NEW a, NEW q, Good(g, Off(a), q), Window
  PROVE  Sound(g') /\ plat' = plat
<1>1. ASSUME NEW size, Resized(size) PROVE Sound(g') /\ plat' = plat
  <2>1. g' = [g EXCEPT !.win.size = size] /\ plat' = plat
    BY <1>1 DEF Resized, Go
  <2>2. \A x : Good([g EXCEPT !.win.size = x], Off(a), q)
    BY FieldsGood
  <2>3. QED
    BY <2>1, <2>2 DEF Sound, Some
<1>2. CASE gfx_set_surface
  <2> DEFINE k == mty_gfx_lock(g)
             m == [k EXCEPT !.win.up = TRUE]
  <2>1. g' = mty_gfx_unlock(m) /\ plat' = plat
    BY <1>2 DEF gfx_set_surface, Go
  <2>2. Good(k, On(a), q)
    BY LockGood
  <2> HIDE DEF k
  <2>3. Good(m, On(a), q)
    BY <2>2, FieldsGood
  <2> HIDE DEF m
  <2>4. QED
    BY <2>1, <2>3, LockGood DEF Sound, Some
<1>3. CASE gfx_unset_surface
  <2> DEFINE k == mty_gfx_lock(g)
             d == mty_gl_ctx_destroy_egl_surface(k)
             m == [d EXCEPT !.win.up = FALSE]
  <2>1. g' = mty_gfx_unlock(m) /\ plat' = plat /\ plat # "windows"
    BY <1>3 DEF gfx_unset_surface, Go
  <2>2. Good(k, On(a), q)
    BY LockGood
  <2> HIDE DEF k
  <2>3. Good(d, On(a), q)
    BY <2>1, <2>2, GLContextGood
  <2> HIDE DEF d
  <2>4. Good(m, On(a), q)
    BY <2>3, FieldsGood
  <2> HIDE DEF m
  <2>5. QED
    BY <2>1, <2>4, LockGood DEF Sound, Some
<1>4. QED
  BY <1>1, <1>2, <1>3 DEF Window

\* One step for each action.
LEMMA StepGood ==
  ASSUME IInv, Next
  PROVE  Sound(g') /\ plat' = plat
<1>0. plat \in Platforms
  BY DEF IInv
<1>1. PICK a, q : Good(g, Off(a), q)
  BY DEF IInv, Sound, Some
<1>2. /\ g.api = a /\ (a # "none" => a \in APIs) /\ q \in Quads /\ g.quad = q
  <2>1. g.api = Off(a).api /\ g.api \in APIs \cup {"none"} /\ q \in Quads
    BY <1>1, ApiGood
  <2>2. g.quad = q
    BY <1>1 DEF Good, Framed
  <2>3. QED
    BY <2>1, <2>2, BackendIs
<1>3. CASE MTY_WindowDrawQuad
  <2>1. PICK l, fmt, size :
          /\ l \in Layers /\ DrawQuad(l, fmt, size)
          /\ \/ fmt \in Formats /\ size \in {1, 2}
             \/ fmt = "none" /\ size = 0
    BY <1>3, GraphicsAssumption DEF MTY_WindowDrawQuad
  <2>2. a \in APIs /\ (fmt # "none" \/ "redraw" \in Faults \/ OneFrame(g, l))
    BY <1>2, <2>1 DEF DrawQuad
  <2>3. OneFrame(g, l) => Whole(q, l)
    BY <1>2 DEF OneFrame, Whole, FmtOf, PlaneOf
  <2>4. Drawable(q, l, fmt, size)
    BY <2>1, <2>2, <2>3 DEF Drawable, Whole
  <2>5. QED
    BY <1>1, <2>1, <2>2, <2>4, DrawQuadGood DEF Sound
<1>4. CASE MTY_WindowClear
  <2>1. a \in APIs
    BY <1>2, <1>4 DEF MTY_WindowClear
  <2>2. QED
    BY <1>1, <1>4, <2>1, ClearGood DEF Sound
<1>5. CASE MTY_WindowDrawUI
  <2>1. PICK need : DrawUI(need)
    BY <1>5 DEF MTY_WindowDrawUI
  <2>2. a \in APIs
    BY <1>2, <2>1 DEF DrawUI
  <2>3. QED
    BY <1>1, <2>1, <2>2, DrawUIGood DEF Sound
<1>6. CASE MTY_WindowHasUITexture
  <2>1. a \in APIs
    BY <1>2, <1>6 DEF MTY_WindowHasUITexture
  <2>2. QED
    BY <1>1, <1>6, <2>1, HasUITextureGood DEF Sound
<1>7. CASE MTY_WindowSetUITexture
  <2>1. PICK t, image : t \in Textures /\ SetUITexture(t, image)
    BY <1>7 DEF MTY_WindowSetUITexture
  <2>2. a \in APIs
    BY <1>2, <2>1 DEF SetUITexture
  <2>3. QED
    BY <1>1, <2>1, <2>2, SetUITextureGood DEF Sound
<1>8. CASE MTY_WindowPresent
  <2>1. a \in APIs /\ g' \in ctx_present(g) /\ plat' = plat
    BY <1>2, <1>8 DEF MTY_WindowPresent, Go
  <2>2. QED
    BY <1>1, <2>1, PresentGood DEF Sound, Some
<1>9. CASE MTY_WindowSetSyncInterval
  <2>1. PICK n \in Nat : SetSyncInterval(n)
    BY <1>9, GraphicsAssumption DEF MTY_WindowSetSyncInterval
  <2>2. a \in APIs /\ g' \in ctx_set_sync_interval(g, n) /\ plat' = plat
    BY <1>2, <2>1 DEF SetSyncInterval, Go
  <2>3. QED
    BY <1>1, <2>2, IntervalGood DEF Sound, Some
<1>10. CASE MTY_WindowSetGFX
  <2>1. PICK api : SetGFX(api)
    BY <1>10 DEF MTY_WindowSetGFX
  <2>2. QED
    BY <1>0, <1>1, <2>1, SetGFXGood
<1>11. CASE Window
  BY <1>1, <1>11, WindowGood
<1>12. QED
  BY <1>3, <1>4, <1>5, <1>6, <1>7, <1>8, <1>9, <1>10, <1>11 DEF Next

LEMMA NextGood == IInv /\ [Next]_vars => IInv'
<1> SUFFICES ASSUME IInv, [Next]_vars PROVE IInv'
  OBVIOUS
<1>1. Sound(g') /\ plat' = plat /\ plat \in Platforms
  <2>1. CASE UNCHANGED vars
    <3>1. g' = g /\ plat' = plat
      BY <2>1 DEF vars
    <3>2. QED
      BY <3>1 DEF IInv
  <2>2. CASE Next
    BY <2>2, StepGood DEF IInv
  <2>3. QED
    BY <2>1, <2>2
<1>2. PICK a, q : Good(g', Off(a), q)
  BY <1>1 DEF Sound, Some
<1>3. Timed(g)' /\ Counted(g)'
  BY <1>1, <1>2 DEF Good, Timed, Counted
<1>4. Held(g)' /\ Framed(g', q)
  BY <1>1, <1>2 DEF Good, Held, Living
<1>5. Good(g, Off(a), q)'
  BY <1>1, <1>2, <1>3, <1>4 DEF Good, Framed
<1>6. QED
  BY <1>1, <1>5 DEF IInv, Sound, Some

\* The invariant holds of every state between two calls of a window.
THEOREM Invariance == Spec => []IInv
BY InitGood, NextGood, PTL DEF Spec

LEMMA IInvImplies ==
  ASSUME IInv
  PROVE  /\ "refresh" \notin Faults => TypeOK
         /\ "redraw" \notin Faults => FrameWhole
         /\ PresentsPaced
<1>1. PICK a, q : Good(g, Off(a), q)
  BY DEF IInv, Sound, Some
<1>2. PresentsPaced
  BY <1>1 DEF Good, Timed, PresentsPaced
<1>3. "redraw" \notin Faults => FrameWhole
  BY <1>1 DEF Good, Framed, FrameWhole
<1>4. /\ plat \in Platforms /\ g.api \in APIs \cup {"none"} /\ g.ref \in Nat /\ g.device \in 0..1
      /\ g.ctx.dev \in 0..2 /\ g.hash \in BOOLEAN
  BY <1>1 DEF IInv, Good, Timed, Counted
<1>5. g.old \subseteq Living(g)
  BY <1>1 DEF Good, Held
<1>6. "refresh" \notin Faults => g.lock = FALSE
  BY <1>1 DEF Good, Off
<1>7. QED
  BY <1>2, <1>3, <1>4, <1>5, <1>6 DEF TypeOK

\* The state is of its type between two calls: gfx_mutex is not held, and only owners of
\* objects that are there have objects of a device that was lost; unless Vulkan finds no
\* window or no swapchain, when a call may end with the lock held.
THEOREM GraphicsTypeCorrect == "refresh" \notin Faults => (Spec => []TypeOK)
<1> SUFFICES ASSUME "refresh" \notin Faults PROVE Spec => []TypeOK
  OBVIOUS
<1>1. IInv => TypeOK
  BY IInvImplies
<1>2. QED
  BY <1>1, Invariance, PTL

\* The planes of a quad that are drawn are of one image, whatever was loaded and whatever
\* failed before, for any images and layers; unless a frame is repeated after one that
\* failed (MTY_WindowDrawQuad of an unknown format).
THEOREM PlanesOfOneFrame == "redraw" \notin Faults => (Spec => []FrameWhole)
<1> SUFFICES ASSUME "redraw" \notin Faults PROVE Spec => []FrameWhole
  OBVIOUS
<1>1. IInv => FrameWhole
  BY IInvImplies
<1>2. QED
  BY <1>1, Invariance, PTL

\* What MTY_WindowPresent did not wait for yet is less than a vertical blank, for any
\* intervals and however they change: struct sync drops nothing, on each back end.
THEOREM BlanksAreWaitedFor == Spec => []PresentsPaced
<1>1. IInv => PresentsPaced
  BY IInvImplies
<1>2. QED
  BY <1>1, Invariance, PTL
=============================================================================

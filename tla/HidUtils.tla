------------------------------- MODULE HidUtils -------------------------------
(***************************************************************************)
(* Controllers: what the platforms share.  The state s of the library and   *)
(* of the controllers around it, the events a program gets (event_func),    *)
(* and src/hid/utils.c: the axes put into their standard places, converted, *)
(* and the events that say nothing new left out.                            *)
(*                                                                         *)
(* A control of a controller has a raw value: a button 0 or 1, an axis 0 to *)
(* 255 (128 is its middle), a hat 0 to 8.                                   *)
(***************************************************************************)
EXTENDS Integers, Sequences, SequencesExt, Functions

CONSTANTS
  AxisMax,      \* MTY_CAXIS_MAX
  FromDpadUp    \* the buttons from MTY_CBUTTON_DPAD_UP up to MTY_CBUTTON_MAX, in their order

HashSet(h, k, v) == [x \in DOMAIN h \cup {k} |-> IF x = k THEN v ELSE h[x]]
HashPop(h, k) == Restrict(h, DOMAIN h \ {k})
HashGet(h, k, null) == IF k \in DOMAIN h THEN h[k] ELSE null
HashCreate == <<>>

\* The first of a queue, if there is one.
First(q) == IF q = <<>> THEN {} ELSE {Head(q)}

\* The controller has left since it was opened, even if it is back: its removal is on its way.
Stale(s, p) == ~s.pads[p].in \/ \E x \in DOMAIN s.q : s.q[x].what = "remove" /\ s.q[x].p = p

\* F of v, and Op over a sequence from v on; what one step gives is worked out before the next.
Of(v, F(_)) == CHOOSE r \in {F(x) : x \in {v}} : TRUE
Steps(Op(_, _), v, seq) ==
  LET after[n \in 0..Len(seq)] == IF n = 0 THEN v ELSE Of(after[n - 1], LAMBDA b : Op(b, seq[n]))
  IN after[Len(seq)]

\* The usages of the standard axes: left stick, right stick, triggers.
Std == <<"X", "Y", "Z", "Rz", "Rx", "Ry">>
Place(u) == CHOOSE x \in 1..6 : Std[x] = u
Sticks == {"X", "Y", "Z", "Rz"}
Inverted == {"Y", "Rz"}
Bytewise == {"Rx", "Ry", "Slider", "Dial", "Wheel"}

Axis(u, from, v, lo, hi) == [usage |-> u, from |-> from, v |-> v, lo |-> lo, hi |-> hi]
NoAxis == Axis("", "", 0, 0, 0)
NoEvent == [axes |-> <<>>, buttons |-> {}]

-----------------------------------------------------------------------------
(* Conversions.                                                              *)

\* lrint of n * top / range.
Scaled(n, top, range) == IF range = top THEN n ELSE (2 * n * top + range) \div (2 * range)

mty_hid_u_to_s16(a, invert) ==
  LET d == Scaled(a.v - a.lo, 65535, a.hi - a.lo)
  IN IF a.lo = 0 /\ a.hi = 0 THEN a
     ELSE [a EXCEPT !.v = IF invert THEN 32767 - d ELSE d - 32768, !.lo = -32768, !.hi = 32767]

mty_hid_s_to_s16(a) ==
  [a EXCEPT !.v = IF @ < 0 THEN -Scaled(-@, 32768, -a.lo) ELSE Scaled(@, 32767, a.hi),
            !.lo = -32768, !.hi = 32767]

mty_hid_u_to_u8(a) ==
  IF a.lo = 0 /\ a.hi = 0 THEN a
  ELSE [a EXCEPT !.v = Scaled(@ - a.lo, 255, a.hi - a.lo), !.lo = 0, !.hi = 255]

mty_hid_axis_to_dpad(v) ==
  {d \in {"up", "right", "down", "left"} :
     v \in CASE d = "up" -> {7, 0, 1} [] d = "right" -> {1, 2, 3}
             [] d = "down" -> {3, 4, 5} [] d = "left" -> {5, 6, 7}}

-----------------------------------------------------------------------------
(* mty_hid_map_axes.                                                         *)

\* Axis x goes to its place, where another one is.  Mutant: that one is not looked at.
SwapOnce(axes, x) ==
  LET u == axes[x].usage
  IN IF u \in ToSet(Std) /\ axes[Place(u)].usage # u
     THEN [axes EXCEPT ![x] = axes[Place(u)], ![Place(u)] = axes[x]] ELSE axes

\* Axis x goes to its place, and the one that was there is looked at next; each swap settles
\* one of the six places.
hid_swap_value(axes, x) == Steps(LAMBDA a, n : SwapOnce(a, x), axes, Std)

\* A place another axis is still in: that one goes to the end, if there is room.
hid_move_value(axes, x, buttons) ==
  LET u == Std[x]
      pressed == (u = "Rx" /\ "LT" \in buttons) \/ (u = "Ry" /\ "RT" \in buttons)
      new == IF u \in Sticks THEN Axis(u, "", 0, -32768, 32767)
             ELSE Axis(u, "", IF pressed THEN 255 ELSE 0, 0, 255)
  IN IF axes[x].usage = u \/ Len(axes) >= AxisMax THEN axes
     ELSE [(IF axes[x].usage = "" THEN axes ELSE Append(axes, axes[x])) EXCEPT ![x] = new]

\* The buttons from DPAD_UP on make room for the four of the D-pad: each is told as the fourth
\* after it, and the last four are not told.  The memcpy that moves them overlaps; where this
\* code runs it moves all the same.
MovedUp(buttons) ==
  {b \in buttons : b \notin ToSet(FromDpadUp)}
    \cup {FromDpadUp[n + 4] : n \in {m \in 1..Len(FromDpadUp) - 4 : FromDpadUp[m] \in buttons}}

\* The hat becomes the buttons of the D-pad.
hid_convert_dpad(axes, buttons) ==
  LET hats == {x \in DOMAIN axes : axes[x].usage = "Hat"}
      dpad == CHOOSE x \in hats : \A y \in hats : y <= x
  IN IF hats = {} THEN buttons ELSE MovedUp(buttons) \cup mty_hid_axis_to_dpad(axes[dpad].v)

mty_hid_map_axes(c) ==
  LET room    == c.axes \o (IF Len(c.axes) < 6 THEN [x \in 1..(6 - Len(c.axes)) |-> NoAxis] ELSE <<>>)
      swapped == Steps(hid_swap_value, room, [x \in DOMAIN room |-> x])
      S16(a)  == CASE a.usage \in Sticks -> mty_hid_u_to_s16(a, a.usage \in Inverted)
                   [] a.usage \in Bytewise -> mty_hid_u_to_u8(a)
                   [] OTHER -> a
      Moved(axes, buttons) ==
        [axes    |-> Of(Steps(LAMBDA a, x : hid_move_value(a, x, buttons), axes, [x \in 1..6 |-> x]),
                        LAMBDA moved : [x \in DOMAIN moved |-> S16(moved[x])]),
         buttons |-> buttons]
  IN Of(swapped, LAMBDA axes : Of(hid_convert_dpad(axes, c.buttons), LAMBDA buttons : Moved(axes, buttons)))

-----------------------------------------------------------------------------
(* Events.                                                                   *)

\* What the program knows of each controller; odd keeps what should not have happened.
\* Ids below quiet are never announced: the first state that is not at rest does it.
Odd(s, what) == [s EXCEPT !.odd = @ \cup {what}]
event_func(s, type, id, c) ==
  LET known == id \in DOMAIN s.seen
      t == IF type = "DISCONNECT" THEN [s EXCEPT !.seen = HashPop(@, id)]
           ELSE [s EXCEPT !.seen = HashSet(@, id, c)]
      quiet == type # "CONNECT" /\ id < s.quiet
  IN IF known = (type # "CONNECT") \/ quiet THEN t ELSE Odd(t, type)

\* Dead zone and precision of an axis of a stick.
hid_clean_value(v) ==
  IF v \in -1999..1999 THEN 0 ELSE IF v \in {-32768, 32767} THEN v ELSE v - (v % 2)

Clean(c) == [c EXCEPT !.axes = [x \in DOMAIN @ |->
                                  IF x <= 4 THEN [@[x] EXCEPT !.v = hid_clean_value(@)] ELSE @[x]]]
SameAxis(a, b) == [a EXCEPT !.from = ""] = [b EXCEPT !.from = ""]
SameEvent(c, prev) ==
  /\ c.buttons = prev.buttons
  /\ \A x \in DOMAIN c.axes :
       SameAxis(c.axes[x], IF x \in DOMAIN prev.axes THEN prev.axes[x] ELSE NoAxis)

\* Whether the event says anything new, and the state that remembers it.
mty_hid_dedupe(s, id, c) ==
  LET prev == HashGet(s.dedupe, id, NoEvent)
  IN [s |-> [s EXCEPT !.dedupe = HashSet(@, id, Clean(c))], c |-> Clean(c), new |-> ~SameEvent(Clean(c), prev)]

\* An event with the controller's state, if it says anything new.
Deduped(s, id, c) ==
  Of(mty_hid_dedupe(s, id, c), LAMBDA r : IF r.new THEN event_func(r.s, "CONTROLLER", id, r.c) ELSE r.s)
=============================================================================

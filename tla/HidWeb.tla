-------------------------------- MODULE HidWeb --------------------------------
(***************************************************************************)
(* Controllers in a browser: the main thread (src/unix/web/matoya.js) polls *)
(* four slots while the page has the focus and posts what it finds to the   *)
(* worker, whose handler (src/unix/web/app.c) tells the program.            *)
(***************************************************************************)
EXTENDS HidUtils

Slot(s, x) == s.pads[x + 1]

\* What is posted for slot x, unless the worker has yet to read the last.
PolledSlot(s, x) ==
  LET post(state, vals) == [s EXCEPT !.q = Append(@, [id |-> x, state |-> state, vals |-> vals]),
                                     !.gps[x] = (state # 2)]
  IN CASE Slot(s, x).in             -> post(IF s.gps[x] THEN 0 ELSE 1, Slot(s, x).pos)
       [] ~Slot(s, x).in /\ s.gps[x] -> post(2, [u \in {} |-> 0])
       [] OTHER                      -> s

\* The interval; posted messages do not pile up here.
mty_poll_gamepads(s) == {Steps(PolledSlot, t, [n \in DOMAIN s.pads |-> n - 1]) : t \in {u \in {s} : u.focus /\ u.q = <<>>}}

\* The values of a browser go from -1 to 1, with y downwards.
WebAxis(vals, u) ==
  LET v == IF u \in DOMAIN vals THEN vals[u] ELSE IF u \in Sticks THEN 128 ELSE 0
      n == IF u \in Inverted THEN 128 - v ELSE v - 128
  IN IF u \notin Sticks THEN Axis(u, u, v, 0, 255)
     ELSE [mty_hid_s_to_s16(Axis(u, u, IF n = 128 THEN 127 ELSE n, -128, 127)) EXCEPT !.from = u]

\* The worker keeps the address of an application that was destroyed.
MTY_AppCreate(s) == [s EXCEPT !.dedupe = <<>>, !.app = "alive"]
MTY_AppDestroy(s) == [s EXCEPT !.dedupe = <<>>, !.app = "freed"]

\* A message before the program has made its application is dropped.
mty_window_controller(s, m) ==
  LET c == [axes    |-> [x \in 1..6 |-> WebAxis(m.vals, Std[x])],
            buttons |-> {b \in DOMAIN m.vals \ ToSet(Std) : m.vals[b] = 1}]
      t == IF m.state = 1 THEN event_func(s, "CONNECT", m.id, c) ELSE s
      r == mty_hid_dedupe(t, m.id, c)
  IN CASE s.app = "none"  -> s
       [] s.app = "freed" -> Odd(s, "freed application")
       [] s.app = "alive" /\ m.state = 2 -> event_func(r.s, "DISCONNECT", m.id, r.c)
       [] OTHER           -> IF r.new THEN event_func(r.s, "CONTROLLER", m.id, r.c) ELSE r.s

AppRun(s) == {mty_window_controller([s EXCEPT !.q = Tail(@)], m) : m \in First(s.q)}

\* rumble is posted to the main thread.
mty_rumble_gamepad(s, x, v) == IF Slot(s, x).in THEN [s EXCEPT !.pads[x + 1].motor = v] ELSE s
MTY_AppRumbleController(s, id, v) == mty_rumble_gamepad(s, id, v)
=============================================================================

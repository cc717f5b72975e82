------------------------------- MODULE HidEvdev -------------------------------
(***************************************************************************)
(* Controllers on Linux (src/unix/linux/x11/evdev.c): every iteration of    *)
(* the main loop polls the udev monitor and the open devices.  A device     *)
(* tells changes only, one event at a time, to whoever has it open; its id  *)
(* is its file descriptor, which the next device may get again.             *)
(***************************************************************************)
EXTENDS HidUtils, FiniteSets

CONSTANT Slots   \* EVDEV_FD_MAX - 1

evdev_find_slot(s) == {x \in 1..Slots : s.fds[x] = 0 /\ \A y \in 1..(x - 1) : s.fds[y] # 0}

\* open: the lowest number that is free.
LowestFd(s) == CHOOSE fd \in 1..(Slots + 1) :
                 fd \notin Range(s.fds) /\ \A n \in 1..(fd - 1) : n \in Range(s.fds)

\* Axes take the slots in the order they are discovered in, without the D-pad's.
Discovered(pad) == SelectSeq(pad.layout, LAMBDA code : code # "ABS_HAT0X")

app_evdev_connect(s, d) == event_func(s, "CONNECT", d.id, mty_hid_map_axes(d.state))
app_evdev_disconnect(s, d) == event_func(s, "DISCONNECT", d.id, NoEvent)
app_evdev_report(s, p) ==
  IF ~s.focus THEN s
  ELSE Of(mty_hid_map_axes(s.devices[p].state), LAMBDA c : Deduped(s, s.devices[p].id, c))

\* A device that was just opened: it has told no value of its axes and no button.
NewDevice(s, p, slot) ==
  [id |-> LowestFd(s), slot |-> slot, gamepad |-> FALSE, ff |-> FALSE,
   state |-> [axes |-> [x \in DOMAIN Discovered(s.pads[p]) |-> NoAxis], buttons |-> {}]]

evdev_device_add(s, p) ==
  IF p \in DOMAIN s.devices \/ evdev_find_slot(s) = {} \/ ~s.pads[p].in THEN s
  ELSE LET slot == CHOOSE x \in evdev_find_slot(s) : TRUE
           d == NewDevice(s, p, slot)
       IN app_evdev_connect([s EXCEPT !.fds[slot] = d.id, !.devices = HashSet(@, p, d),
                                      !.rev = HashSet(@, d.id, p)], d)

\* Mutant: the slot of a removed device is not given back.
KeepsSlot(s, p) ==
  IF p \notin DOMAIN s.devices THEN s
  ELSE LET d == s.devices[p]
           t == app_evdev_disconnect([s EXCEPT !.devices = HashPop(@, p)], d)
       IN [t EXCEPT !.rev = HashPop(@, d.id)]

evdev_device_remove(s, p) ==
  IF p \notin DOMAIN s.devices THEN s
  ELSE LET d == s.devices[p]
           t == app_evdev_disconnect([s EXCEPT !.devices = HashPop(@, p)], d)
       IN [t EXCEPT !.fds[d.slot] = 0, !.rev = HashPop(@, d.id)]

evdev_new_device(s) ==
  LET m == Head(s.q)
      t == [s EXCEPT !.q = Tail(@)]
  IN IF m.what = "arrive" THEN evdev_device_add(t, m.p) ELSE evdev_device_remove(t, m.p)

-----------------------------------------------------------------------------
(* Events.                                                                   *)

evdev_gamepad_usage(code) ==
  CASE code = "ABS_X" -> "X"   [] code = "ABS_Y" -> "Y"   [] code = "ABS_Z" -> "Rx"
    [] code = "ABS_RX" -> "Z"  [] code = "ABS_RY" -> "Rz" [] code = "ABS_RZ" -> "Ry"
    [] OTHER -> ""
evdev_joystick_usage(code) ==
  CASE code = "ABS_X" -> "X" [] code = "ABS_Y" -> "Y" [] code = "ABS_Z" -> "Z" [] code = "ABS_RZ" -> "Rz"
    [] OTHER -> ""

\* The state after an event; the first button of a gamepad tells that it is one.
Absolute(d, p, pad, e) ==
  LET usage == IF d.gamepad THEN evdev_gamepad_usage(e.code) ELSE evdev_joystick_usage(e.code)
      slot == CHOOSE x \in DOMAIN Discovered(pad) : Discovered(pad)[x] = e.code
      side == (IF e.v > 128 THEN {"right"} ELSE {}) \cup (IF e.v < 128 THEN {"left"} ELSE {})
  IN IF e.code = "ABS_HAT0X" THEN [d EXCEPT !.state.buttons = (@ \ {"right", "left"}) \cup side]
     ELSE IF usage = "" THEN d
     ELSE [d EXCEPT !.state.axes[slot] = Axis(usage, e.code, e.v, 0, 255)]
Button(d, pad, e) ==
  [d EXCEPT !.gamepad = @ \/ pad.gamepad,
            !.state.buttons = IF e.v = 0 THEN @ \ {e.code} ELSE @ \cup {e.code}]

\* One event of a device that is still there; a button's is reported twice.
evdev_joystick_event(s, fd) ==
  IF fd \notin DOMAIN s.rev THEN s
  ELSE LET p == s.rev[fd]
           e == Head(s.pads[p].events)
           button == e.code \in s.pads[p].buttons
           t == [s EXCEPT !.pads[p].events = Tail(@),
                          !.devices[p] = IF button THEN Button(@, s.pads[p], e)
                                         ELSE Absolute(@, p, s.pads[p], e)]
       IN IF s.pads[p].events = <<>> THEN s
          ELSE Steps(LAMBDA u, n : app_evdev_report(u, p), t, IF button THEN <<1, 2>> ELSE <<1>>)

evdev_initial_scan(s) == Steps(evdev_device_add, [s EXCEPT !.scan = TRUE], [p \in DOMAIN s.pads |-> p])

\* What poll finds is looked at afterwards, the monitor first.
mty_evdev_poll(s) ==
  LET Ready(t) == {x \in 1..Slots : t.fds[x] # 0 /\ t.pads[t.rev[t.fds[x]]].events # <<>>}
      Monitor(t) == IF t.q = <<>> THEN t ELSE evdev_new_device(t)
      Events(t, ready) == Steps(LAMBDA u, x : IF x \in ready THEN evdev_joystick_event(u, u.fds[x]) ELSE u, t,
                                [x \in 1..Slots |-> x])
  IN Of(IF s.scan THEN s ELSE evdev_initial_scan(s), LAMBDA t : Events(Monitor(t), Ready(t)))

\* A controller keeps one effect; a new one is only taken when the last was deleted.
mty_evdev_rumble(s, id, v) ==
  IF id \notin DOMAIN s.rev THEN s
  ELSE LET p == s.rev[id]
           kept == IF s.devices[p].ff THEN FALSE ELSE s.pads[p].effect
       IN IF Stale(s, p) THEN [s EXCEPT !.devices[p].ff = FALSE]
          ELSE IF kept THEN s
          ELSE [s EXCEPT !.pads[p].effect = TRUE, !.pads[p].motor = v, !.devices[p].ff = TRUE]

mty_evdev_create(s) ==
  [s EXCEPT !.devices = HashCreate, !.rev = HashCreate, !.fds = [x \in 1..Slots |-> 0], !.scan = FALSE]

\* A device that is closed forgets its effect and the events nobody read.
mty_evdev_destroy(s) ==
  [s EXCEPT !.devices = <<>>, !.rev = <<>>, !.fds = [x \in 1..Slots |-> 0], !.q = <<>>,
            !.pads = [p \in DOMAIN @ |-> [@[p] EXCEPT !.events = <<>>, !.effect = FALSE, !.motor = 0]]]

MTY_AppCreate(s) == mty_evdev_create(s)
MTY_AppDestroy(s) == [mty_evdev_destroy(s) EXCEPT !.dedupe = <<>>]

AppRun(s) == {mty_evdev_poll(s)}
MTY_AppRumbleController(s, id, v) == mty_evdev_rumble(s, id, v)
=============================================================================

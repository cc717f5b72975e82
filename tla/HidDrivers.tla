------------------------------ MODULE HidDrivers ------------------------------
(***************************************************************************)
(* The drivers of controllers behind raw HID reports (src/hid/hid.c and the *)
(* headers of each driver).  A driver runs in the handler of a connection   *)
(* and of a report, and nowhere else: what it has to send later, it sends   *)
(* when the next report comes.                                              *)
(*                                                                         *)
(* s.devices[p] is the struct hid_dev of the controller with handle p; its  *)
(* st is the driver's state.  s.pads[p] is the controller itself.           *)
(***************************************************************************)
EXTENDS HidUtils

\* Output: what reaches a controller that is there sets its motors, and may have an answer.
mty_hid_device_write(s, p, motor, answer) ==
  IF Stale(s, p) THEN s
  ELSE [s EXCEPT !.pads[p].motor = motor, !.pads[p].answers = @ \o answer]

St(s, p) == s.devices[p].st
Motor(s, p) == s.pads[p].motor
Driven == {"nx", "ps4", "ps5", "xbox", "stadia", "xboxw", "default"}
WithMotors == {"nx", "ps4", "ps5", "xbox"}

\* The driver's event: all six standard axes, those the controller lacks at rest.
DriverEvent(vals, AxisOf(_, _)) ==
  [axes    |-> [x \in 1..6 |-> LET u == Std[x]
                                   rest == IF u \in Sticks THEN 128 ELSE 0
                               IN AxisOf(u, IF u \in DOMAIN vals THEN vals[u] ELSE rest)],
   buttons |-> {b \in DOMAIN vals \ ({"Hat", "Dial"} \cup ToSet(Std)) : vals[b] = 1}]

\* Sticks of eight bits, from lo to 255, whose y grows downwards.
ByteAxis(u, v, lo) ==
  IF u \in Sticks THEN mty_hid_u_to_s16(Axis(u, u, v, lo, 255), u \in Inverted) ELSE Axis(u, u, v, 0, 255)
Bytes(vals) == DriverEvent(vals, LAMBDA u, v : ByteAxis(u, v, 0))

\* Sticks of sixteen bits, whose y grows downwards too.
WordAxis(u, v) ==
  LET n == (v - 128) * 256 + (IF v = 255 THEN 255 ELSE 0)
  IN IF u \in Sticks THEN Axis(u, u, IF u \in Inverted THEN -(n + 1) ELSE n, -32768, 32767)
     ELSE Axis(u, u, v, 0, 255)
Words(vals) == DriverEvent(vals, WordAxis)

-----------------------------------------------------------------------------
(* nx.h: Switch.  A command is written when the one before it was answered,  *)
(* or 500 ms after it was written.  late and old say that so much time went  *)
(* by since write_ts and rumble_ts.                                          *)

NxState == [wready |-> FALSE, done |-> {}, usb |-> FALSE, bluetooth |-> FALSE, calibrated |-> FALSE,
            rumble_on |-> FALSE, rumble_set |-> FALSE, rumble |-> 0, late |-> FALSE, old |-> TRUE]

Written(s, p) == [s EXCEPT !.devices[p].st.late = FALSE, !.devices[p].st.wready = FALSE]

\* A USB handshake packet: only a wired controller answers; "force USB" is never answered.
nx_write_hs(s, p, x) ==
  Written(mty_hid_device_write(s, p, Motor(s, p),
            IF s.pads[p].wired /\ x # "hs2" THEN <<"hs">> ELSE <<>>), p)

\* A subcommand, which carries the rumble as well.
nx_write_command(s, p, x) ==
  Written(mty_hid_device_write(s, p, St(s, p).rumble,
            <<IF x = "calibration" THEN "spi" ELSE "ack">>), p)

nx_rumble(s, p, v) ==
  [s EXCEPT !.devices[p].st.rumble = v, !.devices[p].st.rumble_on = (v > 0), !.devices[p].st.rumble_set = TRUE]

nx_init(s, p) == nx_write_hs([s EXCEPT !.devices[p].st = NxState], p, "init")

\* One step of the state machine, taken once and when the last one is through.
Handshake == <<"hs0", "hs1", "hs2">>
NxSteps == Handshake \o <<"calibration", "vibration", "mode", "home_led", "slot_led">>
NxStep(s, p, x) ==
  LET st == St(s, p)
      usb == x \in ToSet(Handshake)
      t == IF usb THEN nx_write_hs(s, p, x) ELSE nx_write_command(s, p, x)
      ready == [t EXCEPT !.devices[p].st.wready = @ \/ x = "hs2"]
  IN IF ~st.wready \/ x \in st.done \/ (usb /\ ~st.usb) THEN s
     ELSE [ready EXCEPT !.devices[p].st.done = @ \cup {x}]

\* Mutant: a rumble asked for while a command waits for its answer is forgotten.
RumbleForgotten(s, p) ==
  LET st == St(s, p)
      t == [s EXCEPT !.devices[p].st.rumble_set = FALSE]
  IN IF st.wready /\ ((st.rumble_on /\ st.old) \/ st.rumble_set)
     THEN [nx_write_command(t, p, "rumble") EXCEPT !.devices[p].st.old = FALSE] ELSE t

nx_refresh_rumble(s, p) ==
  LET st == St(s, p)
  IN IF st.wready /\ ((st.rumble_on /\ st.old) \/ st.rumble_set)
     THEN [nx_write_command(s, p, "rumble") EXCEPT !.devices[p].st.old = FALSE, !.devices[p].st.rumble_set = FALSE]
     ELSE s

nx_state_machine(s, p) ==
  LET st == St(s, p)
      t == [s EXCEPT !.devices[p].st.bluetooth = @ \/ (~st.usb /\ st.late),
                     !.devices[p].st.wready = @ \/ st.late]
      Go(u) == IF ~u.devices[p].st.usb /\ ~u.devices[p].st.bluetooth THEN u
               ELSE Of(Steps(LAMBDA v, x : NxStep(v, p, x), u, NxSteps), LAMBDA v : nx_refresh_rumble(v, p))
  IN Of(t, Go)

NxAxis(u, v) ==
  IF u \in Sticks THEN mty_hid_s_to_s16(Axis(u, u, v - 128, -128, 127)) ELSE Axis(u, u, v, 0, 255)

\* The answer with the calibration of the sticks.
nx_parse_stick(st) == [st EXCEPT !.calibrated = TRUE]

\* An answer lets the next command go, and the answer with the calibration lets states through.
nx_state(s, p, r) ==
  LET t == CASE r.id = "hs"            -> [s EXCEPT !.devices[p].st.wready = TRUE, !.devices[p].st.usb = TRUE]
             [] r.id = "ack"           -> [s EXCEPT !.devices[p].st.wready = TRUE]
             [] r.id = "spi"           -> [s EXCEPT !.devices[p].st = [nx_parse_stick(@) EXCEPT !.wready = TRUE]]
             [] OTHER                   -> s
  IN [s |-> Of(t, LAMBDA u : nx_state_machine(u, p)), ok |-> r.id = "state" /\ St(s, p).calibrated,
      c |-> DriverEvent(r.vals, NxAxis)]

-----------------------------------------------------------------------------
(* ps4.h, ps5.h: the motors follow at once.  ps5.h writes a second time when *)
(* the first report comes, and spends that report.                           *)

ps4_rumble(s, p, v) == mty_hid_device_write(s, p, v, <<>>)
ps4_init(s, p) == ps4_rumble(s, p, 0)
ps4_state(s, p, r) == [s |-> s, ok |-> r.id = "state", c |-> Bytes(r.vals)]

ps5_rumble(s, p, v) == mty_hid_device_write(s, p, v, <<>>)
ps5_init(s, p) == ps5_rumble(s, p, 0)
ps5_state(s, p, r) ==
  IF ~St(s, p).init THEN [s |-> [ps5_init(s, p) EXCEPT !.devices[p].st.init = TRUE], ok |-> FALSE, c |-> NoEvent]
  ELSE [s |-> s, ok |-> TRUE, c |-> Bytes(r.vals)]

stadia_state(s, p, r) == [s |-> s, ok |-> TRUE, c |-> DriverEvent(r.vals, LAMBDA u, v : ByteAxis(u, v, 1))]
xboxw_state(s, p, r) == [s |-> s, ok |-> TRUE, c |-> Words(r.vals)]

-----------------------------------------------------------------------------
(* xbox.h: a new rumble is written 50 ms after the last, and one that lasts  *)
(* again after 2000 ms; age says which of these went by since rumble_ts.     *)

XboxState == [proto |-> "unknown", guide |-> FALSE, rumble |-> TRUE, age |-> 2, v |-> 0]
xbox_init(s, p) == [s EXCEPT !.devices[p].st = XboxState]

xbox_rumble(s, p, v) ==
  IF v = St(s, p).v THEN s
  ELSE [s EXCEPT !.devices[p].st.v = v, !.devices[p].st.rumble = TRUE]

xbox_do_rumble(s, p) ==
  LET st == St(s, p)
  IN IF (st.rumble /\ st.age >= 1) \/ (st.v > 0 /\ st.age = 2)
     THEN [mty_hid_device_write(s, p, st.v, <<>>) EXCEPT !.devices[p].st.age = 0, !.devices[p].st.rumble = FALSE]
     ELSE s

\* The guide button comes in the report of the state, or, in the first protocol, in its own.
xbox_state(s, p, r) ==
  LET st == St(s, p)
      bit == r.id = "state" /\ ~s.pads[p].v1 /\ "guide" \in DOMAIN r.vals /\ r.vals["guide"] = 1
      v2 == r.id = "guide" \/ st.proto = "v2" \/ bit
      guide == IF r.id = "guide" THEN r.vals["guide"] = 1 ELSE IF v2 THEN bit ELSE st.guide
      c == Words(r.vals)
  IN [s  |-> xbox_do_rumble([s EXCEPT !.devices[p].st.proto = IF v2 THEN "v2" ELSE @,
                                      !.devices[p].st.guide = guide], p),
      ok |-> r.id = "state",
      c  |-> [c EXCEPT !.buttons = IF guide THEN @ \cup {"guide"} ELSE @ \ {"guide"}]]

-----------------------------------------------------------------------------
(* hid.c.                                                                    *)

hid_driver(s, p) == s.pads[p].kind

mty_hid_driver_init(s, p) ==
  CASE hid_driver(s, p) = "nx"   -> nx_init(s, p)
    [] hid_driver(s, p) = "ps4"  -> ps4_init(s, p)
    [] hid_driver(s, p) = "ps5"  -> ps5_init(s, p)
    [] hid_driver(s, p) = "xbox" -> xbox_init(s, p)
    [] OTHER                     -> s

\* A report with its axes in the controller's own order, and a D-pad in a hat.
DefaultAxis(u, v) == Axis(u, u, v, 0, IF u = "Hat" THEN 8 ELSE 255)
mty_hid_default_state(s, p, r) ==
  LET pad == s.pads[p]
  IN [axes    |-> [x \in DOMAIN pad.layout |-> DefaultAxis(pad.layout[x], r.vals[pad.layout[x]])],
      buttons |-> {b \in pad.buttons : r.vals[b] = 1}]

mty_hid_driver_state(s, p, r) ==
  CASE hid_driver(s, p) = "nx"      -> nx_state(s, p, r)
    [] hid_driver(s, p) = "ps4"     -> ps4_state(s, p, r)
    [] hid_driver(s, p) = "ps5"     -> ps5_state(s, p, r)
    [] hid_driver(s, p) = "stadia"  -> stadia_state(s, p, r)
    [] hid_driver(s, p) = "xbox"    -> xbox_state(s, p, r)
    [] hid_driver(s, p) = "xboxw"   -> xboxw_state(s, p, r)
    [] hid_driver(s, p) = "default" ->
         [s |-> s, ok |-> TRUE, c |-> mty_hid_map_axes(mty_hid_default_state(s, p, r))]

mty_hid_driver_rumble(s, p, v) ==
  CASE hid_driver(s, p) = "nx"   -> nx_rumble(s, p, v)
    [] hid_driver(s, p) = "ps4"  -> ps4_rumble(s, p, v)
    [] hid_driver(s, p) = "ps5"  -> ps5_rumble(s, p, v)
    [] hid_driver(s, p) = "xbox" -> xbox_rumble(s, p, v)
    [] OTHER                     -> s

-----------------------------------------------------------------------------
(* The application's handlers, the same on Windows and macOS, and the tables *)
(* by handle and by id.                                                      *)

HidDevice(s, p, id) ==
  [s EXCEPT !.devices = HashSet(@, p, [id |-> id, st |-> [init |-> FALSE]]), !.rev = HashSet(@, id, p)]

app_hid_connect(s, p) == event_func(mty_hid_driver_init(s, p), "CONNECT", s.devices[p].id, NoEvent)
app_hid_disconnect(s, id) == event_func(s, "DISCONNECT", id, NoEvent)

\* Mutant: a report in the background is remembered as if it had been told.
TellsNobody(s, p, r) ==
  Of(mty_hid_driver_state(s, p, r),
     LAMBDA d : IF ~d.ok THEN d.s
                ELSE IF s.focus THEN Deduped(d.s, s.devices[p].id, d.c)
                ELSE mty_hid_dedupe(d.s, s.devices[p].id, d.c).s)

\* Reports in the background are read, but say nothing.
app_hid_report(s, p, r) ==
  Of(mty_hid_driver_state(s, p, r),
     LAMBDA d : IF d.ok /\ s.focus THEN Deduped(d.s, s.devices[p].id, d.c) ELSE d.s)

\* mty_hid_get_device_by_id finds a device as long as the table by id has it.
HidRumble(s, id, v) ==
  IF id \notin DOMAIN s.rev THEN s
  ELSE LET p == s.rev[id]
       IN IF p \in DOMAIN s.devices /\ s.devices[p].id = id THEN mty_hid_driver_rumble(s, p, v)
          ELSE Odd(s, "freed device")
=============================================================================

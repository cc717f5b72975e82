------------------------------ MODULE HidAndroid ------------------------------
(***************************************************************************)
(* Controllers on Android (src/unix/linux/android/app.c): the thread of the *)
(* user interface gets each change of a control and each removal, keeps the *)
(* state of the controllers under a mutex and pushes events to the program, *)
(* whose thread takes them in its main loop.                                *)
(***************************************************************************)
EXTENDS HidUtils

CONSTANT QueueLen   \* of the queue of events

\* No buffer is given when the queue is full, and none is asked for.
app_push_event(s, type, id, c) ==
  IF Len(s.q) = QueueLen THEN Odd(s, "event written nowhere")
  ELSE [s EXCEPT !.q = Append(@, [type |-> type, id |-> id, c |-> c])]

APP_ZEROED_CTRL ==
  [axes    |-> [x \in 1..6 |-> IF Std[x] \in Sticks THEN Axis(Std[x], "", 0, -32768, 32767)
                               ELSE Axis(Std[x], "", 0, 0, 255)],
   buttons |-> {}]

\* A controller connects with its first event.
app_get_controller(s, id) ==
  IF id \in DOMAIN s.devices THEN s
  ELSE app_push_event([s EXCEPT !.devices = HashSet(@, id, APP_ZEROED_CTRL)], "CONNECT", id, APP_ZEROED_CTRL)

app_remove_controller(s, id) ==
  IF id \notin DOMAIN s.devices THEN s
  ELSE [app_push_event(s, "DISCONNECT", id, APP_ZEROED_CTRL) EXCEPT !.devices = HashPop(@, id)]

app_push_controller_event(s, id) ==
  LET r == mty_hid_dedupe(s, id, s.devices[id])
  IN IF r.new THEN app_push_event(r.s, "CONTROLLER", id, r.c) ELSE r.s

\* A key; those of the D-pad are all set at once.
Dpad == {"up", "right", "down", "left"}
app_button(s, id, code, pressed) ==
  LET t == app_get_controller(s, id)
      up == IF code \in Dpad THEN Dpad ELSE {code}
  IN app_push_controller_event(
       [t EXCEPT !.devices[id].buttons = IF pressed THEN (@ \ up) \cup {code} ELSE @ \ up], id)

\* A motion has all axes, and sets the D-pad from the hat whether there is one or not.
app_axis(s, id, vals) ==
  LET t == app_get_controller(s, id)
      Value(u) == IF u \in DOMAIN vals THEN vals[u] ELSE IF u \in Sticks THEN 128 ELSE 0
      Stick(u) == LET n == IF u \in Inverted THEN 128 - Value(u) ELSE Value(u) - 128
                  IN mty_hid_s_to_s16(Axis(u, u, n, -128, 127))
      hat == IF "HatX" \in DOMAIN vals THEN vals["HatX"] ELSE 128
      side == IF hat = 0 THEN {"left"} ELSE IF hat = 255 THEN {"right"} ELSE {}
  IN app_push_controller_event(
       [t EXCEPT !.devices[id].axes = [x \in 1..6 |-> IF Std[x] \in Sticks THEN Stick(Std[x])
                                                      ELSE Axis(Std[x], Std[x], Value(Std[x]), 0, 255)],
                 !.devices[id].buttons = (@ \ Dpad) \cup side], id)

app_unplug(s, id) == app_remove_controller(s, id)

\* The activity, which outlives what the program creates and destroys.
app_start(s) == [s EXCEPT !.devices = <<>>, !.dedupe = <<>>, !.q = <<>>]
app_stop(s) == [s EXCEPT !.devices = <<>>, !.dedupe = <<>>, !.q = <<>>, !.os = <<>>]

\* The thread of the user interface, and the program's loop.
Matoya(s) ==
  {LET t == [s EXCEPT !.os = Tail(@)]
   IN CASE m.what = "remove" -> app_unplug(t, m.id)
        [] m.what = "button" -> app_button(t, m.id, m.code, m.vals[m.code] = 1)
        [] m.what = "axis"   -> app_axis(t, m.id, m.vals) :
     m \in First(s.os)}

AppRun(s) == {event_func([s EXCEPT !.q = Tail(@)], m.type, m.id, m.c) : m \in First(s.q)}

MTY_AppRumbleController(s, id, v) == s
=============================================================================

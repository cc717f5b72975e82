------------------------------ MODULE Controllers ------------------------------
(***************************************************************************)
(* Controllers: a program, the library on one of its platforms, and the     *)
(* controllers, which are plugged in and out, moved, and made to rumble.    *)
(*                                                                         *)
(* Faults names what this code does not stand, so that it can be shown:     *)
(*  "lost"       an answer of a Switch controller is lost                   *)
(*  "again"      the window that listens for devices is made a second time  *)
(*  "held"       a controller is plugged out while it is moved, and its id  *)
(*               is used again                                              *)
(*  "background" a Linux or Android controller moves while nobody tells it  *)
(*  "unknown"    an axis of a Linux gamepad moves before any of its buttons *)
(*  "still"      the first packet of an XInput controller has the number of *)
(*               the last one                                               *)
(*  "unready"    an XInput controller arrives before XInput serves it       *)
(*  "early"      a browser polls before there is an application             *)
(*  "first"      a PS5 controller on Windows is made to rumble before its   *)
(*               first report                                               *)
(*  "ghost"      input of an Android controller comes after its removal     *)
(*  "remade"     a program makes another application in the same Android    *)
(*               activity or worker                                         *)
(***************************************************************************)
EXTENDS HidUtils, FiniteSets

CONSTANTS
  Slots,      \* controllers the Linux code opens (EVDEV_FD_MAX)
  QueueLen,   \* events the Android queue holds (500)
  Slow,       \* answers of a Switch controller that may be late at a time
  Cases,      \* what may be plugged into what, and how often what may happen
  Faults

\* XInput has four slots, and is on Windows only; raw reports are of controllers with a driver.
ASSUME ControllersAssumption ==
  /\ Slots \in Nat /\ QueueLen \in Nat
  /\ \A c \in Cases :
       /\ c.plat \in {"windows", "mac", "x11", "android", "web"}
       /\ DOMAIN c.pads = 1..Len(c.pads) /\ Len(c.pads) \in Nat /\ c.moves \in Nat /\ c.plugs \in Nat
       /\ \A p \in DOMAIN c.pads :
            /\ c.pads[p].kind = "xinput" => c.plat = "windows" /\ p <= 4
            /\ c.plat \in {"windows", "mac"} =>
                 c.pads[p].kind \in {"nx", "ps4", "ps5", "xbox", "stadia", "xboxw", "default", "xinput"}

VARIABLES plat, s

vars == <<plat, s>>

Windows == INSTANCE HidWindows
Mac     == INSTANCE HidMac
X11     == INSTANCE HidEvdev
Android == INSTANCE HidAndroid
Web     == INSTANCE HidWeb

Pads == DOMAIN s.pads
Driven == Windows!Driven

\* A controller as it is when it was just plugged in.
Fresh(pad, id, packet) ==
  [kind |-> pad.kind, layout |-> pad.layout, buttons |-> pad.buttons, wired |-> pad.wired, v1 |-> pad.v1,
   gamepad |-> pad.gamepad, rest |-> pad.rest, turns |-> pad.turns,
   in |-> TRUE, ready |-> TRUE, pos |-> pad.rest, packet |-> packet, motor |-> 0, want |-> -1,
   answers |-> <<>>, events |-> <<>>, effect |-> FALSE, id |-> id]

Start(c) ==
  [focus |-> TRUE, scan |-> FALSE, app |-> "none", pads |-> [p \in DOMAIN c.pads |-> Fresh(c.pads[p], p, 1)],
   q |-> <<>>, os |-> <<>>, devices |-> <<>>, rev |-> <<>>, dedupe |-> <<>>, seen |-> <<>>, odd |-> {},
   next |-> Len(c.pads) + 1, xip |-> <<>>, fds |-> <<>>, gps |-> [x \in 0..(Len(c.pads) - 1) |-> FALSE],
   quiet |-> IF c.plat = "windows" THEN 4 ELSE 0,
   apps |-> c.apps, moves |-> c.moves, plugs |-> c.plugs, rumbles |-> c.rumbles, focuses |-> c.focuses]

\* With an application.
Created(on, t) ==
  LET u == CASE on = "windows" -> Windows!MTY_AppCreate(t)
             [] on = "mac"     -> Mac!MTY_AppCreate(t)
             [] on = "x11"     -> X11!MTY_AppCreate(t)
             [] on = "android" -> IF "remade" \in Faults THEN t ELSE Android!app_start(Android!app_stop(t))
             [] on = "web"     -> Web!MTY_AppCreate(t)
  IN [u EXCEPT !.app = "alive"]

Init == \E c \in Cases :
  /\ plat = c.plat
  /\ s = IF c.plat = "web" THEN Start(c) ELSE Created(c.plat, Start(c))

-----------------------------------------------------------------------------
(* What the properties say of a controller.                                  *)

is_xinput(p) == s.pads[p].kind = "xinput"
Queued(p, what) == plat \in {"windows", "mac", "x11"} /\ \E x \in DOMAIN s.q : s.q[x].what \in what /\ s.q[x].p = p
Answering(p) ==
  Len(s.pads[p].answers)
    + Len(SelectSeq(s.q, LAMBDA m : m.what = "report" /\ m.p = p /\ m.r.id \notin {"state", "guide"}))

\* The id the program knows the controller by, or -1.
IdOf(p) ==
  CASE is_xinput(p) \/ plat = "web" -> p - 1
    [] plat = "android"             -> s.pads[p].id
    [] OTHER                        -> IF p \in DOMAIN s.devices THEN s.devices[p].id ELSE -1

\* The usage of a control: the codes of Linux stand for the usages.
UsageOf(p, u) ==
  IF plat # "x11" THEN u
  ELSE IF s.pads[p].gamepad THEN X11!evdev_gamepad_usage(u) ELSE X11!evdev_joystick_usage(u)

\* A stick on its side; the y of most controllers grows downwards, the program's upwards.
Side(n) == IF n > 0 THEN 1 ELSE IF n < 0 THEN -1 ELSE 0
AxisTold(p, a, u, raw) ==
  LET down == u \in Inverted /\ s.pads[p].kind \notin {"nx", "xinput"}
  IN /\ a.usage = u
     /\ IF u \in Sticks THEN Side(hid_clean_value(a.v)) = Side(raw - 128) * (IF down THEN -1 ELSE 1) ELSE a.v = raw

\* The hat of a controller, as the buttons of the D-pad.
HatOf(pos) ==
  CASE "Hat" \in DOMAIN pos -> mty_hid_axis_to_dpad(pos["Hat"])
    [] \E h \in {"HatX", "ABS_HAT0X"} : h \in DOMAIN pos ->
         LET v == pos[CHOOSE h \in {"HatX", "ABS_HAT0X"} : h \in DOMAIN pos]
         IN IF v < 128 THEN {"left"} ELSE IF v > 128 THEN {"right"} ELSE {}
    [] OTHER -> {}

\* The buttons that are pressed; a hat takes the places of four.
ButtonsOf(pos, pressed) == IF "Hat" \in DOMAIN pos THEN MovedUp(pressed) ELSE pressed

AtRest(p) == s.pads[p].pos = s.pads[p].rest
Unannounced(p) == (is_xinput(p) \/ plat = "android") /\ IdOf(p) \notin DOMAIN s.seen

\* The program knows where each control of the controller is.
Told(p) ==
  LET pos == s.pads[p].pos
      c == s.seen[IdOf(p)]
  IN \/ Unannounced(p) /\ AtRest(p)
     \/ /\ IdOf(p) \in DOMAIN s.seen
        /\ c.buttons = ButtonsOf(pos, {b \in s.pads[p].buttons : pos[b] = 1}) \cup HatOf(pos)
        /\ \A u \in DOMAIN pos : UsageOf(p, u) \in ToSet(Std) =>
             /\ c.axes # <<>>
             /\ AxisTold(p, c.axes[Place(UsageOf(p, u))], UsageOf(p, u), pos[u])

-----------------------------------------------------------------------------
(* The library, the system and the drivers.                                  *)

AppRun ==
  /\ plat = "web" \/ s.app = "alive"
  /\ s' \in CASE plat = "windows" -> Windows!AppRun(s)
              [] plat = "mac"     -> Mac!AppRun(s)
              [] plat = "x11"     -> X11!AppRun(s)
              [] plat = "android" -> Android!AppRun(s)
              [] plat = "web"     -> Web!AppRun(s)
  /\ UNCHANGED plat

\* The thread of the user interface.
Matoya == plat = "android" /\ s' \in Android!Matoya(s) /\ UNCHANGED plat

\* The interval of a page.
PollGamepads ==
  plat = "web" /\ (s.app # "none" \/ "early" \in Faults) /\ s' \in Web!mty_poll_gamepads(s) /\ UNCHANGED plat

\* 500 ms for a Switch controller, or the next of the times of an Xbox controller.
Tick(p) ==
  LET st == s.devices[p].st
  IN /\ p \in DOMAIN s.devices /\ plat \in {"windows", "mac"}
     /\ \/ s.pads[p].kind = "nx" /\ Answering(p) < Slow
             /\ s' = [s EXCEPT !.devices[p].st.late = TRUE, !.devices[p].st.old = TRUE]
        \/ s.pads[p].kind = "xbox" /\ st.age < 2 /\ s' = [s EXCEPT !.devices[p].st.age = @ + 1]
     /\ UNCHANGED plat

-----------------------------------------------------------------------------
(* The program.                                                              *)

MTY_AppCreate == s.app # "alive" /\ s' = Created(plat, s) /\ UNCHANGED plat

\* What the program knows goes with its application.
MTY_AppDestroy ==
  LET t == CASE plat = "windows" -> Windows!MTY_AppDestroy(s)
             [] plat = "mac"     -> Mac!MTY_AppDestroy(s)
             [] plat = "x11"     -> X11!MTY_AppDestroy(s)
             [] plat = "android" -> s
             [] plat = "web"     -> Web!MTY_AppDestroy(s)
  IN /\ s.app = "alive" /\ s.apps > 0
     /\ plat = "web" => "remade" \in Faults
     /\ plat \in {"x11", "android"} /\ "held" \notin Faults => \A p \in Pads : AtRest(p)
     /\ s' = [t EXCEPT !.app = IF plat = "web" THEN @ ELSE "none", !.apps = @ - 1, !.seen = <<>>,
                       !.pads = [p \in Pads |-> [@[p] EXCEPT !.want = -1]]]
     /\ UNCHANGED plat

\* It may be late to forget an id.
MTY_AppRumbleController(id, v) ==
  LET asked == {p \in Pads : IdOf(p) = id /\ s.pads[p].in /\ s.pads[p].ready /\ ~Queued(p, {"arrive", "remove"})}
      t == CASE plat = "windows" -> Windows!MTY_AppRumbleController(s, id, v)
             [] plat = "mac"     -> Mac!MTY_AppRumbleController(s, id, v)
             [] plat = "x11"     -> X11!MTY_AppRumbleController(s, id, v)
             [] plat = "android" -> Android!MTY_AppRumbleController(s, id, v)
             [] plat = "web"     -> Web!MTY_AppRumbleController(s, id, v)
  IN /\ s.app = "alive" /\ s.rumbles > 0
     /\ "first" \notin Faults => \A p \in asked : s.pads[p].kind = "ps5" => s.devices[p].st.init
     /\ s' = [t EXCEPT !.rumbles = @ - 1,
                       !.pads = [p \in Pads |-> IF p \in asked THEN [@[p] EXCEPT !.want = v] ELSE @[p]]]
     /\ UNCHANGED plat

\* Its window gains or loses the focus, or is made again.
Focus ==
  LET t == [s EXCEPT !.focuses = @ - 1]
  IN /\ s.focuses > 0
     /\ plat = "x11" /\ "background" \notin Faults => \A p \in Pads : s.pads[p].events = <<>>
     /\ s' \in {[t EXCEPT !.focus = ~@]}
              \cup {Windows!MTY_WindowCreate(Windows!MTY_WindowDestroy(u)) :
                      u \in {w \in {t} : plat = "windows" /\ w.app = "alive" /\ "again" \in Faults}}
     /\ UNCHANGED plat

-----------------------------------------------------------------------------
(* The controllers.                                                          *)

\* Nobody listens without an application.
Enqueued(t, m) == IF t.app = "alive" THEN [t EXCEPT !.q = Append(@, m)] ELSE t

Arrival(t, p) == IF plat \in {"windows", "x11"} THEN Enqueued(t, [what |-> "arrive", p |-> p]) ELSE t

Plug(p) ==
  LET pad == s.pads[p]
      packet == IF "still" \in Faults THEN 0 ELSE pad.packet + 1
      new == [pad EXCEPT !.in = TRUE, !.pos = pad.rest, !.packet = packet, !.id = s.next,
                         !.ready = ~is_xinput(p)]
      t == [s EXCEPT !.pads[p] = IF plat = "android" THEN new ELSE [new EXCEPT !.id = pad.id],
                     !.next = IF plat = "android" THEN @ + 1 ELSE @]
  IN /\ ~pad.in
     /\ s' = IF new.ready \/ "unready" \in Faults THEN Arrival(t, p) ELSE t
     /\ UNCHANGED plat

\* XInput serves the controller from now on.
Ready(p) ==
  LET t == [s EXCEPT !.pads[p].ready = TRUE]
  IN /\ s.pads[p].in /\ ~s.pads[p].ready
     /\ s' = IF "unready" \in Faults THEN t ELSE Arrival(t, p)
     /\ UNCHANGED plat

Unplug(p) ==
  LET pad == s.pads[p]
      gone == [pad EXCEPT !.in = FALSE, !.ready = ~is_xinput(p), !.pos = pad.rest, !.motor = 0, !.want = -1,
                          !.answers = <<>>, !.events = <<>>, !.effect = FALSE]
      t == [s EXCEPT !.pads[p] = gone, !.plugs = @ - 1]
      remove == [what |-> "remove", id |-> pad.id]
  IN /\ pad.in /\ s.plugs > 0
     /\ (plat = "x11" \/ is_xinput(p)) /\ "held" \notin Faults => AtRest(p) /\ Told(p)
     /\ s' = CASE plat \in {"windows", "mac", "x11"} -> Enqueued(t, [what |-> "remove", p |-> p])
               [] plat = "android" -> [t EXCEPT !.os = IF "ghost" \in Faults THEN <<remove>> \o @ ELSE Append(@, remove)]
               [] plat = "web"     -> t
     /\ UNCHANGED plat

\* A control is moved; who tells changes only, tells this one.
Move(p, u, v) ==
  LET pad == s.pads[p]
      pos == [pad.pos EXCEPT ![u] = v]
      t == [s EXCEPT !.pads[p].pos = pos, !.pads[p].packet = IF is_xinput(p) THEN @ + 1 ELSE @, !.moves = @ - 1]
      button == u \in pad.buttons
  IN /\ pad.in /\ s.moves > 0 /\ pad.pos[u] # v
     /\ plat = "x11" /\ "background" \notin Faults =>
          s.focus /\ p \in DOMAIN s.devices /\ ~Queued(p, {"arrive", "remove"})
     /\ plat = "android" /\ "background" \notin Faults => s.app = "alive"
     /\ plat = "x11" /\ pad.gamepad /\ "unknown" \notin Faults => button \/ (p \in DOMAIN s.devices /\ s.devices[p].gamepad)
     /\ s' = CASE plat = "x11" /\ p \in DOMAIN s.devices ->
                    [t EXCEPT !.pads[p].events = Append(@, [code |-> u, v |-> v])]
               [] plat = "android" ->
                    [t EXCEPT !.os = Append(@, [what |-> IF button THEN "button" ELSE "axis", id |-> pad.id, code |-> u,
                                                vals |-> IF button THEN [x \in {u} |-> v] ELSE Restrict(pos, DOMAIN pos \ pad.buttons)])]
               [] plat \in {"windows", "mac"} /\ u = "guide" /\ pad.v1 ->
                    Enqueued(t, [what |-> "report", p |-> p, r |-> [id |-> "guide", vals |-> [x \in {u} |-> v]]])
               [] OTHER -> t
     /\ UNCHANGED plat

\* Controllers with raw reports send them all the time; here the last one was read.
Report(p) ==
  /\ plat \in {"windows", "mac"} /\ s.app = "alive" /\ s.pads[p].in /\ s.pads[p].kind \in Driven
  /\ ~\E x \in DOMAIN s.q : s.q[x].what = "report" /\ s.q[x].p = p /\ s.q[x].r.id = "state"
  /\ s' = Enqueued(s, [what |-> "report", p |-> p, r |-> [id |-> "state", vals |-> s.pads[p].pos]])
  /\ UNCHANGED plat

\* An answer of a Switch controller.
Answer(p) ==
  LET answers == s.pads[p].answers
      t == [s EXCEPT !.pads[p].answers = Tail(@)]
  IN /\ answers # <<>>
     /\ s' \in {Enqueued(t, [what |-> "report", p |-> p, r |-> [id |-> Head(answers), vals |-> s.pads[p].pos]])}
              \cup {u \in {t} : "lost" \in Faults}
     /\ UNCHANGED plat

\* An effect of evdev lasts a second (replay.length) and one of a browser two: then the
\* motors stop by themselves, and what the program asked for is over.
EffectEnds(p) ==
  /\ plat \in {"x11", "web"} /\ s.pads[p].motor = 1
  /\ s' = [s EXCEPT !.pads[p].motor = 0, !.pads[p].want = IF @ = 1 THEN 0 ELSE @]
  /\ UNCHANGED plat

-----------------------------------------------------------------------------
Next ==
  \/ AppRun \/ Matoya \/ PollGamepads \/ MTY_AppCreate \/ MTY_AppDestroy \/ Focus
  \/ \E p \in Pads : Tick(p) \/ Plug(p) \/ Unplug(p) \/ Ready(p) \/ Report(p) \/ Answer(p) \/ EffectEnds(p)
  \/ \E p \in Pads : \E u \in DOMAIN s.pads[p].turns : \E v \in s.pads[p].turns[u] : Move(p, u, v)
  \/ \E id \in DOMAIN s.seen \cup DOMAIN s.dedupe, v \in 0..1 : MTY_AppRumbleController(id, v)

\* Loops, threads and clocks go on, and controllers send what they have to.
Fairness ==
  /\ WF_vars(AppRun) /\ WF_vars(Matoya \/ PollGamepads)
  /\ \A p \in 1..2 : WF_vars(p \in Pads /\ Tick(p)) /\ WF_vars(p \in Pads /\ Report(p))
                     /\ WF_vars(p \in Pads /\ (Answer(p) \/ Ready(p)))
                     /\ WF_vars(p \in Pads /\ EffectEnds(p))

Spec == Init /\ [][Next]_vars /\ Fairness

-----------------------------------------------------------------------------
(* Properties.                                                               *)

\* The tables by handle, by id and by slot speak of the same devices.
TypeOK ==
  /\ plat \in {"windows", "mac", "x11", "android", "web"}
  /\ \A p \in Pads : s.pads[p].in \in BOOLEAN /\ s.pads[p].motor \in 0..1 /\ s.pads[p].want \in -1..1
  /\ plat \in {"windows", "mac", "x11"} =>
       /\ DOMAIN s.devices \subseteq Pads
       /\ s.rev = [id \in {s.devices[p].id : p \in DOMAIN s.devices} |->
                     CHOOSE p \in DOMAIN s.devices : s.devices[p].id = id]
       /\ \A p, r \in DOMAIN s.devices : s.devices[p].id = s.devices[r].id => p = r
  /\ plat = "x11" => \A x \in 1..Slots :
       {p \in DOMAIN s.devices : s.devices[p].slot = x} = {p \in DOMAIN s.devices : s.devices[p].id = s.fds[x]}
       /\ (s.fds[x] # 0 => s.fds[x] \in DOMAIN s.rev)

\* The program is told of a controller after it was told it came and before it is told it went,
\* each once, no device that was freed is used, and no event is written where there is no room.
EventsInOrder == s.odd = {}

\* The standard axes are where the program looks for them, and no axis a controller has is lost.
AxesInPlace ==
  \A id \in DOMAIN s.seen : LET axes == s.seen[id].axes IN axes # <<>> =>
    /\ \A x \in 1..6 : axes[x].usage = Std[x]
    /\ id \in DOMAIN s.rev /\ s.pads[s.rev[id]].kind = "default" =>
         \A u \in ToSet(s.pads[s.rev[id]].layout) :
           \E x \in IF u \in ToSet(Std) THEN {Place(u)} ELSE DOMAIN axes : axes[x].from = u

\* A Linux controller that found no slot is not looked at again.
Served(p) == plat = "x11" => Cardinality(Pads) <= Slots \/ p \in DOMAIN s.devices

\* A program with an application that has the focus comes to know where each control of a controller is, and which
\* controllers are gone.
UpToDate ==
  /\ <>[](s.app = "alive" /\ s.focus /\ \A p \in Pads : ~s.pads[p].in) => <>[](DOMAIN s.seen = {})
  /\ \A p \in 1..3 : <>[](s.app = "alive" /\ p \in Pads /\ s.focus /\ s.pads[p].in /\ Served(p)) => <>[](p \in Pads /\ Told(p))

\* The motors come to do what the program asked for last, as long as the effect lasts: matoya.h says
\* "Some controllers will automatically stop rumbling if it has not been refreshed".
RumbleArrives ==
  \A p \in 1..3 : <>[](p \in Pads /\ s.pads[p].kind \in Windows!WithMotors \cup {"xinput", "evdev", "web"} /\ s.pads[p].want # -1)
                  => <>[](p \in Pads /\ s.pads[p].motor = s.pads[p].want)
=============================================================================

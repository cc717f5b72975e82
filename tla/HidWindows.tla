------------------------------ MODULE HidWindows ------------------------------
(***************************************************************************)
(* Controllers on Windows: raw input (src/windows/hidw.c), whose arrivals,  *)
(* removals and reports are messages of the window, and XInput              *)
(* (src/windows/xip.h), which the main loop polls while the program has the *)
(* focus.  A controller XInput serves is a raw input device as well, but    *)
(* one that says nothing.  Ids below 4 are XInput's.                        *)
(***************************************************************************)
EXTENDS HidDrivers

is_xinput(s, p) == s.pads[p].kind = "xinput"

\* Mutant: a removed device stays in the table by id.
KeepsId(s, what, p) ==
  CASE what = "arrive" /\ ~Stale(s, p) ->
         LET t == HidDevice([s EXCEPT !.next = @ + 1], p, s.next)
         IN IF is_xinput(s, p) THEN t ELSE Of(t, LAMBDA v : app_hid_connect(v, p))
    [] what = "remove" /\ p \in DOMAIN s.devices ->
         LET t == [s EXCEPT !.devices = HashPop(@, p)]
         IN IF is_xinput(s, p) THEN t ELSE app_hid_disconnect(t, s.devices[p].id)
    [] OTHER -> s

\* A device that went away again cannot be asked what it is.
mty_hid_win32_device_change(s, what, p) ==
  CASE what = "arrive" /\ ~Stale(s, p) ->
         LET t == HidDevice([s EXCEPT !.next = @ + 1], p, s.next)
             u == IF p \in DOMAIN s.devices THEN Odd(t, "device destroyed as a hid") ELSE t
         IN IF is_xinput(s, p) THEN u ELSE Of(u, LAMBDA v : app_hid_connect(v, p))
    [] what = "remove" /\ p \in DOMAIN s.devices ->
         LET id == s.devices[p].id
             t == [s EXCEPT !.devices = HashPop(@, p)]
             u == IF is_xinput(s, p) THEN t ELSE app_hid_disconnect(t, id)
         IN [u EXCEPT !.rev = HashPop(@, id)]
    [] OTHER -> s

mty_hid_win32_report(s, p, r) ==
  IF p \in DOMAIN s.devices /\ ~is_xinput(s, p) THEN app_hid_report(s, p, r) ELSE s

\* All devices that are there arrive when the window listens.
mty_hid_win32_listen(s) ==
  [s EXCEPT !.q = @ \o SetToSeq({[what |-> "arrive", p |-> p] : p \in {n \in DOMAIN s.pads : s.pads[n].in /\ s.pads[n].ready}})]

-----------------------------------------------------------------------------
(* xip.h.                                                                    *)

xip_create(s) ==
  [s EXCEPT !.xip = [x \in DOMAIN s.pads |-> [disabled |-> FALSE, was_enabled |-> FALSE, packet |-> 0]]]

xip_device_arival(s) == [s EXCEPT !.xip = [x \in DOMAIN @ |-> [@[x] EXCEPT !.disabled = FALSE]]]

XipAxis(u, v) ==
  IF u \in Sticks THEN Axis(u, u, (v - 128) * 256 + (IF v = 255 THEN 255 ELSE 0), -32768, 32767)
  ELSE Axis(u, u, v, 0, 255)
xip_to_mty(vals) == DriverEvent(vals, XipAxis)

\* A state with the packet number of the last one is not looked at.
XipSlot(s, x) ==
  LET state == s.xip[x]
      pad == s.pads[x]
      t == [s EXCEPT !.xip[x].was_enabled = TRUE]
      gone == [s EXCEPT !.xip[x].disabled = TRUE, !.xip[x].was_enabled = FALSE]
  IN CASE state.disabled               -> s
       [] ~state.disabled /\ is_xinput(s, x) /\ pad.ready ->
            IF pad.packet = state.packet THEN t
            ELSE [Deduped(t, x - 1, xip_to_mty(pad.pos)) EXCEPT !.xip[x].packet = pad.packet]
       [] OTHER                        ->
            IF state.was_enabled THEN event_func(gone, "DISCONNECT", x - 1, NoEvent) ELSE gone

xip_state(s) == Steps(XipSlot, s, [x \in DOMAIN s.pads |-> x])

xip_rumble(s, x, v) ==
  IF s.xip[x].disabled \/ ~s.pads[x].ready \/ ~is_xinput(s, x) THEN s ELSE [s EXCEPT !.pads[x].motor = v]

-----------------------------------------------------------------------------
(* appw.c.                                                                   *)

mty_hid_create(s) == [s EXCEPT !.devices = HashCreate, !.rev = HashCreate, !.next = 32]
mty_hid_destroy(s) == [s EXCEPT !.devices = <<>>, !.rev = <<>>]

\* The messages of a window go with it.
MTY_WindowCreate(s) == mty_hid_win32_listen(s)
MTY_WindowDestroy(s) == [s EXCEPT !.q = <<>>]

MTY_AppCreate(s) == MTY_WindowCreate(mty_hid_create(xip_create(s)))
MTY_AppDestroy(s) == mty_hid_destroy(MTY_WindowDestroy([s EXCEPT !.dedupe = <<>>]))

\* WM_INPUT and WM_INPUT_DEVICE_CHANGE.
hwnd_proc(s, m) ==
  CASE m.what = "report" -> mty_hid_win32_report(s, m.p, m.r)
    [] m.what = "arrive" -> mty_hid_win32_device_change(xip_device_arival(s), "arrive", m.p)
    [] OTHER             -> mty_hid_win32_device_change(s, m.what, m.p)

\* The loop polls XInput and then goes through the messages, here one.
AppRun(s) ==
  LET Message(t) == IF t.q = <<>> THEN t ELSE Of([t EXCEPT !.q = Tail(@)], LAMBDA u : hwnd_proc(u, Head(t.q)))
  IN {Of(IF s.focus THEN xip_state(s) ELSE s, Message)}

MTY_AppRumbleController(s, id, v) == IF id < 4 THEN xip_rumble(s, id + 1, v) ELSE HidRumble(s, id, v)
=============================================================================

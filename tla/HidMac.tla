-------------------------------- MODULE HidMac --------------------------------
(***************************************************************************)
(* Controllers on macOS (src/unix/apple/macosx/hid.c): callbacks of the run *)
(* loop.  A controller is unknown until its first report.                   *)
(***************************************************************************)
EXTENDS HidDrivers

\* A new device gets the next id; ids are never used again.
hid_device_create(s, p) == HidDevice([s EXCEPT !.next = @ + 1], p, s.next)

hid_report(s, p, r) ==
  Of(IF p \in DOMAIN s.devices THEN s ELSE Of(hid_device_create(s, p), LAMBDA t : app_hid_connect(t, p)),
     LAMBDA t : app_hid_report(t, p, r))

hid_disconnect(s, p) ==
  IF p \notin DOMAIN s.devices THEN s
  ELSE LET id == s.devices[p].id
       IN [app_hid_disconnect([s EXCEPT !.devices = HashPop(@, p)], id) EXCEPT !.rev = HashPop(@, id)]

\* The callbacks of a manager go with it.
mty_hid_create(s) == [s EXCEPT !.devices = HashCreate, !.rev = HashCreate, !.next = 1]
mty_hid_destroy(s) == [s EXCEPT !.devices = <<>>, !.rev = <<>>, !.q = <<>>]

MTY_AppCreate(s) == mty_hid_create(s)
MTY_AppDestroy(s) == [mty_hid_destroy(s) EXCEPT !.dedupe = <<>>]

\* The run loop calls back for one event after the other.
AppRun(s) ==
  {Of([s EXCEPT !.q = Tail(@)],
      LAMBDA t : IF m.what = "report" THEN hid_report(t, m.p, m.r) ELSE hid_disconnect(t, m.p)) : m \in First(s.q)}

MTY_AppRumbleController(s, id, v) == HidRumble(s, id, v)
=============================================================================

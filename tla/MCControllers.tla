----------------------------- MODULE MCControllers -----------------------------
(* Controllers on each platform, a few of each kind.                          *)
EXTENDS Controllers

\* A controller: the values its controls can take, the one at rest first.
Pad(kind, layout, buttons) ==
  LET Values(u) == CASE u \in buttons                         -> <<0, 1>>
                     [] u = "Hat"                             -> <<8, 1>>
                     [] u = "HatX"                            -> <<128, 0>>
                     [] u \in Bytewise                        -> <<0, 255>>
                     [] OTHER                                 -> <<128, 255>>
      controls == ToSet(layout) \cup buttons
  IN [kind |-> kind, layout |-> layout, buttons |-> buttons, wired |-> FALSE, v1 |-> FALSE, gamepad |-> FALSE,
      rest |-> [u \in controls |-> Values(u)[1]], turns |-> [u \in controls |-> ToSet(Values(u))]]

Case(on, pads, moves, plugs, rumbles, focuses) ==
  [plat |-> on, pads |-> pads, moves |-> moves, plugs |-> plugs, rumbles |-> rumbles, focuses |-> focuses, apps |-> 0]
Twice(case) == [case EXCEPT !.apps = 1]

Stick == <<"Y">>
Nx(wired) == [Pad("nx", Stick, {"A"}) EXCEPT !.wired = wired]
Buttons == <<"up", "right", "down", "left", "touchpad", "last">>
Layouts == {<<"Slider", "Rz", "X", "Hat", "Y", "Z">>, <<"Rx", "Z", "Slider", "Dial", "X", "Y", "Ry", "Rz", "Hat">>,
            <<"Y", "Z", "Slider">>, <<"Rz", "Slider", "X", "Y", "Wheel", "Z", "Rx", "Hat", "Ry">>}
EvGamepad == [Pad("evdev", <<"ABS_RX", "ABS_X", "ABS_HAT0X">>, {"A"}) EXCEPT !.gamepad = TRUE]
EvJoystick == Pad("evdev", <<"ABS_RZ", "ABS_Y">>, {"A"})
Touch == Pad("android", <<"Y", "Rx", "HatX">>, {"A"})
Page == Pad("web", <<"Y", "Rx">>, {"A"})

MCCases ==
  {Case("windows", <<pad>>, 1, 1, 1, 1) :
     pad \in {Pad("ps4", Stick, {"A"}), Pad("ps5", Stick, {"A"}), Pad("xboxw", Stick, {"A"})}}
  \cup {Case("mac", <<pad>>, 1, 1, 1, 1) : pad \in {Pad("ps5", Stick, {"A"}), Pad("stadia", Stick, {"A"})}}
  \cup {Case("windows", <<Pad("xbox", <<"Y", "Rx">>, {"guide"})>>, 1, 0, 1, 1)}
  \cup {Case("windows", <<Nx(FALSE)>>, 0, 0, 2, 0), Case("mac", <<Nx(TRUE)>>, 1, 0, 1, 0), Case("mac", <<Nx(TRUE)>>, 0, 1, 0, 0)}
  \cup {Case("mac", <<Pad("default", layout, {"A"})>>, 1, 0, 0, 2) : layout \in Layouts}
  \cup {Case("mac", <<Pad("default", <<"Y", "Hat">>, {"A", "up", "last"})>>, 2, 0, 0, 0)}
  \cup {Case("windows", <<Pad("xinput", Stick, {"A"})>>, 2, 2, 0, 1),
        Case("windows", <<Pad("xinput", Stick, {}), Pad("default", <<"Y", "X">>, {})>>, 1, 1, 1, 0),
        Case("mac", <<Pad("ps4", Stick, {}), Pad("default", <<"Y", "X">>, {})>>, 1, 1, 1, 0),
        Case("x11", <<EvGamepad>>, 2, 2, 2, 1),
        Case("x11", <<EvGamepad, EvJoystick, EvJoystick>>, 2, 2, 1, 0),
        Case("android", <<Touch>>, 2, 2, 0, 0), Case("android", <<Touch, Touch>>, 2, 1, 0, 0),
        Twice(Case("windows", <<Pad("xinput", Stick, {}), Pad("ps4", Stick, {})>>, 1, 1, 1, 0)),
        Twice(Case("mac", <<Nx(TRUE)>>, 0, 0, 1, 0)), Twice(Case("mac", <<Pad("default", Stick, {"A"})>>, 1, 1, 0, 1)),
        Twice(Case("x11", <<EvGamepad, EvJoystick>>, 1, 1, 1, 0)), Twice(Case("android", <<Touch>>, 1, 1, 0, 0)),
        Case("web", <<Page>>, 2, 2, 0, 1), Case("web", <<Page, Page>>, 1, 1, 1, 0)}
=============================================================================

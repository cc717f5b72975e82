----------------------------- MODULE MCGraphics -----------------------------
(* Every platform, one UI texture; images of one and of two planes and two   *)
(* sizes, and on GL a second layer above them, which does not change.        *)
EXTENDS Graphics

MCPlatforms == {"x11", "android", "windows", "web", "apple"}
MCNone == {}
MCLayers == {0, 1}
MCTextures == {1}
MCImages ==
  {<<api, 0>> \o image : api \in APIs, image \in {<<"bgra", 1>>, <<"nv12", 1>>, <<"nv12", 2>>}}
  \cup {<<"gl", 1, "bgra", 1>>}
MCSizes == {1, 2}
MCNeeds == {1, 2}
MCIntervals == {150}
=============================================================================

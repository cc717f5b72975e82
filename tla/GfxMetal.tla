------------------------------ MODULE GfxMetal ------------------------------
(***************************************************************************)
(* The Metal back end (src/unix/apple/gfx).  Objects are counted by ARC:    *)
(* a field that becomes nil, or another object, releases what it held.      *)
(***************************************************************************)
EXTENDS GfxDriver

\* A field is assigned: the object before is released.
Assign(g, o, n) == Make(Free(g, o, n), o, n)

-----------------------------------------------------------------------------
(* metal-ctx.m.                                                              *)

\* There may be no device; the layer and the queue are made on the main thread.
mty_metal_ctx_create(g) ==
  {Result(g, FALSE),
   Result([MakeAll(g, Ctx, <<"layer", "cq">>)
             EXCEPT !.ptr = @ \cup {Ctx}, !.ctx.dev = 1, !.ctx.size = 0, !.ctx.interval = 0,
                    !.ctx.rem = 0, !.drift = 0], TRUE)}

mty_metal_ctx_destroy(g) == Destroyed(g, Ctx, <<"dlink", "layer", "cq", "back_buffer">>)

metal_ctx_refresh(g) == [g EXCEPT !.ctx.size = g.win.size]

\* There may be no drawable.
mty_metal_ctx_get_surface(g) ==
  LET h == Use(metal_ctx_refresh(g), {<<Ctx, {"layer"}>>})
  IN IF Has(g, Ctx, "back_buffer") THEN {Result(g, TRUE)}
     ELSE {Result(h, FALSE), Result(Make(h, Ctx, "back_buffer"), TRUE)}

mty_metal_ctx_get_device(g) == g.ctx.dev

mty_metal_ctx_set_sync_interval(g, interval) == {sync_set_interval(g, interval)}

\* The display link is made by the first presentation that waits.
display_link_wait(g) == IF Has(g, Ctx, "dlink") THEN g ELSE Make(g, Ctx, "dlink")
mty_metal_ctx_present(g) ==
  LET h == sync_next_interval(Use(g, {<<Ctx, {"cq", "back_buffer"}>>}))
      waits == g.ctx.rem + g.ctx.interval >= 100
  IN IF ~Has(g, Ctx, "back_buffer") THEN {g}
     ELSE {Free(k, Ctx, "back_buffer") : k \in {h} \cup IF waits THEN {display_link_wait(h)} ELSE {}}

-----------------------------------------------------------------------------
(* metal.m.                                                                  *)

MetalQuadSteps ==
  <<"library", "vs", "fs", "vb", "ib", "pipeline", "ss_nearest", "ss_linear", "niltex">>

mty_metal_destroy(g, l) ==
  IF Quad(l) \notin g.ptr THEN g
  ELSE Destroyed(Free(Free(g, Plane(l, 1), "texture"), Plane(l, 2), "texture"), Quad(l),
         <<"library", "fs", "vs", "vb", "ib", "pipeline", "ss_linear", "ss_nearest", "niltex">>)

mty_metal_create(g, l) == Create(g, Quad(l), MetalQuadSteps, LAMBDA h : mty_metal_destroy(h, l))

\* Formats packed in sixteen bits, of one plane, are refused by old systems.
metal_refresh_resource(g, l, p, fmt, size) ==
  LET o == Plane(l, p)
  IN (IF Len(Planes(fmt)) = 1 THEN {Result(g, FALSE)} ELSE {}) \cup
     {IF Differs(g, l, p, "texture", fmt, size)
      THEN Result(SetPlane(Assign(g, o, "texture"), l, p, fmt, size), TRUE)
      ELSE Result(Use(g, {<<o, {"texture"}>>}), TRUE)}

\* A command buffer of its own, committed at once; planes that are missing are niltex.
MetalDraw(g, l) ==
  Use(Shown(g, l),
    {<<Ctx, {"cq", "back_buffer"}>>,
     <<Quad(l), {"pipeline", "vb", "ib", "ss_nearest", "ss_linear", "niltex"}>>}
    \cup {<<Plane(l, p), {"texture"}>> : p \in {q \in {1, 2} : Has(g, Plane(l, q), "texture")}})

mty_metal_render(g, l, fmt, size) ==
  LET h == SetFormat(g, l, fmt)
  IN IF h.quad[l].fmt = "none" THEN {h}
     ELSE {r.g : r \in Then(fmt_reload_textures(h, l, fmt, size, metal_refresh_resource),
                            LAMBDA k : {Result(MetalDraw(k, l), TRUE)})}

mty_metal_clear(g) == Use(g, {<<Ctx, {"cq", "back_buffer"}>>})

-----------------------------------------------------------------------------
(* metal-ui.m.                                                               *)

MetalUISteps == <<"rps", "niltex">>

mty_metal_ui_destroy(g) ==
  [Destroyed(g, UI, <<"rps", "niltex", "vb", "ib">>) EXCEPT !.len = NewLen]

mty_metal_ui_create(g) == Create(g, UI, MetalUISteps, mty_metal_ui_destroy)

ResizeBuffer(g, b, need) ==
  IF g.len[b] >= need THEN g ELSE [Assign(g, UI, b) EXCEPT !.len[b] = need]

mty_metal_ui_render(g, need) ==
  LET h == ResizeBuffer(ResizeBuffer(g, "vb", need), "ib", need)
  IN {Use(h, {<<Ctx, {"cq", "back_buffer"}>>, <<UI, {"rps", "niltex", "vb", "ib"}>>}
             \cup {<<o, {"texture"}>> : o \in {Tex(t) : t \in Textures} \cap g.ptr})}

mty_metal_ui_create_texture(g, o) ==
  {Result([Make(g, o, "texture") EXCEPT !.ptr = @ \cup {o}], TRUE)}

\* The reference that the hash held goes to a variable of ARC's, which memset then
\* clears, so that it is never released: the texture stays, and nobody has it.
mty_metal_ui_destroy_texture(g, o) ==
  IF o \notin g.ptr THEN g
  ELSE [g EXCEPT !.ptr = @ \ {o}, !.has[o] = {}, !.live[o] = {}, !.live[Kept] = {"texture"}]
=============================================================================

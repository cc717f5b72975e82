------------------------------ MODULE GfxD3D11 ------------------------------
(***************************************************************************)
(* The Direct3D 11 back end (src/windows/gfx).  The immediate context runs  *)
(* commands itself and keeps what they use; a device that is lost is made   *)
(* again with its swap chain.                                               *)
(***************************************************************************)
EXTENDS GfxDriver

-----------------------------------------------------------------------------
(* d3d11-ctx.c.                                                              *)

D3D11ContextSteps ==
  <<"device", "context", "device2", "unknown", "adapter", "factory2", "factory5",
    "swap_chain1", "swap_chain2", "waitable">>
D3D11Temporaries == <<"swap_chain1", "factory5", "factory2", "adapter", "unknown", "device2">>

d3d11_ctx_free(g) ==
  LET h == FreeAll(g, Ctx, <<"back_buffer", "waitable", "swap_chain2", "context", "device">>)
  IN [h EXCEPT !.old = @ \cup Living(h)]

d3d11_ctx_init(g) ==
  {Result(FreeAll(NewDevice(MakeAll(g, Ctx, D3D11ContextSteps)), Ctx, D3D11Temporaries), TRUE)}
  \cup {Result(d3d11_ctx_free(FreeAll(MakeAll(g, Ctx, SubSeq(D3D11ContextSteps, 1, k)), Ctx, D3D11Temporaries)),
               FALSE) : k \in 0..Len(D3D11ContextSteps)}

\* What d3d11_ctx_init returns is not looked at (Faults, "lost").
DeviceAgain(g) ==
  {r.g : r \in {q \in d3d11_ctx_init(d3d11_ctx_free(g)) : q.ok \/ "lost" \in Faults}}

mty_d3d11_ctx_destroy(g) ==
  IF Ctx \notin g.ptr THEN g
  ELSE [d3d11_ctx_free(Free(g, Ctx, "dxgi_sync")) EXCEPT !.ptr = @ \ {Ctx}]

mty_d3d11_ctx_create(g) ==
  LET h == [g EXCEPT !.ptr = @ \cup {Ctx}, !.ctx.size = g.win.size,
                     !.ctx.interval = 0, !.ctx.rem = 0, !.drift = 0]
  IN {IF r.ok THEN r ELSE Result(mty_d3d11_ctx_destroy(r.g), FALSE) : r \in d3d11_ctx_init(h)}

\* A window of another size: resized, not resized, or the device was lost.
d3d11_ctx_refresh(g) ==
  LET h == Use(g, {<<Ctx, {"swap_chain2"}>>})
  IN IF g.ctx.size = g.win.size THEN {g}
     ELSE {[h EXCEPT !.ctx.size = g.win.size], h} \cup DeviceAgain(h)

\* The back buffer's view; without it there is no surface.
mty_d3d11_ctx_get_surface(g) ==
  CASE ~Has(g, Ctx, "swap_chain2") -> {Result(g, FALSE)}
    [] Has(g, Ctx, "back_buffer")  -> {Result(g, TRUE)}
    [] OTHER ->
       UNION {LET k == Use(h, {<<Ctx, {"swap_chain2", "device"}>>})
              IN {Result(k, FALSE), Result(Make(k, Ctx, "back_buffer"), TRUE)} :
                h \in d3d11_ctx_refresh(g)}

mty_d3d11_ctx_get_device(g) == g.ctx.dev

mty_d3d11_ctx_set_sync_interval(g, interval) ==
  LET h == sync_set_interval(g, interval)
  IN IF interval > 100 /\ ~Has(g, Ctx, "dxgi_sync") THEN dxgi_sync_create(h) ELSE {h}

mty_d3d11_ctx_present(g) ==
  LET h == Free(Use(sync_next_interval(g), {<<Ctx, {"swap_chain2"}>>}), Ctx, "back_buffer")
  IN IF ~Has(g, Ctx, "back_buffer") THEN {g}
     ELSE {Use(h, {<<Ctx, {"waitable"}>>})} \cup DeviceAgain(h)

-----------------------------------------------------------------------------
(* d3d11.c.                                                                  *)

D3D11QuadSteps ==
  <<"vs", "ps", "vb", "ib", "psb", "psbres", "il", "ss_nearest", "ss_linear", "bs", "rs", "dss">>

d3d11_destroy_resource(g, l, p) ==
  NoPlaneAt(FreeAll(g, Plane(l, p), <<"srv", "resource">>), l, p)

mty_d3d11_destroy(g, l) ==
  IF Quad(l) \notin g.ptr THEN g
  ELSE Destroyed(d3d11_destroy_resource(d3d11_destroy_resource(g, l, 1), l, 2), Quad(l),
         <<"rs", "dss", "bs", "ss_linear", "ss_nearest", "il", "psbres", "psb", "ib", "vb", "ps", "vs">>)

mty_d3d11_create(g, l) == Create(g, Quad(l), D3D11QuadSteps, LAMBDA h : mty_d3d11_destroy(h, l))

\* d3d11_crop_copy: the resource is mapped by the context.
d3d11_crop_copy(g, l, p) ==
  LET h == Use(g, {<<Plane(l, p), {"resource"}>>, <<Ctx, {"context"}>>})
  IN {Result(h, TRUE), Result(h, FALSE)}

\* The texture is a temporary: its resource and its view keep it.
d3d11_refresh_resource(g, l, p, fmt, size) ==
  LET o == Plane(l, p)
      h == d3d11_destroy_resource(g, l, p)
      steps == <<"texture", "resource", "srv">>
      made(k) == Free(MakeAll(h, o, SubSeq(steps, 1, k)), o, "texture")
  IN IF ~Differs(g, l, p, "resource", fmt, size) THEN d3d11_crop_copy(g, l, p)
     ELSE {Result(d3d11_destroy_resource(made(k), l, p), FALSE) : k \in 0..2}
          \cup d3d11_crop_copy(SetPlane(made(3), l, p, fmt, size), l, p)

\* The blend state is of use to the layers above the first.
D3D11Draw(g, l) ==
  Use(Shown(g, l),
    {<<Ctx, {"context", "back_buffer"}>>,
     <<Quad(l), {"vs", "ps", "vb", "ib", "psb", "psbres", "il", "ss_nearest", "ss_linear",
                 "rs", "dss"} \cup IF l = 0 THEN {} ELSE {"bs"}>>}
    \cup {<<Plane(l, p), {"srv"}>> : p \in Range(Planes(g.quad[l].fmt))})

\* The constant buffer may not be mapped: then nothing is drawn.
mty_d3d11_render(g, l, fmt, size) ==
  LET h == SetFormat(g, l, fmt)
  IN IF h.quad[l].fmt = "none" THEN {h}
     ELSE {r.g : r \in Then(fmt_reload_textures(h, l, fmt, size, d3d11_refresh_resource),
                            LAMBDA k : {Result(D3D11Draw(k, l), TRUE), Result(k, FALSE)})}

mty_d3d11_clear(g) == Use(g, {<<Ctx, {"context", "back_buffer"}>>})

-----------------------------------------------------------------------------
(* d3d11-ui.c.                                                               *)

D3D11UISteps == <<"vs", "ps", "il", "cb", "cb_res", "bs", "rs", "dss", "sampler">>

mty_d3d11_ui_destroy(g) ==
  IF UI \notin g.ptr THEN g
  ELSE [Destroyed(g, UI, <<"sampler", "vbres", "ibres", "ib", "vb", "bs", "dss", "rs", "ps",
                           "cb_res", "cb", "il", "vs">>) EXCEPT !.len = NewLen]

mty_d3d11_ui_create(g) == Create(g, UI, D3D11UISteps, mty_d3d11_ui_destroy)

\* A buffer and its resource; the length stays when there is no other.
d3d11_ui_resize_buffer(g, b, need) ==
  LET res == IF b = "vb" THEN "vbres" ELSE "ibres"
      h == FreeAll(g, UI, <<res, b>>)
  IN IF g.len[b] >= need THEN {Result(g, TRUE)}
     ELSE {Result([MakeAll(h, UI, <<b, res>>) EXCEPT !.len[b] = need], TRUE)}
          \cup (IF "alloc" \in Faults THEN {Result(h, FALSE), Result(Make(h, UI, b), FALSE)} ELSE {})

\* A texture that is not set is none.
D3D11UIDraw(g) ==
  Use(g, {<<Ctx, {"context", "back_buffer"}>>, <<UI, Range(D3D11UISteps) \cup {"vb", "ib"}>>}
         \cup {<<o, {"srv"}>> : o \in {Tex(t) : t \in Textures} \cap g.ptr})

\* A map that fails draws nothing; when it is the second, the first buffer stays mapped.
mty_d3d11_ui_render(g, need) ==
  {r.g : r \in Then(Then(d3d11_ui_resize_buffer(g, "vb", need),
                         LAMBDA h : d3d11_ui_resize_buffer(h, "ib", need)),
                    LAMBDA h : LET mapped == Use(h, {<<UI, {"vbres", "ibres"}>>})
                               IN {Result(mapped, FALSE), Result(D3D11UIDraw(h), TRUE)}
                                  \cup (IF "map" \in Faults THEN {Result(Error(mapped, "buffer stays mapped"), FALSE)}
                                        ELSE {}))}

mty_d3d11_ui_destroy_texture(g, o) == Destroyed(g, o, <<"srv">>)

\* The view is the texture; what it was made from is released.
mty_d3d11_ui_create_texture(g, o) ==
  LET steps == <<"texture", "resource", "srv">>
      made(k) == FreeAll(MakeAll(g, o, SubSeq(steps, 1, k)), o, <<"resource", "texture">>)
  IN {Result(made(k), FALSE) : k \in 0..2} \cup {Result([made(3) EXCEPT !.ptr = @ \cup {o}], TRUE)}
=============================================================================

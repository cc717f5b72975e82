------------------------------ MODULE GfxD3D12 ------------------------------
(***************************************************************************)
(* The Direct3D 12 back end (src/windows/gfx): one command list, open from  *)
(* the creation of the core or the last presentation on, which waits for a  *)
(* fence until the commands have run.  A device that is lost takes the core *)
(* with it; the renderers notice another device when they are used next.    *)
(***************************************************************************)
EXTENDS GfxDriver

-----------------------------------------------------------------------------
(* d3d12-ctx.c.                                                              *)

CoreSteps ==
  <<"factory2", "device", "cq", "ca", "cl", "rtv_heap", "fence", "unknown", "swap_chain1",
    "swap_chain3", "waitable", "buffers">>
D3D12Temporaries == <<"swap_chain1", "unknown", "factory2">>

\* The objects of a lost device stay with those who hold them, and are of no use.
d3d12_core_free(g) ==
  LET h == FreeAll(g, Ctx, <<"buffers", "waitable", "swap_chain3", "fence", "rtv_heap",
                             "cl", "ca", "cq", "device">>)
  IN [h EXCEPT !.ctx.bb = FALSE, !.rec = {}, !.old = @ \cup Living(h)]

d3d12_core_init(g) ==
  {Result(FreeAll(NewDevice(MakeAll(g, Ctx, CoreSteps)), Ctx, D3D12Temporaries), TRUE)}
  \cup {Result(d3d12_core_free(FreeAll(MakeAll(g, Ctx, SubSeq(CoreSteps, 1, k)), Ctx, D3D12Temporaries)),
               FALSE) : k \in 0..Len(CoreSteps)}

\* The core is made again; what it made is not looked at (Faults, "lost").
CoreAgain(g) ==
  {r.g : r \in {q \in d3d12_core_init(d3d12_core_free(g)) : q.ok \/ "lost" \in Faults}}

mty_d3d12_ctx_destroy(g) ==
  IF Ctx \notin g.ptr THEN g
  ELSE [d3d12_core_free(Free(g, Ctx, "dxgi_sync")) EXCEPT !.ptr = @ \ {Ctx}]

mty_d3d12_ctx_create(g) ==
  LET h == [g EXCEPT !.ptr = @ \cup {Ctx}, !.ctx.size = g.win.size,
                     !.ctx.interval = 0, !.ctx.rem = 0, !.drift = 0]
  IN {IF r.ok THEN r ELSE Result(mty_d3d12_ctx_destroy(r.g), FALSE) : r \in d3d12_core_init(h)}

\* The buffers of the swap chain and their views; a device that is lost has none.
d3d12_core_refresh_buffers(g) ==
  {Make(g, Ctx, "buffers")} \cup (IF "lost" \in Faults THEN {g} ELSE {})

mty_d3d12_ctx_get_device(g) == g.ctx.dev

\* A window of another size: buffers are freed, resized and fetched again.  A fatal error
\* makes a new core; it is an error still, so that this frame has no surface.
d3d12_ctx_refresh(g) ==
  LET h == Free(Use(g, {<<Ctx, {"swap_chain3"}>>}), Ctx, "buffers")
  IN IF g.ctx.size = g.win.size THEN {Result(g, TRUE)}
     ELSE {Result([k EXCEPT !.ctx.size = g.win.size], TRUE) : k \in d3d12_core_refresh_buffers(h)}
          \cup {Result(k, FALSE) : k \in CoreAgain(h)}
          \cup (IF "lost" \in Faults THEN {Result(h, FALSE)} ELSE {})

mty_d3d12_ctx_get_surface(g) ==
  IF g.ctx.bb THEN {Result(g, TRUE)}
  ELSE Then(d3d12_ctx_refresh(g),
            LAMBDA h : {Result([Record(h, {<<Ctx, {"swap_chain3", "buffers", "cl"}>>})
                                  EXCEPT !.ctx.bb = TRUE], TRUE)})

mty_d3d12_ctx_set_sync_interval(g, interval) ==
  LET h == sync_set_interval(g, interval)
  IN IF interval > 100 /\ ~Has(g, Ctx, "dxgi_sync") THEN dxgi_sync_create(h) ELSE {h}

\* Close, execute, wait for the interval, present; then the core is lost or its fence
\* is waited for and the list is opened again.  The calls whose failure leaves the list
\* closed with its back buffer are assumed to succeed (Faults, "lost").
mty_d3d12_ctx_present(g) ==
  LET h == sync_next_interval(Submit(Record(g, {<<Ctx, {"cq", "cl", "swap_chain3"}>>})))
  IN IF ~g.ctx.bb THEN {g}
     ELSE {[Use(h, {<<Ctx, {"fence", "ca", "waitable"}>>}) EXCEPT !.ctx.bb = FALSE]}
          \cup CoreAgain(h)
          \cup (IF "lost" \in Faults THEN {[g EXCEPT !.rec = @ \cup {Gone}]} ELSE {})

-----------------------------------------------------------------------------
(* d3d12.c.                                                                  *)

D3D12QuadSteps == <<"rs", "pipeline", "srv_heap", "cb", "sampler_heap", "vb", "ib">>
d3d12_destroy_resource(g, l, p) ==
  NoPlaneAt(FreeAll(g, Plane(l, p), <<"buffer", "resource">>), l, p)

mty_d3d12_destroy(g, l) ==
  IF Quad(l) \notin g.ptr THEN g
  ELSE Destroyed(d3d12_destroy_resource(d3d12_destroy_resource(g, l, 1), l, 2), Quad(l),
         <<"ib", "vb", "sampler_heap", "cb", "srv_heap", "pipeline", "rs">>)

mty_d3d12_create(g, l) == Create(g, Quad(l), D3D12QuadSteps, LAMBDA h : mty_d3d12_destroy(h, l))

\* d3d12_crop_copy: mapped, copied, and the copy to the texture recorded.
d3d12_crop_copy(g, l, p) ==
  {Result(Record(g, {<<Plane(l, p), {"buffer", "resource"}>>}), TRUE), Result(g, FALSE)}

d3d12_refresh_resource(g, l, p, fmt, size) ==
  LET o == Plane(l, p)
      h == d3d12_destroy_resource(g, l, p)
  IN IF ~Differs(g, l, p, "resource", fmt, size) THEN d3d12_crop_copy(g, l, p)
     ELSE {Result(h, FALSE),
           Result(d3d12_destroy_resource(Make(h, o, "buffer"), l, p), FALSE)}
          \cup d3d12_crop_copy(SetPlane(MakeAll(h, o, <<"buffer", "resource">>), l, p, fmt, size), l, p)

D3D12Draw(g, l) ==
  Record(Shown(g, l),
    {<<Quad(l), {"rs", "srv_heap", "sampler_heap", "pipeline", "cb", "vb", "ib"}>>}
    \cup {<<Plane(l, p), {"resource"}>> : p \in Range(Planes(g.quad[l].fmt))})

\* The constant buffer may not be mapped: then nothing is drawn.
mty_d3d12_render(g, l, fmt, size) ==
  LET h == SetFormat(g, l, fmt)
  IN IF h.quad[l].fmt = "none" THEN {h}
     ELSE {r.g : r \in Then(fmt_reload_textures(h, l, fmt, size, d3d12_refresh_resource),
                            LAMBDA k : {Result(D3D12Draw(k, l), TRUE), Result(k, FALSE)})}

mty_d3d12_clear(g) == Use(g, {<<Ctx, {"cl", "buffers"}>>})

-----------------------------------------------------------------------------
(* d3d12-ui.c.                                                               *)

mty_d3d12_ui_destroy_texture(g, o) ==
  [Destroyed(g, o, <<"heap", "resource", "buffer">>) EXCEPT !.sent = @ \ {o}]

mty_d3d12_ui_create_texture(g, o) ==
  Create(g, o, <<"buffer", "resource", "heap">>, LAMBDA h : mty_d3d12_ui_destroy_texture(h, o))

mty_d3d12_ui_destroy(g) ==
  IF UI \notin g.ptr THEN g
  ELSE Destroyed([mty_d3d12_ui_destroy_texture(g, Clear) EXCEPT !.len = NewLen], UI,
                 <<"vb", "ib", "pipeline", "rs">>)

\* The serialized root signature (blob) is a temporary.
mty_d3d12_ui_create(g) ==
  LET steps == <<"blob", "rs", "pipeline">>
      freed(h) == Free(h, UI, "blob")
      rs == {Result(freed(r.g), r.ok) : r \in Create(g, UI, steps, LAMBDA h : mty_d3d12_ui_destroy(freed(h)))}
  IN {IF r.ok THEN r ELSE Result(mty_d3d12_ui_destroy(r.g), FALSE) :
        r \in Then(rs, LAMBDA h : mty_d3d12_ui_create_texture(h, Clear))}

\* The buffer that was too small is released first; its length stays when there is no other.
d3d12_ui_resize_buffer(g, b, need) ==
  LET h == Free(g, UI, b)
  IN IF g.len[b] >= need THEN {Result(g, TRUE)}
     ELSE {Result([Make(h, UI, b) EXCEPT !.len[b] = need], TRUE)}
          \cup (IF "alloc" \in Faults THEN {Result(h, FALSE)} ELSE {})

\* d3d12_ui_set_srv: what the commands use of a texture; the first copy it.
d3d12_ui_set_srv(g, o) ==
  <<o, {"resource", "heap"} \cup IF o \in g.sent THEN {} ELSE {"buffer"}>>

D3D12UIDraw(g) ==
  LET textures == {IF Tex(t) \in g.ptr THEN Tex(t) ELSE Clear : t \in Textures} \cup {Clear}
  IN [Record(g, {<<UI, {"rs", "pipeline", "vb", "ib"}>>}
                \cup {d3d12_ui_set_srv(g, o) : o \in textures})
        EXCEPT !.sent = @ \cup textures]

mty_d3d12_ui_render(g, need) ==
  {r.g : r \in Then(Then(d3d12_ui_resize_buffer(g, "vb", need),
                         LAMBDA h : d3d12_ui_resize_buffer(h, "ib", need)),
                    LAMBDA h : {Result(Use(h, {<<UI, {"vb", "ib"}>>}), FALSE),
                                Result(D3D12UIDraw(h), TRUE)})}
=============================================================================

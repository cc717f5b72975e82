------------------------------- MODULE GfxGL --------------------------------
(***************************************************************************)
(* The OpenGL back end (src/gfx/gl) and its contexts on X11, Android and    *)
(* the web.  A GL object goes with its context, while the renderer that     *)
(* made it keeps its name.  Android's window comes and goes on another      *)
(* thread: the surface goes with it, and the context is made anew, as       *)
(* another device, by the next call that needs one.                         *)
(***************************************************************************)
EXTENDS GfxDriver

\* All objects of the context are gone; their names stay where they are held.  (TLC works
\* out a function that is chosen at once.)
NoObjects == CHOOSE live \in [Owners -> {{}}] : TRUE
ContextLost(g) == [g EXCEPT !.live = [NoObjects EXCEPT ![Ctx] = g.live[Ctx]]]

-----------------------------------------------------------------------------
(* gl-ctx.c.                                                                 *)

\* Android: the callback that the surface is gone.
mty_gl_ctx_destroy_egl_surface(g) == [Free(g, Ctx, "eglsurface") EXCEPT !.ctx.init = FALSE]

gl_ctx_create_context(g) == MakeAll(g, Ctx, <<"eglsurface", "context">>)
gl_ctx_destroy_context(g) ==
  FreeAll(IF Has(g, Ctx, "context") THEN ContextLost(g) ELSE g, Ctx, <<"context", "eglsurface">>)

\* A new context is another device, so that the renderers are made again.
gl_ctx_check(g) ==
  CASE ~g.win.up  -> {Result(g, FALSE)}
    [] g.ctx.init -> {Result(g, TRUE)}
    [] OTHER      -> {Result([NewDevice(gl_ctx_create_context(gl_ctx_destroy_context(g)))
                                EXCEPT !.ctx.init = TRUE], TRUE)}

\* X11's context may not be had; Android's struct is static, the web's canvas stays.
GLCtxDestroyed(g) == [g EXCEPT !.ptr = @ \ {Ctx}]
GLCtxCreated(g) == [g EXCEPT !.ptr = @ \cup {Ctx}]
mty_gl_ctx_create(g) ==
  IF plat = "x11" THEN {Result(Make(GLCtxCreated(g), Ctx, "context"), TRUE), Result(g, FALSE)}
  ELSE {Result(GLCtxCreated(g), TRUE)}

\* Only Android's contexts are numbered: the others are there as long as the struct.
mty_gl_ctx_get_device(g) == IF plat = "android" THEN g.ctx.dev ELSE 0

\* The surface is the default framebuffer: it never fails.
mty_gl_ctx_get_surface(g) == {Result(g, TRUE)}

mty_gl_ctx_destroy(g) ==
  CASE plat = "x11"     -> GLCtxDestroyed(Free(ContextLost(g), Ctx, "context"))
    [] plat = "android" -> GLCtxDestroyed(mty_gfx_unlock(gl_ctx_destroy_context(mty_gfx_lock(g))))
    [] OTHER            -> GLCtxDestroyed(g)

mty_gl_ctx_lock(g) ==
  IF plat # "android" THEN {Result(g, TRUE)}
  ELSE {IF r.ok THEN r ELSE Result(mty_gfx_unlock(r.g), FALSE) : r \in gl_ctx_check(mty_gfx_lock(g))}

mty_gl_ctx_unlock(g) == IF plat = "android" THEN mty_gfx_unlock(g) ELSE g

\* On the web it waits for the next animation frame, as often as it presents.
WebPresented(g) == g
X11Presented(g) == Use(g, {<<Ctx, {"context"}>>})
mty_gl_ctx_present(g) ==
  IF plat # "android" THEN {IF plat = "x11" THEN X11Presented(g) ELSE WebPresented(g)}
  ELSE {mty_gfx_unlock(IF r.ok THEN Use(r.g, {<<Ctx, {"context", "eglsurface"}>>}) ELSE r.g) :
          r \in gl_ctx_check(mty_gfx_lock(g))}

\* What every GL command needs.
GLUse(g, uses) ==
  Use(g, uses \cup CASE plat = "x11"     -> {<<Ctx, {"context"}>>}
                     [] plat = "android" -> {<<Ctx, {"context", "eglsurface"}>>}
                     [] OTHER            -> {})

-----------------------------------------------------------------------------
(* gl.c.  glproc_global_init finds the functions, or none is created.        *)

GLSteps == <<"vs", "fs", "prog", "vb", "eb">>

gl_res_destroy(g, l, p) == Free(g, Plane(l, p), "texture")

mty_gl_destroy(g, l) ==
  IF Quad(l) \notin g.ptr THEN g
  ELSE Destroyed(gl_res_destroy(gl_res_destroy(g, l, 1), l, 2), Quad(l), <<"vb", "eb", "vs", "fs", "prog">>)

mty_gl_create(g, l) ==
  {Result(g, FALSE)} \cup Create(GLUse(g, {}), Quad(l), GLSteps, LAMBDA h : mty_gl_destroy(h, l))

gl_refresh_resource(g, l, p, fmt, size) ==
  LET o == Plane(l, p)
  IN IF Differs(g, l, p, "texture", fmt, size)
     THEN {Result(SetPlane(Make(gl_res_destroy(g, l, p), o, "texture"), l, p, fmt, size), TRUE)}
     ELSE {Result(GLUse(g, {<<o, {"texture"}>>}), TRUE)}

GLDraw(g, l) ==
  GLUse(Shown(g, l), {<<Quad(l), {"prog", "vb", "eb"}>>}
                     \cup {<<Plane(l, p), {"texture"}>> : p \in {q \in {1, 2} : Has(g, Plane(l, q), "texture")}})

mty_gl_render(g, l, fmt, size) ==
  LET h == SetFormat(g, l, fmt)
  IN IF h.quad[l].fmt = "none" THEN {h}
     ELSE {GLDraw(r.g, l) : r \in fmt_reload_textures(h, l, fmt, size, gl_refresh_resource)}

mty_gl_clear(g) == GLUse(g, {})

-----------------------------------------------------------------------------
(* gl-ui.c.                                                                  *)

mty_gl_ui_destroy(g) == Destroyed(g, UI, <<"vb", "eb", "vs", "fs", "prog">>)

mty_gl_ui_create(g) == {Result(g, FALSE)} \cup Create(GLUse(g, {}), UI, GLSteps, mty_gl_ui_destroy)

\* The buffers are filled anew each time; a texture that is not set is none.
mty_gl_ui_render(g) ==
  {GLUse(g, {<<UI, {"prog", "vb", "eb"}>>}
            \cup {<<o, {"texture"}>> : o \in {Tex(t) : t \in Textures} \cap g.ptr})}

mty_gl_ui_create_texture(g, o) ==
  {Result([Make(GLUse(g, {}), o, "texture") EXCEPT !.ptr = @ \cup {o}], TRUE)}
mty_gl_ui_destroy_texture(g, o) == Destroyed(g, o, <<"texture">>)
=============================================================================

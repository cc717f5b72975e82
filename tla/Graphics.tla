------------------------------ MODULE Graphics ------------------------------
(***************************************************************************)
(* The graphics front end of a window (src/app.c): the calls a program      *)
(* renders with, dispatched to the back end in use, together with what      *)
(* happens to the window meanwhile.                                         *)
(*                                                                         *)
(* One program is built for one platform (plat).  Faults names what the     *)
(* environment or the caller is allowed to do beyond the ordinary:          *)
(*   "again"      SetGFX after GL has drawn                                 *)
(*   "twice"      a layer, the UI or a texture changes within a frame       *)
(*   "redraw"     a frame is repeated after one that failed                 *)
(*   "refresh"    Vulkan finds no window, no surface or no swapchain        *)
(*   "lost"       a device that was lost cannot be made again, nor used     *)
(*   "alloc"      there is no memory for the UI's buffers, or to begin to   *)
(*                record Vulkan's commands                                  *)
(*   "map"        Vulkan's uniforms or Direct3D 11's indices are not mapped *)
(*   "semaphore"  a swapchain is suboptimal off Android                     *)
(***************************************************************************)
EXTENDS GfxVk, GfxD3D12, GfxD3D11, GfxGL, GfxMetal

CONSTANTS Platforms, \* those to be checked
          Images,    \* <<api, layer, format, size>> of the images that are drawn
          Sizes,     \* of the window
          Needs,     \* lengths of the UI's buffers
          Intervals  \* hundredths of vertical blanks

ASSUME GraphicsAssumption ==
  /\ Platforms \subseteq {"x11", "android", "windows", "web", "apple"}
  /\ IsFiniteSet(Layers) /\ 0 \in Layers /\ IsFiniteSet(Textures) /\ Intervals \subseteq Nat
  /\ \A i \in Images : i[2] \in Layers /\ i[3] \in Formats /\ i[4] \in {1, 2}

VARIABLE g

vars == <<plat, g>>

\* GFX_API_SUPPORTED and GFX_API_DEFAULT.
APIs == {"gl", "vk", "d3d11", "d3d12", "metal"}
Supported ==
  CASE plat \in {"x11", "android"} -> {"gl", "vk"}
    [] plat = "windows"            -> {"vk", "d3d11", "d3d12"}
    [] plat = "web"                -> {"gl"}
    [] plat = "apple"              -> {"metal"}
Default ==
  CASE plat \in {"x11", "android"} -> "vk"
    [] plat = "windows"            -> "d3d11"
    [] plat = "web"                -> "gl"
    [] plat = "apple"              -> "metal"

NewCtx == [bb |-> FALSE, size |-> 0, dev |-> 0, init |-> FALSE, interval |-> 0, rem |-> 0]

Init ==
  /\ plat \in Platforms
  /\ g = [api |-> "none", device |-> 0, ptr |-> {}, hash |-> FALSE,
          has |-> [o \in Owners |-> {}], live |-> [o \in Owners |-> {}], old |-> {}, rec |-> {}, ref |-> 0,
          quad |-> [l \in Layers |-> NewQuad], len |-> NewLen, sent |-> {},
          ctx |-> NewCtx, win |-> [up |-> plat # "android", size |-> Min(Sizes)],
          lock |-> FALSE, drift |-> 0, err |-> {}]

-----------------------------------------------------------------------------
(* The tables of functions: GFX_CTX_API, GFX_API and GFX_UI_API.             *)

ctx_create(h) ==
  CASE h.api = "vk"    -> mty_vk_ctx_create(h)
    [] h.api = "d3d12" -> mty_d3d12_ctx_create(h)
    [] h.api = "d3d11" -> mty_d3d11_ctx_create(h)
    [] h.api = "metal" -> mty_metal_ctx_create(h)
    [] h.api = "gl"    -> mty_gl_ctx_create(h)

ctx_destroy(h) ==
  CASE h.api = "vk"    -> mty_vk_ctx_destroy(h)
    [] h.api = "d3d12" -> mty_d3d12_ctx_destroy(h)
    [] h.api = "d3d11" -> mty_d3d11_ctx_destroy(h)
    [] h.api = "metal" -> mty_metal_ctx_destroy(h)
    [] h.api = "gl"    -> mty_gl_ctx_destroy(h)

ctx_get_surface(h) ==
  CASE h.api = "vk"    -> mty_vk_ctx_get_surface(h)
    [] h.api = "d3d12" -> mty_d3d12_ctx_get_surface(h)
    [] h.api = "d3d11" -> mty_d3d11_ctx_get_surface(h)
    [] h.api = "metal" -> mty_metal_ctx_get_surface(h)
    [] h.api = "gl"    -> mty_gl_ctx_get_surface(h)

ctx_get_device(h) ==
  CASE h.api = "vk"    -> mty_vk_ctx_get_device(h)
    [] h.api = "d3d12" -> mty_d3d12_ctx_get_device(h)
    [] h.api = "d3d11" -> mty_d3d11_ctx_get_device(h)
    [] h.api = "metal" -> mty_metal_ctx_get_device(h)
    [] h.api = "gl"    -> mty_gl_ctx_get_device(h)

ctx_present(h) ==
  CASE h.api = "vk"    -> mty_vk_ctx_present(h)
    [] h.api = "d3d12" -> mty_d3d12_ctx_present(h)
    [] h.api = "d3d11" -> mty_d3d11_ctx_present(h)
    [] h.api = "metal" -> mty_metal_ctx_present(h)
    [] h.api = "gl"    -> mty_gl_ctx_present(h)

ctx_set_sync_interval(h, n) ==
  CASE h.api = "d3d12" -> mty_d3d12_ctx_set_sync_interval(h, n)
    [] h.api = "d3d11" -> mty_d3d11_ctx_set_sync_interval(h, n)
    [] h.api = "metal" -> mty_metal_ctx_set_sync_interval(h, n)
    [] OTHER           -> {h}

\* Only Android's GL has a lock: its window comes and goes on another thread.
ctx_lock(h) == IF h.api = "gl" THEN mty_gl_ctx_lock(h) ELSE {Result(h, TRUE)}
ctx_unlock(h) == IF h.api = "gl" THEN mty_gl_ctx_unlock(h) ELSE h

create(h, l) ==
  CASE h.api = "vk"    -> mty_vk_create(h, l)
    [] h.api = "d3d12" -> mty_d3d12_create(h, l)
    [] h.api = "d3d11" -> mty_d3d11_create(h, l)
    [] h.api = "metal" -> mty_metal_create(h, l)
    [] h.api = "gl"    -> mty_gl_create(h, l)

\* The renderer's formats go with it.
destroy(h, l) ==
  [CASE h.api = "vk"    -> mty_vk_destroy(h, l)
     [] h.api = "d3d12" -> mty_d3d12_destroy(h, l)
     [] h.api = "d3d11" -> mty_d3d11_destroy(h, l)
     [] h.api = "metal" -> mty_metal_destroy(h, l)
     [] h.api = "gl"    -> mty_gl_destroy(h, l)
   EXCEPT !.quad[l] = NewQuad]

render(h, l, fmt, size) ==
  CASE h.api = "vk"    -> mty_vk_render(h, l, fmt, size)
    [] h.api = "d3d12" -> mty_d3d12_render(h, l, fmt, size)
    [] h.api = "d3d11" -> mty_d3d11_render(h, l, fmt, size)
    [] h.api = "metal" -> mty_metal_render(h, l, fmt, size)
    [] h.api = "gl"    -> mty_gl_render(h, l, fmt, size)

clear(h) ==
  CASE h.api = "vk"    -> mty_vk_clear(h, 0)
    [] h.api = "d3d12" -> mty_d3d12_clear(h)
    [] h.api = "d3d11" -> mty_d3d11_clear(h)
    [] h.api = "metal" -> mty_metal_clear(h)
    [] h.api = "gl"    -> mty_gl_clear(h)

ui_create(h) ==
  CASE h.api = "vk"    -> mty_vk_ui_create(h)
    [] h.api = "d3d12" -> mty_d3d12_ui_create(h)
    [] h.api = "d3d11" -> mty_d3d11_ui_create(h)
    [] h.api = "metal" -> mty_metal_ui_create(h)
    [] h.api = "gl"    -> mty_gl_ui_create(h)

ui_destroy(h) ==
  CASE h.api = "vk"    -> mty_vk_ui_destroy(h)
    [] h.api = "d3d12" -> mty_d3d12_ui_destroy(h)
    [] h.api = "d3d11" -> mty_d3d11_ui_destroy(h)
    [] h.api = "metal" -> mty_metal_ui_destroy(h)
    [] h.api = "gl"    -> mty_gl_ui_destroy(h)

ui_render(h, need) ==
  CASE h.api = "vk"    -> mty_vk_ui_render(h, need)
    [] h.api = "d3d12" -> mty_d3d12_ui_render(h, need)
    [] h.api = "d3d11" -> mty_d3d11_ui_render(h, need)
    [] h.api = "metal" -> mty_metal_ui_render(h, need)
    [] h.api = "gl"    -> mty_gl_ui_render(h)

ui_create_texture(h, o) ==
  CASE h.api = "vk"    -> mty_vk_ui_create_texture(h, o)
    [] h.api = "d3d12" -> mty_d3d12_ui_create_texture(h, o)
    [] h.api = "d3d11" -> mty_d3d11_ui_create_texture(h, o)
    [] h.api = "metal" -> mty_metal_ui_create_texture(h, o)
    [] h.api = "gl"    -> mty_gl_ui_create_texture(h, o)

\* Popped from ui_textures and destroyed.
ui_destroy_texture(h, o) ==
  [CASE h.api = "vk"    -> mty_vk_ui_destroy_texture(h, o)
     [] h.api = "d3d12" -> mty_d3d12_ui_destroy_texture(h, o)
     [] h.api = "d3d11" -> mty_d3d11_ui_destroy_texture(h, o)
     [] h.api = "metal" -> mty_metal_ui_destroy_texture(h, o)
     [] h.api = "gl"    -> mty_gl_ui_destroy_texture(h, o)
   EXCEPT !.ptr = @ \ {o}]

-----------------------------------------------------------------------------
(* What the calls have in common.                                            *)

\* What counts is whether the window's device is the context's: both are numbered anew.
SameDevice(h) ==
  IF h.device = 0 THEN h ELSE [h EXCEPT !.device = 1, !.ctx.dev = 1]

\* A mutation of the next definition: the UI's textures are not destroyed.
SetDeviceKeepsTextures(h, device) ==
  IF h.device = device THEN h
  ELSE LET quads == FoldLeft(destroy, h, SetToSeq(Layers))
       IN SameDevice([ui_destroy(quads) EXCEPT !.hash = FALSE, !.device = device])

\* Another device: everything that was made with the one before is destroyed.
gfx_set_device(h, device) ==
  IF h.device = device THEN h
  ELSE LET quads == FoldLeft(destroy, h, SetToSeq(Layers))
           textures == IF ~quads.hash THEN quads
                       ELSE FoldLeft(LAMBDA k, t : ui_destroy_texture(k, Tex(t)), quads, SetToSeq(Textures))
       IN SameDevice([ui_destroy(textures) EXCEPT !.hash = FALSE, !.device = device])

gfx_begin(h, l) ==
  LET k == gfx_set_device(h, ctx_get_device(h))
  IN IF Quad(l) \in k.ptr THEN {Result(k, TRUE)} ELSE create(k, l)

gfx_begin_ui(h) ==
  LET k == gfx_set_device(h, ctx_get_device(h))
  IN {Result([r.g EXCEPT !.hash = TRUE], r.ok) :
        r \in IF UI \in k.ptr THEN {Result(k, TRUE)} ELSE ui_create(k)}

\* A call holds the context's lock for as long as it draws.
Locked(results, Step(_)) ==
  {r.g : r \in Then(Then(results, ctx_lock), LAMBDA h : {Result(ctx_unlock(k), TRUE) : k \in Step(h)})}

Drawn(begin(_), draw(_)) ==
  Locked(ctx_get_surface(g),
         LAMBDA h : UNION {IF r.ok THEN draw(r.g) ELSE {r.g} : r \in begin(h)})

\* What the commands of this frame use already.
InFrame(owners) == g.rec \cap owners # {}

Go(states) == g' \in states /\ UNCHANGED plat

-----------------------------------------------------------------------------
(* The calls.                                                                *)

DrawQuad(l, fmt, size) ==
  /\ g.api # "none"
  /\ "twice" \in Faults \/ fmt = "none" \/ ~InFrame({Plane(l, 1), Plane(l, 2)})
  /\ "redraw" \in Faults \/ fmt # "none" \/ OneFrame(g, l)
  /\ Go(Drawn(LAMBDA h : gfx_begin(h, l), LAMBDA h : render(h, l, fmt, size)))

MTY_WindowClear ==
  /\ g.api # "none"
  /\ Go(Drawn(LAMBDA h : gfx_begin(h, 0), LAMBDA h : {clear(h)}))

DrawUI(need) ==
  /\ g.api # "none"
  /\ "twice" \in Faults \/ ~InFrame({UI})
  /\ Go(Drawn(gfx_begin_ui, LAMBDA h : ui_render(h, need)))

\* It looks into ui_textures only, but takes the lock, which may make a new context.
MTY_WindowHasUITexture ==
  /\ g.api # "none"
  /\ Go(Locked({Result(g, TRUE)}, LAMBDA h : {h}))

\* The texture that has the name is destroyed; an image makes another.
SetUITexture(t, image) ==
  LET o == Tex(t)
      set(h) == IF image THEN {r.g : r \in ui_create_texture(h, o)} ELSE {h}
  IN /\ g.api # "none"
     /\ "twice" \in Faults \/ ~InFrame({o})
     /\ Go(Locked({Result(g, TRUE)},
                  LAMBDA h : UNION {IF r.ok THEN set(ui_destroy_texture(r.g, o)) ELSE {r.g} :
                                      r \in gfx_begin_ui(h)}))

MTY_WindowPresent == g.api # "none" /\ Go(ctx_present(g))

SetSyncInterval(n) == g.api # "none" /\ Go(ctx_set_sync_interval(g, n))

\* The back end before goes with everything of it; a context that cannot be had leaves
\* none, but Direct3D 11 stands in for 12.  Android's GL context is a static struct.
Freed(h) ==
  [ctx_destroy(gfx_set_device(h, 0))
     EXCEPT !.api = "none",
            !.ctx = IF plat = "android" /\ h.api = "gl"
                    THEN [NewCtx EXCEPT !.dev = h.ctx.dev, !.init = h.ctx.init] ELSE NewCtx,
            !.drift = 0]

CreateContext(h, api) ==
  {IF r.ok THEN r.g ELSE [r.g EXCEPT !.api = "none", !.ctx = NewCtx, !.drift = 0] :
     r \in ctx_create([h EXCEPT !.api = api])}

\* Android: GL is not set again while its static struct says that it is there, and Vulkan
\* not without a window.
MayCreate(h, api) ==
  plat = "android" => /\ "again" \in Faults \/ api # "gl" \/ ~h.ctx.init
                      /\ "refresh" \in Faults \/ api # "vk" \/ h.win.up

SetGFX(api) ==
  LET used == IF api \in Supported THEN api ELSE Default
      h == IF g.api = "none" THEN g ELSE Freed(g)
      created == CreateContext(h, used)
      fallback == IF used # "d3d12" THEN {}
                  ELSE UNION {CreateContext(k, "d3d11") : k \in {c \in created : c.api = "none"}}
  IN /\ "again" \in Faults \/ ~(g.api = "gl" /\ plat # "android" /\ g.ptr # {Ctx})
     /\ api # "none" => MayCreate(h, used)
     /\ Go(IF api = "none" THEN {h}
           ELSE {c \in created : used # "d3d12" \/ c.api # "none"} \cup fallback)

-----------------------------------------------------------------------------
(* The window.                                                               *)

Resized(size) == g.win.size # size /\ Go({[g EXCEPT !.win.size = size]})

\* Android's surface callbacks, under gfx_mutex.
gfx_set_surface ==
  /\ plat = "android" /\ ~g.win.up
  /\ Go({mty_gfx_unlock([mty_gfx_lock(g) EXCEPT !.win.up = TRUE])})

gfx_unset_surface ==
  /\ plat = "android" /\ g.win.up
  /\ Go({mty_gfx_unlock([mty_gl_ctx_destroy_egl_surface(mty_gfx_lock(g)) EXCEPT !.win.up = FALSE])})

Window == (\E size \in Sizes : Resized(size)) \/ gfx_set_surface \/ gfx_unset_surface

MTY_WindowDrawQuad ==
  \E i \in {j \in Images : j[1] = g.api} : DrawQuad(i[2], i[3], i[4]) \/ DrawQuad(i[2], "none", 0)
MTY_WindowDrawUI == \E need \in Needs : DrawUI(need)
MTY_WindowSetUITexture == \E t \in Textures, image \in BOOLEAN : SetUITexture(t, image)
MTY_WindowSetSyncInterval == \E n \in Intervals : SetSyncInterval(n)
MTY_WindowSetGFX == \E api \in APIs \cup {"none"} : SetGFX(api)

Next ==
  \/ MTY_WindowDrawQuad \/ MTY_WindowClear \/ MTY_WindowDrawUI
  \/ MTY_WindowHasUITexture \/ MTY_WindowSetUITexture
  \/ MTY_WindowPresent \/ MTY_WindowSetSyncInterval \/ MTY_WindowSetGFX
  \/ Window

Spec == Init /\ [][Next]_vars

-----------------------------------------------------------------------------
(* Properties. *)

TypeOK ==
  /\ plat \in Platforms /\ g.api \in APIs \cup {"none"}
  /\ g.ref \in Nat /\ g.device \in 0..1 /\ g.ctx.dev \in 0..2
  /\ g.hash \in BOOLEAN /\ g.lock = FALSE
  /\ g.old \subseteq Living(g)

\* The driver has nothing to complain of: no object is used, freed or recorded that is
\* gone or of another device, none is overwritten, none freed twice or while commands use
\* it, no library unloaded too early, and gfx_mutex is locked and unlocked in turn.
DriverSilent == g.err \subseteq {"planes of two frames"}

\* The planes that are shown together are of one format and one frame: an image that
\* changes its format or its size leaves nothing of the one before.
FrameWhole == "planes of two frames" \notin g.err

\* MTY_WindowSetGFX(MTY_GFX_NONE), and one that fails, leave nothing of any back end; but
\* the UI's textures on Metal stay (GfxMetal).
NothingLeft ==
  g.api = "none" => g.ref = 0 /\ g.ptr = {} /\ \A o \in Owners \ {Kept} : g.live[o] = {}

\* Presentations wait, in the long run, as long as the interval says: "The number of
\* vertical blanks after calling MTY_WindowPresent that presentation will occur, multiplied
\* by 100" (matoya.h).  What is not waited for is less than a blank.
PresentsPaced == g.drift \in 0..99
=============================================================================

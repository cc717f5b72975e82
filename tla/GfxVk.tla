-------------------------------- MODULE GfxVk --------------------------------
(***************************************************************************)
(* The Vulkan back end (src/gfx/vk): one command buffer is recorded between *)
(* the acquisition of a swapchain's image and its presentation, which waits *)
(* until the commands have run.  Every structure that uses Vulkan holds a   *)
(* reference to the loaded library.                                         *)
(***************************************************************************)
EXTENDS GfxDriver

-----------------------------------------------------------------------------
(* vkproc.c and vk-common.h.                                                 *)

vkproc_global_init(g) ==
  {Result([g EXCEPT !.ref = @ + 1], TRUE)}
  \cup (IF g.ref = 0 THEN {Result(g, FALSE)} ELSE {})

\* A mutation of the next definition: a load that failed counts, too.
GlobalDestroyUnchecked(g) ==
  IF g.ref = 1 /\ (\E o \in Owners : g.live[o] # {}) THEN Error([g EXCEPT !.ref = 0], "unloaded while in use")
  ELSE [g EXCEPT !.ref = @ - 1]

vkproc_global_destroy(g) ==
  CASE g.ref = 0 -> g
    [] g.ref = 1 /\ (\E o \in Owners : g.live[o] # {}) -> Error([g EXCEPT !.ref = 0], "unloaded while in use")
    [] OTHER -> [g EXCEPT !.ref = @ - 1]

\* A structure that loads the library first.
CreateVk(g, o, names, Destroy(_)) ==
  Then({IF r.ok THEN r ELSE Result(Destroy([r.g EXCEPT !.ptr = @ \cup {o}]), FALSE) :
          r \in vkproc_global_init(g)},
       LAMBDA h : Create(h, o, names, Destroy))

DestroyedVk(g, o, names) ==
  IF o \notin g.ptr THEN g ELSE vkproc_global_destroy(Destroyed(g, o, names))

\* vk_create_image and vk_destroy_image: a staging buffer, the image, their memory.
ImageSteps == <<"buf", "bufmem", "image", "mem", "view">>
vk_destroy_image(g, o) == FreeAll(g, o, <<"view", "image", "mem", "buf", "bufmem">>)
vk_create_image(g, o) ==
  {Result(MakeAll(g, o, ImageSteps), TRUE)}
  \cup {Result(vk_destroy_image(MakeAll(g, o, SubSeq(ImageSteps, 1, k)), o), FALSE) :
          k \in 0..Len(ImageSteps)}

\* The commands copy the staging buffer to the image.
vk_image_gpu_copy(g, o) == Record(g, {<<o, {"buf", "bufmem", "image", "mem"}>>})

-----------------------------------------------------------------------------
(* vk-ctx.c.                                                                 *)

\* A physical device with a queue that draws and presents, and its logical device.
DeviceSteps == <<"vkdevice">>
VkContextSteps ==
  <<"instance", "surface">> \o DeviceSteps
  \o <<"pool", "cmd", "sem0", "sem1", "rp", "swapchain", "views", "fbs">>
Swapchain == {"swapchain", "views", "fbs"}

vk_ctx_destroy_swapchain(g) ==
  [FreeAll(g, Ctx, <<"fbs", "views", "swapchain">>) EXCEPT !.ctx.bb = FALSE]

\* The swapchain has the size that the window has when it is made.
vk_ctx_create_swapchain(g) ==
  {Result([MakeAll(g, Ctx, <<"swapchain", "views", "fbs">>) EXCEPT !.ctx.size = g.win.size], TRUE)}
  \cup (IF "refresh" \in Faults THEN {Result(g, FALSE)} ELSE {})

\* A mutation of the next definition: the second semaphore is forgotten.
CtxDestroyOneSemaphore(g) ==
  LET device == <<"fbs", "views", "swapchain", "rp", "sem0", "cmd", "pool", "vkdevice">>
  IN [DestroyedVk(g, Ctx, (IF Has(g, Ctx, "vkdevice") THEN device ELSE <<>>)
                          \o <<"surface", "instance">>)
        EXCEPT !.ctx.bb = FALSE, !.rec = {}]

mty_vk_ctx_destroy(g) ==
  LET device == <<"fbs", "views", "swapchain", "rp", "sem0", "sem1", "cmd", "pool", "vkdevice">>
  IN [DestroyedVk(g, Ctx, (IF Has(g, Ctx, "vkdevice") THEN device ELSE <<>>)
                          \o <<"surface", "instance">>)
        EXCEPT !.ctx.bb = FALSE, !.rec = {}]

\* Android takes its window from the surface's callbacks, under gfx_mutex; the wait for
\* one ends without it after ten seconds.
vk_ctx_refresh_surface(g) ==
  LET h == IF g.win.up THEN Free(g, Ctx, "surface") ELSE Error(g, "no window")
  IN {Result(Make(h, Ctx, "surface"), TRUE)} \cup (IF "refresh" \in Faults THEN {Result(h, FALSE)} ELSE {})

mty_vk_ctx_create(g) ==
  LET locked(h) == IF plat # "android" THEN h
                   ELSE mty_gfx_unlock(IF h.win.up THEN mty_gfx_lock(h) ELSE Error(h, "no window"))
  IN {Result(IF r.ok THEN [locked(r.g) EXCEPT !.ctx.size = g.win.size, !.ctx.dev = 1] ELSE r.g, r.ok) :
        r \in CreateVk(g, Ctx, VkContextSteps, mty_vk_ctx_destroy)}

\* The window is not given back when there is no surface, or no swapchain.
vk_ctx_refresh_swapchain(g) ==
  IF plat # "android"
  THEN {r.g : r \in vk_ctx_create_swapchain(vk_ctx_destroy_swapchain(g))}
  ELSE IF ~g.win.up THEN {g}
  ELSE {IF r.ok THEN mty_gfx_unlock(r.g) ELSE r.g :
          r \in Then(vk_ctx_refresh_surface(vk_ctx_destroy_swapchain(mty_gfx_lock(g))), vk_ctx_create_swapchain)}

\* The image's layout is changed by the commands, before they draw and after.
vk_ctx_swapchain_barrier(g) == Record(g, {<<Ctx, {"cmd", "swapchain"}>>})

mty_vk_ctx_get_device(g) == g.ctx.dev

\* VKPROC_OUT_OF_DATE: a suboptimal image counts, but on Android, and the semaphore
\* that its acquisition signals then stays signaled.
Acquisitions ==
  {"success", "out of date"} \cup (IF "semaphore" \in Faults \/ plat = "android"
                                   THEN {"suboptimal"} ELSE {})

\* The commands may fail to begin: then an image was acquired, and no surface is had.
mty_vk_ctx_get_surface(g) ==
  LET acquired(h) ==
        UNION {
          CASE e = "out of date" \/ (e = "suboptimal" /\ plat # "android") ->
                 {Result([k EXCEPT !.ctx.bb = FALSE], FALSE) :
                    k \in vk_ctx_refresh_swapchain(
                            IF e = "suboptimal" THEN Error(h, "semaphore stays signaled") ELSE h)}
            [] OTHER ->
                 {Result([vk_ctx_swapchain_barrier(Record(h, {<<Ctx, {"sem0", "cmd", "views", "fbs"}>>}))
                            EXCEPT !.ctx.bb = TRUE], TRUE)}
                 \cup (IF "alloc" \in Faults THEN {Result(Error(h, "semaphore stays signaled"), FALSE)} ELSE {}) :
            e \in Acquisitions}
  IN IF g.ctx.bb /\ Has(g, Ctx, "swapchain") THEN {Result(g, TRUE)}
     ELSE UNION {acquired(Use(h, {<<Ctx, {"swapchain"}>>})) :
                   h \in IF g.ctx.size # g.win.size THEN vk_ctx_refresh_swapchain(g) ELSE {g}}

mty_vk_ctx_present(g) ==
  IF ~g.ctx.bb THEN {g}
  ELSE LET shown == [Submit(Record(vk_ctx_swapchain_barrier(g), {<<Ctx, {"sem1", "swapchain"}>>})) EXCEPT !.ctx.bb = FALSE]
       IN {shown} \cup vk_ctx_refresh_swapchain(shown)

-----------------------------------------------------------------------------
(* vk.c.                                                                     *)

VkQuadSteps ==
  <<"vert", "frag", "vb", "vbmem", "ib", "ibmem", "ub", "ubmem", "linear", "nearest", "rp",
    "dlayout", "dpool", "dset", "layout", "pipeline">>

\* Without a device nothing is freed but the library's reference and the structure.
mty_vk_destroy(g, l) ==
  IF Quad(l) \notin g.ptr \/ g.device = 0 THEN DestroyedVk(g, Quad(l), <<>>)
  ELSE DestroyedVk(vk_destroy_image(vk_destroy_image(g, Plane(l, 1)), Plane(l, 2)), Quad(l),
         <<"pipeline", "layout", "dset", "dpool", "dlayout", "rp", "nearest", "linear",
           "ub", "ubmem", "ib", "ibmem", "vb", "vbmem", "frag", "vert">>)

mty_vk_create(g, l) == CreateVk(g, Quad(l), VkQuadSteps, LAMBDA h : mty_vk_destroy(h, l))

\* A mutation of the next definition: the format is not compared.
RefreshImageSameFormat(g, l, p, fmt, size) ==
  LET o == Plane(l, p)
      uploaded(h) == {Result(vk_image_gpu_copy(h, o), TRUE), Result(h, FALSE)}
  IN IF Has(g, o, "image") /\ g.quad[l].plane[p].size = size THEN uploaded(g)
     ELSE UNION {IF r.ok THEN uploaded(SetPlane(r.g, l, p, fmt, size))
                 ELSE {Result(NoPlaneAt(vk_destroy_image(r.g, o), l, p), FALSE)} :
                   r \in vk_create_image(vk_destroy_image(g, o), o)}

\* A plane of another size or format is made again.  The frame is uploaded to its staging
\* buffer, and from there copied by the commands; without an upload the plane stays as it is.
vk_refresh_image(g, l, p, fmt, size) ==
  LET o == Plane(l, p)
      uploaded(h) == {Result(vk_image_gpu_copy(h, o), TRUE), Result(h, FALSE)}
  IN IF ~Differs(g, l, p, "image", fmt, size) THEN uploaded(g)
     ELSE UNION {IF r.ok THEN uploaded(SetPlane(r.g, l, p, fmt, size))
                 ELSE {Result(NoPlaneAt(vk_destroy_image(r.g, o), l, p), FALSE)} :
                   r \in vk_create_image(vk_destroy_image(g, o), o)}

\* The descriptors without a plane of their own name the first one.
VkDraw(g, l) ==
  LET planes == {p \in {1, 2} : Has(g, Plane(l, p), "view")} \cup {1}
  IN Record(Shown(g, l),
       {<<Quad(l), {"rp", "pipeline", "layout", "dset", "dpool", "vb", "ib", "ub", "linear", "nearest"}>>}
       \cup {<<Plane(l, p), {"view"}>> : p \in planes})

\* Its uniforms may fail to be uploaded, with the render pass begun.
mty_vk_render(g, l, fmt, size) ==
  LET h == SetFormat(g, l, fmt)
      open(k) == Error(Record(k, {<<Quad(l), {"rp", "pipeline"}>>}), "render pass left open")
  IN IF h.quad[l].fmt = "none" THEN {h}
     ELSE {r.g : r \in Then(fmt_reload_textures(h, l, fmt, size, vk_refresh_image),
                            LAMBDA k : {Result(VkDraw(k, l), TRUE)}
                                       \cup (IF "map" \in Faults THEN {Result(open(k), FALSE)} ELSE {}))}

mty_vk_clear(g, l) == Record(g, {<<Quad(l), {"rp"}>>})

-----------------------------------------------------------------------------
(* vk-ui.c.                                                                  *)

mty_vk_ui_destroy_texture(g, o) ==
  IF UI \notin g.ptr \/ o \notin g.ptr \/ g.device = 0 THEN g
  ELSE [vk_destroy_image(Free(g, o, "dset"), o) EXCEPT !.ptr = @ \ {o}, !.sent = @ \ {o}]

\* The memory is the texture's own, so it goes when any step fails.
mty_vk_ui_create_texture(g, o) ==
  LET names == ImageSteps \o <<"dset">>
  IN {Result([MakeAll(g, o, names) EXCEPT !.ptr = @ \cup {o}], TRUE)}
     \cup {Result(vk_destroy_image(MakeAll(g, o, SubSeq(names, 1, k)), o), FALSE) :
             k \in 0..Len(ImageSteps)}

VkUISteps ==
  <<"vert", "frag", "rp", "rp_clear", "sampler", "dpool", "dlayout", "layout", "pipeline">>

mty_vk_ui_destroy(g) ==
  IF UI \notin g.ptr \/ g.device = 0 THEN DestroyedVk(g, UI, <<>>)
  ELSE DestroyedVk([mty_vk_ui_destroy_texture(FreeAll(g, UI, <<"ib", "ibmem", "vb", "vbmem">>), Clear)
                      EXCEPT !.len = NewLen],
         UI, <<"pipeline", "layout", "dlayout", "dpool", "sampler", "rp_clear", "rp", "frag", "vert">>)

\* The last step is the image that stands for no texture.
mty_vk_ui_create(g) ==
  {IF r.ok THEN r ELSE Result(mty_vk_ui_destroy(r.g), FALSE) :
     r \in Then(CreateVk(g, UI, VkUISteps, mty_vk_ui_destroy),
                LAMBDA h : mty_vk_ui_create_texture(h, Clear))}

\* The length is set before the buffer is there.
vk_ui_resize_buffer(g, b, need) ==
  LET mem == IF b = "vb" THEN "vbmem" ELSE "ibmem"
      h == [FreeAll(g, UI, <<b, mem>>) EXCEPT !.len[b] = need]
  IN IF g.len[b] >= need THEN {Result(g, TRUE)}
     ELSE {Result(MakeAll(h, UI, <<b, mem>>), TRUE)}
          \cup (IF "alloc" \in Faults THEN {Result(h, FALSE)} ELSE {})

\* Images are copied by the first commands that use them.
VkUIDraw(g) ==
  LET images == {IF Tex(t) \in g.ptr THEN Tex(t) ELSE Clear : t \in Textures} \cup {Clear}
  IN [Record(g, {<<UI, {"rp", "rp_clear", "sampler", "dpool", "layout", "pipeline",
                        "vb", "vbmem", "ib", "ibmem"}>>}
                \cup {<<o, {"dset", "view", "image"}>> : o \in images}
                \cup {<<o, {"buf"}>> : o \in images \ g.sent})
        EXCEPT !.sent = @ \cup images]

mty_vk_ui_render(g, need) ==
  {r.g : r \in Then(Then(vk_ui_resize_buffer(g, "vb", need),
                         LAMBDA h : vk_ui_resize_buffer(h, "ib", need)),
                    LAMBDA h : {Result(h, FALSE), Result(VkUIDraw(h), TRUE)})}
=============================================================================

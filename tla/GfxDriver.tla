------------------------------ MODULE GfxDriver ------------------------------
(***************************************************************************)
(* What the graphics back ends share: the objects of a graphics driver,    *)
(* who holds them, and the errors a driver's debug layer reports.           *)
(*                                                                         *)
(* An object is a field of its owner: the context, the renderer of a layer, *)
(* one of its planes, the UI renderer, a UI texture.  Every operator takes  *)
(* the state g, a record:                                                   *)
(*   api, device       as in struct window_common; device 0 is NULL         *)
(*   ptr, hash         the structures that exist, ui_textures exists        *)
(*   has, live         each owner's fields that are set, and objects        *)
(*   old               owners of objects of a device that was lost          *)
(*   rec               owners whose objects the recorded commands use       *)
(*   ref               VKPROC_REF                                           *)
(*   quad              format of a layer's renderer, and its planes'        *)
(*   len, sent         lengths of the UI's buffers, transfer of UI images   *)
(*   ctx               bb (a back buffer was acquired), size, dev, init,    *)
(*                     and interval, rem of struct sync                     *)
(*   win, lock         the window (external); Android's gfx_mutex is held   *)
(*   drift             hundredths of vertical blanks not waited for yet     *)
(*   err               what went wrong                                      *)
(* An operation that may fail returns a set of results [g, ok].             *)
(***************************************************************************)
EXTENDS Naturals, Sequences, FiniteSets, SequencesExt

CONSTANTS Layers, Textures, Faults

VARIABLE plat \* the platform that the program is built for; it never changes

Ctx         == <<"ctx">>
UI          == <<"ui">>
Clear       == <<"clear">>
Quad(l)     == <<"quad", l>>
Tex(t)      == <<"tex", t>>
Plane(l, p) == <<"plane", l, p>>
Kept        == <<"kept">>
Owners ==
  {Ctx, UI, Clear, Kept} \cup {Quad(l) : l \in Layers} \cup {Tex(t) : t \in Textures}
  \cup {Plane(l, p) : l \in Layers, p \in {1, 2}}

\* FMT_INFO and FMT_PLANES: formats of one and of two planes; "none" is
\* MTY_COLOR_FORMAT_UNKNOWN.
Formats == {"bgra", "nv12"}
Planes(fmt) == CASE fmt = "bgra" -> <<1>> [] fmt = "nv12" -> <<1, 2>> [] OTHER -> <<>>
NoPlane == [fmt |-> "none", size |-> 0]
NewQuad == [fmt |-> "none", plane |-> [p \in {1, 2} |-> NoPlane]]
NewLen  == [vb |-> 0, ib |-> 0]

Result(g, ok) == [g |-> g, ok |-> ok]
\* Goes on with what succeeded.
Then(results, Step(_)) == UNION {IF r.ok THEN Step(r.g) ELSE {r} : r \in results}

-----------------------------------------------------------------------------
(* The driver (external).                                                    *)

Gone == <<"gone">>
Error(g, what) == [g EXCEPT !.err = @ \cup {what}]
Has(g, o, n) == n \in g.has[o]

\* Those who hold objects made with the context.
Living(g) == {o \in Owners \ {Ctx} : g.live[o] # {}}

\* Fields are set, one after the other.
MakeAll(g, o, names) ==
  LET S == Range(names)
      made == [g EXCEPT !.has[o] = @ \cup S, !.live[o] = @ \cup S]
  IN IF S \cap g.live[o] = {} THEN made ELSE Error(made, "leaked")

\* Vulkan: everything is made from the instance, all but the surface from the device.
Parents(n) == CASE n = "instance" -> {n} [] n = "vkdevice" -> {n, "surface", "instance"} [] OTHER -> {}
FreedEarly(g, names) ==
  \E i \in DOMAIN names :
    /\ Parents(names[i]) # {} /\ Has(g, Ctx, names[i])
    /\ \/ Living(g) # {}
       \/ ~(g.live[Ctx] \subseteq Parents(names[i]) \cup {names[j] : j \in 1..(i - 1)})

\* Objects are freed in order, those there are.  A name of a GL context that is gone may
\* be another object's now.  Commands that were recorded keep naming an object that is gone.
FreeAll(g, o, names) ==
  LET S == Range(names) \cap g.has[o]
      freed == [g EXCEPT !.has[o] = @ \ S, !.live[o] = @ \ S,
                         !.old = IF g.live[o] \subseteq S THEN @ \ {o} ELSE @,
                         !.rec = IF o \in @ THEN @ \cup {Gone} ELSE @]
  IN CASE S = {} -> g
       [] ~(S \subseteq g.live[o]) /\ (g.api # "gl" \/ Living(g) # {}) ->
            Error(freed, "freed twice")
       [] o = Ctx /\ FreedEarly(g, names) -> Error(freed, "freed before its children")
       [] OTHER -> freed

Make(g, o, n) == MakeAll(g, o, <<n>>)
Free(g, o, n) == FreeAll(g, o, <<n>>)

\* Uses are pairs <<owner, names>>.
Use(g, uses) ==
  IF \A u \in uses : u[2] \subseteq g.live[u[1]] /\ u[1] \notin g.old THEN g
  ELSE Error(g, "used without being there")
Record(g, uses) == [Use(g, uses) EXCEPT !.rec = @ \cup {u[1] : u \in uses}]
\* The commands run, and have run when it returns.
Submit(g) == [(IF Gone \in g.rec THEN Error(g, "freed while commands use it") ELSE g) EXCEPT !.rec = {}]

\* A device or a context that is not the one that the window knows.
NewDevice(g) == [g EXCEPT !.ctx.dev = IF g.device = 1 THEN 2 ELSE 1]

-----------------------------------------------------------------------------
(* Structures.                                                               *)

\* A structure is allocated and its objects are made in order until one fails; then
\* Destroy frees those there are.
Create(g, o, names, Destroy(_)) ==
  LET h == [g EXCEPT !.ptr = @ \cup {o}]
      Prefix(k) == MakeAll(h, o, SubSeq(names, 1, k))
  IN {Result(Prefix(Len(names)), TRUE)}
     \cup {Result(Destroy(Prefix(k)), FALSE) : k \in 0..Len(names)}

\* The objects in the order in which they are freed, if the structure exists.
Destroyed(g, o, names) ==
  IF o \notin g.ptr THEN g
  ELSE [FreeAll(g, o, names) EXCEPT !.ptr = @ \ {o}]

\* fmt_reload_textures: the planes of the frame, until one fails.
fmt_reload_textures(g, l, fmt, size, Refresh(_, _, _, _, _)) ==
  CASE fmt = "bgra" -> Refresh(g, l, 1, fmt, size)
    [] fmt = "nv12" -> Then(Refresh(g, l, 1, fmt, size), LAMBDA h : Refresh(h, l, 2, fmt, size))
    [] OTHER        -> {Result(g, TRUE)}

\* Whether a plane's resource has to be made again.
Differs(g, l, p, n, fmt, size) ==
  \/ ~Has(g, Plane(l, p), n)
  \/ g.quad[l].plane[p] # [fmt |-> fmt, size |-> size]

SetPlane(g, l, p, fmt, size) == [g EXCEPT !.quad[l].plane[p] = [fmt |-> fmt, size |-> size]]
NoPlaneAt(g, l, p) == [g EXCEPT !.quad[l].plane[p] = NoPlane]

\* What every render begins with: an unknown format shows the frame before once more.
SetFormat(g, l, fmt) == IF fmt = "none" THEN g ELSE [g EXCEPT !.quad[l].fmt = fmt]

\* The planes that are drawn belong to one frame.
OneFrame(g, l) ==
  \E size \in {1, 2} : \A p \in Range(Planes(g.quad[l].fmt)) :
    g.quad[l].plane[p] = [fmt |-> g.quad[l].fmt, size |-> size]
Shown(g, l) == IF OneFrame(g, l) THEN g ELSE Error(g, "planes of two frames")

\* struct sync.
sync_set_interval(g, interval) ==
  [g EXCEPT !.ctx.interval = interval, !.ctx.rem = 0, !.drift = 0]

\* A mutation of the next definition: what remains of an interval is dropped.
NextIntervalNoRem(g) ==
  LET rem == g.ctx.rem + g.ctx.interval
  IN [g EXCEPT !.ctx.rem = 0, !.drift = @ + g.ctx.interval - 100 * (rem \div 100)]

sync_next_interval(g) ==
  LET rem == g.ctx.rem + g.ctx.interval
  IN [g EXCEPT !.ctx.rem = rem % 100, !.drift = @ + g.ctx.interval - 100 * (rem \div 100)]

\* dxgi-sync.h, of the Direct3D back ends: there may be no event.
dxgi_sync_create(g) == {Make(g, Ctx, "dxgi_sync"), g}

\* MTY_MutexLock(gfx_mutex) by the renderer: it may not hold it.
mty_gfx_lock(g) == IF g.lock THEN Error(g, "locked twice") ELSE [g EXCEPT !.lock = TRUE]
mty_gfx_unlock(g) == IF g.lock THEN [g EXCEPT !.lock = FALSE] ELSE Error(g, "not locked")
=============================================================================

--------------------------- MODULE GraphicsLifetimes -------------------------
(***************************************************************************)
(* Graphics: what a back end made is destroyed.  When a window is without   *)
(* graphics, no object of the driver's is left: none of the context's, of a *)
(* layer's, of the UI's or of a texture's, whatever failed before.          *)
(*                                                                         *)
(* Between any two operators of a back end an object that is there is one   *)
(* its owner has a field for (Fit).  Fits says of which owners these are:   *)
(* of structures that are there, f.ptr, and with names that the back end in *)
(* use gives such a field (Owned).  So a structure's destruction, which     *)
(* frees fields by name, leaves nothing of it (GoneFits), and a back end    *)
(* whose structures are gone has no object.  Settled relates the structures *)
(* to the rest of the state between two calls: the back end in use has a    *)
(* context, layers are destroyed before a device they were made with, and   *)
(* Vulkan's library is let go by the last of its users (Referenced).        *)
(***************************************************************************)
EXTENDS GraphicsProofs

-----------------------------------------------------------------------------
(* The invariant. *)

\* The structure that an owner's objects go with.
Home(o) == IF o[1] = "plane" THEN Quad(o[2]) ELSE o

Structures == {Ctx, UI, Clear} \cup {Quad(l) : l \in Layers} \cup {Tex(t) : t \in Textures}
Frames ==
  [api : APIs \cup {"none"}, ptr : SUBSET Structures, hash : BOOLEAN, ref : Nat, device : 0..1,
   known : BOOLEAN]

\* The state without its objects: the structures, the references to Vulkan's library,
\* and whether the device, or the context, is known not to be NULL.
Like(h, f) ==
  /\ {"api", "ptr", "hash", "ref", "device", "has", "live", "ctx"} \subseteq DOMAIN h
  /\ {"dev", "init"} \subseteq DOMAIN h.ctx
  /\ f \in Frames
  /\ h.api = f.api /\ h.ptr = f.ptr /\ h.hash = f.hash /\ h.ref = f.ref /\ h.device = f.device
  /\ f.known \/ h.ctx.init = TRUE => h.ctx.dev # 0
  /\ f.api = "vk" /\ f.known => Has(h, Ctx, "vkdevice")

\* An owner's objects are fields of it, with names from P.
Fit(h, f, P) ==
  /\ Like(h, f)
  /\ DOMAIN h.has = Owners /\ DOMAIN h.live = Owners
  /\ \A o \in Owners \ {Kept} : h.live[o] \subseteq h.has[o] \cap P[o]

-----------------------------------------------------------------------------
(* The driver's operators. *)

LEMMA OwnersDiffer ==
  /\ Ctx \in Owners \ {Kept} /\ UI \in Owners \ {Kept} /\ Clear \in Owners \ {Kept}
  /\ \A l \in Layers : Quad(l) \in Owners \ {Kept} /\ Quad(l) # Ctx /\ Quad(l) # UI /\ Quad(l) # Clear
  /\ \A t \in Textures : Tex(t) \in Owners \ {Kept} /\ Tex(t) # Ctx /\ Tex(t) # UI /\ Tex(t) # Clear
  /\ \A l \in Layers, p \in {1, 2} :
       /\ Plane(l, p) \in Owners \ {Kept} /\ Plane(l, p) # Ctx /\ Plane(l, p) # UI /\ Plane(l, p) # Clear
  /\ UI # Ctx /\ Clear # Ctx /\ Clear # UI
BY DEF Owners, Ctx, UI, Clear, Kept, Quad, Tex, Plane

LEMMA HomesAre ==
  /\ Home(Ctx) = Ctx /\ Home(UI) = UI /\ Home(Clear) = Clear
  /\ \A l : Home(Quad(l)) = Quad(l) /\ \A p : Home(Plane(l, p)) = Quad(l)
  /\ \A t : Home(Tex(t)) = Tex(t)
BY DEF Home, Ctx, UI, Clear, Quad, Tex, Plane

\* What the invariant does not look at.
LEMMA FieldsFit ==
  ASSUME NEW h, NEW f, NEW P, Fit(h, f, P), NEW x
  PROVE  /\ Fit([h EXCEPT !.err = x], f, P) /\ Fit([h EXCEPT !.rec = x], f, P)
         /\ Fit([h EXCEPT !.sent = x], f, P) /\ Fit([h EXCEPT !.len = x], f, P)
         /\ Fit([h EXCEPT !.quad = x], f, P) /\ Fit([h EXCEPT !.old = x], f, P)
         /\ Fit([h EXCEPT !.lock = x], f, P) /\ Fit([h EXCEPT !.drift = x], f, P)
         /\ Fit([h EXCEPT !.win = x], f, P)
BY DEF Fit, Like, Has

LEMMA ContextFieldsFit ==
  ASSUME NEW h, NEW f, NEW P, Fit(h, f, P), NEW x
  PROVE  /\ Fit([h EXCEPT !.ctx.bb = x], f, P) /\ Fit([h EXCEPT !.ctx.size = x], f, P)
         /\ Fit([h EXCEPT !.ctx.interval = x], f, P) /\ Fit([h EXCEPT !.ctx.rem = x], f, P)
BY DEF Fit, Like, Has

LEMMA ErrorFit ==
  ASSUME NEW h, NEW f, NEW P, Fit(h, f, P)
  PROVE  \A w : Fit(Error(h, w), f, P)
BY FieldsFit DEF Error

LEMMA MakeAllFit ==
  ASSUME NEW h, NEW f, NEW P, Fit(h, f, P), DOMAIN P = Owners, NEW o, NEW names
  PROVE  Fit(MakeAll(h, o, names), f, [P EXCEPT ![o] = @ \cup Range(names)])
<1> DEFINE S == Range(names)
           k == [h EXCEPT !.has[o] = @ \cup S, !.live[o] = @ \cup S]
           Q == [P EXCEPT ![o] = @ \cup S]
<1> HIDE DEF S
<1>1. Like(k, f)
  BY DEF Fit, Like, Has
<1>2. Fit(k, f, Q)
  BY <1>1 DEF Fit
<1>3. MakeAll(h, o, names) = k \/ MakeAll(h, o, names) = Error(k, "leaked")
  BY DEF MakeAll, S
<1> HIDE DEF k, Q
<1>4. Fit(Error(k, "leaked"), f, Q)
  BY <1>2, ErrorFit
<1>5. Fit(MakeAll(h, o, names), f, Q)
  BY <1>2, <1>3, <1>4
<1>6. QED
  BY <1>5 DEF Q, S

LEMMA FreeAllFit ==
  ASSUME NEW h, NEW f, NEW P, Fit(h, f, P), DOMAIN P = Owners, NEW o, NEW names,
         f.api # "vk" \/ ~f.known \/ o # Ctx \/ "vkdevice" \notin Range(names)
  PROVE  Fit(FreeAll(h, o, names), f, [P EXCEPT ![o] = @ \ Range(names)])
<1> DEFINE S == Range(names) \cap h.has[o]
           k == [h EXCEPT !.has[o] = @ \ S, !.live[o] = @ \ S,
                          !.old = IF h.live[o] \subseteq S THEN @ \ {o} ELSE @,
                          !.rec = IF o \in @ THEN @ \cup {Gone} ELSE @]
           Q == [P EXCEPT ![o] = @ \ Range(names)]
<1>1. Like(k, f)
  BY DEF Fit, Like, Has
<1>2. Fit(k, f, Q)
  <2>1. /\ DOMAIN k.has = Owners /\ DOMAIN k.live = Owners
        /\ \A x \in Owners : k.has[x] = IF x = o THEN h.has[x] \ S ELSE h.has[x]
        /\ \A x \in Owners : k.live[x] = IF x = o THEN h.live[x] \ S ELSE h.live[x]
    BY DEF Fit, Like
  <2>2. \A x \in Owners : Q[x] = IF x = o THEN P[x] \ Range(names) ELSE P[x]
    OBVIOUS
  <2> HIDE DEF k, Q
  <2>3. ASSUME NEW x \in Owners \ {Kept} PROVE k.live[x] \subseteq k.has[x] \cap Q[x]
    BY <2>1, <2>2 DEF Fit
  <2>4. QED
    BY <1>1, <2>1, <2>3 DEF Fit
<1>3. Fit(h, f, Q) \/ S # {}
  BY DEF Fit
<1>4. \/ S = {} /\ FreeAll(h, o, names) = h
      \/ FreeAll(h, o, names) = k
      \/ FreeAll(h, o, names) = Error(k, "freed twice")
      \/ FreeAll(h, o, names) = Error(k, "freed before its children")
  <2> DEFINE twice == ~(S \subseteq h.live[o]) /\ (h.api # "gl" \/ Living(h) # {})
             early == o = Ctx /\ FreedEarly(h, names)
  <2>1. FreeAll(h, o, names) = CASE S = {} -> h
                                 [] twice -> Error(k, "freed twice")
                                 [] early -> Error(k, "freed before its children")
                                 [] OTHER -> k
    BY DEF FreeAll
  <2> HIDE DEF S, k, twice, early
  <2>2. QED
    BY <2>1
<1> HIDE DEF k, S, Q
<1>5. Fit(Error(k, "freed twice"), f, Q) /\ Fit(Error(k, "freed before its children"), f, Q)
  BY <1>2, ErrorFit
<1>6. Fit(FreeAll(h, o, names), f, Q)
  BY <1>2, <1>3, <1>4, <1>5
<1>7. QED
  BY <1>6 DEF Q

LEMMA DriverFit ==
  ASSUME NEW h, NEW f, NEW P, Fit(h, f, P)
  PROVE  /\ \A uses : Fit(Use(h, uses), f, P) /\ Fit(Record(h, uses), f, P)
         /\ Fit(Submit(h), f, P)
         /\ \A n : Fit(sync_set_interval(h, n), f, P)
         /\ Fit(sync_next_interval(h), f, P)
         /\ Fit(mty_gfx_lock(h), f, P) /\ Fit(mty_gfx_unlock(h), f, P)
<1>1. \A w : Fit(Error(h, w), f, P)
  BY ErrorFit
<1>2. ASSUME NEW uses PROVE Fit(Use(h, uses), f, P) /\ Fit(Record(h, uses), f, P)
  <2>1. Fit(Use(h, uses), f, P)
    BY <1>1 DEF Use
  <2> DEFINE k == Use(h, uses)
             x == k.rec \cup {u[1] : u \in uses}
  <2>2. Record(h, uses) = [k EXCEPT !.rec = x]
    BY DEF Record
  <2> HIDE DEF k, x
  <2>3. Fit([k EXCEPT !.rec = x], f, P)
    BY <2>1, FieldsFit DEF k
  <2>4. QED
    BY <2>1, <2>2, <2>3
<1>3. Fit(Submit(h), f, P)
  <2> DEFINE k == IF Gone \in h.rec THEN Error(h, "freed while commands use it") ELSE h
  <2>1. Fit(k, f, P)
    BY <1>1
  <2>2. Submit(h) = [k EXCEPT !.rec = {}]
    BY DEF Submit
  <2> HIDE DEF k
  <2>3. \A x : Fit([k EXCEPT !.rec = x], f, P)
    BY <2>1, FieldsFit
  <2>4. QED
    BY <2>2, <2>3
<1>4. ASSUME NEW n, NEW m, NEW d
      PROVE  Fit([h EXCEPT !.ctx.interval = n, !.ctx.rem = m, !.drift = d], f, P)
  BY DEF Fit, Like, Has
<1>5. ASSUME NEW m, NEW d
      PROVE  Fit([h EXCEPT !.ctx.rem = m, !.drift = d], f, P)
  BY DEF Fit, Like, Has
<1>6. Fit(sync_next_interval(h), f, P)
  BY <1>5 DEF sync_next_interval
<1>7. Fit(mty_gfx_lock(h), f, P) /\ Fit(mty_gfx_unlock(h), f, P)
  BY <1>1, FieldsFit DEF mty_gfx_lock, mty_gfx_unlock
<1>8. QED
  BY <1>2, <1>3, <1>4, <1>6, <1>7 DEF sync_set_interval

LEMMA QuadFit ==
  ASSUME NEW h, NEW f, NEW P, Fit(h, f, P)
  PROVE  /\ \A l, fmt : Fit(SetFormat(h, l, fmt), f, P)
         /\ \A l : Fit(Shown(h, l), f, P)
         /\ \A l, p, fmt, size : Fit(SetPlane(h, l, p, fmt, size), f, P)
         /\ \A l, p : Fit(NoPlaneAt(h, l, p), f, P)
         /\ \A l, x : Fit([h EXCEPT !.quad[l] = x], f, P)
<1>1. \A x : Fit([h EXCEPT !.quad = x], f, P)
  BY FieldsFit
<1>2. ASSUME NEW l, NEW fmt PROVE Fit(SetFormat(h, l, fmt), f, P)
  <2> DEFINE x == [h.quad EXCEPT ![l].fmt = fmt]
  <2>1. SetFormat(h, l, fmt) = h \/ SetFormat(h, l, fmt) = [h EXCEPT !.quad = x]
    BY DEF SetFormat
  <2> HIDE DEF x
  <2>2. QED
    BY <1>1, <2>1
<1>3. ASSUME NEW l, NEW p, NEW v PROVE Fit([h EXCEPT !.quad[l].plane[p] = v], f, P)
  <2> DEFINE x == [h.quad EXCEPT ![l].plane[p] = v]
  <2>1. [h EXCEPT !.quad[l].plane[p] = v] = [h EXCEPT !.quad = x]
    OBVIOUS
  <2> HIDE DEF x
  <2>2. QED
    BY <1>1, <2>1
<1>4. ASSUME NEW l, NEW v PROVE Fit([h EXCEPT !.quad[l] = v], f, P)
  <2> DEFINE x == [h.quad EXCEPT ![l] = v]
  <2>1. [h EXCEPT !.quad[l] = v] = [h EXCEPT !.quad = x]
    OBVIOUS
  <2> HIDE DEF x
  <2>2. QED
    BY <1>1, <2>1
<1>5. QED
  BY <1>2, <1>3, <1>4, ErrorFit DEF Shown, SetPlane, NoPlaneAt

LEMMA Weaker ==
  ASSUME NEW h, NEW f, NEW P, Fit(h, f, P), NEW Q, \A o \in Owners \ {Kept} : P[o] \subseteq Q[o]
  PROVE  Fit(h, f, Q)
BY DEF Fit

-----------------------------------------------------------------------------
(* What a structure's destruction frees.                                     *)

VkNames(o) ==
  CASE o[1] = "ctx"             -> Range(VkContextSteps)
    [] o[1] = "quad"            -> Range(VkQuadSteps)
    [] o[1] = "plane"           -> Range(ImageSteps)
    [] o[1] = "ui"              -> Range(VkUISteps) \cup {"vb", "vbmem", "ib", "ibmem"}
    [] o[1] \in {"tex", "clear"} -> Range(ImageSteps) \cup {"dset"}
    [] OTHER                    -> {}
D3D12Names(o) ==
  CASE o[1] = "ctx"             -> {"dxgi_sync"} \cup (Range(CoreSteps) \ Range(D3D12Temporaries))
    [] o[1] = "quad"            -> Range(D3D12QuadSteps)
    [] o[1] = "plane"           -> {"buffer", "resource"}
    [] o[1] = "ui"              -> {"rs", "pipeline", "vb", "ib"}
    [] o[1] \in {"tex", "clear"} -> {"heap", "resource", "buffer"}
    [] OTHER                    -> {}
D3D11Names(o) ==
  CASE o[1] = "ctx"   -> {"dxgi_sync", "back_buffer"} \cup (Range(D3D11ContextSteps) \ Range(D3D11Temporaries))
    [] o[1] = "quad"  -> Range(D3D11QuadSteps)
    [] o[1] = "plane" -> {"srv", "resource"}
    [] o[1] = "ui"    -> Range(D3D11UISteps) \cup {"vb", "vbres", "ib", "ibres"}
    [] o[1] = "tex"   -> {"srv"}
    [] OTHER          -> {}
GLNames(o) ==
  CASE o[1] = "ctx" /\ plat = "android" -> {"context", "eglsurface"}
    [] o[1] = "ctx" /\ plat = "x11"     -> {"context"}
    [] o[1] \in {"quad", "ui"}          -> Range(GLSteps)
    [] o[1] \in {"plane", "tex"}        -> {"texture"}
    [] OTHER                            -> {}
MetalNames(o) ==
  CASE o[1] = "ctx"              -> {"dlink", "layer", "cq", "back_buffer"}
    [] o[1] = "quad"             -> Range(MetalQuadSteps)
    [] o[1] = "ui"               -> {"rps", "niltex", "vb", "ib"}
    [] o[1] \in {"plane", "tex"} -> {"texture"}
    [] OTHER                     -> {}

Names(a, o) ==
  CASE a = "vk"    -> VkNames(o)
    [] a = "d3d12" -> D3D12Names(o)
    [] a = "d3d11" -> D3D11Names(o)
    [] a = "gl"    -> GLNames(o)
    [] a = "metal" -> MetalNames(o)
    [] OTHER       -> {}

\* Only what belongs to a structure that is there.
Owned(f) == [o \in Owners |-> IF Home(o) \in f.ptr THEN Names(f.api, o) ELSE {}]
Fits(h, f) == Fit(h, f, Owned(f))

Without(f, o) == [f EXCEPT !.ptr = @ \ {o}]
Having(f, o)  == [f EXCEPT !.ptr = @ \cup {o}]

LEMMA FreeFits ==
  ASSUME NEW h, NEW f, Fits(h, f), NEW o, NEW names,
         f.api # "vk" \/ ~f.known \/ o # Ctx \/ "vkdevice" \notin Range(names)
  PROVE  Fits(FreeAll(h, o, names), f)
<1> DEFINE P == Owned(f)
           Q == [P EXCEPT ![o] = @ \ Range(names)]
<1>1. DOMAIN P = Owners
  BY DEF Owned
<1>2. Fit(FreeAll(h, o, names), f, Q)
  BY <1>1, FreeAllFit DEF Fits
<1>3. \A x \in Owners : Q[x] \subseteq P[x]
  <2> HIDE DEF P
  <2>1. QED
    BY <1>1
<1> HIDE DEF P, Q
<1>4. Fit(FreeAll(h, o, names), f, P)
  BY <1>2, <1>3, Weaker
<1>5. QED
  BY <1>4 DEF P, Fits

LEMMA MakeFits ==
  ASSUME NEW h, NEW f, Fits(h, f), NEW o, NEW names, Home(o) \in f.ptr, Range(names) \subseteq Names(f.api, o)
  PROVE  Fits(MakeAll(h, o, names), f)
<1> DEFINE P == Owned(f)
           Q == [P EXCEPT ![o] = @ \cup Range(names)]
<1>1. DOMAIN P = Owners
  BY DEF Owned
<1>2. Fit(MakeAll(h, o, names), f, Q)
  BY <1>1, MakeAllFit DEF Fits
<1>3. o \in Owners => Range(names) \subseteq P[o]
  BY DEF Owned
<1>4. \A x \in Owners : Q[x] \subseteq P[x]
  <2> HIDE DEF P
  <2>1. QED
    BY <1>1, <1>3
<1> HIDE DEF P, Q
<1>5. Fit(MakeAll(h, o, names), f, P)
  BY <1>2, <1>4, Weaker
<1>6. QED
  BY <1>5 DEF P, Fits

\* Objects that are temporary, with what is done while they are there.
LEMMA TemporariesFit ==
  ASSUME NEW h, NEW f, Fits(h, f), NEW o, NEW names, Home(o) \in f.ptr, NEW temps,
         Range(names) \subseteq Names(f.api, o) \cup Range(temps), f.api # "vk"
  PROVE  Fits(FreeAll(MakeAll(h, o, names), o, temps), f)
<1> DEFINE P == Owned(f)
           Q == [P EXCEPT ![o] = @ \cup Range(names)]
           R == [Q EXCEPT ![o] = @ \ Range(temps)]
           k == MakeAll(h, o, names)
<1>1. DOMAIN P = Owners /\ DOMAIN Q = Owners
  BY DEF Owned
<1>2. Fit(k, f, Q)
  BY <1>1, MakeAllFit DEF Fits
<1>3. o \in Owners => Range(names) \subseteq P[o] \cup Range(temps)
  BY DEF Owned
<1>4. \A x \in Owners : R[x] \subseteq P[x]
  <2> HIDE DEF P
  <2>1. QED
    BY <1>1, <1>3
<1> HIDE DEF P, Q, k
<1>5. Fit(FreeAll(k, o, temps), f, R)
  BY <1>1, <1>2, FreeAllFit
<1> HIDE DEF R
<1>6. Fit(FreeAll(k, o, temps), f, P)
  BY <1>4, <1>5, Weaker
<1>7. QED
  BY <1>6 DEF P, Fits, k

\* The fields of a state, without objects.
LEMMA LikeIs ==
  ASSUME NEW h, NEW f, NEW P, Fit(h, f, P)
  PROVE  /\ h.api = f.api /\ h.ptr = f.ptr /\ h.hash = f.hash /\ h.ref = f.ref /\ h.device = f.device
         /\ f \in Frames /\ DOMAIN f = {"api", "ptr", "hash", "ref", "device", "known"}
BY DEF Fit, Like, Frames

LEMMA PtrFit ==
  ASSUME NEW h, NEW f, NEW P, Fit(h, f, P)
  PROVE  \A x \in SUBSET Structures : Fit([h EXCEPT !.ptr = x], [f EXCEPT !.ptr = x], P)
BY DEF Fit, Like, Has, Frames

\* A structure goes once everything of it is freed.
LEMMA GoneFits ==
  ASSUME NEW h, NEW f, NEW P, Fit(h, f, P), NEW o,
         \A x \in Owners \ {Kept} : IF Home(x) = o THEN P[x] = {} ELSE P[x] \subseteq Owned(f)[x]
  PROVE  Fits([h EXCEPT !.ptr = @ \ {o}], Without(f, o))
<1> DEFINE k == [h EXCEPT !.ptr = h.ptr \ {o}]
           e == [f EXCEPT !.ptr = h.ptr \ {o}]
<1>1. h.ptr = f.ptr /\ "ptr" \in DOMAIN f /\ e = Without(f, o) /\ h.ptr \ {o} \in SUBSET Structures
  BY LikeIs DEF Without, Frames
<1>2. Fit(k, e, P)
  BY <1>1, PtrFit
<1>3. e.ptr = f.ptr \ {o} /\ e.api = f.api
  BY <1>1
<1> HIDE DEF e, k
<1>4. ASSUME NEW x \in Owners \ {Kept} PROVE P[x] \subseteq Owned(e)[x]
  BY <1>3 DEF Owned
<1>5. Fit(k, e, Owned(e))
  BY <1>2, <1>4, Weaker
<1>6. QED
  BY <1>1, <1>5 DEF k, Fits

LEMMA DestroyedFits ==
  ASSUME NEW h, NEW f, NEW P, Fit(h, f, P), DOMAIN P = Owners, NEW o, NEW names, o \in f.ptr,
         f.api # "vk" \/ ~f.known \/ o # Ctx, P[o] \subseteq Range(names),
         \A x \in Owners \ {Kept} : IF Home(x) = o THEN x = o \/ P[x] = {} ELSE P[x] \subseteq Owned(f)[x]
  PROVE  Fits(Destroyed(h, o, names), Without(f, o))
<1> DEFINE Q == [P EXCEPT ![o] = @ \ Range(names)]
           k == FreeAll(h, o, names)
<1>1. Destroyed(h, o, names) = [k EXCEPT !.ptr = @ \ {o}]
  BY LikeIs DEF Destroyed
<1>2. Fit(k, f, Q)
  BY FreeAllFit
<1>3. ASSUME NEW x \in Owners \ {Kept}
      PROVE  IF Home(x) = o THEN Q[x] = {} ELSE Q[x] \subseteq Owned(f)[x]
  OBVIOUS
<1> HIDE DEF k, Q
<1>4. QED
  BY <1>1, <1>2, <1>3, GoneFits

-----------------------------------------------------------------------------
(* What the operators of all the back ends keep. *)

\* Those that hold a reference to Vulkan's library.
Users == {Ctx, UI} \cup {Quad(l) : l \in Layers}

Add(f, o)  == [f EXCEPT !.ptr = @ \cup {o}, !.ref = IF f.api = "vk" THEN @ + 1 ELSE @]
Drop(f, o) == [f EXCEPT !.ptr = @ \ {o}, !.ref = IF o \in f.ptr /\ @ # 0 THEN @ - 1 ELSE @]

Referenced(f) == f.ref = IF f.api = "vk" THEN Cardinality(f.ptr \cap Users) ELSE 0

Akin(k, f) == k.api = f.api /\ k.hash = f.hash /\ k.device = f.device /\ k.known = f.known

LEMMA FramesAre ==
  ASSUME NEW f \in Frames, NEW o \in Structures
  PROVE  /\ Without(f, o) \in Frames /\ Akin(Without(f, o), f)
         /\ Without(f, o).ptr = f.ptr \ {o} /\ Without(f, o).ref = f.ref
         /\ Having(f, o) \in Frames /\ Akin(Having(f, o), f)
         /\ Having(f, o).ptr = f.ptr \cup {o} /\ Having(f, o).ref = f.ref
         /\ Add(f, o) \in Frames /\ Akin(Add(f, o), f)
         /\ Add(f, o).ptr = f.ptr \cup {o}
         /\ Add(f, o).ref = (IF f.api = "vk" THEN f.ref + 1 ELSE f.ref)
         /\ Drop(f, o) \in Frames /\ Akin(Drop(f, o), f)
         /\ Drop(f, o).ptr = f.ptr \ {o}
         /\ Drop(f, o).ref = (IF o \in f.ptr /\ f.ref # 0 THEN f.ref - 1 ELSE f.ref)
<1>1. /\ DOMAIN f = {"api", "ptr", "hash", "ref", "device", "known"} /\ f.ref \in Nat
      /\ f.ptr \in SUBSET Structures
  BY DEF Frames
<1>2. /\ f.ptr \ {o} \in SUBSET Structures /\ f.ptr \cup {o} \in SUBSET Structures
      /\ (IF f.api = "vk" THEN f.ref + 1 ELSE f.ref) \in Nat
      /\ (IF o \in f.ptr /\ f.ref # 0 THEN f.ref - 1 ELSE f.ref) \in Nat
  BY <1>1
<1>3. /\ Without(f, o) \in Frames /\ Akin(Without(f, o), f)
      /\ Without(f, o).ptr = f.ptr \ {o} /\ Without(f, o).ref = f.ref
  BY <1>1, <1>2 DEF Without, Frames, Akin
<1>4. /\ Having(f, o) \in Frames /\ Akin(Having(f, o), f)
      /\ Having(f, o).ptr = f.ptr \cup {o} /\ Having(f, o).ref = f.ref
  BY <1>1, <1>2 DEF Having, Frames, Akin
<1>5. /\ Add(f, o) \in Frames /\ Akin(Add(f, o), f)
      /\ Add(f, o).ptr = f.ptr \cup {o}
      /\ Add(f, o).ref = (IF f.api = "vk" THEN f.ref + 1 ELSE f.ref)
  BY <1>1, <1>2 DEF Add, Frames, Akin
<1>6. /\ Drop(f, o) \in Frames /\ Akin(Drop(f, o), f)
      /\ Drop(f, o).ptr = f.ptr \ {o}
      /\ Drop(f, o).ref = (IF o \in f.ptr /\ f.ref # 0 THEN f.ref - 1 ELSE f.ref)
  BY <1>1, <1>2 DEF Drop, Frames, Akin
<1> QED
  BY <1>3, <1>4, <1>5, <1>6

LEMMA SameFrame ==
  ASSUME NEW f \in Frames, NEW k \in Frames, Akin(k, f), f.ptr = k.ptr, f.ref = k.ref
  PROVE  f = k
BY DEF Frames, Akin

LEMMA StructuresFinite == IsFiniteSet(Structures) /\ IsFiniteSet(Users) /\ Users \subseteq Structures
<1>1. IsFiniteSet({Quad(l) : l \in Layers})
  <2>1. \A x : x \in {Quad(l) : l \in Layers} => \E l \in Layers : x = Quad(l)
    OBVIOUS
  <2>2. IsFiniteSet(Layers)
    BY GraphicsAssumption
  <2> DEFINE F == [l \in Layers |-> Quad(l)]
  <2>3. F \in Surjection(Layers, {Quad(l) : l \in Layers})
    BY DEF Surjection
  <2> QED
    BY <2>2, <2>3, FS_Surjection
<1>2. IsFiniteSet({Tex(t) : t \in Textures})
  <2>1. IsFiniteSet(Textures)
    BY GraphicsAssumption
  <2> DEFINE F == [t \in Textures |-> Tex(t)]
  <2>2. F \in Surjection(Textures, {Tex(t) : t \in Textures})
    BY DEF Surjection
  <2> QED
    BY <2>1, <2>2, FS_Surjection
<1>3. IsFiniteSet({Ctx, UI}) /\ IsFiniteSet({Ctx, UI, Clear})
  <2>1. IsFiniteSet({Ctx}) /\ IsFiniteSet({UI}) /\ IsFiniteSet({Clear})
    BY FS_Singleton
  <2>2. IsFiniteSet({Ctx} \cup {UI}) /\ IsFiniteSet(({Ctx} \cup {UI}) \cup {Clear})
    BY <2>1, FS_Union
  <2>3. {Ctx, UI} = {Ctx} \cup {UI} /\ {Ctx, UI, Clear} = ({Ctx} \cup {UI}) \cup {Clear}
    OBVIOUS
  <2> QED
    BY <2>2, <2>3
<1>4. QED
  BY <1>1, <1>2, <1>3, FS_Union DEF Structures, Users

LEMMA ReferencesKept ==
  ASSUME NEW f \in Frames, Referenced(f), NEW o \in Structures
  PROVE  /\ o \in Users /\ o \notin f.ptr => Referenced(Add(f, o)) /\ Drop(Add(f, o), o) = f
         /\ o \in Users => Referenced(Drop(f, o))
         /\ o \notin Users => Referenced(Without(f, o)) /\ Referenced(Having(f, o))
         /\ f.api # "vk" => Drop(f, o) = Without(f, o) /\ Add(f, o) = Having(f, o)
         /\ f.api = "vk" /\ f.ref = 0 => f.ptr \cap Users = {}
<1> DEFINE S == f.ptr \cap Users
<1>1. IsFiniteSet(S) /\ Cardinality(S) \in Nat
  BY StructuresFinite, FS_Subset, FS_CardinalityType DEF Frames
<1>a. /\ Without(f, o) \in Frames /\ Akin(Without(f, o), f)
      /\ Without(f, o).ptr = f.ptr \ {o} /\ Without(f, o).ref = f.ref
  BY FramesAre
<1>h. /\ Having(f, o) \in Frames /\ Akin(Having(f, o), f)
      /\ Having(f, o).ptr = f.ptr \cup {o} /\ Having(f, o).ref = f.ref
  BY FramesAre
<1>d. /\ Add(f, o) \in Frames /\ Akin(Add(f, o), f)
      /\ Add(f, o).ptr = f.ptr \cup {o}
      /\ Add(f, o).ref = (IF f.api = "vk" THEN f.ref + 1 ELSE f.ref)
  BY FramesAre
<1>r. /\ Drop(f, o) \in Frames /\ Akin(Drop(f, o), f)
      /\ Drop(f, o).ptr = f.ptr \ {o}
      /\ Drop(f, o).ref = (IF o \in f.ptr /\ f.ref # 0 THEN f.ref - 1 ELSE f.ref)
  BY FramesAre
<1>2. ASSUME o \in Users, o \notin f.ptr
      PROVE  Referenced(Add(f, o)) /\ Drop(Add(f, o), o) = f
  <2>1. Add(f, o).ptr \cap Users = S \cup {o} /\ o \notin S
    BY <1>2, <1>d
  <2>2. Cardinality(S \cup {o}) = Cardinality(S) + 1
    BY <1>1, <2>1, FS_AddElement
  <2>3. Referenced(Add(f, o))
    BY <2>1, <2>2, <1>d DEF Referenced, Akin
  <2> DEFINE k == Add(f, o)
  <2>4. k \in Frames /\ k.ptr = f.ptr \cup {o} /\ Akin(k, f)
        /\ k.ref = (IF f.api = "vk" THEN f.ref + 1 ELSE f.ref) /\ (f.api # "vk" => f.ref = 0) /\ f.ref \in Nat
    BY <1>d DEF Referenced, Frames
  <2> HIDE DEF k
  <2>5. Drop(k, o) = f
    <3> DEFINE m == Drop(k, o)
    <3>0. \A x \in Frames :
            /\ Drop(x, o) \in Frames /\ Drop(x, o).ptr = x.ptr \ {o} /\ Akin(Drop(x, o), x)
            /\ Drop(x, o).ref = (IF o \in x.ptr /\ x.ref # 0 THEN x.ref - 1 ELSE x.ref)
      BY FramesAre
    <3>1. m \in Frames /\ m.ptr = k.ptr \ {o} /\ Akin(m, k)
          /\ m.ref = (IF o \in k.ptr /\ k.ref # 0 THEN k.ref - 1 ELSE k.ref)
      BY <2>4, <3>0
    <3> HIDE DEF m
    <3>2. m \in Frames /\ m.ptr = f.ptr /\ m.ref = f.ref /\ Akin(m, f)
      BY <1>2, <2>4, <3>1 DEF Akin
    <3>3. f = m
      BY <3>2, SameFrame
    <3> QED
      BY <3>3 DEF m
  <2> QED
    BY <2>3, <2>5 DEF k
<1>3. ASSUME o \in Users PROVE Referenced(Drop(f, o))
  <2>1. Drop(f, o).ptr \cap Users = S \ {o}
    BY <1>r
  <2>2. Cardinality(S \ {o}) = IF o \in S THEN Cardinality(S) - 1 ELSE Cardinality(S)
    BY <1>1, FS_RemoveElement
  <2>3. o \in S => Cardinality(S) # 0
    BY <1>1, FS_EmptySet
  <2> QED
    BY <1>1, <1>3, <2>1, <2>2, <2>3, <1>r DEF Referenced, Akin
<1>4. ASSUME o \notin Users PROVE Referenced(Without(f, o)) /\ Referenced(Having(f, o))
  BY <1>4, <1>a, <1>h DEF Referenced, Akin
<1>5. ASSUME f.api # "vk" PROVE Drop(f, o) = Without(f, o) /\ Add(f, o) = Having(f, o)
  <2>1. Drop(f, o).ref = Without(f, o).ref /\ Akin(Without(f, o), Drop(f, o))
    BY <1>5, <1>a, <1>r DEF Referenced, Akin
  <2>2. Add(f, o).ref = Having(f, o).ref /\ Akin(Having(f, o), Add(f, o))
    BY <1>5, <1>h, <1>d DEF Referenced, Akin
  <2>3. Drop(f, o).ptr = Without(f, o).ptr /\ Add(f, o).ptr = Having(f, o).ptr
    BY <1>a, <1>h, <1>d, <1>r
  <2> QED
    BY <2>1, <2>2, <2>3, <1>a, <1>h, <1>d, <1>r, SameFrame
<1>6. ASSUME f.api = "vk", f.ref = 0 PROVE S = {}
  BY <1>1, <1>6, FS_EmptySet DEF Referenced
<1> QED
  BY <1>2, <1>3, <1>4, <1>5, <1>6

LEMMA StructuresAre ==
  /\ Users \subseteq Structures /\ Ctx \in Users /\ UI \in Users /\ Clear \in Structures \ Users
  /\ \A l \in Layers : Quad(l) \in Users
  /\ \A t \in Textures : Tex(t) \in Structures \ Users
BY DEF Structures, Users, Ctx, UI, Clear, Quad, Tex

LEMMA HavingFits ==
  ASSUME NEW h, NEW f, Fits(h, f), NEW o \in Structures
  PROVE  Fits([h EXCEPT !.ptr = @ \cup {o}], Having(f, o))
<1> DEFINE k == [h EXCEPT !.ptr = h.ptr \cup {o}]
           e == [f EXCEPT !.ptr = h.ptr \cup {o}]
<1>0. Fit(h, f, Owned(f))
  BY DEF Fits
<1>1. h.ptr = f.ptr /\ "ptr" \in DOMAIN f /\ e = Having(f, o) /\ h.ptr \cup {o} \in SUBSET Structures
  BY <1>0, LikeIs DEF Having, Frames
<1>2. Fit(k, e, Owned(f))
  BY <1>0, <1>1, PtrFit
<1>3. e.ptr = f.ptr \cup {o} /\ e.api = f.api
  BY <1>1
<1> HIDE DEF e, k
<1>4. ASSUME NEW x \in Owners \ {Kept} PROVE Owned(f)[x] \subseteq Owned(e)[x]
  BY <1>3 DEF Owned
<1>5. Fit(k, e, Owned(e))
  BY <1>2, <1>4, Weaker
<1>6. QED
  BY <1>1, <1>5 DEF k, Fits

LEMMA FitsIs ==
  ASSUME NEW h, NEW f, Fits(h, f)
  PROVE  /\ h.api = f.api /\ h.ptr = f.ptr /\ h.hash = f.hash /\ h.ref = f.ref /\ h.device = f.device
         /\ f \in Frames /\ f.ptr \subseteq Structures /\ f.ref \in Nat /\ f.device \in 0..1
         /\ f.known \/ h.ctx.init = TRUE => h.ctx.dev # 0
         /\ DOMAIN h.has = Owners /\ DOMAIN h.live = Owners
         /\ "ref" \in DOMAIN h /\ "ptr" \in DOMAIN h /\ "ctx" \in DOMAIN h
BY DEF Fits, Fit, Like, Frames

\* What a structure with objects of its own has when some of them are made.
LEMMA PrefixFits ==
  ASSUME NEW h, NEW f, Fits(h, f), NEW o \in Structures, Home(o) = o, NEW names,
         Range(names) \subseteq Names(f.api, o)
  PROVE  Fits(MakeAll([h EXCEPT !.ptr = @ \cup {o}], o, names), Having(f, o))
<1> DEFINE k == [h EXCEPT !.ptr = @ \cup {o}]
           e == Having(f, o)
<1>1. Fits(k, e)
  BY HavingFits
<1>0. f \in Frames
  BY FitsIs
<1>a. Akin(e, f) /\ e.ptr = f.ptr \cup {o}
  BY <1>0, FramesAre
<1>2. e.api = f.api /\ Home(o) \in e.ptr
  BY <1>a DEF Akin
<1> HIDE DEF k, e
<1>3. Fits(MakeAll(k, o, names), e)
  BY <1>1, <1>2, MakeFits
<1> QED
  BY <1>3 DEF k, e

\* A structure without planes goes.
LEMMA StructureGone ==
  ASSUME NEW h, NEW f, Fits(h, f), NEW o \in Structures, NEW names, Names(f.api, o) \subseteq Range(names),
         o # Ctx \/ f.api # "vk" \/ ~f.known, \A l \in Layers : o # Quad(l)
  PROVE  Fits(Destroyed(h, o, names), Without(f, o))
<1> DEFINE P == Owned(f)
<1>1. Fit(h, f, P) /\ DOMAIN P = Owners
  BY DEF Fits, Owned
<1>2. o \in Owners => P[o] \subseteq Range(names)
  BY DEF Owned
<1>3. ASSUME NEW x \in Owners \ {Kept} PROVE IF Home(x) = o THEN x = o ELSE P[x] \subseteq Owned(f)[x]
  BY DEF Home, Owners, Structures, Ctx, UI, Clear, Kept, Quad, Tex, Plane
<1>4. o \in Owners
  BY OwnersDiffer DEF Structures
<1>5. CASE o \in f.ptr
  <2> HIDE DEF P
  <2>1. QED
    BY <1>1, <1>2, <1>3, <1>4, <1>5, DestroyedFits
<1>6. CASE o \notin f.ptr
  <2>0. f \in Frames /\ DOMAIN f = {"api", "ptr", "hash", "ref", "device", "known"} /\ h.ptr = f.ptr
    BY <1>1, LikeIs
  <2>a. f.ptr \ {o} = f.ptr
    BY <1>6
  <2>1. Destroyed(h, o, names) = h /\ Without(f, o) = f
    BY <1>6, <2>0, <2>a DEF Destroyed, Without, Frames
  <2> QED
    BY <2>1
<1> QED
  BY <1>5, <1>6

\* The renderer of a layer goes once its planes' objects are freed.
LEMMA QuadGone ==
  ASSUME NEW h, NEW f, NEW P, Fit(h, f, P), DOMAIN P = Owners, NEW l \in Layers, NEW names,
         Quad(l) \in f.ptr, Names(f.api, Quad(l)) \subseteq Range(names),
         \A x \in Owners \ {Kept} : IF x = Plane(l, 1) \/ x = Plane(l, 2) THEN P[x] = {} ELSE P[x] \subseteq Owned(f)[x]
  PROVE  Fits(Destroyed(h, Quad(l), names), Without(f, Quad(l)))
<1> DEFINE o == Quad(l)
<1>1. o \in Owners \ {Kept} /\ o # Ctx /\ o # Plane(l, 1) /\ o # Plane(l, 2)
  BY OwnersDiffer DEF Quad, Plane, Ctx
<1>2. P[o] \subseteq Range(names)
  BY <1>1 DEF Owned
<1>3. ASSUME NEW x \in Owners \ {Kept}, Home(x) = o PROVE x = o \/ x = Plane(l, 1) \/ x = Plane(l, 2)
  BY <1>3 DEF Home, Owners, Ctx, UI, Clear, Kept, Quad, Tex, Plane
<1>4. ASSUME NEW x \in Owners \ {Kept}, Home(x) # o PROVE x # Plane(l, 1) /\ x # Plane(l, 2)
  BY <1>4, HomesAre
<1>5. \A x \in Owners \ {Kept} : IF Home(x) = o THEN x = o \/ P[x] = {} ELSE P[x] \subseteq Owned(f)[x]
  BY <1>3, <1>4
<1> HIDE DEF o
<1>6. Fits(Destroyed(h, o, names), Without(f, o))
  BY <1>1, <1>2, <1>5, DestroyedFits DEF o
<1> QED
  BY <1>6 DEF o

LEMMA ResultFits == \A k, ok : Result(k, ok).g = k /\ Result(k, ok).ok = ok
BY DEF Result

LEMMA FieldsFitting ==
  ASSUME NEW h, NEW f, Fits(h, f)
  PROVE  /\ \A x : /\ Fits([h EXCEPT !.err = x], f) /\ Fits([h EXCEPT !.rec = x], f)
                   /\ Fits([h EXCEPT !.sent = x], f) /\ Fits([h EXCEPT !.len = x], f)
                   /\ Fits([h EXCEPT !.quad = x], f) /\ Fits([h EXCEPT !.old = x], f)
                   /\ Fits([h EXCEPT !.lock = x], f) /\ Fits([h EXCEPT !.drift = x], f)
                   /\ Fits([h EXCEPT !.win = x], f)
         /\ \A x : /\ Fits([h EXCEPT !.ctx.bb = x], f) /\ Fits([h EXCEPT !.ctx.size = x], f)
                   /\ Fits([h EXCEPT !.ctx.interval = x], f) /\ Fits([h EXCEPT !.ctx.rem = x], f)
<1>1. Fit(h, f, Owned(f))
  BY DEF Fits
<1> DEFINE P == Owned(f)
<1> HIDE DEF P
<1>2. \A x : /\ Fit([h EXCEPT !.err = x], f, P) /\ Fit([h EXCEPT !.rec = x], f, P)
             /\ Fit([h EXCEPT !.sent = x], f, P) /\ Fit([h EXCEPT !.len = x], f, P)
             /\ Fit([h EXCEPT !.quad = x], f, P) /\ Fit([h EXCEPT !.old = x], f, P)
             /\ Fit([h EXCEPT !.lock = x], f, P) /\ Fit([h EXCEPT !.drift = x], f, P)
             /\ Fit([h EXCEPT !.win = x], f, P)
  BY <1>1, FieldsFit DEF P
<1>3. \A x : /\ Fit([h EXCEPT !.ctx.bb = x], f, P) /\ Fit([h EXCEPT !.ctx.size = x], f, P)
             /\ Fit([h EXCEPT !.ctx.interval = x], f, P) /\ Fit([h EXCEPT !.ctx.rem = x], f, P)
  BY <1>1, ContextFieldsFit DEF P
<1> QED
  BY <1>2, <1>3 DEF P, Fits

LEMMA DriverFits ==
  ASSUME NEW h, NEW f, Fits(h, f)
  PROVE  /\ \A w : Fits(Error(h, w), f)
         /\ \A uses : Fits(Use(h, uses), f) /\ Fits(Record(h, uses), f)
         /\ Fits(Submit(h), f)
         /\ \A n : Fits(sync_set_interval(h, n), f)
         /\ Fits(sync_next_interval(h), f)
         /\ Fits(mty_gfx_lock(h), f) /\ Fits(mty_gfx_unlock(h), f)
BY ErrorFit, DriverFit DEF Fits

LEMMA QuadFits ==
  ASSUME NEW h, NEW f, Fits(h, f)
  PROVE  /\ \A l, fmt : Fits(SetFormat(h, l, fmt), f)
         /\ \A l : Fits(Shown(h, l), f)
         /\ \A l, p, fmt, size : Fits(SetPlane(h, l, p, fmt, size), f)
         /\ \A l, p : Fits(NoPlaneAt(h, l, p), f)
         /\ \A l, x : Fits([h EXCEPT !.quad[l] = x], f)
BY QuadFit DEF Fits

\* What is freed, but for the Vulkan device.
LEMMA FreedFits ==
  ASSUME NEW h, NEW f, Fits(h, f), NEW o, o # Ctx \/ f.api # "vk" \/ ~f.known
  PROVE  /\ \A names : Fits(FreeAll(h, o, names), f)
         /\ \A n : Fits(Free(h, o, n), f)
BY FreeFits DEF Free

\* The device, or the context, is there.
LEMMA KnownFits ==
  ASSUME NEW h, NEW f, Fits(h, f), NEW x \in BOOLEAN,
         x => h.ctx.dev # 0 /\ (f.api = "vk" => Has(h, Ctx, "vkdevice"))
  PROVE  Fits(h, [f EXCEPT !.known = x])
<1> DEFINE k == [f EXCEPT !.known = x]
<1>1. Like(h, f) /\ Fit(h, f, Owned(f))
  BY DEF Fits, Fit
<1>2. Like(h, k)
  BY <1>1 DEF Like, Frames
<1>3. Owned(k) = Owned(f)
  BY <1>1 DEF Like, Frames, Owned
<1> HIDE DEF k
<1>4. Fits(h, k)
  BY <1>1, <1>2, <1>3 DEF Fits, Fit
<1> QED
  BY <1>4 DEF k

LEMMA DeviceFits ==
  ASSUME NEW h, NEW f, Fits(h, f)
  PROVE  /\ \A x : x # 0 => Fits([h EXCEPT !.ctx.dev = x], f) /\ [h EXCEPT !.ctx.dev = x].ctx.dev = x
         /\ Fits(NewDevice(h), f) /\ NewDevice(h).ctx.dev # 0
<1>1. Like(h, f) /\ Fit(h, f, Owned(f))
  BY DEF Fits, Fit
<1>2. ASSUME NEW x, x # 0 PROVE Fits([h EXCEPT !.ctx.dev = x], f) /\ [h EXCEPT !.ctx.dev = x].ctx.dev = x
  <2>1. Fit([h EXCEPT !.ctx.dev = x], f, Owned(f))
    BY <1>1, <1>2 DEF Fit, Like, Has
  <2>2. [h EXCEPT !.ctx.dev = x].ctx.dev = x
    BY <1>1 DEF Like
  <2> QED
    BY <2>1, <2>2 DEF Fits
<1>3. \E x \in {1, 2} : NewDevice(h) = [h EXCEPT !.ctx.dev = x]
  BY DEF NewDevice
<1> QED
  BY <1>2, <1>3

LEMMA RefFits ==
  ASSUME NEW h, NEW f, Fits(h, f)
  PROVE  \A n \in Nat : Fits([h EXCEPT !.ref = n], [f EXCEPT !.ref = n])
<1>1. ASSUME NEW n \in Nat PROVE Fits([h EXCEPT !.ref = n], [f EXCEPT !.ref = n])
  <2> DEFINE k == [f EXCEPT !.ref = n]
             j == [h EXCEPT !.ref = n]
  <2>1. Like(h, f) /\ Fit(h, f, Owned(f))
    BY DEF Fits, Fit
  <2>2. Like(j, k)
    BY <2>1 DEF Like, Frames, Has
  <2>3. Owned(k) = Owned(f)
    BY <2>1 DEF Like, Frames, Owned
  <2>4. j.has = h.has /\ j.live = h.live
    BY <2>1 DEF Like
  <2> HIDE DEF k, j
  <2>5. Fits(j, k)
    BY <2>1, <2>2, <2>3, <2>4 DEF Fits, Fit
  <2> QED
    BY <2>5 DEF j, k
<1> QED
  BY <1>1

-----------------------------------------------------------------------------
(* Vulkan's context. *)

Minus(f) == [f EXCEPT !.ref = IF @ = 0 THEN 0 ELSE @ - 1]

LEMMA VkReferenceFits ==
  ASSUME NEW h, NEW f, Fits(h, f)
  PROVE  /\ Fits(vkproc_global_destroy(h), Minus(f))
         /\ \A r \in vkproc_global_init(h) :
              IF r.ok THEN Fits(r.g, [f EXCEPT !.ref = @ + 1]) ELSE r.g = h /\ f.ref = 0
<1>1. h.ref = f.ref /\ f.ref \in Nat /\ f \in Frames
  BY FitsIs
<1>2. \A n \in Nat : Fits([h EXCEPT !.ref = n], [f EXCEPT !.ref = n])
  BY RefFits
<1>3. Fits(vkproc_global_destroy(h), Minus(f))
  <2>1. CASE h.ref = 0
    <3>1. Minus(f) = f
      BY <1>1, <2>1 DEF Minus, Frames
    <3> QED
      BY <2>1, <3>1 DEF vkproc_global_destroy
  <2>2. CASE h.ref # 0
    <3> DEFINE n == h.ref - 1
               k == [h EXCEPT !.ref = n]
    <3>1. n \in Nat /\ Minus(f) = [f EXCEPT !.ref = n] /\ (h.ref = 1 => n = 0)
      BY <1>1, <2>2 DEF Minus, Frames
    <3>2. vkproc_global_destroy(h) = k \/ vkproc_global_destroy(h) = Error(k, "unloaded while in use")
      BY <2>2, <3>1 DEF vkproc_global_destroy
    <3> HIDE DEF n
    <3>3. Fits(k, Minus(f))
      BY <1>2, <3>1
    <3> QED
      BY <3>2, <3>3, DriverFits
  <2> QED
    BY <2>1, <2>2
<1>4. ASSUME NEW r \in vkproc_global_init(h)
      PROVE  IF r.ok THEN Fits(r.g, [f EXCEPT !.ref = @ + 1]) ELSE r.g = h /\ f.ref = 0
  <2> DEFINE n == h.ref + 1
             k == [h EXCEPT !.ref = n]
             e == [f EXCEPT !.ref = n]
  <2>1. n \in Nat /\ e = [f EXCEPT !.ref = @ + 1]
    BY <1>1 DEF Frames
  <2>2. Fits(k, e)
    BY <1>2, <2>1
  <2>3. (r.ok /\ r.g = k) \/ (~r.ok /\ r.g = h /\ h.ref = 0)
    BY DEF vkproc_global_init, Result
  <2> HIDE DEF e, k
  <2> QED
    BY <1>1, <2>1, <2>2, <2>3
<1> QED
  BY <1>3, <1>4

\* A structure that is destroyed gives its reference back.
LEMMA VkDestroyedFits ==
  ASSUME NEW h, NEW f, Fits(h, f), NEW o \in Structures, NEW names,
         Fits(Destroyed(h, o, names), Without(f, o))
  PROVE  Fits(DestroyedVk(h, o, names), Drop(f, o))
<1>1. h.ptr = f.ptr /\ f \in Frames
  BY FitsIs
<1>2. CASE o \notin f.ptr
  <2>1. f.ptr \ {o} = f.ptr
    BY <1>2
  <2>2. Drop(f, o) = f
    BY <1>1, <1>2, <2>1 DEF Drop, Frames
  <2> QED
    BY <1>1, <1>2, <2>2 DEF DestroyedVk
<1>3. CASE o \in f.ptr
  <2>1. Minus(Without(f, o)) = Drop(f, o)
    BY <1>1, <1>3 DEF Minus, Without, Drop, Frames
  <2>2. Fits(vkproc_global_destroy(Destroyed(h, o, names)), Minus(Without(f, o)))
    BY VkReferenceFits
  <2> QED
    BY <1>1, <1>3, <2>1, <2>2 DEF DestroyedVk
<1> QED
  BY <1>2, <1>3

LEMMA ImagesAre ==
  /\ Range(<<"view", "image", "mem", "buf", "bufmem">>) = Range(ImageSteps)
  /\ \A k \in 0..Len(ImageSteps) : Range(SubSeq(ImageSteps, 1, k)) \subseteq Range(ImageSteps)
  /\ Range(ImageSteps \o <<"dset">>) = Range(ImageSteps) \cup {"dset"}
  /\ \A k \in 0..Len(ImageSteps) : Range(SubSeq(ImageSteps \o <<"dset">>, 1, k)) \subseteq Range(ImageSteps)
  /\ \A l, p : VkNames(Plane(l, p)) = Range(ImageSteps)
  /\ VkNames(Clear) = Range(ImageSteps) \cup {"dset"}
  /\ \A t : VkNames(Tex(t)) = Range(ImageSteps) \cup {"dset"}
<1>1. Range(<<"view", "image", "mem", "buf", "bufmem">>) = Range(ImageSteps)
  BY DEF Range, ImageSteps
<1>2. \A k \in 0..Len(ImageSteps) : Range(SubSeq(ImageSteps, 1, k)) \subseteq Range(ImageSteps)
  BY DEF Range, ImageSteps
<1>3. Range(ImageSteps \o <<"dset">>) = Range(ImageSteps) \cup {"dset"}
  BY DEF Range, ImageSteps
<1>4. \A k \in 0..Len(ImageSteps) : Range(SubSeq(ImageSteps \o <<"dset">>, 1, k)) \subseteq Range(ImageSteps)
  BY DEF Range, ImageSteps
<1>5. /\ \A l, p : VkNames(Plane(l, p)) = Range(ImageSteps)
      /\ VkNames(Clear) = Range(ImageSteps) \cup {"dset"}
      /\ \A t : VkNames(Tex(t)) = Range(ImageSteps) \cup {"dset"}
  BY DEF VkNames, Plane, Clear, Tex
<1> QED
  BY <1>1, <1>2, <1>3, <1>4, <1>5

LEMMA VkImageFits ==
  ASSUME NEW h, NEW f, Fits(h, f)
  PROVE  /\ \A o : o # Ctx => Fits(vk_destroy_image(h, o), f)
         /\ \A o : Fits(vk_image_gpu_copy(h, o), f)
<1>1. ASSUME NEW o, o # Ctx PROVE Fits(vk_destroy_image(h, o), f)
  BY <1>1, FreedFits DEF vk_destroy_image
<1> QED
  BY <1>1, DriverFits DEF vk_image_gpu_copy

LEMMA VkImageMadeFits ==
  ASSUME NEW h, NEW f, Fits(h, f), f.api = "vk", NEW l \in Layers, NEW p, Quad(l) \in f.ptr,
         NEW r \in vk_create_image(h, Plane(l, p))
  PROVE  Fits(r.g, f)
<1> DEFINE o == Plane(l, p)
           m(k) == MakeAll(h, o, SubSeq(ImageSteps, 1, k))
<1>1. Names(f.api, o) = Range(ImageSteps) /\ Home(o) \in f.ptr /\ o # Ctx
  BY ImagesAre, HomesAre, OwnersDiffer DEF Names, Plane, Ctx
<1>2. \/ r.g = MakeAll(h, o, ImageSteps)
      \/ \E k \in 0..Len(ImageSteps) : r.g = vk_destroy_image(m(k), o)
  BY DEF vk_create_image, Result
<1>3. Fits(MakeAll(h, o, ImageSteps), f)
  BY <1>1, MakeFits
<1>4. ASSUME NEW k \in 0..Len(ImageSteps) PROVE Fits(vk_destroy_image(m(k), o), f)
  <2>1. Range(SubSeq(ImageSteps, 1, k)) \subseteq Names(f.api, o)
    BY <1>1, ImagesAre
  <2>2. Fits(m(k), f)
    BY <1>1, <2>1, MakeFits
  <2> QED
    BY <1>1, <2>2, VkImageFits
<1> HIDE DEF o, m
<1> QED
  BY <1>2, <1>3, <1>4

LEMMA VkSwapchainFits ==
  ASSUME NEW h, NEW f, Fits(h, f), f.api = "vk", Ctx \in f.ptr
  PROVE  /\ Fits(vk_ctx_destroy_swapchain(h), f)
         /\ \A r \in vk_ctx_create_swapchain(h) : Fits(r.g, f)
         /\ \A r \in vk_ctx_refresh_surface(h) : Fits(r.g, f)
         /\ Fits(vk_ctx_swapchain_barrier(h), f)
         /\ \A k \in vk_ctx_refresh_swapchain(h) : Fits(k, f)
<1>1. /\ Names(f.api, Ctx) = Range(VkContextSteps) /\ Home(Ctx) \in f.ptr
      /\ Range(<<"swapchain", "views", "fbs">>) \subseteq Range(VkContextSteps)
      /\ Range(<<"surface">>) \subseteq Range(VkContextSteps)
      /\ "vkdevice" \notin Range(<<"fbs", "views", "swapchain">>) /\ "vkdevice" \notin Range(<<"surface">>)
  <2>1. Names(f.api, Ctx) = Range(VkContextSteps) /\ Home(Ctx) \in f.ptr
    BY HomesAre DEF Names, VkNames, Ctx
  <2>2. /\ Range(<<"swapchain", "views", "fbs">>) \subseteq Range(VkContextSteps)
        /\ Range(<<"surface">>) \subseteq Range(VkContextSteps)
    BY DEF Range, VkContextSteps, DeviceSteps
  <2>3. "vkdevice" \notin Range(<<"fbs", "views", "swapchain">>) /\ "vkdevice" \notin Range(<<"surface">>)
    BY DEF Range
  <2> QED
    BY <2>1, <2>2, <2>3
<1>2. \A k : Fits(k, f) => Fits(vk_ctx_destroy_swapchain(k), f)
  <2>1. ASSUME NEW k, Fits(k, f) PROVE Fits(vk_ctx_destroy_swapchain(k), f)
    <3>1. Fits(FreeAll(k, Ctx, <<"fbs", "views", "swapchain">>), f)
      BY <1>1, <2>1, FreeFits
    <3> QED
      BY <3>1, FieldsFitting DEF vk_ctx_destroy_swapchain
  <2> QED
    BY <2>1
<1>3. \A k : Fits(k, f) => \A r \in vk_ctx_create_swapchain(k) : Fits(r.g, f)
  <2>1. ASSUME NEW k, Fits(k, f), NEW r \in vk_ctx_create_swapchain(k) PROVE Fits(r.g, f)
    <3> DEFINE m == MakeAll(k, Ctx, <<"swapchain", "views", "fbs">>)
    <3>1. Fits(m, f)
      BY <1>1, <2>1, MakeFits
    <3>2. r.g = [m EXCEPT !.ctx.size = k.win.size] \/ r.g = k
      BY <2>1 DEF vk_ctx_create_swapchain, Result
    <3> HIDE DEF m
    <3>3. Fits([m EXCEPT !.ctx.size = k.win.size], f)
      BY <3>1, FieldsFitting
    <3> QED
      BY <2>1, <3>1, <3>2, <3>3
  <2> QED
    BY <2>1
<1>4. \A k : Fits(k, f) => \A r \in vk_ctx_refresh_surface(k) : Fits(r.g, f)
  <2>1. ASSUME NEW k, Fits(k, f), NEW r \in vk_ctx_refresh_surface(k) PROVE Fits(r.g, f)
    <3> DEFINE m == IF k.win.up THEN Free(k, Ctx, "surface") ELSE Error(k, "no window")
    <3>1. Fits(FreeAll(k, Ctx, <<"surface">>), f)
      BY <1>1, <2>1, FreeFits
    <3>2. Fits(m, f)
      BY <2>1, <3>1, DriverFits DEF Free
    <3>5. r = Result(Make(m, Ctx, "surface"), TRUE) \/ r = Result(m, FALSE)
      BY <2>1 DEF vk_ctx_refresh_surface
    <3> HIDE DEF m
    <3>4. r.g = MakeAll(m, Ctx, <<"surface">>) \/ r.g = m
      BY <3>5 DEF Make, Result
    <3>3. Fits(MakeAll(m, Ctx, <<"surface">>), f)
      BY <1>1, <3>2, MakeFits
    <3> QED
      BY <3>2, <3>3, <3>4
  <2> QED
    BY <2>1
<1>5. ASSUME NEW k \in vk_ctx_refresh_swapchain(h) PROVE Fits(k, f)
  <2> DEFINE j == vk_ctx_destroy_swapchain(mty_gfx_lock(h))
             had == Then(vk_ctx_refresh_surface(j), vk_ctx_create_swapchain)
  <2>1. Fits(vk_ctx_destroy_swapchain(h), f)
    BY <1>2
  <2>2. Fits(mty_gfx_lock(h), f)
    BY DriverFits
  <2>3. Fits(j, f)
    BY <1>2, <2>2
  <2>4. \/ \E r \in vk_ctx_create_swapchain(vk_ctx_destroy_swapchain(h)) : k = r.g
        \/ k = h
        \/ \E r \in had : k = r.g \/ k = mty_gfx_unlock(r.g)
    BY DEF vk_ctx_refresh_swapchain
  <2> HIDE DEF j
  <2>5. ASSUME NEW r \in had PROVE Fits(r.g, f) /\ Fits(mty_gfx_unlock(r.g), f)
    <3>2. PICK t \in vk_ctx_refresh_surface(j) : r \in IF t.ok THEN vk_ctx_create_swapchain(t.g) ELSE {t}
      BY DEF Then
    <3>3. Fits(t.g, f)
      BY <1>4, <2>3
    <3>1. Fits(r.g, f)
      BY <1>3, <3>2, <3>3
    <3> QED
      BY <3>1, DriverFits
  <2> QED
    BY <1>3, <2>1, <2>4, <2>5
<1> QED
  BY <1>2, <1>3, <1>4, <1>5, DriverFits DEF vk_ctx_swapchain_barrier

LEMMA VkContextNames ==
  /\ VkNames(Ctx) = Range(VkContextSteps)
  /\ Range(VkContextSteps) \subseteq
       Range(<<"fbs", "views", "swapchain", "rp", "sem0", "sem1", "cmd", "pool", "vkdevice">> \o <<"surface", "instance">>)
  /\ Range(<<>> \o <<"surface", "instance">>) = {"surface", "instance"}
  /\ \A k \in 0..Len(VkContextSteps) :
       /\ Range(SubSeq(VkContextSteps, 1, k)) \subseteq Range(VkContextSteps)
       /\ "vkdevice" \in Range(SubSeq(VkContextSteps, 1, k)) \/ Range(SubSeq(VkContextSteps, 1, k)) \subseteq {"surface", "instance"}
  /\ SubSeq(VkContextSteps, 1, Len(VkContextSteps)) = VkContextSteps
  /\ "vkdevice" \in Range(VkContextSteps)
<1>1. VkNames(Ctx) = Range(VkContextSteps)
  BY DEF VkNames, Ctx
<1>2. Range(VkContextSteps) \subseteq
        Range(<<"fbs", "views", "swapchain", "rp", "sem0", "sem1", "cmd", "pool", "vkdevice">> \o <<"surface", "instance">>)
  BY DEF VkContextSteps, DeviceSteps, Range
<1>3. Range(<<>> \o <<"surface", "instance">>) = {"surface", "instance"}
  BY DEF Range
<1>4. \A k \in 0..Len(VkContextSteps) :
        Range(SubSeq(VkContextSteps, 1, k)) \subseteq Range(VkContextSteps)
  BY DEF VkContextSteps, DeviceSteps, Range
<1>5. \A k \in 0..Len(VkContextSteps) :
         "vkdevice" \in Range(SubSeq(VkContextSteps, 1, k)) \/ Range(SubSeq(VkContextSteps, 1, k)) \subseteq {"surface", "instance"}
  <2>1. \A k \in 0..2 : Range(SubSeq(VkContextSteps, 1, k)) \subseteq {"surface", "instance"}
    BY DEF VkContextSteps, DeviceSteps, Range
  <2>2. \A k \in 3..11 : SubSeq(VkContextSteps, 1, k)[3] = "vkdevice" /\ 3 \in DOMAIN SubSeq(VkContextSteps, 1, k)
    BY DEF VkContextSteps, DeviceSteps
  <2>3. Len(VkContextSteps) = 11
    BY DEF VkContextSteps, DeviceSteps
  <2>4. \A s : 3 \in DOMAIN s /\ s[3] = "vkdevice" => "vkdevice" \in Range(s)
    BY DEF Range
  <2>5. \A k \in 3..11 : "vkdevice" \in Range(SubSeq(VkContextSteps, 1, k))
    BY <2>2, <2>4
  <2>6. 0..11 = (0..2) \cup (3..11)
    OBVIOUS
  <2> QED
    BY <2>1, <2>3, <2>5, <2>6
<1>6. SubSeq(VkContextSteps, 1, Len(VkContextSteps)) = VkContextSteps /\ "vkdevice" \in Range(VkContextSteps)
  BY DEF VkContextSteps, DeviceSteps, Range
<1> QED
  BY <1>1, <1>2, <1>3, <1>4, <1>5, <1>6

LEMMA VkContextGone ==
  ASSUME NEW h, NEW f, NEW P, Fit(h, f, P), DOMAIN P = Owners, f.api = "vk", ~f.known, Ctx \in f.ptr,
         P[Ctx] \subseteq Range(VkContextSteps),
         Has(h, Ctx, "vkdevice") \/ P[Ctx] \subseteq {"surface", "instance"},
         \A x \in Owners \ {Kept} : x = Ctx \/ P[x] \subseteq Owned(f)[x]
  PROVE  Fits(mty_vk_ctx_destroy(h), Drop(f, Ctx))
<1> DEFINE device == <<"fbs", "views", "swapchain", "rp", "sem0", "sem1", "cmd", "pool", "vkdevice">>
           names == (IF Has(h, Ctx, "vkdevice") THEN device ELSE <<>>) \o <<"surface", "instance">>
<1>1. P[Ctx] \subseteq Range(names)
  <2>1. CASE Has(h, Ctx, "vkdevice")
    BY <2>1, VkContextNames
  <2>2. CASE ~Has(h, Ctx, "vkdevice")
    BY <2>2, VkContextNames
  <2> QED
    BY <2>1, <2>2
<1>2. \A x \in Owners \ {Kept} : IF Home(x) = Ctx THEN x = Ctx ELSE P[x] \subseteq Owned(f)[x]
  BY HomesAre DEF Home, Quad, Ctx
<1>3. Ctx \in Owners /\ Ctx \in Structures
  BY OwnersDiffer, StructuresAre
<1>a. mty_vk_ctx_destroy(h) = [DestroyedVk(h, Ctx, names) EXCEPT !.ctx.bb = FALSE, !.rec = {}]
  BY DEF mty_vk_ctx_destroy
<1> HIDE DEF names
<1>4. Fits(Destroyed(h, Ctx, names), Without(f, Ctx))
  BY <1>1, <1>2, <1>3, DestroyedFits
<1>b. h.ptr = f.ptr /\ f \in Frames
  BY LikeIs
<1>5. Fits(DestroyedVk(h, Ctx, names), Drop(f, Ctx))
  <2>1. Minus(Without(f, Ctx)) = Drop(f, Ctx)
    BY <1>b DEF Minus, Without, Drop, Frames
  <2>2. Fits(vkproc_global_destroy(Destroyed(h, Ctx, names)), Minus(Without(f, Ctx)))
    BY <1>4, VkReferenceFits
  <2> QED
    BY <1>b, <2>1, <2>2 DEF DestroyedVk
<1> DEFINE k == DestroyedVk(h, Ctx, names)
<1> HIDE DEF k
<1>6. Fits([k EXCEPT !.ctx.bb = FALSE], Drop(f, Ctx))
  BY <1>5, FieldsFitting DEF k
<1>7. Fits([k EXCEPT !.ctx.bb = FALSE, !.rec = {}], Drop(f, Ctx))
  BY <1>6, FieldsFitting
<1> QED
  BY <1>a, <1>7 DEF k

LEMMA VkContextFreedFits ==
  ASSUME NEW h, NEW f, Fits(h, f), f.api = "vk", f.known, Ctx \in f.ptr
  PROVE  Fits(mty_vk_ctx_destroy(h), Drop([f EXCEPT !.known = FALSE], Ctx))
<1> DEFINE e == [f EXCEPT !.known = FALSE]
           P == Owned(e)
<1>1. Fits(h, e)
  BY KnownFits
<1>0. f \in Frames
  BY FitsIs
<1>2. e.api = "vk" /\ ~e.known /\ e.ptr = f.ptr
  BY <1>0 DEF Frames
<1>3. Has(h, Ctx, "vkdevice")
  BY DEF Fits, Fit, Like
<1> HIDE DEF e
<1>4. Fit(h, e, P) /\ DOMAIN P = Owners
  BY <1>1 DEF Fits, Owned
<1>5. P[Ctx] \subseteq Range(VkContextSteps)
  BY <1>2, OwnersDiffer, VkContextNames DEF Owned, Names
<1>6. \A x \in Owners \ {Kept} : x = Ctx \/ P[x] \subseteq Owned(e)[x]
  OBVIOUS
<1> HIDE DEF P
<1>7. Fits(mty_vk_ctx_destroy(h), Drop(e, Ctx))
  BY <1>2, <1>3, <1>4, <1>5, <1>6, VkContextGone
<1> QED
  BY <1>7 DEF e

LEMMA VkAddIs ==
  ASSUME NEW f \in Frames, Referenced(f), f.api = "vk", NEW o \in Users, o \notin f.ptr
  PROVE  /\ Having([f EXCEPT !.ref = @ + 1], o) = Add(f, o) /\ Drop(Add(f, o), o) = f
         /\ f.ref = 0 => Drop(Having(f, o), o) = f
         /\ Add(f, o) \in Frames /\ Akin(Add(f, o), f) /\ Add(f, o).ptr = f.ptr \cup {o}
         /\ Having(f, o) \in Frames /\ Akin(Having(f, o), f) /\ Having(f, o).ptr = f.ptr \cup {o}
<1>0. o \in Structures
  BY StructuresAre
<1>1. Having([f EXCEPT !.ref = @ + 1], o) = Add(f, o)
  BY DEF Having, Add, Frames
<1>2. Drop(Add(f, o), o) = f
  BY <1>0, ReferencesKept
<1>3. ASSUME f.ref = 0 PROVE Drop(Having(f, o), o) = f
  <2>1. (f.ptr \cup {o}) \ {o} = f.ptr
    OBVIOUS
  <2> QED
    BY <1>3, <2>1 DEF Drop, Having, Frames
<1> QED
  BY <1>0, <1>1, <1>2, <1>3, FramesAre

\* The context with some of its objects, while it is made.
LEMMA VkContextMaking ==
  ASSUME NEW j, NEW f, NEW e, Fit(j, e, Owned(f)), f.api = "vk", e.api = "vk", ~e.known, Ctx \notin f.ptr,
         Ctx \in e.ptr, f.ptr \subseteq e.ptr
  PROVE  /\ Fits(mty_vk_ctx_destroy(j), Drop(e, Ctx))
         /\ \A i \in 0..Len(VkContextSteps) :
              Fits(mty_vk_ctx_destroy(MakeAll(j, Ctx, SubSeq(VkContextSteps, 1, i))), Drop(e, Ctx))
         /\ Fits(MakeAll(j, Ctx, VkContextSteps), e) /\ Has(MakeAll(j, Ctx, VkContextSteps), Ctx, "vkdevice")
<1> DEFINE P == Owned(f)
<1>1. DOMAIN P = Owners /\ P[Ctx] = {} /\ Ctx \in Owners
  BY HomesAre, OwnersDiffer DEF Owned
<1>2. ASSUME NEW x \in Owners \ {Kept}, x # Ctx PROVE P[x] \subseteq Owned(e)[x]
  BY <1>2 DEF Owned
<1>3. Owned(e)[Ctx] = Range(VkContextSteps)
  BY <1>1, HomesAre, VkContextNames DEF Owned, Names
<1> HIDE DEF P
<1>4. Fits(mty_vk_ctx_destroy(j), Drop(e, Ctx))
  <2>1. \A x \in Owners \ {Kept} : x = Ctx \/ P[x] \subseteq Owned(e)[x]
    BY <1>2
  <2>2. P[Ctx] \subseteq Range(VkContextSteps) /\ P[Ctx] \subseteq {"surface", "instance"} /\ Fit(j, e, P)
    BY <1>1 DEF P
  <2> QED
    BY <1>1, <2>1, <2>2, VkContextGone
<1>5. ASSUME NEW names, Range(names) \subseteq Range(VkContextSteps),
             "vkdevice" \in Range(names) \/ Range(names) \subseteq {"surface", "instance"}
      PROVE  LET k == MakeAll(j, Ctx, names) IN
             /\ Fits(mty_vk_ctx_destroy(k), Drop(e, Ctx)) /\ Fits(k, e)
             /\ "vkdevice" \in Range(names) => Has(k, Ctx, "vkdevice")
  <2> DEFINE k == MakeAll(j, Ctx, names)
             Q == [P EXCEPT ![Ctx] = @ \cup Range(names)]
  <2>1. Fit(k, e, Q)
    BY <1>1, MakeAllFit DEF P
  <2>2. DOMAIN Q = Owners /\ Q[Ctx] = Range(names) /\ \A x \in Owners \ {Ctx} : Q[x] = P[x]
    BY <1>1
  <2> HIDE DEF Q
  <2>3. \A x \in Owners \ {Kept} : x = Ctx \/ Q[x] \subseteq Owned(e)[x]
    BY <1>2, <2>2
  <2>4. "vkdevice" \in Range(names) => Has(k, Ctx, "vkdevice")
    <3> DEFINE m == [j EXCEPT !.has[Ctx] = @ \cup Range(names), !.live[Ctx] = @ \cup Range(names)]
    <3>1. DOMAIN j.has = Owners /\ "has" \in DOMAIN j
      BY DEF Fit, Like
    <3>2. m.has[Ctx] = j.has[Ctx] \cup Range(names) /\ Error(m, "leaked").has = m.has
      BY <1>1, <3>1 DEF Error
    <3>3. k = m \/ k = Error(m, "leaked")
      BY DEF MakeAll
    <3> HIDE DEF m, k
    <3> QED
      BY <3>2, <3>3 DEF Has
  <2>5. Fits(k, e)
    <3>1. \A x \in Owners \ {Kept} : Q[x] \subseteq Owned(e)[x]
      BY <1>3, <1>5, <2>2, <2>3
    <3> HIDE DEF k
    <3> QED
      BY <2>1, <3>1, Weaker DEF Fits
  <2> HIDE DEF k
  <2>6. Fits(mty_vk_ctx_destroy(k), Drop(e, Ctx))
    BY <1>5, <2>1, <2>2, <2>3, <2>4, VkContextGone
  <2> QED
    BY <2>4, <2>5, <2>6 DEF k
<1>6. ASSUME NEW i \in 0..Len(VkContextSteps)
      PROVE  Fits(mty_vk_ctx_destroy(MakeAll(j, Ctx, SubSeq(VkContextSteps, 1, i))), Drop(e, Ctx))
  BY <1>5, VkContextNames
<1>7. Fits(MakeAll(j, Ctx, VkContextSteps), e) /\ Has(MakeAll(j, Ctx, VkContextSteps), Ctx, "vkdevice")
  BY <1>5, VkContextNames
<1> QED
  BY <1>4, <1>6, <1>7

LEMMA VkContextFits ==
  ASSUME NEW h, NEW f, Fits(h, f), f.api = "vk", ~f.known, Ctx \notin f.ptr, Referenced(f)
  PROVE  \A r \in mty_vk_ctx_create(h) :
           IF r.ok THEN Fits(r.g, [Add(f, Ctx) EXCEPT !.known = TRUE]) ELSE Fits(r.g, f)
<1> DEFINE made == CreateVk(h, Ctx, VkContextSteps, mty_vk_ctx_destroy)
           locked(k) == IF plat # "android" THEN k
                        ELSE mty_gfx_unlock(IF k.win.up THEN mty_gfx_lock(k) ELSE Error(k, "no window"))
           e == Add(f, Ctx)
           Start(x) == [x EXCEPT !.ptr = @ \cup {Ctx}]
<1>0. f \in Frames /\ Ctx \in Users /\ Ctx \in Structures
  BY FitsIs, StructuresAre
<1>1. /\ Having([f EXCEPT !.ref = @ + 1], Ctx) = e /\ Drop(e, Ctx) = f
      /\ f.ref = 0 => Drop(Having(f, Ctx), Ctx) = f
      /\ e.api = "vk" /\ ~e.known /\ e.ptr = f.ptr \cup {Ctx}
      /\ Having(f, Ctx).api = "vk" /\ ~Having(f, Ctx).known /\ Having(f, Ctx).ptr = f.ptr \cup {Ctx}
  BY <1>0, VkAddIs DEF Akin
<1>a. ASSUME NEW k, NEW d, Fits(k, d), d.ptr = f.ptr, d.api = "vk" PROVE Fit(Start(k), Having(d, Ctx), Owned(f))
  <2> DEFINE s == k.ptr \cup {Ctx}
  <2>1. Fit(k, d, Owned(d)) /\ k.ptr = d.ptr /\ s \in SUBSET Structures /\ d \in Frames
    BY <1>0, <1>a, FitsIs DEF Fits, Frames
  <2>2. Start(k) = [k EXCEPT !.ptr = s] /\ Having(d, Ctx) = [d EXCEPT !.ptr = s]
    BY <2>1 DEF Having, Frames
  <2>3. Owned(d) = Owned(f)
    BY <1>a DEF Owned
  <2> HIDE DEF s
  <2>4. Fit([k EXCEPT !.ptr = s], [d EXCEPT !.ptr = s], Owned(d))
    BY <2>1, PtrFit
  <2> QED
    BY <2>2, <2>3, <2>4
<1> HIDE DEF Start
<1>2. ASSUME NEW k, Fits(k, [f EXCEPT !.ref = @ + 1]), NEW r \in Create(k, Ctx, VkContextSteps, mty_vk_ctx_destroy)
      PROVE  IF r.ok THEN Fits(r.g, e) /\ Has(r.g, Ctx, "vkdevice") ELSE Fits(r.g, f)
  <2> DEFINE m(i) == MakeAll(Start(k), Ctx, SubSeq(VkContextSteps, 1, i))
             d == [f EXCEPT !.ref = @ + 1]
  <2>0. Len(VkContextSteps) \in 0..Len(VkContextSteps)
    BY DEF VkContextSteps, DeviceSteps
  <2>1. PICK i \in 0..Len(VkContextSteps) :
          (i = Len(VkContextSteps) /\ r = Result(m(i), TRUE)) \/ r = Result(mty_vk_ctx_destroy(m(i)), FALSE)
    BY <1>2, <2>0 DEF Create, Start
  <2>2. d.ptr = f.ptr /\ d.api = "vk" /\ Having(d, Ctx) = e
    BY <1>0, <1>1 DEF Frames
  <2> HIDE DEF d, e
  <2>3. Fit(Start(k), e, Owned(f))
    BY <1>a, <1>2, <2>2 DEF d
  <2>4. Ctx \in e.ptr /\ f.ptr \subseteq e.ptr
    BY <1>1
  <2>5. /\ Fits(mty_vk_ctx_destroy(m(i)), Drop(e, Ctx))
        /\ Fits(MakeAll(Start(k), Ctx, VkContextSteps), e) /\ Has(MakeAll(Start(k), Ctx, VkContextSteps), Ctx, "vkdevice")
    BY <1>1, <2>3, <2>4, VkContextMaking
  <2>6. i = Len(VkContextSteps) => m(i) = MakeAll(Start(k), Ctx, VkContextSteps)
    BY VkContextNames
  <2> HIDE DEF m
  <2>7. (r.ok /\ i = Len(VkContextSteps) /\ r.g = m(i)) \/ (~r.ok /\ r.g = mty_vk_ctx_destroy(m(i)))
    BY <2>1 DEF Result
  <2> QED
    BY <1>1, <2>5, <2>6, <2>7
<1>3. ASSUME NEW r \in made PROVE IF r.ok THEN Fits(r.g, e) /\ Has(r.g, Ctx, "vkdevice") ELSE Fits(r.g, f)
  <2> DEFINE begun == {IF s.ok THEN s ELSE Result(mty_vk_ctx_destroy([s.g EXCEPT !.ptr = @ \cup {Ctx}]), FALSE) :
                         s \in vkproc_global_init(h)}
  <2>1. PICK t \in begun : r \in IF t.ok THEN Create(t.g, Ctx, VkContextSteps, mty_vk_ctx_destroy) ELSE {t}
    BY DEF CreateVk, Then
  <2>2. PICK s \in vkproc_global_init(h) :
          t = IF s.ok THEN s ELSE Result(mty_vk_ctx_destroy(Start(s.g)), FALSE)
    BY DEF Start
  <2> HIDE DEF made, begun
  <2>3. IF s.ok THEN Fits(s.g, [f EXCEPT !.ref = @ + 1]) ELSE s.g = h /\ f.ref = 0
    BY VkReferenceFits
  <2>4. CASE s.ok
    BY <1>2, <2>1, <2>2, <2>3, <2>4
  <2>5. CASE ~s.ok
    <3>1. ~r.ok /\ r.g = mty_vk_ctx_destroy(Start(h)) /\ f.ref = 0
      BY <2>1, <2>2, <2>3, <2>5 DEF Result
    <3>2. Fit(Start(h), Having(f, Ctx), Owned(f))
      BY <1>a
    <3> DEFINE d == Having(f, Ctx)
    <3>3. d.api = "vk" /\ ~d.known /\ Ctx \in d.ptr /\ f.ptr \subseteq d.ptr
      BY <1>1
    <3> HIDE DEF d
    <3>4. Fits(mty_vk_ctx_destroy(Start(h)), Drop(d, Ctx))
      BY <3>2, <3>3, VkContextMaking DEF d
    <3> QED
      BY <1>1, <3>1, <3>4 DEF d
  <2> QED
    BY <2>4, <2>5
<1> HIDE DEF e
<1>4. ASSUME NEW k, Fits(k, e) PROVE Fits(locked(k), e)
  <2>1. Fits(mty_gfx_lock(k), e) /\ Fits(Error(k, "no window"), e)
    BY <1>4, DriverFits
  <2> QED
    BY <1>4, <2>1, DriverFits
<1>5. ASSUME NEW k, Has(k, Ctx, "vkdevice") PROVE Has(locked(k), Ctx, "vkdevice")
  BY <1>5 DEF Has, mty_gfx_lock, mty_gfx_unlock, Error
<1>6. ASSUME NEW r \in mty_vk_ctx_create(h)
      PROVE  IF r.ok THEN Fits(r.g, [e EXCEPT !.known = TRUE]) ELSE Fits(r.g, f)
  <2>1. PICK s \in made :
          r = Result(IF s.ok THEN [locked(s.g) EXCEPT !.ctx.size = h.win.size, !.ctx.dev = 1]
                        ELSE s.g, s.ok)
    BY DEF mty_vk_ctx_create
  <2> HIDE DEF made, locked
  <2> DEFINE j == [locked(s.g) EXCEPT !.ctx.size = h.win.size]
             k == [j EXCEPT !.ctx.dev = 1]
  <2>2. CASE s.ok
    <3>1. r.g = [locked(s.g) EXCEPT !.ctx.size = h.win.size, !.ctx.dev = 1] /\ r.ok
      BY <2>1, <2>2 DEF Result
    <3>2. [locked(s.g) EXCEPT !.ctx.size = h.win.size, !.ctx.dev = 1] = k
      OBVIOUS
    <3>3. Fits(locked(s.g), e) /\ Has(locked(s.g), Ctx, "vkdevice")
      BY <1>3, <1>4, <1>5, <2>2
    <3>4. Fits(j, e)
      BY <3>3, FieldsFitting
    <3>5. Has(j, Ctx, "vkdevice") /\ (Has(j, Ctx, "vkdevice") => Has(k, Ctx, "vkdevice"))
      BY <3>3 DEF Has
    <3> HIDE DEF j
    <3>6. Fits(k, e) /\ k.ctx.dev # 0
      BY <3>4, DeviceFits
    <3> HIDE DEF k
    <3>7. Fits(k, [e EXCEPT !.known = TRUE])
      BY <3>5, <3>6, KnownFits
    <3> QED
      BY <3>1, <3>2, <3>7 DEF k, j
  <2>3. CASE ~s.ok
    BY <1>3, <2>1, <2>3 DEF Result
  <2> QED
    BY <2>2, <2>3
<1> QED
  BY <1>6 DEF e

-----------------------------------------------------------------------------
(* What goes with a layer. *)

\* Planes are freed, and then the renderer of their layer.
Vacant(P, o) == [P EXCEPT ![o] = {}]

LEMMA VacantFit ==
  ASSUME NEW h, NEW f, NEW P, Fit(h, f, P), DOMAIN P = Owners, NEW o, o # Ctx, NEW names,
         o \in Owners => P[o] \subseteq Range(names)
  PROVE  Fit(FreeAll(h, o, names), f, Vacant(P, o)) /\ DOMAIN Vacant(P, o) = Owners
<1> DEFINE Q == [P EXCEPT ![o] = @ \ Range(names)]
<1>1. Fit(FreeAll(h, o, names), f, Q)
  BY FreeAllFit
<1>2. Q = Vacant(P, o)
  BY DEF Vacant
<1> QED
  BY <1>1, <1>2 DEF Vacant

LEMMA PlanesFreed ==
  ASSUME NEW h, NEW f, Fits(h, f), NEW l \in Layers, NEW names,
         \A p \in {1, 2} : Names(f.api, Plane(l, p)) \subseteq Range(names)
  PROVE  /\ Fit(FreeAll(h, Plane(l, 1), names), f, Vacant(Owned(f), Plane(l, 1)))
         /\ \A k : Fit(k, f, Vacant(Owned(f), Plane(l, 1))) =>
              Fit(FreeAll(k, Plane(l, 2), names), f, Vacant(Vacant(Owned(f), Plane(l, 1)), Plane(l, 2)))
<1> DEFINE P == Owned(f)
           Q == Vacant(P, Plane(l, 1))
<1>1. Fit(h, f, P) /\ DOMAIN P = Owners
  BY DEF Fits, Owned
<1>2. /\ Plane(l, 1) \in Owners \ {Kept} /\ Plane(l, 2) \in Owners \ {Kept} /\ Plane(l, 1) # Plane(l, 2)
      /\ Plane(l, 1) # Ctx /\ Plane(l, 2) # Ctx
  BY OwnersDiffer DEF Plane, Ctx
<1>3. P[Plane(l, 1)] \subseteq Range(names) /\ P[Plane(l, 2)] \subseteq Range(names)
  BY <1>2 DEF Owned
<1> HIDE DEF P
<1>4. Fit(FreeAll(h, Plane(l, 1), names), f, Q) /\ DOMAIN Q = Owners
  BY <1>1, <1>2, <1>3, VacantFit
<1>5. Q[Plane(l, 2)] \subseteq Range(names)
  BY <1>1, <1>2, <1>3 DEF Vacant
<1> HIDE DEF Q
<1>6. ASSUME NEW k, Fit(k, f, Q) PROVE Fit(FreeAll(k, Plane(l, 2), names), f, Vacant(Q, Plane(l, 2)))
  BY <1>2, <1>4, <1>5, <1>6, VacantFit
<1> QED
  BY <1>4, <1>6 DEF P, Q

LEMMA LayerGone ==
  ASSUME NEW k, NEW f, NEW l \in Layers, Fit(k, f, Vacant(Vacant(Owned(f), Plane(l, 1)), Plane(l, 2))), NEW names,
         Quad(l) \in f.ptr, Names(f.api, Quad(l)) \subseteq Range(names)
  PROVE  Fits(Destroyed(k, Quad(l), names), Without(f, Quad(l))) /\ Fits(k, f)
<1> DEFINE P == Vacant(Vacant(Owned(f), Plane(l, 1)), Plane(l, 2))
<1>1. DOMAIN P = Owners
  BY DEF Vacant, Owned
<1>2. ASSUME NEW x \in Owners
      PROVE  IF x = Plane(l, 1) \/ x = Plane(l, 2) THEN P[x] = {} ELSE P[x] = Owned(f)[x]
  <2> DEFINE Q == Owned(f)
  <2>1. DOMAIN Q = Owners
    BY DEF Owned
  <2> HIDE DEF Q
  <2>2. IF x = Plane(l, 1) \/ x = Plane(l, 2) THEN Vacant(Vacant(Q, Plane(l, 1)), Plane(l, 2))[x] = {}
        ELSE Vacant(Vacant(Q, Plane(l, 1)), Plane(l, 2))[x] = Q[x]
    BY <2>1 DEF Vacant
  <2> QED
    BY <2>2 DEF Q
<1> HIDE DEF P
<1>3. Fits(Destroyed(k, Quad(l), names), Without(f, Quad(l)))
  <2>1. Fit(k, f, P)
    BY DEF P
  <2>2. \A x \in Owners \ {Kept} :
          IF x = Plane(l, 1) \/ x = Plane(l, 2) THEN P[x] = {} ELSE P[x] \subseteq Owned(f)[x]
    BY <1>2
  <2> QED
    BY <1>1, <2>1, <2>2, QuadGone
<1>4. Fits(k, f)
  <2>1. \A x \in Owners \ {Kept} : P[x] \subseteq Owned(f)[x]
    BY <1>2
  <2> QED
    BY <2>1, Weaker DEF P, Fits
<1> QED
  BY <1>3, <1>4

-----------------------------------------------------------------------------
(* Vulkan's layers. *)

LEMMA VkSurfaceFits ==
  ASSUME NEW h, NEW f, Fits(h, f), f.api = "vk", Ctx \in f.ptr
  PROVE  \A r \in mty_vk_ctx_get_surface(h) : Fits(r.g, f)
<1> DEFINE kept(k) == [k EXCEPT !.ctx.bb = FALSE]
           drawn(k) == [vk_ctx_swapchain_barrier(Record(k, {<<Ctx, {"sem0", "cmd", "views", "fbs"}>>}))
                          EXCEPT !.ctx.bb = TRUE]
           stale(k, e) == IF e = "suboptimal" THEN Error(k, "semaphore stays signaled") ELSE k
           used(k) == Use(k, {<<Ctx, {"swapchain"}>>})
           unbegun(k) == Error(k, "semaphore stays signaled")
<1>1. ASSUME NEW k, Fits(k, f), NEW e
      PROVE  /\ Fits(drawn(k), f) /\ Fits(used(k), f) /\ Fits(unbegun(k), f)
             /\ \A j \in vk_ctx_refresh_swapchain(stale(k, e)) : Fits(kept(j), f)
  <2>1. Fits(Record(k, {<<Ctx, {"sem0", "cmd", "views", "fbs"}>>}), f)
    BY <1>1, DriverFits
  <2>2. Fits(drawn(k), f)
    BY <2>1, VkSwapchainFits, FieldsFitting
  <2>3. Fits(used(k), f) /\ Fits(unbegun(k), f)
    BY <1>1, DriverFits
  <2>4. Fits(stale(k, e), f)
    BY <1>1, DriverFits
  <2>5. \A j \in vk_ctx_refresh_swapchain(stale(k, e)) : Fits(kept(j), f)
    <3> HIDE DEF stale
    <3>1. QED
      BY <2>4, VkSwapchainFits, FieldsFitting
  <2>6. QED
    BY <2>2, <2>3, <2>5
<1>2. ASSUME NEW r \in mty_vk_ctx_get_surface(h), r # Result(h, TRUE)
      PROVE  \E k \in {h} \cup vk_ctx_refresh_swapchain(h), e \in Acquisitions :
               \/ r = Result(drawn(used(k)), TRUE) \/ r = Result(unbegun(used(k)), FALSE)
               \/ \E j \in vk_ctx_refresh_swapchain(stale(used(k), e)) : r = Result(kept(j), FALSE)
  <2> DEFINE step(k, e) ==
               CASE e = "out of date" \/ (e = "suboptimal" /\ plat # "android") ->
                      {Result(kept(j), FALSE) : j \in vk_ctx_refresh_swapchain(stale(k, e))}
                 [] OTHER -> {Result(drawn(k), TRUE)}
                             \cup (IF "alloc" \in Faults THEN {Result(unbegun(k), FALSE)} ELSE {})
             from == IF h.ctx.size # h.win.size THEN vk_ctx_refresh_swapchain(h) ELSE {h}
  <2>1. r \in UNION {UNION {step(used(k), e) : e \in Acquisitions} : k \in from}
    BY <1>2 DEF mty_vk_ctx_get_surface
  <2> HIDE DEF kept, drawn, stale, used, unbegun
  <2>2. PICK k \in from, e \in Acquisitions : r \in step(used(k), e)
    <3> HIDE DEF step
    <3>1. QED
      BY <2>1
  <2>3. k \in {h} \cup vk_ctx_refresh_swapchain(h)
    OBVIOUS
  <2>4. \/ r = Result(drawn(used(k)), TRUE) \/ r = Result(unbegun(used(k)), FALSE)
        \/ \E j \in vk_ctx_refresh_swapchain(stale(used(k), e)) : r = Result(kept(j), FALSE)
    BY <2>2
  <2>5. QED
    BY <2>3, <2>4
<1> HIDE DEF kept, drawn, stale, used, unbegun
<1>3. ASSUME NEW r \in mty_vk_ctx_get_surface(h) PROVE Fits(r.g, f)
  <2>1. CASE r = Result(h, TRUE)
    BY <2>1 DEF Result
  <2>2. CASE r # Result(h, TRUE)
    <3>1. PICK k \in {h} \cup vk_ctx_refresh_swapchain(h), e \in Acquisitions :
            \/ r = Result(drawn(used(k)), TRUE) \/ r = Result(unbegun(used(k)), FALSE)
            \/ \E j \in vk_ctx_refresh_swapchain(stale(used(k), e)) : r = Result(kept(j), FALSE)
      BY <1>2, <2>2
    <3>2. Fits(used(k), f)
      BY <1>1, VkSwapchainFits
    <3>3. \/ r.g = drawn(used(k)) \/ r.g = unbegun(used(k))
          \/ \E j \in vk_ctx_refresh_swapchain(stale(used(k), e)) : r.g = kept(j)
      BY <3>1 DEF Result
    <3>4. QED
      BY <1>1, <3>2, <3>3
  <2>3. QED
    BY <2>1, <2>2
<1>4. QED
  BY <1>3

LEMMA VkPresentFits ==
  ASSUME NEW h, NEW f, Fits(h, f), f.api = "vk", Ctx \in f.ptr
  PROVE  \A k \in mty_vk_ctx_present(h) : Fits(k, f)
<1> DEFINE recorded == Record(vk_ctx_swapchain_barrier(h), {<<Ctx, {"sem1", "swapchain"}>>})
           shown == [Submit(recorded) EXCEPT !.ctx.bb = FALSE]
<1>1. Fits(vk_ctx_swapchain_barrier(h), f)
  BY VkSwapchainFits
<1>2. Fits(recorded, f)
  BY <1>1, DriverFits
<1> HIDE DEF recorded
<1>3. Fits(shown, f)
  BY <1>2, DriverFits, FieldsFitting
<1>4. mty_vk_ctx_present(h) = IF ~h.ctx.bb THEN {h} ELSE {shown} \cup vk_ctx_refresh_swapchain(shown)
  BY DEF mty_vk_ctx_present, recorded
<1> HIDE DEF shown
<1>5. QED
  BY <1>3, <1>4, VkSwapchainFits

LEMMA VkLayerNames ==
  LET names == <<"pipeline", "layout", "dset", "dpool", "dlayout", "rp", "nearest", "linear",
                 "ub", "ubmem", "ib", "ibmem", "vb", "vbmem", "frag", "vert">>
  IN /\ \A l : VkNames(Quad(l)) \subseteq Range(names) /\ VkNames(Quad(l)) = Range(VkQuadSteps)
     /\ \A k \in 0..Len(VkQuadSteps) : Range(SubSeq(VkQuadSteps, 1, k)) \subseteq Range(VkQuadSteps)
<1> DEFINE names == <<"pipeline", "layout", "dset", "dpool", "dlayout", "rp", "nearest", "linear",
                      "ub", "ubmem", "ib", "ibmem", "vb", "vbmem", "frag", "vert">>
<1>1. Range(VkQuadSteps) \subseteq Range(names)
  BY DEF Range, VkQuadSteps
<1>2. \A k \in 0..Len(VkQuadSteps) : Range(SubSeq(VkQuadSteps, 1, k)) \subseteq Range(VkQuadSteps)
  BY DEF Range, VkQuadSteps
<1>3. \A l : VkNames(Quad(l)) = Range(VkQuadSteps)
  BY DEF VkNames, Quad
<1> HIDE DEF names
<1>5. \A l : VkNames(Quad(l)) \subseteq Range(names)
  BY <1>1, <1>3
<1> QED
  BY <1>2, <1>3, <1>5 DEF names

LEMMA VkLayerFits ==
  ASSUME NEW h, NEW f, Fits(h, f), f.api = "vk", NEW l \in Layers, Quad(l) \in f.ptr => f.device # 0
  PROVE  Fits(mty_vk_destroy(h, l), Drop(f, Quad(l))) /\ Fits(mty_vk_clear(h, l), f)
<1> DEFINE o == Quad(l)
           plane == <<"view", "image", "mem", "buf", "bufmem">>
           names == <<"pipeline", "layout", "dset", "dpool", "dlayout", "rp", "nearest", "linear",
                      "ub", "ubmem", "ib", "ibmem", "vb", "vbmem", "frag", "vert">>
           j == FreeAll(h, Plane(l, 1), plane)
           k == FreeAll(j, Plane(l, 2), plane)
<1>1. h.ptr = f.ptr /\ h.device = f.device /\ f \in Frames /\ o \in Structures
  BY FitsIs, StructuresAre
<1>2. mty_vk_destroy(h, l) = IF o \notin h.ptr \/ h.device = 0 THEN DestroyedVk(h, o, <<>>) ELSE DestroyedVk(k, o, names)
  BY DEF mty_vk_destroy, vk_destroy_image
<1>3. \A p \in {1, 2} : Names(f.api, Plane(l, p)) \subseteq Range(plane)
  BY ImagesAre DEF Names
<1>4. Names(f.api, o) \subseteq Range(names)
  BY VkLayerNames DEF Names
<1> HIDE DEF plane, names
<1>5. CASE o \notin f.ptr
  <2>1. mty_vk_destroy(h, l) = h
    BY <1>1, <1>2, <1>5 DEF DestroyedVk
  <2>2. f.ptr \ {o} = f.ptr
    BY <1>5
  <2>3. Drop(f, o) = f
    BY <1>1, <1>5, <2>2 DEF Drop, Frames
  <2> QED
    BY <2>1, <2>3, DriverFits DEF mty_vk_clear
<1>6. CASE o \in f.ptr
  <2>1. Fit(j, f, Vacant(Owned(f), Plane(l, 1)))
    BY <1>3, PlanesFreed
  <2>2. Fit(k, f, Vacant(Vacant(Owned(f), Plane(l, 1)), Plane(l, 2)))
    BY <1>3, <2>1, PlanesFreed
  <2> HIDE DEF j, k
  <2>3. Fits(Destroyed(k, o, names), Without(f, o)) /\ Fits(k, f)
    BY <1>4, <1>6, <2>2, LayerGone
  <2>4. Fits(DestroyedVk(k, o, names), Drop(f, o))
    BY <1>1, <2>3, VkDestroyedFits
  <2>5. mty_vk_destroy(h, l) = DestroyedVk(k, o, names)
    BY <1>1, <1>2, <1>6
  <2> QED
    BY <2>4, <2>5, DriverFits DEF mty_vk_clear
<1> QED
  BY <1>5, <1>6

LEMMA VkCreateFits ==
  ASSUME NEW h, NEW f, Fits(h, f), f.api = "vk", NEW l \in Layers, Quad(l) \notin f.ptr, f.device # 0, Referenced(f)
  PROVE  \A r \in mty_vk_create(h, l) : Fits(r.g, IF r.ok THEN Add(f, Quad(l)) ELSE f)
<1> DEFINE o == Quad(l)
           e == Add(f, o)
           p == [f EXCEPT !.ref = @ + 1]
<1>0. f \in Frames /\ o \in Users /\ o \in Structures /\ Home(o) = o
  BY FitsIs, StructuresAre, HomesAre
<1>1. /\ Having(p, o) = e /\ Drop(e, o) = f
      /\ f.ref = 0 => Drop(Having(f, o), o) = f
      /\ e.api = "vk" /\ e.device = f.device
      /\ Having(f, o).api = "vk" /\ Having(f, o).device = f.device
  BY <1>0, VkAddIs DEF Akin
<1>2. p.api = "vk"
  BY <1>0 DEF Frames
<1>3. Names("vk", o) = Range(VkQuadSteps)
  BY VkLayerNames DEF Names
<1> HIDE DEF e, p
<1>4. ASSUME NEW k, Fits(k, p), NEW r \in Create(k, o, VkQuadSteps, LAMBDA x : mty_vk_destroy(x, l))
      PROVE  Fits(r.g, IF r.ok THEN e ELSE f)
  <2> DEFINE m(i) == MakeAll([k EXCEPT !.ptr = @ \cup {o}], o, SubSeq(VkQuadSteps, 1, i))
  <2>0. Len(VkQuadSteps) \in 0..Len(VkQuadSteps)
    BY DEF VkQuadSteps
  <2>1. PICK i \in 0..Len(VkQuadSteps) : r = Result(m(i), TRUE) \/ r = Result(mty_vk_destroy(m(i), l), FALSE)
    BY <1>4, <2>0 DEF Create
  <2>2. Range(SubSeq(VkQuadSteps, 1, i)) \subseteq Names(p.api, o)
    BY <1>2, <1>3, VkLayerNames
  <2> HIDE DEF o
  <2>3. Fits(m(i), e)
    BY <1>0, <1>1, <1>4, <2>2, PrefixFits
  <2> HIDE DEF m
  <2>4. Fits(mty_vk_destroy(m(i), l), Drop(e, o))
    BY <1>1, <2>3, VkLayerFits DEF o
  <2>5. (r.ok /\ r.g = m(i)) \/ (~r.ok /\ r.g = mty_vk_destroy(m(i), l))
    BY <2>1 DEF Result
  <2>6. QED
    BY <1>1, <2>3, <2>4, <2>5
<1>5. ASSUME NEW r \in mty_vk_create(h, l) PROVE Fits(r.g, IF r.ok THEN e ELSE f)
  <2> DEFINE gone(s) == mty_vk_destroy([s.g EXCEPT !.ptr = @ \cup {Quad(l)}], l)
             begun == {IF s.ok THEN s ELSE Result(gone(s), FALSE) : s \in vkproc_global_init(h)}
  <2>1. PICK t \in begun :
          r \in IF t.ok THEN Create(t.g, Quad(l), VkQuadSteps, LAMBDA x : mty_vk_destroy(x, l)) ELSE {t}
    BY DEF mty_vk_create, CreateVk, Then
  <2>2. PICK s \in vkproc_global_init(h) : t = IF s.ok THEN s ELSE Result(gone(s), FALSE)
    OBVIOUS
  <2> HIDE DEF begun
  <2>3. IF s.ok THEN Fits(s.g, p) ELSE s.g = h /\ f.ref = 0
    BY VkReferenceFits DEF p
  <2>4. CASE s.ok
    BY <1>4, <2>1, <2>2, <2>3, <2>4
  <2>5. CASE ~s.ok
    <3> DEFINE d == Having(f, o)
               k == [h EXCEPT !.ptr = @ \cup {o}]
    <3>1. ~r.ok /\ r.g = mty_vk_destroy(k, l) /\ f.ref = 0
      BY <2>1, <2>2, <2>3, <2>5 DEF Result
    <3>2. Fits(k, d)
      BY <1>0, HavingFits
    <3>3. d.api = "vk" /\ d.device # 0 /\ Drop(d, o) = f
      BY <1>1, <3>1
    <3> HIDE DEF d, k
    <3>4. Fits(mty_vk_destroy(k, l), Drop(d, o))
      BY <3>2, <3>3, VkLayerFits
    <3> QED
      BY <3>1, <3>3, <3>4
  <2> QED
    BY <2>4, <2>5
<1> QED
  BY <1>5 DEF e

-----------------------------------------------------------------------------
(* What goes with the UI. *)

\* A texture of the UI: its objects are made before it is there.
Holding(f, o, S) == [Owned(f) EXCEPT ![o] = S]
UITextures == {Clear} \cup {Tex(t) : t \in Textures}

LEMMA UITexturesAre ==
  \A o \in UITextures :
    /\ o \in Owners \ {Kept} /\ o \in Structures \ Users /\ Home(o) = o /\ o # Ctx /\ o # UI
    /\ \A l \in Layers : o # Quad(l)
    /\ \A x \in Owners : Home(x) = o => x = o
<1> TAKE o \in UITextures
<1>1. o \in Owners \ {Kept} /\ o \in Structures \ Users /\ Home(o) = o /\ o # Ctx /\ o # UI
  BY OwnersDiffer, StructuresAre, HomesAre DEF UITextures
<1>2. \A l \in Layers : o # Quad(l)
  BY OwnersDiffer DEF UITextures, Quad, Tex, Clear
<1>3. \A x \in Owners : Home(x) = o => x = o
  BY DEF UITextures, Home, Owners, Ctx, UI, Clear, Kept, Quad, Tex, Plane
<1> QED
  BY <1>1, <1>2, <1>3

LEMMA TextureHeld ==
  ASSUME NEW h, NEW f, Fits(h, f), NEW o \in UITextures, o \notin f.ptr
  PROVE  /\ \A names : Fit(MakeAll(h, o, names), f, Holding(f, o, Range(names)))
         /\ \A k, S, names : Fit(k, f, Holding(f, o, S)) => Fit(FreeAll(k, o, names), f, Holding(f, o, S \ Range(names)))
         /\ \A k : Fit(k, f, Holding(f, o, {})) => Fits(k, f)
<1> DEFINE P == Owned(f)
<1>1. /\ Fit(h, f, P) /\ DOMAIN P = Owners /\ P[o] = {} /\ o # Ctx /\ o \in Owners
      /\ P = [x \in Owners |-> P[x]]
  BY UITexturesAre DEF Fits, Owned
<1> HIDE DEF P
<1>2. ASSUME NEW names PROVE Fit(MakeAll(h, o, names), f, [P EXCEPT ![o] = Range(names)])
  <2>1. Fit(MakeAll(h, o, names), f, [P EXCEPT ![o] = @ \cup Range(names)])
    BY <1>1, MakeAllFit
  <2>2. [P EXCEPT ![o] = @ \cup Range(names)] = [P EXCEPT ![o] = Range(names)]
    BY <1>1
  <2> QED
    BY <2>1, <2>2
<1>3. ASSUME NEW k, NEW S, NEW names, Fit(k, f, [P EXCEPT ![o] = S])
      PROVE  Fit(FreeAll(k, o, names), f, [P EXCEPT ![o] = S \ Range(names)])
  <2> DEFINE Q == [P EXCEPT ![o] = S]
  <2>1. DOMAIN Q = Owners /\ [Q EXCEPT ![o] = @ \ Range(names)] = [P EXCEPT ![o] = S \ Range(names)]
    BY <1>1
  <2> HIDE DEF Q
  <2>2. Fit(FreeAll(k, o, names), f, [Q EXCEPT ![o] = @ \ Range(names)])
    BY <1>1, <1>3, <2>1, FreeAllFit DEF Q
  <2> QED
    BY <2>1, <2>2
<1>4. ASSUME NEW k, Fit(k, f, [P EXCEPT ![o] = {}]) PROVE Fit(k, f, P)
  <2>1. [P EXCEPT ![o] = {}] = P
    BY <1>1
  <2> QED
    BY <1>4, <2>1
<1> QED
  BY <1>2, <1>3, <1>4 DEF P, Holding, Fits

LEMMA TextureThere ==
  ASSUME NEW k, NEW f, NEW o \in UITextures, NEW S, Fit(k, f, Holding(f, o, S)), S \subseteq Names(f.api, o)
  PROVE  Fits([k EXCEPT !.ptr = @ \cup {o}], Having(f, o))
<1> DEFINE P == Holding(f, o, S)
           j == [k EXCEPT !.ptr = k.ptr \cup {o}]
           e == [f EXCEPT !.ptr = k.ptr \cup {o}]
<1>0. o \in Owners \ {Kept} /\ o \in Structures /\ Home(o) = o
  BY UITexturesAre
<1>1. k.ptr = f.ptr /\ e = Having(f, o) /\ k.ptr \cup {o} \in SUBSET Structures
  BY <1>0, LikeIs DEF Having, Frames
<1>2. Fit(j, e, P)
  BY <1>1, PtrFit
<1>3. e.ptr = f.ptr \cup {o} /\ e.api = f.api
  BY <1>1, LikeIs
<1> HIDE DEF e, j
<1>4. ASSUME NEW x \in Owners \ {Kept} PROVE P[x] \subseteq Owned(e)[x]
  BY <1>0, <1>3 DEF Owned, Holding
<1>5. Fit(j, e, Owned(e))
  BY <1>2, <1>4, Weaker
<1> QED
  BY <1>1, <1>5 DEF j, Fits

\* What of it is freed one after the other before it goes.
LEMMA TextureGone ==
  ASSUME NEW k, NEW f, NEW o \in UITextures, Fit(k, f, Holding(f, o, {}))
  PROVE  Fits([k EXCEPT !.ptr = @ \ {o}], Without(f, o))
<1> DEFINE P == Holding(f, o, {})
<1>1. \A x \in Owners \ {Kept} : IF Home(x) = o THEN P[x] = {} ELSE P[x] \subseteq Owned(f)[x]
  BY UITexturesAre DEF Holding, Owned
<1> HIDE DEF P
<1> QED
  BY <1>1, GoneFits DEF P

-----------------------------------------------------------------------------
(* Vulkan's planes, draw and UI. *)

LEMMA VkPlaneFits ==
  ASSUME NEW h, NEW f, Fits(h, f), f.api = "vk", NEW l \in Layers, Quad(l) \in f.ptr, NEW p, NEW fmt, NEW size,
         NEW r \in vk_refresh_image(h, l, p, fmt, size)
  PROVE  Fits(r.g, f)
<1> DEFINE o == Plane(l, p)
           made == vk_create_image(vk_destroy_image(h, o), o)
           kept(k) == SetPlane(k, l, p, fmt, size)
           copied(k) == vk_image_gpu_copy(kept(k), o)
           failed(k) == NoPlaneAt(vk_destroy_image(k, o), l, p)
<1>0. o # Ctx
  BY DEF Plane, Ctx
<1>1. ASSUME NEW s \in made
      PROVE  Fits(copied(s.g), f) /\ Fits(failed(s.g), f) /\ Fits(kept(s.g), f)
  <2>1. Fits(vk_destroy_image(h, o), f)
    BY <1>0, VkImageFits
  <2>2. Fits(s.g, f)
    BY <2>1, VkImageMadeFits
  <2> HIDE DEF made, o
  <2>3. Fits(kept(s.g), f)
    BY <2>2, QuadFits
  <2> HIDE DEF kept
  <2>4. Fits(copied(s.g), f)
    BY <2>3, VkImageFits
  <2>5. Fits(vk_destroy_image(s.g, o), f)
    BY <1>0, <2>2, VkImageFits
  <2>6. Fits(failed(s.g), f)
    BY <2>5, QuadFits
  <2>7. QED
    BY <2>3, <2>4, <2>6
<1>2. CASE Differs(h, l, p, "image", fmt, size)
  <2> DEFINE up(s) == {Result(copied(s.g), TRUE), Result(kept(s.g), FALSE)}
             all == UNION {IF s.ok THEN up(s) ELSE {Result(failed(s.g), FALSE)} : s \in made}
  <2>0. r \in all
    BY <1>2 DEF vk_refresh_image
  <2> HIDE DEF made, copied, kept, failed
  <2>1. PICK s \in made : r \in IF s.ok THEN up(s) ELSE {Result(failed(s.g), FALSE)}
    <3> HIDE DEF up
    <3>1. QED
      BY <2>0
  <2>2. (r.ok /\ r.g = copied(s.g)) \/ (~r.ok /\ r.g = failed(s.g)) \/ (~r.ok /\ r.g = kept(s.g))
    BY <2>1 DEF Result
  <2>3. QED
    BY <1>1, <2>2
<1>3. CASE ~Differs(h, l, p, "image", fmt, size)
  <2>1. r.g = vk_image_gpu_copy(h, o) \/ r.g = h
    BY <1>3 DEF vk_refresh_image, Result
  <2>5. QED
    BY <2>1, VkImageFits
<1>4. QED
  BY <1>2, <1>3

LEMMA VkRenderFits ==
  ASSUME NEW h, NEW f, Fits(h, f), f.api = "vk", NEW l \in Layers, Quad(l) \in f.ptr, NEW fmt, NEW size,
         NEW k \in mty_vk_render(h, l, fmt, size)
  PROVE  Fits(k, f)
<1> DEFINE j == SetFormat(h, l, fmt)
           loaded == fmt_reload_textures(j, l, fmt, size, vk_refresh_image)
<1>1. Fits(j, f)
  BY QuadFits
<1> DEFINE open(x) == Error(Record(x, {<<Quad(l), {"rp", "pipeline"}>>}), "render pass left open")
           draw(x) == {Result(VkDraw(x, l), TRUE)} \cup (IF "map" \in Faults THEN {Result(open(x), FALSE)} ELSE {})
<1>2. k = j \/ \E s \in loaded : k = s.g \/ k = VkDraw(s.g, l) \/ k = open(s.g)
  <2>1. k = j \/ \E t \in Then(loaded, draw) : k = t.g
    BY DEF mty_vk_render
  <2> HIDE DEF j, loaded, draw
  <2>2. ASSUME NEW t \in Then(loaded, draw) PROVE \E s \in loaded : t = s \/ t \in draw(s.g)
    BY DEF Then
  <2> HIDE DEF open
  <2>3. \A x, t : t \in draw(x) => t.g = VkDraw(x, l) \/ t.g = open(x)
    BY DEF draw, Result
  <2>4. QED
    BY <2>1, <2>2, <2>3
<1> HIDE DEF j
<1>3. ASSUME NEW s \in loaded PROVE Fits(s.g, f)
  <2>1. \A x, p : Fits(x, f) => \A r \in vk_refresh_image(x, l, p, fmt, size) : Fits(r.g, f)
    BY VkPlaneFits
  <2>2. CASE fmt = "bgra"
    BY <1>1, <2>1, <2>2 DEF fmt_reload_textures
  <2>3. CASE fmt = "nv12"
    <3>1. PICK r \in vk_refresh_image(j, l, 1, fmt, size) :
            s \in IF r.ok THEN vk_refresh_image(r.g, l, 2, fmt, size) ELSE {r}
      BY <2>3 DEF fmt_reload_textures, Then
    <3> QED
      BY <1>1, <2>1, <3>1
  <2>4. CASE fmt # "bgra" /\ fmt # "nv12"
    BY <1>1, <2>4 DEF fmt_reload_textures, Result
  <2> QED
    BY <2>2, <2>3, <2>4
<1> HIDE DEF loaded
<1>4. ASSUME NEW x, Fits(x, f) PROVE Fits(VkDraw(x, l), f) /\ Fits(open(x), f)
  <2>1. Fits(Shown(x, l), f)
    BY <1>4, QuadFits
  <2>2. Fits(VkDraw(x, l), f)
    BY <2>1, DriverFits DEF VkDraw
  <2>3. Fits(Record(x, {<<Quad(l), {"rp", "pipeline"}>>}), f)
    BY <1>4, DriverFits
  <2>4. Fits(open(x), f)
    BY <2>3, DriverFits
  <2> QED
    BY <2>2, <2>4
<1> HIDE DEF open
<1> QED
  BY <1>1, <1>2, <1>3, <1>4

LEMMA VkTextureFits ==
  ASSUME NEW h, NEW f, Fits(h, f), f.api = "vk", NEW o \in UITextures
  PROVE  /\ (o \in f.ptr => UI \in f.ptr /\ f.device # 0) => Fits(mty_vk_ui_destroy_texture(h, o), Without(f, o))
         /\ o \notin f.ptr => \A r \in mty_vk_ui_create_texture(h, o) : Fits(r.g, IF r.ok THEN Having(f, o) ELSE f)
<1>a. h.ptr = f.ptr /\ h.device = f.device /\ f \in Frames /\ o # Ctx
  BY FitsIs, UITexturesAre
<1>b. Names(f.api, o) = Range(ImageSteps) \cup {"dset"}
  BY ImagesAre DEF UITextures, Names
<1>0. /\ h.ptr = f.ptr /\ h.device = f.device /\ f \in Frames
      /\ Names(f.api, o) = Range(ImageSteps) \cup {"dset"} /\ o # Ctx
  BY <1>a, <1>b
<1>1. ASSUME o \in f.ptr => UI \in f.ptr /\ f.device # 0 PROVE Fits(mty_vk_ui_destroy_texture(h, o), Without(f, o))
  <2>1. CASE o \notin f.ptr
    <3>1. f.ptr \ {o} = f.ptr
      BY <2>1
    <3>2. Without(f, o) = f
      BY <1>0, <3>1 DEF Without, Frames
    <3> QED
      BY <1>0, <2>1, <3>2 DEF mty_vk_ui_destroy_texture
  <2>2. CASE o \in f.ptr
    <3> DEFINE P == Owned(f)
               k == FreeAll(h, o, <<"dset">>)
               j == vk_destroy_image(k, o)
    <3>1. Fit(h, f, P) /\ DOMAIN P = Owners /\ P[o] \subseteq Range(ImageSteps) \cup {"dset"} /\ o \in Owners
      BY <1>0, UITexturesAre DEF Fits, Owned
    <3> HIDE DEF P
    <3>2. Range(<<"dset">>) = {"dset"}
      BY DEF Range
    <3> DEFINE Q == [P EXCEPT ![o] = @ \ {"dset"}]
    <3>3. Fit(k, f, Q)
      BY <1>0, <3>1, <3>2, FreeAllFit
    <3>4. DOMAIN Q = Owners
      BY <3>1
    <3>5. [Q EXCEPT ![o] = @ \ Range(ImageSteps)] = [P EXCEPT ![o] = {}]
      BY <3>1
    <3> HIDE DEF Q, k
    <3>6. Fit(j, f, [Q EXCEPT ![o] = @ \ Range(ImageSteps)])
      BY <1>0, <3>3, <3>4, FreeAllFit, ImagesAre DEF vk_destroy_image
    <3>7. Fit(j, f, Holding(f, o, {}))
      BY <3>5, <3>6 DEF Holding, P
    <3>8. mty_vk_ui_destroy_texture(h, o) = [[j EXCEPT !.ptr = @ \ {o}] EXCEPT !.sent = @ \ {o}]
      BY <1>0, <1>1, <2>2 DEF mty_vk_ui_destroy_texture, Free, k
    <3> HIDE DEF j
    <3> DEFINE i == [j EXCEPT !.ptr = @ \ {o}]
    <3>9. Fits(i, Without(f, o))
      BY <3>7, TextureGone
    <3> HIDE DEF i
    <3>10. Fits([i EXCEPT !.sent = @ \ {o}], Without(f, o))
      BY <3>9, FieldsFitting
    <3> QED
      BY <3>8, <3>10 DEF i
  <2> QED
    BY <2>1, <2>2
<1>2. ASSUME o \notin f.ptr, NEW r \in mty_vk_ui_create_texture(h, o)
      PROVE  Fits(r.g, IF r.ok THEN Having(f, o) ELSE f)
  <2> DEFINE names == ImageSteps \o <<"dset">>
             m(i) == MakeAll(h, o, SubSeq(names, 1, i))
             k == MakeAll(h, o, names)
  <2>1. PICK i \in 0..Len(ImageSteps) :
          \/ r = Result([k EXCEPT !.ptr = @ \cup {o}], TRUE)
          \/ r = Result(vk_destroy_image(m(i), o), FALSE)
    <3>1. 0 \in 0..Len(ImageSteps)
      BY DEF ImageSteps
    <3> QED
      BY <1>2, <3>1 DEF mty_vk_ui_create_texture
  <2>2. Range(names) = Names(f.api, o) /\ Range(SubSeq(names, 1, i)) \subseteq Range(ImageSteps)
    BY <1>0, ImagesAre
  <2> HIDE DEF names
  <2>3. Fit(k, f, Holding(f, o, Range(names))) /\ Fit(m(i), f, Holding(f, o, Range(SubSeq(names, 1, i))))
    BY <1>2, TextureHeld
  <2> HIDE DEF k, m
  <2>4. Fits([k EXCEPT !.ptr = @ \cup {o}], Having(f, o))
    BY <2>2, <2>3, TextureThere
  <2>5. Fits(vk_destroy_image(m(i), o), f)
    <3>1. Fit(vk_destroy_image(m(i), o), f,
              Holding(f, o, Range(SubSeq(names, 1, i)) \ Range(<<"view", "image", "mem", "buf", "bufmem">>)))
      BY <1>2, <2>3, TextureHeld DEF vk_destroy_image
    <3>2. Range(SubSeq(names, 1, i)) \ Range(<<"view", "image", "mem", "buf", "bufmem">>) = {}
      BY <2>2, ImagesAre
    <3>3. Fit(vk_destroy_image(m(i), o), f, Holding(f, o, {}))
      BY <3>1, <3>2
    <3> QED
      BY <1>2, <3>3, TextureHeld
  <2> DEFINE a == [k EXCEPT !.ptr = @ \cup {o}]
             b == vk_destroy_image(m(i), o)
  <2>6. r = Result(a, TRUE) \/ r = Result(b, FALSE)
    BY <2>1
  <2> HIDE DEF a, b
  <2>7. (r.ok /\ r.g = a) \/ (~r.ok /\ r.g = b)
    BY <2>6 DEF Result
  <2> QED
    BY <2>4, <2>5, <2>7 DEF a, b
<1> QED
  BY <1>1, <1>2

\* What freeing an owner's objects leaves.
LEMMA LiveAfter ==
  ASSUME NEW h, NEW f, NEW P, Fit(h, f, P), NEW o \in Owners \ {Kept}, NEW names
  PROVE  /\ \A x \in Owners : x # o => FreeAll(h, o, names).live[x] = h.live[x]
         /\ FreeAll(h, o, names).live[o] = h.live[o] \ Range(names)
<1> DEFINE S == Range(names) \cap h.has[o]
           k == [h EXCEPT !.has[o] = @ \ S, !.live[o] = @ \ S,
                          !.old = IF h.live[o] \subseteq S THEN @ \ {o} ELSE @,
                          !.rec = IF o \in @ THEN @ \cup {Gone} ELSE @]
<1>0. DOMAIN h.live = Owners /\ "live" \in DOMAIN h /\ h.live[o] \subseteq h.has[o]
  BY DEF Fit, Like
<1>1. \/ S = {} /\ FreeAll(h, o, names) = h
      \/ FreeAll(h, o, names) = k
      \/ FreeAll(h, o, names) = Error(k, "freed twice")
      \/ FreeAll(h, o, names) = Error(k, "freed before its children")
  <2> DEFINE twice == ~(S \subseteq h.live[o]) /\ (h.api # "gl" \/ Living(h) # {})
             early == o = Ctx /\ FreedEarly(h, names)
  <2>1. FreeAll(h, o, names) = CASE S = {} -> h
                                 [] twice -> Error(k, "freed twice")
                                 [] early -> Error(k, "freed before its children")
                                 [] OTHER -> k
    BY DEF FreeAll
  <2> HIDE DEF S, k, twice, early
  <2>2. QED
    BY <2>1
<1>2. \A x \in Owners : k.live[x] = IF x = o THEN h.live[o] \ S ELSE h.live[x]
  BY <1>0
<1>3. h.live[o] \ S = h.live[o] \ Range(names)
  BY <1>0
<1>4. \A w : Error(k, w).live = k.live
  BY DEF Error
<1> HIDE DEF k
<1>5. FreeAll(h, o, names).live = k.live \/ (S = {} /\ FreeAll(h, o, names).live = h.live)
  BY <1>1, <1>4
<1> HIDE DEF S
<1> QED
  BY <1>2, <1>3, <1>5

LEMMA NarrowFit ==
  ASSUME NEW h, NEW f, Fits(h, f), NEW o \in Owners \ {Kept}, NEW S, h.live[o] \subseteq S
  PROVE  Fit(h, f, [Owned(f) EXCEPT ![o] = S])
<1> DEFINE P == Owned(f)
<1>1. Fit(h, f, P) /\ DOMAIN P = Owners
  BY DEF Fits, Owned
<1> HIDE DEF P
<1>2. Fit(h, f, [P EXCEPT ![o] = S])
  BY <1>1 DEF Fit
<1> QED
  BY <1>2 DEF P

LEMMA VkUINames ==
  LET names == <<"pipeline", "layout", "dlayout", "dpool", "sampler", "rp_clear", "rp", "frag", "vert">>
      buffers == <<"ib", "ibmem", "vb", "vbmem">>
  IN /\ VkNames(UI) \ Range(buffers) \subseteq Range(names)
     /\ \A k \in 0..Len(VkUISteps) : Range(SubSeq(VkUISteps, 1, k)) \subseteq VkNames(UI)
     /\ \A b \in {"vb", "ib"} : Range(<<b, IF b = "vb" THEN "vbmem" ELSE "ibmem">>) \subseteq VkNames(UI)
<1>1. Range(VkUISteps) \subseteq
        Range(<<"pipeline", "layout", "dlayout", "dpool", "sampler", "rp_clear", "rp", "frag", "vert">>)
  BY DEF Range, VkUISteps
<1>2. \A k \in 0..Len(VkUISteps) : Range(SubSeq(VkUISteps, 1, k)) \subseteq Range(VkUISteps)
  BY DEF Range, VkUISteps
<1>3. VkNames(UI) = Range(VkUISteps) \cup {"vb", "vbmem", "ib", "ibmem"}
  BY DEF VkNames, UI
<1>4. Range(<<"ib", "ibmem", "vb", "vbmem">>) = {"vb", "vbmem", "ib", "ibmem"}
  BY DEF Range
<1>5. \A b, c : Range(<<b, c>>) = {b, c}
  BY DEF Range
<1> QED
  BY <1>1, <1>2, <1>3, <1>4, <1>5

\* The UI goes, with its image that stands for no texture.
Without2(f) == Drop(Without(f, Clear), UI)

LEMMA VkUIGone ==
  ASSUME NEW h, NEW f, Fits(h, f), f.api = "vk", UI \in f.ptr => f.device # 0, Clear \in f.ptr => UI \in f.ptr
  PROVE  Fits(mty_vk_ui_destroy(h), Without2(f))
<1> DEFINE names == <<"pipeline", "layout", "dlayout", "dpool", "sampler", "rp_clear", "rp", "frag", "vert">>
           buffers == <<"ib", "ibmem", "vb", "vbmem">>
           j == FreeAll(h, UI, buffers)
           k == mty_vk_ui_destroy_texture(j, Clear)
           m == [k EXCEPT !.len = NewLen]
           e == Without(f, Clear)
<1>0. /\ h.ptr = f.ptr /\ h.device = f.device /\ f \in Frames
      /\ UI \in Structures /\ UI \in Owners \ {Kept} /\ UI # Ctx /\ Clear \in UITextures /\ Clear # UI
      /\ Clear \in Owners \ {Kept} /\ Clear \in Structures
  BY FitsIs, StructuresAre, OwnersDiffer DEF UITextures
<1>1. e \in Frames /\ Akin(e, f) /\ e.ptr = f.ptr \ {Clear}
  BY <1>0, FramesAre
<1>2. mty_vk_ui_destroy(h) = IF UI \notin h.ptr \/ h.device = 0 THEN DestroyedVk(h, UI, <<>>)
                             ELSE DestroyedVk(m, UI, names)
  BY DEF mty_vk_ui_destroy
<1>3. CASE UI \notin f.ptr
  <2>1. mty_vk_ui_destroy(h) = h
    BY <1>0, <1>2, <1>3 DEF DestroyedVk
  <2>2. f.ptr \ {Clear} = f.ptr /\ f.ptr \ {UI} = f.ptr
    BY <1>3
  <2>3. Without(f, Clear) = f
    BY <1>0, <2>2 DEF Without, Frames
  <2>4. Drop(f, UI) = f
    BY <1>0, <1>3, <2>2 DEF Drop, Frames
  <2> QED
    BY <2>1, <2>3, <2>4 DEF Without2
<1>4. CASE UI \in f.ptr
  <2>1. Fits(j, f)
    BY <1>0, FreedFits
  <2>2. j.live[UI] \subseteq VkNames(UI) \ Range(buffers)
    <3>1. Fit(h, f, Owned(f))
      BY DEF Fits
    <3>2. j.live[UI] = h.live[UI] \ Range(buffers)
      BY <1>0, <3>1, LiveAfter
    <3>3. h.live[UI] \subseteq VkNames(UI)
      BY <1>0, <1>4, <3>1, HomesAre DEF Fit, Owned, Names
    <3> QED
      BY <3>2, <3>3
  <2> HIDE DEF j
  <2>3. Fits(k, e)
    BY <1>0, <1>4, <2>1, VkTextureFits
  <2>4. k.live[UI] = j.live[UI]
    <3> DEFINE a == Free(j, Clear, "dset")
               b == vk_destroy_image(a, Clear)
    <3>1. Fits(a, f) /\ Fits(b, f)
      <4>1. Fits(a, f)
        BY <1>0, <2>1, FreedFits, UITexturesAre
      <4> HIDE DEF a
      <4> QED
        BY <1>0, <4>1, VkImageFits, UITexturesAre
    <3>2. Fit(j, f, Owned(f)) /\ Fit(a, f, Owned(f))
      BY <2>1, <3>1 DEF Fits
    <3>3. a.live[UI] = j.live[UI]
      BY <1>0, <3>2, LiveAfter DEF Free
    <3>4. k = j \/ k = [b EXCEPT !.ptr = @ \ {Clear}, !.sent = @ \ {Clear}]
      BY DEF mty_vk_ui_destroy_texture
    <3> HIDE DEF a
    <3>5. b.live[UI] = a.live[UI]
      BY <1>0, <3>2, LiveAfter DEF vk_destroy_image
    <3>6. "live" \in DOMAIN b
      BY <3>1 DEF Fits, Fit, Like
    <3> HIDE DEF b, k
    <3> QED
      BY <3>3, <3>4, <3>5, <3>6
  <2> HIDE DEF k
  <2>5. Fits(m, e)
    BY <2>3, FieldsFitting
  <2>6. m.live[UI] \subseteq VkNames(UI) \ Range(buffers)
    BY <2>2, <2>4
  <2> HIDE DEF m, e
  <2> DEFINE P == [Owned(e) EXCEPT ![UI] = VkNames(UI) \ Range(buffers)]
  <2>7. Fit(m, e, P)
    BY <1>0, <2>5, <2>6, NarrowFit
  <2>8. DOMAIN P = Owners /\ P[UI] \subseteq Range(names) /\ \A x \in Owners : x # UI => P[x] = Owned(e)[x]
    BY <1>0, VkUINames DEF Owned
  <2>9. \A x \in Owners \ {Kept} : Home(x) = UI => x = UI
    BY DEF Home, Owners, Ctx, UI, Clear, Kept, Quad, Tex, Plane
  <2>h. Home(UI) = UI
    BY HomesAre
  <2> HIDE DEF P, names
  <2>10. UI \in e.ptr /\ e.api = "vk"
    BY <1>0, <1>1, <1>4 DEF Akin
  <2>11. \A x \in Owners \ {Kept} : IF Home(x) = UI THEN x = UI \/ P[x] = {} ELSE P[x] \subseteq Owned(e)[x]
    BY <2>8, <2>9, <2>h
  <2>12. Fits(Destroyed(m, UI, names), Without(e, UI))
    BY <1>0, <2>7, <2>8, <2>10, <2>11, DestroyedFits
  <2>13. Fits(DestroyedVk(m, UI, names), Drop(e, UI))
    BY <1>0, <2>5, <2>12, VkDestroyedFits
  <2>14. mty_vk_ui_destroy(h) = DestroyedVk(m, UI, names)
    BY <1>0, <1>2, <1>4
  <2> QED
    BY <2>13, <2>14 DEF Without2, e
<1> QED
  BY <1>3, <1>4

LEMMA VkUIBegunFits ==
  ASSUME NEW h, NEW f, Fits(h, f), f.api = "vk", UI \notin f.ptr, Clear \notin f.ptr, f.device # 0, Referenced(f)
  PROVE  \A r \in CreateVk(h, UI, VkUISteps, mty_vk_ui_destroy) : Fits(r.g, IF r.ok THEN Add(f, UI) ELSE f)
<1> DEFINE o == UI
           e == Add(f, o)
           p == [f EXCEPT !.ref = @ + 1]
<1>0. f \in Frames /\ o \in Users /\ o \in Structures /\ Home(o) = o /\ Clear # UI /\ Clear \in Structures
  BY FitsIs, StructuresAre, HomesAre, OwnersDiffer
<1>1. /\ Having(p, o) = e /\ Drop(e, o) = f
      /\ f.ref = 0 => Drop(Having(f, o), o) = f
      /\ e \in Frames /\ e.api = "vk" /\ e.device = f.device /\ e.ptr = f.ptr \cup {UI}
      /\ Having(f, o) \in Frames
      /\ Having(f, o).api = "vk" /\ Having(f, o).device = f.device /\ Having(f, o).ptr = f.ptr \cup {UI}
  BY <1>0, VkAddIs DEF Akin
<1>2. p.api = "vk"
  BY <1>0 DEF Frames
<1>3. Names("vk", o) = VkNames(UI)
  BY DEF Names
<1>c. ASSUME NEW x \in Frames, Clear \notin x.ptr PROVE Without2(x) = Drop(x, UI)
  <2>1. x.ptr \ {Clear} = x.ptr
    BY <1>c
  <2>2. Without(x, Clear) = x
    BY <2>1 DEF Without, Frames
  <2> QED
    BY <2>2 DEF Without2
<1>d. Without2(e) = f /\ (f.ref = 0 => Without2(Having(f, o)) = f)
  <2> DEFINE a == Having(f, o)
  <2>1. a \in Frames /\ Clear \notin a.ptr /\ e \in Frames /\ Clear \notin e.ptr
    BY <1>0, <1>1
  <2>2. Drop(e, UI) = f /\ (f.ref = 0 => Drop(a, UI) = f)
    BY <1>1
  <2> HIDE DEF a, e
  <2>3. Without2(e) = f /\ (f.ref = 0 => Without2(a) = f)
    BY <1>c, <2>1, <2>2
  <2> QED
    BY <2>3 DEF a
<1> HIDE DEF e, p
<1>4. ASSUME NEW k, Fits(k, p), NEW r \in Create(k, o, VkUISteps, mty_vk_ui_destroy)
      PROVE  Fits(r.g, IF r.ok THEN e ELSE f)
  <2> DEFINE m(i) == MakeAll([k EXCEPT !.ptr = @ \cup {o}], o, SubSeq(VkUISteps, 1, i))
  <2>0. Len(VkUISteps) \in 0..Len(VkUISteps)
    BY DEF VkUISteps
  <2>1. PICK i \in 0..Len(VkUISteps) : r = Result(m(i), TRUE) \/ r = Result(mty_vk_ui_destroy(m(i)), FALSE)
    BY <1>4, <2>0 DEF Create
  <2>2. Range(SubSeq(VkUISteps, 1, i)) \subseteq Names(p.api, o)
    BY <1>2, <1>3, VkUINames
  <2> HIDE DEF o
  <2>3. Fits(m(i), e)
    BY <1>0, <1>1, <1>4, <2>2, PrefixFits
  <2> HIDE DEF m
  <2>4. Fits(mty_vk_ui_destroy(m(i)), Without2(e))
    BY <1>0, <1>1, <2>3, VkUIGone
  <2>5. (r.ok /\ r.g = m(i)) \/ (~r.ok /\ r.g = mty_vk_ui_destroy(m(i)))
    BY <2>1 DEF Result
  <2>6. QED
    BY <1>d, <2>3, <2>4, <2>5
<1>5. ASSUME NEW r \in CreateVk(h, UI, VkUISteps, mty_vk_ui_destroy) PROVE Fits(r.g, IF r.ok THEN e ELSE f)
  <2> DEFINE gone(s) == mty_vk_ui_destroy([s.g EXCEPT !.ptr = @ \cup {UI}])
             begun == {IF s.ok THEN s ELSE Result(gone(s), FALSE) : s \in vkproc_global_init(h)}
  <2>1. PICK t \in begun :
          r \in IF t.ok THEN Create(t.g, UI, VkUISteps, mty_vk_ui_destroy) ELSE {t}
    BY <1>5 DEF CreateVk, Then
  <2>2. PICK s \in vkproc_global_init(h) : t = IF s.ok THEN s ELSE Result(gone(s), FALSE)
    OBVIOUS
  <2> HIDE DEF begun
  <2>3. IF s.ok THEN Fits(s.g, p) ELSE s.g = h /\ f.ref = 0
    BY VkReferenceFits DEF p
  <2>4. CASE s.ok
    BY <1>4, <2>1, <2>2, <2>3, <2>4
  <2>5. CASE ~s.ok
    <3> DEFINE d == Having(f, o)
               k == [h EXCEPT !.ptr = @ \cup {o}]
    <3>1. ~r.ok /\ r.g = mty_vk_ui_destroy(k) /\ f.ref = 0
      BY <2>1, <2>2, <2>3, <2>5 DEF Result
    <3>2. Fits(k, d)
      BY <1>0, HavingFits
    <3>3. d.api = "vk" /\ d.device # 0 /\ UI \in d.ptr /\ Without2(d) = f
      BY <1>1, <1>d, <3>1
    <3> HIDE DEF d, k
    <3>4. Fits(mty_vk_ui_destroy(k), Without2(d))
      BY <3>2, <3>3, VkUIGone
    <3> QED
      BY <3>1, <3>3, <3>4
  <2> QED
    BY <2>4, <2>5
<1> QED
  BY <1>5 DEF e

LEMMA VkUICreateFits ==
  ASSUME NEW h, NEW f, Fits(h, f), f.api = "vk", UI \notin f.ptr, Clear \notin f.ptr, f.device # 0, Referenced(f)
  PROVE  \A r \in mty_vk_ui_create(h) : Fits(r.g, IF r.ok THEN Having(Add(f, UI), Clear) ELSE f)
<1> DEFINE begun == CreateVk(h, UI, VkUISteps, mty_vk_ui_destroy)
           e == Add(f, UI)
<1>0. f \in Frames /\ UI \in Users /\ Clear # UI /\ Clear \in UITextures
  BY FitsIs, StructuresAre, OwnersDiffer DEF UITextures
<1>1. /\ Drop(e, UI) = f
      /\ e \in Frames /\ e.api = "vk" /\ e.device = f.device /\ e.ptr = f.ptr \cup {UI}
  BY <1>0, VkAddIs DEF Akin
<1>2. Without2(e) = f /\ Clear \notin e.ptr
  <2>1. e.ptr \ {Clear} = e.ptr /\ Clear \notin e.ptr
    BY <1>0, <1>1
  <2> HIDE DEF e
  <2>2. Without(e, Clear) = e
    BY <1>1, <2>1 DEF Without, Frames
  <2> QED
    BY <1>1, <2>1, <2>2 DEF Without2
<1>3. \A t \in begun : Fits(t.g, IF t.ok THEN e ELSE f)
  BY VkUIBegunFits
<1>n. ASSUME NEW k, Fits(k, f) PROVE Fits(mty_vk_ui_destroy(k), f)
  <2>1. k.ptr = f.ptr
    BY <1>n, FitsIs
  <2>2. mty_vk_ui_destroy(k) = k
    BY <2>1 DEF mty_vk_ui_destroy, DestroyedVk
  <2> QED
    BY <1>n, <2>2
<1> HIDE DEF e
<1>4. ASSUME NEW r \in mty_vk_ui_create(h) PROVE Fits(r.g, IF r.ok THEN Having(e, Clear) ELSE f)
  <2> DEFINE all == Then(begun, LAMBDA x : mty_vk_ui_create_texture(x, Clear))
  <2>1. PICK s \in all : r = IF s.ok THEN s ELSE Result(mty_vk_ui_destroy(s.g), FALSE)
    BY <1>4 DEF mty_vk_ui_create
  <2>2. PICK t \in begun : s \in IF t.ok THEN mty_vk_ui_create_texture(t.g, Clear) ELSE {t}
    BY DEF Then
  <2> HIDE DEF all, begun
  <2>3. (r.ok /\ s.ok /\ r.g = s.g) \/ (~r.ok /\ ~s.ok /\ r.g = mty_vk_ui_destroy(s.g))
    BY <2>1 DEF Result
  <2>4. CASE t.ok
    <3>1. Fits(s.g, IF s.ok THEN Having(e, Clear) ELSE e)
      BY <1>0, <1>1, <1>2, <1>3, <2>2, <2>4, VkTextureFits
    <3>2. ~s.ok => Fits(mty_vk_ui_destroy(s.g), Without2(e))
      BY <1>1, <1>2, <3>1, VkUIGone
    <3> QED
      BY <1>2, <2>3, <3>1, <3>2
  <2>5. CASE ~t.ok
    BY <1>3, <1>n, <2>2, <2>3, <2>5
  <2> QED
    BY <2>4, <2>5
<1> QED
  BY <1>4 DEF e

LEMMA VkUIRenderFits ==
  ASSUME NEW h, NEW f, Fits(h, f), f.api = "vk", UI \in f.ptr
  PROVE  \A need : \A k \in mty_vk_ui_render(h, need) : Fits(k, f)
<1>1. ASSUME NEW j, Fits(j, f), NEW b \in {"vb", "ib"}, NEW need, NEW r \in vk_ui_resize_buffer(j, b, need)
      PROVE  Fits(r.g, f)
  <2> DEFINE mem == IF b = "vb" THEN "vbmem" ELSE "ibmem"
             a == FreeAll(j, UI, <<b, mem>>)
             x == [a.len EXCEPT ![b] = need]
             k == [a EXCEPT !.len = x]
  <2>1. Fits(a, f)
    BY <1>1, FreedFits, OwnersDiffer
  <2>3. k = [a EXCEPT !.len[b] = need]
    OBVIOUS
  <2>4. r.g = j \/ r.g = MakeAll(k, UI, <<b, mem>>) \/ r.g = k
    BY <1>1, <2>3 DEF vk_ui_resize_buffer, Result
  <2> HIDE DEF a, x
  <2>2. Fits(k, f)
    BY <2>1, FieldsFitting
  <2> HIDE DEF k
  <2>5. Range(<<b, mem>>) \subseteq Names(f.api, UI) /\ Home(UI) \in f.ptr
    BY VkUINames, HomesAre DEF Names
  <2>6. Fits(MakeAll(k, UI, <<b, mem>>), f)
    BY <2>2, <2>5, MakeFits
  <2> QED
    BY <1>1, <2>2, <2>4, <2>6
<1>2. ASSUME NEW j, Fits(j, f) PROVE Fits(VkUIDraw(j), f)
  <2> DEFINE images == {IF Tex(t) \in j.ptr THEN Tex(t) ELSE Clear : t \in Textures} \cup {Clear}
             uses == {<<UI, {"rp", "rp_clear", "sampler", "dpool", "layout", "pipeline",
                        "vb", "vbmem", "ib", "ibmem"}>>}
                \cup {<<o, {"dset", "view", "image"}>> : o \in images}
                \cup {<<o, {"buf"}>> : o \in images \ j.sent}
             a == Record(j, uses)
             x == a.sent \cup images
  <2>1. VkUIDraw(j) = [a EXCEPT !.sent = x]
    BY DEF VkUIDraw
  <2> HIDE DEF uses, x
  <2>2. Fits(a, f)
    BY <1>2, DriverFits
  <2> HIDE DEF a
  <2>3. Fits([a EXCEPT !.sent = x], f)
    BY <2>2, FieldsFitting
  <2> HIDE DEF images
  <2> QED
    BY <2>1, <2>3
<1>3. ASSUME NEW need, NEW k \in mty_vk_ui_render(h, need) PROVE Fits(k, f)
  <2>1. PICK q \in Then(vk_ui_resize_buffer(h, "vb", need), LAMBDA x : vk_ui_resize_buffer(x, "ib", need)) :
          k = q.g \/ k = VkUIDraw(q.g)
    BY <1>3 DEF mty_vk_ui_render, Then, Result
  <2>2. PICK t \in vk_ui_resize_buffer(h, "vb", need) :
          q \in IF t.ok THEN vk_ui_resize_buffer(t.g, "ib", need) ELSE {t}
    BY DEF Then
  <2>3. Fits(t.g, f)
    BY <1>1
  <2>4. Fits(q.g, f)
    BY <1>1, <2>2, <2>3
  <2> QED
    BY <1>2, <2>1, <2>4
<1> QED
  BY <1>3

-----------------------------------------------------------------------------
(* What Direct3D, Metal and OpenGL have in common. *)

\* What the back ends but Vulkan's have in common.
LEMMA ContextAfter ==
  ASSUME NEW h, "ctx" \in DOMAIN h, NEW o, NEW names
  PROVE  FreeAll(h, o, names).ctx = h.ctx
<1> DEFINE S == Range(names) \cap h.has[o]
           k == [h EXCEPT !.has[o] = @ \ S, !.live[o] = @ \ S,
                          !.old = IF h.live[o] \subseteq S THEN @ \ {o} ELSE @,
                          !.rec = IF o \in @ THEN @ \cup {Gone} ELSE @]
           twice == ~(S \subseteq h.live[o]) /\ (h.api # "gl" \/ Living(h) # {})
           early == o = Ctx /\ FreedEarly(h, names)
<1>1. FreeAll(h, o, names) = CASE S = {} -> h
                               [] twice -> Error(k, "freed twice")
                               [] early -> Error(k, "freed before its children")
                               [] OTHER -> k
  BY DEF FreeAll
<1>2. k.ctx = h.ctx /\ "ctx" \in DOMAIN k
  OBVIOUS
<1> HIDE DEF S, k, twice, early
<1>3. \A w : Error(k, w).ctx = h.ctx
  BY <1>2 DEF Error
<1> QED
  BY <1>1, <1>2, <1>3

\* Those that have their objects themselves.
LEMMA AloneAre ==
  \A o \in {Ctx, UI} \cup UITextures :
    /\ o \in Owners \ {Kept} /\ o \in Structures /\ Home(o) = o
    /\ \A x \in Owners : Home(x) = o => x = o
<1>1. \A o \in {Ctx, UI} : o \in Owners \ {Kept} /\ o \in Structures /\ Home(o) = o
  BY OwnersDiffer, StructuresAre, HomesAre
<1>2. \A o \in {Ctx, UI} : \A x \in Owners : Home(x) = o => x = o
  BY DEF Home, Owners, Ctx, UI, Clear, Kept, Quad, Tex, Plane
<1> QED
  BY <1>1, <1>2, UITexturesAre

\* One that has nothing left goes.
LEMMA EmptyGone ==
  ASSUME NEW k, NEW f, Fits(k, f), NEW o \in {Ctx, UI} \cup UITextures, k.live[o] = {}
  PROVE  Fits([k EXCEPT !.ptr = @ \ {o}], Without(f, o))
<1> DEFINE P == [Owned(f) EXCEPT ![o] = {}]
<1>0. o \in Owners \ {Kept} /\ \A x \in Owners : Home(x) = o => x = o
  BY AloneAre
<1>1. Fit(k, f, P)
  BY <1>0, NarrowFit
<1>2. \A x \in Owners \ {Kept} : IF Home(x) = o THEN P[x] = {} ELSE P[x] \subseteq Owned(f)[x]
  BY <1>0 DEF Owned
<1> HIDE DEF P
<1> QED
  BY <1>1, <1>2, GoneFits

\* One that is created and has failed.
LEMMA HavingWithout ==
  ASSUME NEW f \in Frames, NEW o, o \notin f.ptr
  PROVE  Without(Having(f, o), o) = f
<1>1. (f.ptr \cup {o}) \ {o} = f.ptr
  OBVIOUS
<1> QED
  BY <1>1 DEF Without, Having, Frames

LEMMA NotThere ==
  ASSUME NEW f \in Frames, NEW o, o \notin f.ptr
  PROVE  Without(f, o) = f
<1>1. f.ptr \ {o} = f.ptr
  OBVIOUS
<1> QED
  BY <1>1 DEF Without, Frames

\* A device is made together with temporary objects.
LEMMA NewTemporariesFit ==
  ASSUME NEW h, NEW f, Fits(h, f), NEW o, NEW names, Home(o) \in f.ptr, NEW temps,
         Range(names) \subseteq Names(f.api, o) \cup Range(temps), f.api # "vk"
  PROVE  /\ Fits(FreeAll(NewDevice(MakeAll(h, o, names)), o, temps), f)
         /\ FreeAll(NewDevice(MakeAll(h, o, names)), o, temps).ctx.dev # 0
<1> DEFINE P == Owned(f)
           Q == [P EXCEPT ![o] = @ \cup Range(names)]
           R == [Q EXCEPT ![o] = @ \ Range(temps)]
           m == MakeAll(h, o, names)
           k == NewDevice(m)
<1>1. DOMAIN P = Owners /\ DOMAIN Q = Owners
  BY DEF Owned
<1>2. Fit(m, f, Q)
  BY <1>1, MakeAllFit DEF Fits
<1>3. o \in Owners => Range(names) \subseteq P[o] \cup Range(temps)
  BY DEF Owned
<1>4. \A x \in Owners : R[x] \subseteq P[x]
  <2> HIDE DEF P
  <2>1. QED
    BY <1>1, <1>3
<1> HIDE DEF P, Q, m
<1>5. Fit(k, f, Q) /\ k.ctx.dev # 0 /\ "ctx" \in DOMAIN k
  <2>1. \E x \in {1, 2} : k = [m EXCEPT !.ctx.dev = x]
    BY DEF NewDevice
  <2> HIDE DEF k
  <2>2. QED
    BY <1>2, <2>1 DEF Fit, Like, Has
<1> HIDE DEF k
<1>6. Fit(FreeAll(k, o, temps), f, R) /\ FreeAll(k, o, temps).ctx = k.ctx
  BY <1>1, <1>5, FreeAllFit, ContextAfter
<1> HIDE DEF R
<1>7. Fit(FreeAll(k, o, temps), f, P)
  BY <1>4, <1>6, Weaker
<1>8. QED
  BY <1>5, <1>6, <1>7 DEF P, Fits, k, m

\* A context's fields, as they are when it is created.
LEMMA FreshFits ==
  ASSUME NEW h, NEW f, Fits(h, f), NEW s
  PROVE  /\ Fits([h EXCEPT !.ptr = @ \cup {Ctx}, !.ctx.size = s, !.ctx.interval = 0, !.ctx.rem = 0, !.drift = 0],
                 Having(f, Ctx))
         /\ \A y, z : Fits([h EXCEPT !.ctx.bb = FALSE, !.rec = y, !.old = z], f)
<1> DEFINE k == [h EXCEPT !.ptr = @ \cup {Ctx}]
<1>1. Fits(k, Having(f, Ctx)) /\ "ctx" \in DOMAIN k
  <2>1. Fits(k, Having(f, Ctx))
    BY HavingFits, StructuresAre
  <2> HIDE DEF k
  <2> QED
    BY <2>1 DEF Fits, Fit, Like
<1>2. [h EXCEPT !.ptr = @ \cup {Ctx}, !.ctx.size = s, !.ctx.interval = 0, !.ctx.rem = 0, !.drift = 0]
        = [k EXCEPT !.ctx.size = s, !.ctx.interval = 0, !.ctx.rem = 0, !.drift = 0]
  OBVIOUS
<1> HIDE DEF k
<1>3. Fits([k EXCEPT !.ctx.size = s, !.ctx.interval = 0, !.ctx.rem = 0, !.drift = 0], Having(f, Ctx))
  <2> DEFINE e == Having(f, Ctx)
             P == Owned(e)
  <2>1. Fit(k, e, P)
    BY <1>1 DEF Fits
  <2> HIDE DEF e, P
  <2>2. Fit([k EXCEPT !.ctx.size = s, !.ctx.interval = 0, !.ctx.rem = 0, !.drift = 0], e, P)
    BY <2>1 DEF Fit, Like, Has
  <2> QED
    BY <2>2 DEF Fits, e, P
<1>4. ASSUME NEW y, NEW z PROVE Fits([h EXCEPT !.ctx.bb = FALSE, !.rec = y, !.old = z], f)
  <2> DEFINE P == Owned(f)
  <2>1. Fit(h, f, P)
    BY DEF Fits
  <2> HIDE DEF P
  <2>2. Fit([h EXCEPT !.ctx.bb = FALSE, !.rec = y, !.old = z], f, P)
    BY <2>1 DEF Fit, Like, Has
  <2> QED
    BY <2>2 DEF Fits, P
<1> QED
  BY <1>2, <1>3, <1>4

-----------------------------------------------------------------------------
(* Direct3D 12. *)

LEMMA D3D12Are ==
  LET core == <<"buffers", "waitable", "swap_chain3", "fence", "rtv_heap", "cl", "ca", "cq", "device">>
  IN /\ Range(CoreSteps) \subseteq Names("d3d12", Ctx) \cup Range(D3D12Temporaries)
     /\ \A k \in 0..Len(CoreSteps) :
          Range(SubSeq(CoreSteps, 1, k)) \subseteq Names("d3d12", Ctx) \cup Range(D3D12Temporaries)
     /\ Names("d3d12", Ctx) \subseteq Range(core) \cup Range(<<"dxgi_sync">>)
     /\ Range(<<"buffers">>) \subseteq Names("d3d12", Ctx) /\ Range(<<"dxgi_sync">>) \subseteq Names("d3d12", Ctx)
<1> DEFINE core == <<"buffers", "waitable", "swap_chain3", "fence", "rtv_heap", "cl", "ca", "cq", "device">>
<1>1. Names("d3d12", Ctx) = {"dxgi_sync"} \cup (Range(CoreSteps) \ Range(D3D12Temporaries))
  BY DEF Names, D3D12Names, Ctx
<1>2. \A k \in 0..Len(CoreSteps) : Range(SubSeq(CoreSteps, 1, k)) \subseteq Range(CoreSteps)
  BY DEF Range, CoreSteps
<1>3. Range(CoreSteps) \subseteq Range(core) \cup Range(D3D12Temporaries)
  <2>1. Range(D3D12Temporaries) = {"swap_chain1", "unknown", "factory2"}
    BY DEF Range, D3D12Temporaries
  <2>2. Range(core) = {"buffers", "waitable", "swap_chain3", "fence", "rtv_heap", "cl", "ca", "cq", "device"}
    BY DEF Range
  <2>3. Range(CoreSteps) \subseteq
          {"buffers", "waitable", "swap_chain3", "fence", "rtv_heap", "cl", "ca", "cq", "device",
           "swap_chain1", "unknown", "factory2"}
    BY DEF Range, CoreSteps
  <2> QED
    BY <2>1, <2>2, <2>3
<1>4. "buffers" \in Range(CoreSteps) \ Range(D3D12Temporaries)
  <2>1. "buffers" \in Range(CoreSteps)
    BY DEF Range, CoreSteps
  <2>2. "buffers" \notin Range(D3D12Temporaries)
    BY DEF Range, D3D12Temporaries
  <2> QED
    BY <2>1, <2>2
<1>5. Range(<<"buffers">>) = {"buffers"} /\ Range(<<"dxgi_sync">>) = {"dxgi_sync"}
  BY DEF Range
<1> HIDE DEF core
<1>6. Names("d3d12", Ctx) \subseteq Range(core) \cup Range(<<"dxgi_sync">>)
  BY <1>1, <1>3, <1>5
<1> QED
  BY <1>1, <1>2, <1>4, <1>5, <1>6 DEF core

LEMMA D3D12CoreFits ==
  ASSUME NEW h, NEW f, Fits(h, f), f.api = "d3d12", Ctx \in f.ptr
  PROVE  /\ Fits(d3d12_core_free(h), f)
         /\ \A r \in d3d12_core_init(h) : Fits(r.g, f) /\ (r.ok => r.g.ctx.dev # 0)
         /\ \A k \in CoreAgain(h) : Fits(k, f)
         /\ \A k \in d3d12_core_refresh_buffers(h) : Fits(k, f)
<1>1. ASSUME NEW k, Fits(k, f) PROVE Fits(d3d12_core_free(k), f)
  <2> DEFINE a == FreeAll(k, Ctx, <<"buffers", "waitable", "swap_chain3", "fence", "rtv_heap",
                             "cl", "ca", "cq", "device">>)
             x == a.old \cup Living(a)
  <2>1. d3d12_core_free(k) = [a EXCEPT !.ctx.bb = FALSE, !.rec = {}, !.old = x]
    BY DEF d3d12_core_free
  <2>2. Fits(a, f)
    BY <1>1, FreedFits
  <2> HIDE DEF a, x
  <2>3. Fits([a EXCEPT !.ctx.bb = FALSE, !.rec = {}, !.old = x], f)
    BY <2>2, FreshFits
  <2> QED
    BY <2>1, <2>3
<1>2. ASSUME NEW j, Fits(j, f), NEW r \in d3d12_core_init(j) PROVE Fits(r.g, f) /\ (r.ok => r.g.ctx.dev # 0)
  <2> DEFINE m(i) == FreeAll(MakeAll(j, Ctx, SubSeq(CoreSteps, 1, i)), Ctx, D3D12Temporaries)
             n == FreeAll(NewDevice(MakeAll(j, Ctx, CoreSteps)), Ctx, D3D12Temporaries)
  <2>1. \/ r.ok /\ r.g = n
        \/ \E i \in 0..Len(CoreSteps) : ~r.ok /\ r.g = d3d12_core_free(m(i))
    BY <1>2 DEF d3d12_core_init, Result
  <2>2. Home(Ctx) \in f.ptr
    BY HomesAre
  <2>3. Fits(n, f) /\ n.ctx.dev # 0
    BY <1>2, <2>2, D3D12Are, NewTemporariesFit
  <2>4. \A i \in 0..Len(CoreSteps) : Fits(m(i), f)
    BY <1>2, <2>2, D3D12Are, TemporariesFit
  <2> HIDE DEF m, n
  <2> QED
    BY <1>1, <2>1, <2>3, <2>4
<1>3. \A k \in CoreAgain(h) : Fits(k, f)
  BY <1>1, <1>2 DEF CoreAgain
<1>4. \A k \in d3d12_core_refresh_buffers(h) : Fits(k, f)
  BY D3D12Are, HomesAre, MakeFits DEF d3d12_core_refresh_buffers, Make
<1> QED
  BY <1>1, <1>2, <1>3, <1>4

LEMMA D3D12ContextGone ==
  ASSUME NEW h, NEW f, Fits(h, f), f.api = "d3d12", Ctx \in f.ptr
  PROVE  Fits(mty_d3d12_ctx_destroy(h), Without(f, Ctx))
<1> DEFINE core == <<"buffers", "waitable", "swap_chain3", "fence", "rtv_heap", "cl", "ca", "cq", "device">>
           a == FreeAll(h, Ctx, <<"dxgi_sync">>)
           b == FreeAll(a, Ctx, core)
           k == d3d12_core_free(a)
<1>0. h.ptr = f.ptr /\ Ctx \in Owners \ {Kept} /\ Home(Ctx) = Ctx
  BY FitsIs, OwnersDiffer, HomesAre
<1>1. mty_d3d12_ctx_destroy(h) = [k EXCEPT !.ptr = @ \ {Ctx}]
  BY <1>0 DEF mty_d3d12_ctx_destroy, Free
<1>2. k = [b EXCEPT !.ctx.bb = FALSE, !.rec = {}, !.old = @ \cup Living(b)]
  BY DEF d3d12_core_free
<1>3. Fits(a, f)
  BY FreedFits
<1>4. a.live[Ctx] = h.live[Ctx] \ Range(<<"dxgi_sync">>)
  BY <1>0, LiveAfter DEF Fits
<1>5. h.live[Ctx] \subseteq Names("d3d12", Ctx)
  BY <1>0 DEF Fits, Fit, Owned
<1> HIDE DEF a
<1>6. b.live[Ctx] = a.live[Ctx] \ Range(core)
  BY <1>0, <1>3, LiveAfter DEF Fits
<1>7. Fits(b, f)
  BY <1>3, FreedFits
<1>8. b.live[Ctx] = {}
  BY <1>4, <1>5, <1>6, D3D12Are
<1>9. "live" \in DOMAIN b
  BY <1>7 DEF Fits, Fit, Like
<1> HIDE DEF b
<1>10. k.live = b.live
  BY <1>2, <1>9
<1>11. Fits(k, f)
  BY <1>3, D3D12CoreFits
<1> HIDE DEF k
<1> QED
  BY <1>1, <1>8, <1>10, <1>11, EmptyGone

LEMMA D3D12ContextFits ==
  ASSUME NEW h, NEW f, Fits(h, f), f.api = "d3d12"
  PROVE  /\ Ctx \notin f.ptr => \A r \in mty_d3d12_ctx_create(h) :
              Fits(r.g, IF r.ok THEN [Having(f, Ctx) EXCEPT !.known = TRUE] ELSE f)
         /\ Ctx \in f.ptr =>
              /\ \A r \in mty_d3d12_ctx_get_surface(h) : Fits(r.g, f)
              /\ \A k \in mty_d3d12_ctx_present(h) : Fits(k, f)
              /\ \A n : \A k \in mty_d3d12_ctx_set_sync_interval(h, n) : Fits(k, f)
<1>1. ASSUME Ctx \notin f.ptr, NEW r \in mty_d3d12_ctx_create(h)
      PROVE  Fits(r.g, IF r.ok THEN [Having(f, Ctx) EXCEPT !.known = TRUE] ELSE f)
  <2> DEFINE k == [h EXCEPT !.ptr = @ \cup {Ctx}, !.ctx.size = h.win.size,
                            !.ctx.interval = 0, !.ctx.rem = 0, !.drift = 0]
             e == Having(f, Ctx)
  <2>1. PICK s \in d3d12_core_init(k) : r = IF s.ok THEN s ELSE Result(mty_d3d12_ctx_destroy(s.g), FALSE)
    BY <1>1 DEF mty_d3d12_ctx_create
  <2>2. Fits(k, e)
    BY FreshFits
  <2>3. f \in Frames
    BY FitsIs
  <2>a. Akin(e, f) /\ e.ptr = f.ptr \cup {Ctx}
    BY <2>3, FramesAre, StructuresAre
  <2>b. Without(e, Ctx) = f
    BY <1>1, <2>3, HavingWithout
  <2>4. e.api = "d3d12" /\ Ctx \in e.ptr /\ Without(e, Ctx) = f
    BY <2>a, <2>b DEF Akin
  <2> HIDE DEF k, e
  <2>5. Fits(s.g, e) /\ (s.ok => s.g.ctx.dev # 0)
    BY <2>2, <2>4, D3D12CoreFits
  <2>6. (s.ok /\ r.ok /\ r.g = s.g) \/ (~s.ok /\ ~r.ok /\ r.g = mty_d3d12_ctx_destroy(s.g))
    BY <2>1 DEF Result
  <2>7. s.ok => Fits(s.g, [e EXCEPT !.known = TRUE])
    BY <2>4, <2>5, KnownFits
  <2>8. ~s.ok => Fits(mty_d3d12_ctx_destroy(s.g), f)
    BY <2>4, <2>5, D3D12ContextGone
  <2> QED
    BY <2>6, <2>7, <2>8 DEF e
<1>2. ASSUME Ctx \in f.ptr, NEW r \in mty_d3d12_ctx_get_surface(h) PROVE Fits(r.g, f)
  <2> DEFINE j == Free(Use(h, {<<Ctx, {"swap_chain3"}>>}), Ctx, "buffers")
             drawn(k) == [Record(k, {<<Ctx, {"swap_chain3", "buffers", "cl"}>>}) EXCEPT !.ctx.bb = TRUE]
  <2> DEFINE refreshed == d3d12_ctx_refresh(h)
             all == Then(refreshed, LAMBDA k : {Result(drawn(k), TRUE)})
  <2>a. \A s \in all : \E t \in refreshed : s = t \/ s = Result(drawn(t.g), TRUE)
    <3> HIDE DEF refreshed, drawn
    <3> QED
      BY DEF Then
  <2>b. r = Result(h, TRUE) \/ r \in all
    BY <1>2 DEF mty_d3d12_ctx_get_surface
  <2> HIDE DEF drawn, all
  <2>1. r.g = h \/ \E s \in d3d12_ctx_refresh(h) : r = s \/ r.g = drawn(s.g)
    BY <2>a, <2>b DEF Result
  <2> USE DEF drawn
  <2>2. ASSUME NEW k, Fits(k, f) PROVE Fits(drawn(k), f)
    <3>1. Fits(Record(k, {<<Ctx, {"swap_chain3", "buffers", "cl"}>>}), f)
      BY <2>2, DriverFits
    <3> QED
      BY <3>1, FieldsFitting
  <2>3. Fits(j, f)
    <3>1. Fits(Use(h, {<<Ctx, {"swap_chain3"}>>}), f)
      BY DriverFits
    <3> QED
      BY <3>1, FreedFits
  <2> HIDE DEF drawn
  <2>4. ASSUME NEW s \in d3d12_ctx_refresh(h) PROVE Fits(s.g, f)
    <3> DEFINE sized(k) == [k EXCEPT !.ctx.size = h.win.size]
               some == {Result(sized(k), TRUE) : k \in d3d12_core_refresh_buffers(j)}
               again == {Result(k, FALSE) : k \in CoreAgain(j)}
    <3>a. s = Result(h, TRUE) \/ s = Result(j, FALSE) \/ s \in some \/ s \in again
      BY <2>4 DEF d3d12_ctx_refresh
    <3>s. \A k : Fits(k, f) => Fits(sized(k), f)
      BY FieldsFitting
    <3> HIDE DEF j, sized
    <3>1. \/ s.g = h \/ s.g = j
          \/ \E k \in d3d12_core_refresh_buffers(j) : s.g = sized(k)
          \/ \E k \in CoreAgain(j) : s.g = k
      BY <3>a DEF Result
    <3>2. \A k \in d3d12_core_refresh_buffers(j) : Fits(k, f)
      BY <1>2, <2>3, D3D12CoreFits
    <3>3. \A k \in CoreAgain(j) : Fits(k, f)
      BY <1>2, <2>3, D3D12CoreFits
    <3> QED
      BY <2>3, <3>1, <3>2, <3>3, <3>s
  <2> QED
    BY <2>1, <2>2, <2>4
<1>3. ASSUME Ctx \in f.ptr, NEW k \in mty_d3d12_ctx_present(h) PROVE Fits(k, f)
  <2> DEFINE a == Record(h, {<<Ctx, {"cq", "cl", "swap_chain3"}>>})
             b == Submit(a)
             j == sync_next_interval(b)
             x == Use(j, {<<Ctx, {"fence", "ca", "waitable"}>>})
             y == h.rec \cup {Gone}
  <2>1. \/ k = h \/ k = [x EXCEPT !.ctx.bb = FALSE] \/ k \in CoreAgain(j)
        \/ k = [h EXCEPT !.rec = y]
    BY <1>3 DEF mty_d3d12_ctx_present
  <2>2. Fits(a, f)
    BY DriverFits
  <2> HIDE DEF a
  <2>3. Fits(b, f)
    BY <2>2, DriverFits
  <2> HIDE DEF b
  <2>4. Fits(j, f)
    BY <2>3, DriverFits
  <2> HIDE DEF j
  <2>5. Fits(x, f)
    BY <2>4, DriverFits
  <2> HIDE DEF x, y
  <2>6. Fits([x EXCEPT !.ctx.bb = FALSE], f) /\ Fits([h EXCEPT !.rec = y], f)
    BY <2>5, FieldsFitting
  <2>7. \A z \in CoreAgain(j) : Fits(z, f)
    BY <1>3, <2>4, D3D12CoreFits
  <2> QED
    BY <2>1, <2>6, <2>7
<1>4. ASSUME Ctx \in f.ptr, NEW n, NEW k \in mty_d3d12_ctx_set_sync_interval(h, n) PROVE Fits(k, f)
  <2> DEFINE j == sync_set_interval(h, n)
  <2>1. k = j \/ k = Make(j, Ctx, "dxgi_sync")
    BY <1>4 DEF mty_d3d12_ctx_set_sync_interval, dxgi_sync_create
  <2>2. Fits(j, f)
    BY DriverFits
  <2> HIDE DEF j
  <2>3. Fits(Make(j, Ctx, "dxgi_sync"), f)
    BY <1>4, <2>2, D3D12Are, HomesAre, MakeFits DEF Make
  <2> QED
    BY <2>1, <2>2, <2>3
<1> QED
  BY <1>1, <1>2, <1>3, <1>4

\* What a structure has while it is created.
LEMMA CreatedFits ==
  ASSUME NEW h, NEW f, Fits(h, f), NEW o \in Structures, Home(o) = o, o \notin f.ptr, NEW steps,
         \A i \in 0..Len(steps) : Range(SubSeq(steps, 1, i)) \subseteq Names(f.api, o)
  PROVE  /\ \A i \in 0..Len(steps) : Fits(MakeAll([h EXCEPT !.ptr = @ \cup {o}], o, SubSeq(steps, 1, i)), Having(f, o))
         /\ Having(f, o) \in Frames /\ Akin(Having(f, o), f) /\ Having(f, o).ptr = f.ptr \cup {o}
         /\ Having(f, o).api = f.api /\ Without(Having(f, o), o) = f
<1>1. f \in Frames
  BY FitsIs
<1>2. \A i \in 0..Len(steps) : Fits(MakeAll([h EXCEPT !.ptr = @ \cup {o}], o, SubSeq(steps, 1, i)), Having(f, o))
  BY PrefixFits
<1>3. Having(f, o) \in Frames /\ Akin(Having(f, o), f) /\ Having(f, o).ptr = f.ptr \cup {o}
  BY <1>1, FramesAre
<1>4. Without(Having(f, o), o) = f
  BY <1>1, HavingWithout
<1> QED
  BY <1>2, <1>3, <1>4 DEF Akin

LEMMA D3D12LayersAre ==
  LET names == <<"ib", "vb", "sampler_heap", "cb", "srv_heap", "pipeline", "rs">>
  IN /\ \A l : Names("d3d12", Quad(l)) \subseteq Range(names)
     /\ \A l : \A k \in 0..Len(D3D12QuadSteps) : Range(SubSeq(D3D12QuadSteps, 1, k)) \subseteq Names("d3d12", Quad(l))
     /\ \A l, p : /\ Names("d3d12", Plane(l, p)) = Range(<<"buffer", "resource">>)
                  /\ Range(<<"buffer">>) \subseteq Names("d3d12", Plane(l, p))
     /\ Len(D3D12QuadSteps) \in 0..Len(D3D12QuadSteps)
<1>1. \A l : Names("d3d12", Quad(l)) = Range(D3D12QuadSteps)
  BY DEF Names, D3D12Names, Quad
<1>2. \A l, p : Names("d3d12", Plane(l, p)) = {"buffer", "resource"}
  BY DEF Names, D3D12Names, Plane
<1>3. Range(D3D12QuadSteps) \subseteq Range(<<"ib", "vb", "sampler_heap", "cb", "srv_heap", "pipeline", "rs">>)
  BY DEF Range, D3D12QuadSteps
<1>4. \A k \in 0..Len(D3D12QuadSteps) : Range(SubSeq(D3D12QuadSteps, 1, k)) \subseteq Range(D3D12QuadSteps)
  BY DEF Range, D3D12QuadSteps
<1>5. Range(<<"buffer", "resource">>) = {"buffer", "resource"} /\ Range(<<"buffer">>) = {"buffer"}
  BY DEF Range
<1>6. Len(D3D12QuadSteps) \in 0..Len(D3D12QuadSteps)
  BY DEF D3D12QuadSteps
<1> QED
  BY <1>1, <1>2, <1>3, <1>4, <1>5, <1>6

LEMMA D3D12LayerGone ==
  ASSUME NEW h, NEW f, Fits(h, f), f.api = "d3d12", NEW l \in Layers
  PROVE  Fits(mty_d3d12_destroy(h, l), Without(f, Quad(l)))
<1> DEFINE o == Quad(l)
           plane == <<"buffer", "resource">>
           names == <<"ib", "vb", "sampler_heap", "cb", "srv_heap", "pipeline", "rs">>
           a == FreeAll(h, Plane(l, 1), plane)
           j == NoPlaneAt(a, l, 1)
           b == FreeAll(j, Plane(l, 2), plane)
           k == NoPlaneAt(b, l, 2)
<1>1. h.ptr = f.ptr /\ f \in Frames
  BY FitsIs
<1>2. mty_d3d12_destroy(h, l) = IF o \notin h.ptr THEN h ELSE Destroyed(k, o, names)
  BY DEF mty_d3d12_destroy, d3d12_destroy_resource
<1>3. \A p \in {1, 2} : Names(f.api, Plane(l, p)) \subseteq Range(plane)
  BY D3D12LayersAre
<1>4. Names(f.api, o) \subseteq Range(names)
  BY D3D12LayersAre
<1> HIDE DEF plane, names
<1>5. CASE o \notin f.ptr
  BY <1>1, <1>2, <1>5, NotThere
<1>6. CASE o \in f.ptr
  <2>1. Fit(a, f, Vacant(Owned(f), Plane(l, 1)))
    BY <1>3, PlanesFreed
  <2> HIDE DEF a
  <2>2. Fit(j, f, Vacant(Owned(f), Plane(l, 1)))
    BY <2>1, QuadFit
  <2> HIDE DEF j
  <2>3. Fit(b, f, Vacant(Vacant(Owned(f), Plane(l, 1)), Plane(l, 2)))
    BY <1>3, <2>2, PlanesFreed
  <2> HIDE DEF b
  <2>4. Fit(k, f, Vacant(Vacant(Owned(f), Plane(l, 1)), Plane(l, 2)))
    BY <2>3, QuadFit
  <2> HIDE DEF k
  <2>5. Fits(Destroyed(k, o, names), Without(f, o))
    BY <1>4, <1>6, <2>4, LayerGone
  <2> QED
    BY <1>1, <1>2, <1>6, <2>5
<1> QED
  BY <1>5, <1>6

LEMMA D3D12LayerFits ==
  ASSUME NEW h, NEW f, Fits(h, f), f.api = "d3d12", NEW l \in Layers, Quad(l) \notin f.ptr
  PROVE  \A r \in mty_d3d12_create(h, l) : Fits(r.g, IF r.ok THEN Having(f, Quad(l)) ELSE f)
<1> DEFINE o == Quad(l)
           e == Having(f, o)
           m(i) == MakeAll([h EXCEPT !.ptr = @ \cup {o}], o, SubSeq(D3D12QuadSteps, 1, i))
<1>0. o \in Structures /\ Home(o) = o
  BY StructuresAre, HomesAre
<1>1. ASSUME NEW r \in mty_d3d12_create(h, l) PROVE Fits(r.g, IF r.ok THEN e ELSE f)
  <2>1. PICK i \in 0..Len(D3D12QuadSteps) : r = Result(m(i), TRUE) \/ r = Result(mty_d3d12_destroy(m(i), l), FALSE)
    BY <1>1, D3D12LayersAre DEF mty_d3d12_create, Create
  <2>2. \A x \in 0..Len(D3D12QuadSteps) : Range(SubSeq(D3D12QuadSteps, 1, x)) \subseteq Names(f.api, o)
    BY D3D12LayersAre
  <2> HIDE DEF o
  <2>3. Fits(m(i), e) /\ e.api = f.api /\ Without(e, o) = f
    BY <1>0, <2>2, CreatedFits DEF o
  <2> HIDE DEF m, e
  <2>4. Fits(mty_d3d12_destroy(m(i), l), Without(e, o))
    BY <2>3, D3D12LayerGone DEF o
  <2>5. (r.ok /\ r.g = m(i)) \/ (~r.ok /\ r.g = mty_d3d12_destroy(m(i), l))
    BY <2>1 DEF Result
  <2>6. QED
    BY <2>3, <2>4, <2>5
<1> QED
  BY <1>1

LEMMA D3D12PlaneFits ==
  ASSUME NEW h, NEW f, Fits(h, f), f.api = "d3d12", NEW l \in Layers, Quad(l) \in f.ptr, NEW p, NEW fmt, NEW size,
         NEW r \in d3d12_refresh_resource(h, l, p, fmt, size)
  PROVE  Fits(r.g, f)
<1> DEFINE o == Plane(l, p)
           freed(k) == FreeAll(k, o, <<"buffer", "resource">>)
           j == d3d12_destroy_resource(h, l, p)
           buffer == Make(j, o, "buffer")
           both == MakeAll(j, o, <<"buffer", "resource">>)
           set == SetPlane(both, l, p, fmt, size)
<1>0. o # Ctx /\ Home(o) \in f.ptr
  BY HomesAre DEF Plane, Ctx
<1>1. ASSUME NEW k, Fits(k, f) PROVE Fits(d3d12_destroy_resource(k, l, p), f)
  <2>1. d3d12_destroy_resource(k, l, p) = NoPlaneAt(freed(k), l, p)
    BY DEF d3d12_destroy_resource
  <2>2. Fits(freed(k), f)
    BY <1>0, <1>1, FreedFits
  <2> HIDE DEF freed
  <2> QED
    BY <2>1, <2>2, QuadFits
<1>2. ASSUME NEW k, Fits(k, f), NEW s \in d3d12_crop_copy(k, l, p) PROVE Fits(s.g, f)
  BY <1>2, DriverFits DEF d3d12_crop_copy, Result
<1>3. Fits(j, f)
  BY <1>1
<1>4. \/ r \in d3d12_crop_copy(h, l, p) \/ r.g = j \/ r.g = d3d12_destroy_resource(buffer, l, p)
      \/ r \in d3d12_crop_copy(set, l, p)
  BY DEF d3d12_refresh_resource, Result
<1> HIDE DEF j
<1>5. Fits(buffer, f) /\ Fits(both, f)
  BY <1>0, <1>3, D3D12LayersAre, MakeFits DEF Make
<1> HIDE DEF both, buffer
<1>6. Fits(set, f)
  BY <1>5, QuadFits
<1> HIDE DEF set
<1> QED
  BY <1>1, <1>2, <1>3, <1>4, <1>5, <1>6

LEMMA D3D12RenderFits ==
  ASSUME NEW h, NEW f, Fits(h, f), f.api = "d3d12", NEW l \in Layers, Quad(l) \in f.ptr, NEW fmt, NEW size,
         NEW k \in mty_d3d12_render(h, l, fmt, size)
  PROVE  Fits(k, f)
<1> DEFINE j == SetFormat(h, l, fmt)
           loaded == fmt_reload_textures(j, l, fmt, size, d3d12_refresh_resource)
<1>1. Fits(j, f)
  BY QuadFits
<1>2. k = j \/ \E s \in loaded : k = s.g \/ k = D3D12Draw(s.g, l)
  BY DEF mty_d3d12_render, Then, Result
<1> HIDE DEF j
<1>3. ASSUME NEW s \in loaded PROVE Fits(s.g, f)
  <2>1. \A x, p : Fits(x, f) => \A r \in d3d12_refresh_resource(x, l, p, fmt, size) : Fits(r.g, f)
    BY D3D12PlaneFits
  <2>2. CASE fmt = "bgra"
    BY <1>1, <2>1, <2>2 DEF fmt_reload_textures
  <2>3. CASE fmt = "nv12"
    <3>1. PICK r \in d3d12_refresh_resource(j, l, 1, fmt, size) :
            s \in IF r.ok THEN d3d12_refresh_resource(r.g, l, 2, fmt, size) ELSE {r}
      BY <2>3 DEF fmt_reload_textures, Then
    <3> QED
      BY <1>1, <2>1, <3>1
  <2>4. CASE fmt # "bgra" /\ fmt # "nv12"
    BY <1>1, <2>4 DEF fmt_reload_textures, Result
  <2> QED
    BY <2>2, <2>3, <2>4
<1> HIDE DEF loaded
<1>4. ASSUME NEW x, Fits(x, f) PROVE Fits(D3D12Draw(x, l), f)
  <2>1. Fits(Shown(x, l), f)
    BY <1>4, QuadFits
  <2> QED
    BY <2>1, DriverFits DEF D3D12Draw
<1> QED
  BY <1>1, <1>2, <1>3, <1>4

LEMMA D3D12UIAre ==
  /\ \A o \in UITextures : /\ Names("d3d12", o) \subseteq Range(<<"heap", "resource", "buffer">>)
                           /\ \A k \in 0..Len(<<"buffer", "resource", "heap">>) :
                                Range(SubSeq(<<"buffer", "resource", "heap">>, 1, k)) \subseteq Names("d3d12", o)
  /\ Names("d3d12", UI) \subseteq Range(<<"vb", "ib", "pipeline", "rs">>)
  /\ \A k \in 0..Len(<<"blob", "rs", "pipeline">>) :
       Range(SubSeq(<<"blob", "rs", "pipeline">>, 1, k)) \subseteq Names("d3d12", UI) \cup Range(<<"blob">>)
  /\ \A b \in {"vb", "ib"} : Range(<<b>>) \subseteq Names("d3d12", UI)
<1>1. \A o \in UITextures : Names("d3d12", o) = {"heap", "resource", "buffer"}
  BY DEF Names, D3D12Names, UITextures, Clear, Tex
<1>2. Range(<<"heap", "resource", "buffer">>) = {"heap", "resource", "buffer"}
  BY DEF Range
<1>3. \A k \in 0..Len(<<"buffer", "resource", "heap">>) :
        Range(SubSeq(<<"buffer", "resource", "heap">>, 1, k)) \subseteq {"heap", "resource", "buffer"}
  BY DEF Range
<1>4. Names("d3d12", UI) = {"rs", "pipeline", "vb", "ib"}
  BY DEF Names, D3D12Names, UI
<1>5. Range(<<"vb", "ib", "pipeline", "rs">>) = {"rs", "pipeline", "vb", "ib"} /\ Range(<<"blob">>) = {"blob"}
  BY DEF Range
<1>6. \A k \in 0..Len(<<"blob", "rs", "pipeline">>) :
        Range(SubSeq(<<"blob", "rs", "pipeline">>, 1, k)) \subseteq {"blob", "rs", "pipeline"}
  BY DEF Range
<1>7. \A b : Range(<<b>>) = {b}
  BY DEF Range
<1>8. \A o \in UITextures : /\ Names("d3d12", o) \subseteq Range(<<"heap", "resource", "buffer">>)
                           /\ \A k \in 0..Len(<<"buffer", "resource", "heap">>) :
                                Range(SubSeq(<<"buffer", "resource", "heap">>, 1, k)) \subseteq Names("d3d12", o)
  BY <1>1, <1>2, <1>3
<1>9. \A k \in 0..Len(<<"blob", "rs", "pipeline">>) :
        Range(SubSeq(<<"blob", "rs", "pipeline">>, 1, k)) \subseteq Names("d3d12", UI) \cup Range(<<"blob">>)
  BY <1>4, <1>5, <1>6
<1> QED
  BY <1>4, <1>5, <1>7, <1>8, <1>9

LEMMA D3D12TextureFits ==
  ASSUME NEW h, NEW f, Fits(h, f), f.api = "d3d12", NEW o \in UITextures
  PROVE  /\ Fits(mty_d3d12_ui_destroy_texture(h, o), Without(f, o))
         /\ o \notin f.ptr => \A r \in mty_d3d12_ui_create_texture(h, o) : Fits(r.g, IF r.ok THEN Having(f, o) ELSE f)
<1>0. o \in Structures /\ o # Ctx /\ (\A l \in Layers : o # Quad(l)) /\ Home(o) = o
  BY UITexturesAre
<1>1. ASSUME NEW k, NEW e, Fits(k, e), e.api = "d3d12" PROVE Fits(mty_d3d12_ui_destroy_texture(k, o), Without(e, o))
  <2> DEFINE names == <<"heap", "resource", "buffer">>
             a == Destroyed(k, o, names)
             x == a.sent \ {o}
  <2>1. Names(e.api, o) \subseteq Range(names)
    BY <1>1, D3D12UIAre
  <2>2. mty_d3d12_ui_destroy_texture(k, o) = [a EXCEPT !.sent = x]
    BY DEF mty_d3d12_ui_destroy_texture
  <2> HIDE DEF names
  <2>3. Fits(a, Without(e, o))
    BY <1>0, <1>1, <2>1, StructureGone
  <2> HIDE DEF a, x
  <2>4. Fits([a EXCEPT !.sent = x], Without(e, o))
    BY <2>3, FieldsFitting
  <2> QED
    BY <2>2, <2>4
<1>2. ASSUME o \notin f.ptr, NEW r \in mty_d3d12_ui_create_texture(h, o) PROVE Fits(r.g, IF r.ok THEN Having(f, o) ELSE f)
  <2> DEFINE steps == <<"buffer", "resource", "heap">>
             e == Having(f, o)
             m(i) == MakeAll([h EXCEPT !.ptr = @ \cup {o}], o, SubSeq(steps, 1, i))
  <2>0. Len(steps) \in 0..Len(steps)
    OBVIOUS
  <2>1. PICK i \in 0..Len(steps) : r = Result(m(i), TRUE) \/ r = Result(mty_d3d12_ui_destroy_texture(m(i), o), FALSE)
    BY <1>2, <2>0 DEF mty_d3d12_ui_create_texture, Create
  <2>2. \A x \in 0..Len(steps) : Range(SubSeq(steps, 1, x)) \subseteq Names(f.api, o)
    BY D3D12UIAre
  <2> HIDE DEF steps
  <2>3. Fits(m(i), e) /\ e.api = f.api /\ Without(e, o) = f
    BY <1>0, <1>2, <2>2, CreatedFits
  <2> HIDE DEF m, e
  <2>4. Fits(mty_d3d12_ui_destroy_texture(m(i), o), Without(e, o))
    BY <1>1, <2>3
  <2>5. (r.ok /\ r.g = m(i)) \/ (~r.ok /\ r.g = mty_d3d12_ui_destroy_texture(m(i), o))
    BY <2>1 DEF Result
  <2>6. QED
    BY <2>3, <2>4, <2>5 DEF e
<1> QED
  BY <1>1, <1>2

\* The UI goes, with its image that stands for no texture.
NoUI(f) == Without(Without(f, Clear), UI)

LEMMA NoUIIs ==
  ASSUME NEW f \in Frames, UI \notin f.ptr, Clear \notin f.ptr
  PROVE  NoUI(f) = f /\ NoUI(Having(f, UI)) = f
<1> DEFINE e == Having(f, UI)
<1>1. e \in Frames /\ e.ptr = f.ptr \cup {UI}
  BY FramesAre, StructuresAre
<1>2. Without(f, Clear) = f /\ Without(f, UI) = f /\ Without(e, UI) = f
  BY NotThere, HavingWithout
<1>3. Clear \notin e.ptr
  BY <1>1, OwnersDiffer
<1> HIDE DEF e
<1>4. Without(e, Clear) = e
  BY <1>1, <1>3, NotThere
<1> QED
  BY <1>2, <1>4 DEF NoUI, e

LEMMA D3D12UIGone ==
  ASSUME NEW h, NEW f, Fits(h, f), f.api = "d3d12", Clear \in f.ptr => UI \in f.ptr
  PROVE  Fits(mty_d3d12_ui_destroy(h), NoUI(f))
<1> DEFINE names == <<"vb", "ib", "pipeline", "rs">>
           k == mty_d3d12_ui_destroy_texture(h, Clear)
           m == [k EXCEPT !.len = NewLen]
           e == Without(f, Clear)
<1>0. /\ h.ptr = f.ptr /\ f \in Frames /\ Clear \in UITextures /\ Clear \in Structures
      /\ UI \in Structures /\ UI # Ctx /\ (\A l \in Layers : UI # Quad(l))
  BY FitsIs, StructuresAre, OwnersDiffer DEF UITextures
<1>1. mty_d3d12_ui_destroy(h) = IF UI \notin h.ptr THEN h ELSE Destroyed(m, UI, names)
  BY DEF mty_d3d12_ui_destroy
<1>2. Fits(k, e)
  BY <1>0, D3D12TextureFits
<1>3. e.api = "d3d12"
  BY <1>0, FramesAre DEF Akin
<1>4. UI \notin f.ptr => NoUI(f) = f
  BY <1>0, NoUIIs
<1> HIDE DEF k, e
<1>5. Fits(m, e)
  BY <1>2, FieldsFitting
<1> HIDE DEF m
<1>6. Names(e.api, UI) \subseteq Range(names)
  BY <1>3, D3D12UIAre
<1> HIDE DEF names
<1>7. Fits(Destroyed(m, UI, names), Without(e, UI))
  BY <1>0, <1>5, <1>6, StructureGone
<1> QED
  BY <1>0, <1>1, <1>4, <1>7 DEF NoUI, e

LEMMA D3D12UIFits ==
  ASSUME NEW h, NEW f, Fits(h, f), f.api = "d3d12", UI \notin f.ptr, Clear \notin f.ptr
  PROVE  \A r \in mty_d3d12_ui_create(h) : Fits(r.g, IF r.ok THEN Having(Having(f, UI), Clear) ELSE f)
<1> DEFINE steps == <<"blob", "rs", "pipeline">>
           e == Having(f, UI)
           freed(k) == Free(k, UI, "blob")
           m(i) == MakeAll([h EXCEPT !.ptr = @ \cup {UI}], UI, SubSeq(steps, 1, i))
           begun == Create(h, UI, steps, LAMBDA k : mty_d3d12_ui_destroy(freed(k)))
           rs == {Result(freed(r.g), r.ok) : r \in begun}
           all == Then(rs, LAMBDA k : mty_d3d12_ui_create_texture(k, Clear))
<1>0. f \in Frames /\ UI \in Structures /\ Home(UI) = UI /\ Clear \in UITextures /\ UI # Ctx /\ Clear # UI
  BY FitsIs, StructuresAre, HomesAre, OwnersDiffer DEF UITextures
<1>1. e \in Frames /\ Akin(e, f) /\ e.ptr = f.ptr \cup {UI}
  BY <1>0, FramesAre
<1>2. NoUI(f) = f /\ NoUI(e) = f
  BY <1>0, NoUIIs
<1>3. e.api = "d3d12" /\ Clear \notin e.ptr /\ Home(UI) \in e.ptr
  BY <1>0, <1>1 DEF Akin
<1>4. Fits([h EXCEPT !.ptr = @ \cup {UI}], e)
  BY <1>0, HavingFits
<1> HIDE DEF e
<1>5. \A i \in 0..Len(steps) : Fits(freed(m(i)), e)
  <2> DEFINE k == [h EXCEPT !.ptr = @ \cup {UI}]
  <2>1. \A i \in 0..Len(steps) : Range(SubSeq(steps, 1, i)) \subseteq Names(e.api, UI) \cup Range(<<"blob">>)
    BY <1>3, D3D12UIAre
  <2> HIDE DEF k, steps
  <2>2. \A i \in 0..Len(steps) : Fits(FreeAll(MakeAll(k, UI, SubSeq(steps, 1, i)), UI, <<"blob">>), e)
    BY <1>3, <1>4, <2>1, TemporariesFit DEF k
  <2> QED
    BY <2>2 DEF Free, k
<1>6. ASSUME NEW t \in rs PROVE Fits(t.g, IF t.ok THEN e ELSE f)
  <2>0. Len(steps) \in 0..Len(steps)
    OBVIOUS
  <2>1. PICK r \in begun : t = Result(freed(r.g), r.ok)
    OBVIOUS
  <2>2. PICK i \in 0..Len(steps) : r = Result(m(i), TRUE) \/ r = Result(mty_d3d12_ui_destroy(freed(m(i))), FALSE)
    BY <2>0 DEF Create
  <2> DEFINE a == freed(m(i))
             b == mty_d3d12_ui_destroy(a)
             c == freed(b)
  <2>3. Fits(a, e)
    BY <1>5
  <2>4. (t.ok /\ t.g = a) \/ (~t.ok /\ t.g = c)
    BY <2>1, <2>2 DEF Result
  <2> HIDE DEF a
  <2>5. Fits(b, f)
    BY <1>2, <1>3, <2>3, D3D12UIGone
  <2> HIDE DEF b
  <2>6. Fits(c, f)
    BY <1>0, <2>5, FreedFits
  <2> HIDE DEF c, rs, begun, steps
  <2> QED
    BY <2>3, <2>4, <2>6
<1>n. ASSUME NEW k, Fits(k, f) PROVE Fits(mty_d3d12_ui_destroy(k), f)
  <2>1. k.ptr = f.ptr
    BY <1>n, FitsIs
  <2>2. mty_d3d12_ui_destroy(k) = k
    BY <2>1 DEF mty_d3d12_ui_destroy
  <2> QED
    BY <1>n, <2>2
<1>7. ASSUME NEW r \in mty_d3d12_ui_create(h) PROVE Fits(r.g, IF r.ok THEN Having(e, Clear) ELSE f)
  <2>1. PICK s \in all : r = IF s.ok THEN s ELSE Result(mty_d3d12_ui_destroy(s.g), FALSE)
    BY <1>7 DEF mty_d3d12_ui_create
  <2> HIDE DEF rs
  <2>2. PICK t \in rs : s \in IF t.ok THEN mty_d3d12_ui_create_texture(t.g, Clear) ELSE {t}
    BY DEF Then
  <2> HIDE DEF all
  <2>3. (r.ok /\ s.ok /\ r.g = s.g) \/ (~r.ok /\ ~s.ok /\ r.g = mty_d3d12_ui_destroy(s.g))
    BY <2>1 DEF Result
  <2>4. CASE t.ok
    <3>1. Fits(s.g, IF s.ok THEN Having(e, Clear) ELSE e)
      BY <1>0, <1>3, <1>6, <2>2, <2>4, D3D12TextureFits
    <3>2. ~s.ok => Fits(mty_d3d12_ui_destroy(s.g), NoUI(e))
      BY <1>3, <3>1, D3D12UIGone
    <3> QED
      BY <1>2, <2>3, <3>1, <3>2
  <2>5. CASE ~t.ok
    BY <1>6, <1>n, <2>2, <2>3, <2>5
  <2> QED
    BY <2>4, <2>5
<1> QED
  BY <1>7 DEF e

LEMMA D3D12UIRenderFits ==
  ASSUME NEW h, NEW f, Fits(h, f), f.api = "d3d12", UI \in f.ptr
  PROVE  \A need : \A k \in mty_d3d12_ui_render(h, need) : Fits(k, f)
<1>1. ASSUME NEW j, Fits(j, f), NEW b \in {"vb", "ib"}, NEW need, NEW r \in d3d12_ui_resize_buffer(j, b, need)
      PROVE  Fits(r.g, f)
  <2> DEFINE a == Free(j, UI, b)
             m == Make(a, UI, b)
             x == [m.len EXCEPT ![b] = need]
             k == [m EXCEPT !.len = x]
  <2>1. Fits(a, f)
    BY <1>1, FreedFits, OwnersDiffer
  <2>3. k = [m EXCEPT !.len[b] = need]
    OBVIOUS
  <2>4. r.g = j \/ r.g = k \/ r.g = a
    BY <1>1, <2>3 DEF d3d12_ui_resize_buffer, Result
  <2> HIDE DEF a
  <2>5. Range(<<b>>) \subseteq Names(f.api, UI) /\ Home(UI) \in f.ptr
    BY D3D12UIAre, HomesAre
  <2>6. Fits(m, f)
    BY <2>1, <2>5, MakeFits DEF Make
  <2> HIDE DEF m, x
  <2>2. Fits(k, f)
    BY <2>6, FieldsFitting
  <2> HIDE DEF k
  <2> QED
    BY <1>1, <2>1, <2>2, <2>4
<1>2. ASSUME NEW j, Fits(j, f) PROVE Fits(D3D12UIDraw(j), f) /\ \A uses : Fits(Use(j, uses), f)
  <2> DEFINE textures == {IF Tex(t) \in j.ptr THEN Tex(t) ELSE Clear : t \in Textures} \cup {Clear}
             uses == {<<UI, {"rs", "pipeline", "vb", "ib"}>>} \cup {d3d12_ui_set_srv(j, o) : o \in textures}
             a == Record(j, uses)
             x == a.sent \cup textures
  <2>1. D3D12UIDraw(j) = [a EXCEPT !.sent = x]
    BY DEF D3D12UIDraw
  <2> HIDE DEF uses, x
  <2>2. Fits(a, f)
    BY <1>2, DriverFits
  <2> HIDE DEF a
  <2>3. Fits([a EXCEPT !.sent = x], f)
    BY <2>2, FieldsFitting
  <2> HIDE DEF textures
  <2> QED
    BY <1>2, <2>1, <2>3, DriverFits
<1>3. ASSUME NEW need, NEW k \in mty_d3d12_ui_render(h, need) PROVE Fits(k, f)
  <2>1. PICK q \in Then(d3d12_ui_resize_buffer(h, "vb", need), LAMBDA x : d3d12_ui_resize_buffer(x, "ib", need)) :
          k = q.g \/ k = Use(q.g, {<<UI, {"vb", "ib"}>>}) \/ k = D3D12UIDraw(q.g)
    <3> DEFINE both == Then(d3d12_ui_resize_buffer(h, "vb", need), LAMBDA x : d3d12_ui_resize_buffer(x, "ib", need))
               used(x) == Use(x, {<<UI, {"vb", "ib"}>>})
               all == Then(both, LAMBDA x : {Result(used(x), FALSE), Result(D3D12UIDraw(x), TRUE)})
    <3>1. PICK z \in all : k = z.g
      BY <1>3 DEF mty_d3d12_ui_render
    <3> HIDE DEF both, used
    <3>2. PICK q \in both : z = q \/ z = Result(used(q.g), FALSE) \/ z = Result(D3D12UIDraw(q.g), TRUE)
      BY DEF Then
    <3> HIDE DEF all
    <3>3. k = q.g \/ k = used(q.g) \/ k = D3D12UIDraw(q.g)
      BY <3>1, <3>2 DEF Result
    <3> QED
      BY <3>3 DEF both, used
  <2>2. PICK t \in d3d12_ui_resize_buffer(h, "vb", need) :
          q \in IF t.ok THEN d3d12_ui_resize_buffer(t.g, "ib", need) ELSE {t}
    BY DEF Then
  <2>3. Fits(t.g, f)
    BY <1>1
  <2>4. Fits(q.g, f)
    BY <1>1, <2>2, <2>3
  <2> QED
    BY <1>2, <2>1, <2>4
<1> QED
  BY <1>3

-----------------------------------------------------------------------------
(* Direct3D 11. *)

LEMMA D3D11Are ==
  LET core == <<"back_buffer", "waitable", "swap_chain2", "context", "device">>
  IN /\ Range(D3D11ContextSteps) \subseteq Names("d3d11", Ctx) \cup Range(D3D11Temporaries)
     /\ \A k \in 0..Len(D3D11ContextSteps) :
          Range(SubSeq(D3D11ContextSteps, 1, k)) \subseteq Names("d3d11", Ctx) \cup Range(D3D11Temporaries)
     /\ Names("d3d11", Ctx) \subseteq Range(core) \cup Range(<<"dxgi_sync">>)
     /\ Range(<<"back_buffer">>) \subseteq Names("d3d11", Ctx) /\ Range(<<"dxgi_sync">>) \subseteq Names("d3d11", Ctx)
<1> DEFINE core == <<"back_buffer", "waitable", "swap_chain2", "context", "device">>
<1>1. Names("d3d11", Ctx) = {"dxgi_sync", "back_buffer"} \cup (Range(D3D11ContextSteps) \ Range(D3D11Temporaries))
  BY DEF Names, D3D11Names, Ctx
<1>2. \A k \in 0..Len(D3D11ContextSteps) : Range(SubSeq(D3D11ContextSteps, 1, k)) \subseteq Range(D3D11ContextSteps)
  BY DEF Range, D3D11ContextSteps
<1>3. Range(D3D11ContextSteps) \subseteq Range(core) \cup Range(D3D11Temporaries) /\ "back_buffer" \in Range(core)
  <2>1. Range(D3D11Temporaries) = {"swap_chain1", "factory5", "factory2", "adapter", "unknown", "device2"}
    BY DEF Range, D3D11Temporaries
  <2>2. Range(core) = {"back_buffer", "waitable", "swap_chain2", "context", "device"}
    BY DEF Range
  <2>3. Range(D3D11ContextSteps) \subseteq
          {"waitable", "swap_chain2", "context", "device",
           "swap_chain1", "factory5", "factory2", "adapter", "unknown", "device2"}
    BY DEF Range, D3D11ContextSteps
  <2> QED
    BY <2>1, <2>2, <2>3
<1>5. Range(<<"back_buffer">>) = {"back_buffer"} /\ Range(<<"dxgi_sync">>) = {"dxgi_sync"}
  BY DEF Range
<1> HIDE DEF core
<1>6. Names("d3d11", Ctx) \subseteq Range(core) \cup Range(<<"dxgi_sync">>)
  BY <1>1, <1>3, <1>5
<1> QED
  BY <1>1, <1>2, <1>5, <1>6 DEF core

LEMMA D3D11DeviceFits ==
  ASSUME NEW h, NEW f, Fits(h, f), f.api = "d3d11", Ctx \in f.ptr
  PROVE  /\ Fits(d3d11_ctx_free(h), f)
         /\ \A r \in d3d11_ctx_init(h) : Fits(r.g, f) /\ (r.ok => r.g.ctx.dev # 0)
         /\ \A k \in DeviceAgain(h) : Fits(k, f)
<1>1. ASSUME NEW k, Fits(k, f) PROVE Fits(d3d11_ctx_free(k), f)
  <2> DEFINE a == FreeAll(k, Ctx, <<"back_buffer", "waitable", "swap_chain2", "context", "device">>)
             x == a.old \cup Living(a)
  <2>1. d3d11_ctx_free(k) = [a EXCEPT !.old = x]
    BY DEF d3d11_ctx_free
  <2>2. Fits(a, f)
    BY <1>1, FreedFits
  <2> HIDE DEF a, x
  <2>3. Fits([a EXCEPT !.old = x], f)
    BY <2>2, FieldsFitting
  <2> QED
    BY <2>1, <2>3
<1>2. ASSUME NEW j, Fits(j, f), NEW r \in d3d11_ctx_init(j) PROVE Fits(r.g, f) /\ (r.ok => r.g.ctx.dev # 0)
  <2> DEFINE m(i) == FreeAll(MakeAll(j, Ctx, SubSeq(D3D11ContextSteps, 1, i)), Ctx, D3D11Temporaries)
             n == FreeAll(NewDevice(MakeAll(j, Ctx, D3D11ContextSteps)), Ctx, D3D11Temporaries)
  <2>1. \/ r.ok /\ r.g = n
        \/ \E i \in 0..Len(D3D11ContextSteps) : ~r.ok /\ r.g = d3d11_ctx_free(m(i))
    BY <1>2 DEF d3d11_ctx_init, Result
  <2>2. Home(Ctx) \in f.ptr
    BY HomesAre
  <2>3. Fits(n, f) /\ n.ctx.dev # 0
    BY <1>2, <2>2, D3D11Are, NewTemporariesFit
  <2>4. \A i \in 0..Len(D3D11ContextSteps) : Fits(m(i), f)
    BY <1>2, <2>2, D3D11Are, TemporariesFit
  <2> HIDE DEF m, n
  <2> QED
    BY <1>1, <2>1, <2>3, <2>4
<1>3. \A k \in DeviceAgain(h) : Fits(k, f)
  BY <1>1, <1>2 DEF DeviceAgain
<1> QED
  BY <1>1, <1>2, <1>3

LEMMA D3D11ContextGone ==
  ASSUME NEW h, NEW f, Fits(h, f), f.api = "d3d11", Ctx \in f.ptr
  PROVE  Fits(mty_d3d11_ctx_destroy(h), Without(f, Ctx))
<1> DEFINE core == <<"back_buffer", "waitable", "swap_chain2", "context", "device">>
           a == FreeAll(h, Ctx, <<"dxgi_sync">>)
           b == FreeAll(a, Ctx, core)
           k == d3d11_ctx_free(a)
<1>0. h.ptr = f.ptr /\ Ctx \in Owners \ {Kept} /\ Home(Ctx) = Ctx
  BY FitsIs, OwnersDiffer, HomesAre
<1>1. mty_d3d11_ctx_destroy(h) = [k EXCEPT !.ptr = @ \ {Ctx}]
  BY <1>0 DEF mty_d3d11_ctx_destroy, Free
<1>2. k = [b EXCEPT !.old = @ \cup Living(b)]
  BY DEF d3d11_ctx_free
<1>3. Fits(a, f)
  BY FreedFits
<1>4. a.live[Ctx] = h.live[Ctx] \ Range(<<"dxgi_sync">>)
  BY <1>0, LiveAfter DEF Fits
<1>5. h.live[Ctx] \subseteq Names("d3d11", Ctx)
  BY <1>0 DEF Fits, Fit, Owned
<1> HIDE DEF a
<1>6. b.live[Ctx] = a.live[Ctx] \ Range(core)
  BY <1>0, <1>3, LiveAfter DEF Fits
<1>7. Fits(b, f)
  BY <1>3, FreedFits
<1>8. b.live[Ctx] = {}
  BY <1>4, <1>5, <1>6, D3D11Are
<1>9. "live" \in DOMAIN b
  BY <1>7 DEF Fits, Fit, Like
<1> HIDE DEF b
<1>10. k.live = b.live
  BY <1>2, <1>9
<1>11. Fits(k, f)
  BY <1>3, D3D11DeviceFits
<1> HIDE DEF k
<1> QED
  BY <1>1, <1>8, <1>10, <1>11, EmptyGone

LEMMA D3D11ContextFits ==
  ASSUME NEW h, NEW f, Fits(h, f), f.api = "d3d11"
  PROVE  /\ Ctx \notin f.ptr => \A r \in mty_d3d11_ctx_create(h) :
              Fits(r.g, IF r.ok THEN [Having(f, Ctx) EXCEPT !.known = TRUE] ELSE f)
         /\ Ctx \in f.ptr =>
              /\ \A r \in mty_d3d11_ctx_get_surface(h) : Fits(r.g, f)
              /\ \A k \in mty_d3d11_ctx_present(h) : Fits(k, f)
              /\ \A n : \A k \in mty_d3d11_ctx_set_sync_interval(h, n) : Fits(k, f)
<1>1. ASSUME Ctx \notin f.ptr, NEW r \in mty_d3d11_ctx_create(h)
      PROVE  Fits(r.g, IF r.ok THEN [Having(f, Ctx) EXCEPT !.known = TRUE] ELSE f)
  <2> DEFINE k == [h EXCEPT !.ptr = @ \cup {Ctx}, !.ctx.size = h.win.size,
                            !.ctx.interval = 0, !.ctx.rem = 0, !.drift = 0]
             e == Having(f, Ctx)
  <2>1. PICK s \in d3d11_ctx_init(k) : r = IF s.ok THEN s ELSE Result(mty_d3d11_ctx_destroy(s.g), FALSE)
    BY <1>1 DEF mty_d3d11_ctx_create
  <2>2. Fits(k, e)
    BY FreshFits
  <2>3. f \in Frames
    BY FitsIs
  <2>a. Akin(e, f) /\ e.ptr = f.ptr \cup {Ctx}
    BY <2>3, FramesAre, StructuresAre
  <2>b. Without(e, Ctx) = f
    BY <1>1, <2>3, HavingWithout
  <2>4. e.api = "d3d11" /\ Ctx \in e.ptr /\ Without(e, Ctx) = f
    BY <2>a, <2>b DEF Akin
  <2> HIDE DEF k, e
  <2>5. Fits(s.g, e) /\ (s.ok => s.g.ctx.dev # 0)
    BY <2>2, <2>4, D3D11DeviceFits
  <2>6. (s.ok /\ r.ok /\ r.g = s.g) \/ (~s.ok /\ ~r.ok /\ r.g = mty_d3d11_ctx_destroy(s.g))
    BY <2>1 DEF Result
  <2>7. s.ok => Fits(s.g, [e EXCEPT !.known = TRUE])
    BY <2>4, <2>5, KnownFits
  <2>8. ~s.ok => Fits(mty_d3d11_ctx_destroy(s.g), f)
    BY <2>4, <2>5, D3D11ContextGone
  <2> QED
    BY <2>6, <2>7, <2>8 DEF e
<1>2. ASSUME Ctx \in f.ptr, NEW r \in mty_d3d11_ctx_get_surface(h) PROVE Fits(r.g, f)
  <2> DEFINE j == Use(h, {<<Ctx, {"swap_chain2"}>>})
             sized == [j EXCEPT !.ctx.size = h.win.size]
             used(k) == Use(k, {<<Ctx, {"swap_chain2", "device"}>>})
             made(k) == Make(used(k), Ctx, "back_buffer")
  <2>1. \/ r = Result(h, FALSE) \/ r = Result(h, TRUE)
        \/ \E k \in d3d11_ctx_refresh(h) : r = Result(used(k), FALSE) \/ r = Result(made(k), TRUE)
    BY <1>2 DEF mty_d3d11_ctx_get_surface
  <2>2. ASSUME NEW k, Fits(k, f) PROVE Fits(used(k), f) /\ Fits(made(k), f)
    <3>1. Fits(used(k), f)
      BY <2>2, DriverFits
    <3> HIDE DEF used
    <3> QED
      BY <1>2, <3>1, D3D11Are, HomesAre, MakeFits DEF Make
  <2> HIDE DEF used, made
  <2>3. r.g = h \/ \E k \in d3d11_ctx_refresh(h) : r.g = used(k) \/ r.g = made(k)
    BY <2>1 DEF Result
  <2>4. Fits(j, f)
    BY DriverFits
  <2>5. \A k \in d3d11_ctx_refresh(h) : k = h \/ k = sized \/ k = j \/ k \in DeviceAgain(j)
    BY DEF d3d11_ctx_refresh
  <2> HIDE DEF j
  <2>6. Fits(sized, f)
    BY <2>4, FieldsFitting
  <2>7. \A k \in DeviceAgain(j) : Fits(k, f)
    BY <1>2, <2>4, D3D11DeviceFits
  <2> HIDE DEF sized
  <2> QED
    BY <2>2, <2>3, <2>4, <2>5, <2>6, <2>7
<1>3. ASSUME Ctx \in f.ptr, NEW k \in mty_d3d11_ctx_present(h) PROVE Fits(k, f)
  <2> DEFINE a == sync_next_interval(h)
             b == Use(a, {<<Ctx, {"swap_chain2"}>>})
             j == Free(b, Ctx, "back_buffer")
             x == Use(j, {<<Ctx, {"waitable"}>>})
  <2>1. k = h \/ k = x \/ k \in DeviceAgain(j)
    BY <1>3 DEF mty_d3d11_ctx_present
  <2>2. Fits(a, f)
    BY DriverFits
  <2> HIDE DEF a
  <2>3. Fits(b, f)
    BY <2>2, DriverFits
  <2> HIDE DEF b
  <2>4. Fits(j, f)
    BY <2>3, FreedFits
  <2> HIDE DEF j
  <2>5. Fits(x, f)
    BY <2>4, DriverFits
  <2>7. \A z \in DeviceAgain(j) : Fits(z, f)
    BY <1>3, <2>4, D3D11DeviceFits
  <2> QED
    BY <2>1, <2>5, <2>7
<1>4. ASSUME Ctx \in f.ptr, NEW n, NEW k \in mty_d3d11_ctx_set_sync_interval(h, n) PROVE Fits(k, f)
  <2> DEFINE j == sync_set_interval(h, n)
  <2>1. k = j \/ k = Make(j, Ctx, "dxgi_sync")
    BY <1>4 DEF mty_d3d11_ctx_set_sync_interval, dxgi_sync_create
  <2>2. Fits(j, f)
    BY DriverFits
  <2> HIDE DEF j
  <2>3. Fits(Make(j, Ctx, "dxgi_sync"), f)
    BY <1>4, <2>2, D3D11Are, HomesAre, MakeFits DEF Make
  <2> QED
    BY <2>1, <2>2, <2>3
<1> QED
  BY <1>1, <1>2, <1>3, <1>4

LEMMA D3D11LayersAre ==
  LET names == <<"rs", "dss", "bs", "ss_linear", "ss_nearest", "il", "psbres", "psb", "ib", "vb", "ps", "vs">>
  IN /\ \A l : Names("d3d11", Quad(l)) \subseteq Range(names)
     /\ \A l : \A k \in 0..Len(D3D11QuadSteps) : Range(SubSeq(D3D11QuadSteps, 1, k)) \subseteq Names("d3d11", Quad(l))
     /\ \A l, p : /\ Names("d3d11", Plane(l, p)) = Range(<<"srv", "resource">>)
                  /\ \A k \in 0..3 : Range(SubSeq(<<"texture", "resource", "srv">>, 1, k))
                                       \subseteq Names("d3d11", Plane(l, p)) \cup Range(<<"texture">>)
     /\ Len(D3D11QuadSteps) \in 0..Len(D3D11QuadSteps)
<1>1. \A l : Names("d3d11", Quad(l)) = Range(D3D11QuadSteps)
  BY DEF Names, D3D11Names, Quad
<1>2. \A l, p : Names("d3d11", Plane(l, p)) = {"srv", "resource"}
  BY DEF Names, D3D11Names, Plane
<1>3. Range(D3D11QuadSteps) \subseteq
        Range(<<"rs", "dss", "bs", "ss_linear", "ss_nearest", "il", "psbres", "psb", "ib", "vb", "ps", "vs">>)
  BY DEF Range, D3D11QuadSteps
<1>4. \A k \in 0..Len(D3D11QuadSteps) : Range(SubSeq(D3D11QuadSteps, 1, k)) \subseteq Range(D3D11QuadSteps)
  BY DEF Range, D3D11QuadSteps
<1>5. Range(<<"srv", "resource">>) = {"srv", "resource"} /\ Range(<<"texture">>) = {"texture"}
  BY DEF Range
<1>6. Len(D3D11QuadSteps) \in 0..Len(D3D11QuadSteps)
  BY DEF D3D11QuadSteps
<1>7. \A k \in 0..3 : Range(SubSeq(<<"texture", "resource", "srv">>, 1, k)) \subseteq {"texture", "resource", "srv"}
  BY DEF Range
<1>8. \A l, p : /\ Names("d3d11", Plane(l, p)) = Range(<<"srv", "resource">>)
                /\ \A k \in 0..3 : Range(SubSeq(<<"texture", "resource", "srv">>, 1, k))
                                     \subseteq Names("d3d11", Plane(l, p)) \cup Range(<<"texture">>)
  BY <1>2, <1>5, <1>7
<1> QED
  BY <1>1, <1>3, <1>4, <1>6, <1>8

LEMMA D3D11LayerGone ==
  ASSUME NEW h, NEW f, Fits(h, f), f.api = "d3d11", NEW l \in Layers
  PROVE  Fits(mty_d3d11_destroy(h, l), Without(f, Quad(l)))
<1> DEFINE o == Quad(l)
           plane == <<"srv", "resource">>
           names == <<"rs", "dss", "bs", "ss_linear", "ss_nearest", "il", "psbres", "psb", "ib", "vb", "ps", "vs">>
           a == FreeAll(h, Plane(l, 1), plane)
           j == NoPlaneAt(a, l, 1)
           b == FreeAll(j, Plane(l, 2), plane)
           k == NoPlaneAt(b, l, 2)
<1>1. h.ptr = f.ptr /\ f \in Frames
  BY FitsIs
<1>2. mty_d3d11_destroy(h, l) = IF o \notin h.ptr THEN h ELSE Destroyed(k, o, names)
  BY DEF mty_d3d11_destroy, d3d11_destroy_resource
<1>3. \A p \in {1, 2} : Names(f.api, Plane(l, p)) \subseteq Range(plane)
  BY D3D11LayersAre
<1>4. Names(f.api, o) \subseteq Range(names)
  BY D3D11LayersAre
<1> HIDE DEF plane, names
<1>5. CASE o \notin f.ptr
  BY <1>1, <1>2, <1>5, NotThere
<1>6. CASE o \in f.ptr
  <2>1. Fit(a, f, Vacant(Owned(f), Plane(l, 1)))
    BY <1>3, PlanesFreed
  <2> HIDE DEF a
  <2>2. Fit(j, f, Vacant(Owned(f), Plane(l, 1)))
    BY <2>1, QuadFit
  <2> HIDE DEF j
  <2>3. Fit(b, f, Vacant(Vacant(Owned(f), Plane(l, 1)), Plane(l, 2)))
    BY <1>3, <2>2, PlanesFreed
  <2> HIDE DEF b
  <2>4. Fit(k, f, Vacant(Vacant(Owned(f), Plane(l, 1)), Plane(l, 2)))
    BY <2>3, QuadFit
  <2> HIDE DEF k
  <2>5. Fits(Destroyed(k, o, names), Without(f, o))
    BY <1>4, <1>6, <2>4, LayerGone
  <2> QED
    BY <1>1, <1>2, <1>6, <2>5
<1> QED
  BY <1>5, <1>6

LEMMA D3D11LayerFits ==
  ASSUME NEW h, NEW f, Fits(h, f), f.api = "d3d11", NEW l \in Layers, Quad(l) \notin f.ptr
  PROVE  \A r \in mty_d3d11_create(h, l) : Fits(r.g, IF r.ok THEN Having(f, Quad(l)) ELSE f)
<1> DEFINE o == Quad(l)
           e == Having(f, o)
           m(i) == MakeAll([h EXCEPT !.ptr = @ \cup {o}], o, SubSeq(D3D11QuadSteps, 1, i))
<1>0. o \in Structures /\ Home(o) = o
  BY StructuresAre, HomesAre
<1>1. ASSUME NEW r \in mty_d3d11_create(h, l) PROVE Fits(r.g, IF r.ok THEN e ELSE f)
  <2>1. PICK i \in 0..Len(D3D11QuadSteps) : r = Result(m(i), TRUE) \/ r = Result(mty_d3d11_destroy(m(i), l), FALSE)
    BY <1>1, D3D11LayersAre DEF mty_d3d11_create, Create
  <2>2. \A x \in 0..Len(D3D11QuadSteps) : Range(SubSeq(D3D11QuadSteps, 1, x)) \subseteq Names(f.api, o)
    BY D3D11LayersAre
  <2> HIDE DEF o
  <2>3. Fits(m(i), e) /\ e.api = f.api /\ Without(e, o) = f
    BY <1>0, <2>2, CreatedFits DEF o
  <2> HIDE DEF m, e
  <2>4. Fits(mty_d3d11_destroy(m(i), l), Without(e, o))
    BY <2>3, D3D11LayerGone DEF o
  <2>5. (r.ok /\ r.g = m(i)) \/ (~r.ok /\ r.g = mty_d3d11_destroy(m(i), l))
    BY <2>1 DEF Result
  <2>6. QED
    BY <2>3, <2>4, <2>5
<1> QED
  BY <1>1

LEMMA D3D11PlaneFits ==
  ASSUME NEW h, NEW f, Fits(h, f), f.api = "d3d11", NEW l \in Layers, Quad(l) \in f.ptr, NEW p, NEW fmt, NEW size,
         NEW r \in d3d11_refresh_resource(h, l, p, fmt, size)
  PROVE  Fits(r.g, f)
<1> DEFINE o == Plane(l, p)
           freed(k) == FreeAll(k, o, <<"srv", "resource">>)
           j == d3d11_destroy_resource(h, l, p)
           made(k) == Free(MakeAll(j, o, SubSeq(<<"texture", "resource", "srv">>, 1, k)), o, "texture")
           set == SetPlane(made(3), l, p, fmt, size)
<1>0. o # Ctx /\ Home(o) \in f.ptr
  BY HomesAre DEF Plane, Ctx
<1>1. ASSUME NEW k, Fits(k, f) PROVE Fits(d3d11_destroy_resource(k, l, p), f)
  <2>1. d3d11_destroy_resource(k, l, p) = NoPlaneAt(freed(k), l, p)
    BY DEF d3d11_destroy_resource
  <2>2. Fits(freed(k), f)
    BY <1>0, <1>1, FreedFits
  <2> HIDE DEF freed
  <2> QED
    BY <2>1, <2>2, QuadFits
<1>2. ASSUME NEW k, Fits(k, f), NEW s \in d3d11_crop_copy(k, l, p) PROVE Fits(s.g, f)
  BY <1>2, DriverFits DEF d3d11_crop_copy, Result
<1>3. Fits(j, f)
  BY <1>1
<1>4. \/ r \in d3d11_crop_copy(h, l, p) \/ (\E k \in 0..2 : r.g = d3d11_destroy_resource(made(k), l, p))
      \/ r \in d3d11_crop_copy(set, l, p)
  BY DEF d3d11_refresh_resource, Result
<1> HIDE DEF j
<1>5. \A k \in 0..3 : Fits(made(k), f)
  <2>1. \A k \in 0..3 : Range(SubSeq(<<"texture", "resource", "srv">>, 1, k)) \subseteq Names(f.api, o) \cup Range(<<"texture">>)
    BY D3D11LayersAre
  <2> QED
    BY <1>0, <1>3, <2>1, TemporariesFit DEF Free
<1> HIDE DEF made
<1>6. Fits(set, f)
  BY <1>5, QuadFits
<1> HIDE DEF set
<1> QED
  BY <1>1, <1>2, <1>4, <1>5, <1>6

LEMMA D3D11RenderFits ==
  ASSUME NEW h, NEW f, Fits(h, f), f.api = "d3d11", NEW l \in Layers, Quad(l) \in f.ptr, NEW fmt, NEW size,
         NEW k \in mty_d3d11_render(h, l, fmt, size)
  PROVE  Fits(k, f)
<1> DEFINE j == SetFormat(h, l, fmt)
           loaded == fmt_reload_textures(j, l, fmt, size, d3d11_refresh_resource)
<1>1. Fits(j, f)
  BY QuadFits
<1>2. k = j \/ \E s \in loaded : k = s.g \/ k = D3D11Draw(s.g, l)
  BY DEF mty_d3d11_render, Then, Result
<1> HIDE DEF j
<1>3. ASSUME NEW s \in loaded PROVE Fits(s.g, f)
  <2>1. \A x, p : Fits(x, f) => \A r \in d3d11_refresh_resource(x, l, p, fmt, size) : Fits(r.g, f)
    BY D3D11PlaneFits
  <2>2. CASE fmt = "bgra"
    BY <1>1, <2>1, <2>2 DEF fmt_reload_textures
  <2>3. CASE fmt = "nv12"
    <3>1. PICK r \in d3d11_refresh_resource(j, l, 1, fmt, size) :
            s \in IF r.ok THEN d3d11_refresh_resource(r.g, l, 2, fmt, size) ELSE {r}
      BY <2>3 DEF fmt_reload_textures, Then
    <3> QED
      BY <1>1, <2>1, <3>1
  <2>4. CASE fmt # "bgra" /\ fmt # "nv12"
    BY <1>1, <2>4 DEF fmt_reload_textures, Result
  <2> QED
    BY <2>2, <2>3, <2>4
<1> HIDE DEF loaded
<1>4. ASSUME NEW x, Fits(x, f) PROVE Fits(D3D11Draw(x, l), f)
  <2>1. Fits(Shown(x, l), f)
    BY <1>4, QuadFits
  <2> QED
    BY <2>1, DriverFits DEF D3D11Draw
<1> QED
  BY <1>1, <1>2, <1>3, <1>4

LEMMA D3D11UIAre ==
  LET names == <<"sampler", "vbres", "ibres", "ib", "vb", "bs", "dss", "rs", "ps", "cb_res", "cb", "il", "vs">>
      steps == <<"texture", "resource", "srv">>
  IN /\ \A o \in UITextures : Names("d3d11", o) \subseteq Range(<<"srv">>)
     /\ \A t : Range(SubSeq(steps, 1, 3)) \ Range(<<"resource", "texture">>) \subseteq Names("d3d11", Tex(t))
     /\ \A k \in 0..2 : Range(SubSeq(steps, 1, k)) \ Range(<<"resource", "texture">>) = {}
     /\ Names("d3d11", UI) \subseteq Range(names)
     /\ \A k \in 0..Len(D3D11UISteps) : Range(SubSeq(D3D11UISteps, 1, k)) \subseteq Names("d3d11", UI)
     /\ Len(D3D11UISteps) \in 0..Len(D3D11UISteps)
     /\ \A b \in {"vb", "ib"} : /\ Range(<<b, IF b = "vb" THEN "vbres" ELSE "ibres">>) \subseteq Names("d3d11", UI)
                                /\ Range(<<b>>) \subseteq Names("d3d11", UI)
<1> DEFINE names == <<"sampler", "vbres", "ibres", "ib", "vb", "bs", "dss", "rs", "ps", "cb_res", "cb", "il", "vs">>
           steps == <<"texture", "resource", "srv">>
<1>1. (\A t : Names("d3d11", Tex(t)) = {"srv"}) /\ Names("d3d11", Clear) = {}
  BY DEF Names, D3D11Names, Clear, Tex
<1>2. Range(<<"srv">>) = {"srv"} /\ Range(<<"resource", "texture">>) = {"resource", "texture"}
  BY DEF Range
<1>3. \A o \in UITextures : Names("d3d11", o) \subseteq Range(<<"srv">>)
  BY <1>1, <1>2 DEF UITextures
<1>4. Range(SubSeq(steps, 1, 3)) \subseteq {"texture", "resource", "srv"}
  BY DEF Range
<1>5. \A k \in 0..2 : Range(SubSeq(steps, 1, k)) \subseteq {"texture", "resource"}
  BY DEF Range
<1>6. Names("d3d11", UI) = Range(D3D11UISteps) \cup {"vb", "vbres", "ib", "ibres"}
  BY DEF Names, D3D11Names, UI
<1>7. Range(D3D11UISteps) \cup {"vb", "vbres", "ib", "ibres"} \subseteq Range(names)
  <2>1. Range(names) = {"sampler", "vbres", "ibres", "ib", "vb", "bs", "dss", "rs", "ps", "cb_res", "cb", "il", "vs"}
    BY DEF Range
  <2>2. Range(D3D11UISteps) \subseteq {"vs", "ps", "il", "cb", "cb_res", "bs", "rs", "dss", "sampler"}
    BY DEF Range, D3D11UISteps
  <2> QED
    BY <2>1, <2>2
<1>8. \A k \in 0..Len(D3D11UISteps) : Range(SubSeq(D3D11UISteps, 1, k)) \subseteq Range(D3D11UISteps)
  BY DEF Range, D3D11UISteps
<1>9. Len(D3D11UISteps) \in 0..Len(D3D11UISteps)
  BY DEF D3D11UISteps
<1>10. \A b, c : Range(<<b, c>>) = {b, c} /\ Range(<<b>>) = {b}
  BY DEF Range
<1>11. \A t : Range(SubSeq(steps, 1, 3)) \ Range(<<"resource", "texture">>) \subseteq Names("d3d11", Tex(t))
  BY <1>1, <1>2, <1>4
<1>12. \A k \in 0..2 : Range(SubSeq(steps, 1, k)) \ Range(<<"resource", "texture">>) = {}
  BY <1>2, <1>5
<1> HIDE DEF names, steps
<1>13. Names("d3d11", UI) \subseteq Range(names)
  BY <1>6, <1>7
<1>14. \A k \in 0..Len(D3D11UISteps) : Range(SubSeq(D3D11UISteps, 1, k)) \subseteq Names("d3d11", UI)
  BY <1>6, <1>8
<1>15. \A b \in {"vb", "ib"} : /\ Range(<<b, IF b = "vb" THEN "vbres" ELSE "ibres">>) \subseteq Names("d3d11", UI)
                               /\ Range(<<b>>) \subseteq Names("d3d11", UI)
  BY <1>6, <1>10
<1> QED
  BY <1>3, <1>9, <1>11, <1>12, <1>13, <1>14, <1>15 DEF names, steps

LEMMA D3D11TextureFits ==
  ASSUME NEW h, NEW f, Fits(h, f), f.api = "d3d11", NEW t \in Textures
  PROVE  /\ Fits(mty_d3d11_ui_destroy_texture(h, Tex(t)), Without(f, Tex(t)))
         /\ Tex(t) \notin f.ptr => \A r \in mty_d3d11_ui_create_texture(h, Tex(t)) :
              Fits(r.g, IF r.ok THEN Having(f, Tex(t)) ELSE f)
<1> DEFINE o == Tex(t)
<1>0. o \in UITextures /\ o \in Structures /\ o # Ctx /\ \A l \in Layers : o # Quad(l)
  BY UITexturesAre DEF UITextures
<1>1. Fits(mty_d3d11_ui_destroy_texture(h, o), Without(f, o))
  BY <1>0, D3D11UIAre, StructureGone DEF mty_d3d11_ui_destroy_texture
<1>2. ASSUME o \notin f.ptr, NEW r \in mty_d3d11_ui_create_texture(h, o) PROVE Fits(r.g, IF r.ok THEN Having(f, o) ELSE f)
  <2> DEFINE steps == <<"texture", "resource", "srv">>
             S(i) == Range(SubSeq(steps, 1, i)) \ Range(<<"resource", "texture">>)
             m(i) == FreeAll(MakeAll(h, o, SubSeq(steps, 1, i)), o, <<"resource", "texture">>)
             k == [m(3) EXCEPT !.ptr = @ \cup {o}]
  <2>1. (\E i \in 0..2 : r = Result(m(i), FALSE)) \/ r = Result(k, TRUE)
    BY <1>2 DEF mty_d3d11_ui_create_texture
  <2>2. S(3) \subseteq Names(f.api, o) /\ \A i \in 0..2 : S(i) = {}
    BY D3D11UIAre
  <2> HIDE DEF o, steps
  <2>3. \A i \in 0..3 : Fit(m(i), f, Holding(f, o, S(i)))
    BY <1>0, <1>2, TextureHeld
  <2> HIDE DEF m, S
  <2>a. \A i \in 0..2 : Fit(m(i), f, Holding(f, o, {}))
    BY <2>2, <2>3
  <2>4. \A i \in 0..2 : Fits(m(i), f)
    BY <1>0, <1>2, <2>a, TextureHeld
  <2>5. Fits(k, Having(f, o))
    BY <1>0, <2>2, <2>3, TextureThere
  <2> HIDE DEF k
  <2>6. (~r.ok /\ \E i \in 0..2 : r.g = m(i)) \/ (r.ok /\ r.g = k)
    BY <2>1 DEF Result
  <2> QED
    BY <2>4, <2>5, <2>6
<1> QED
  BY <1>1, <1>2

LEMMA D3D11UIGone ==
  ASSUME NEW h, NEW f, Fits(h, f), f.api = "d3d11"
  PROVE  Fits(mty_d3d11_ui_destroy(h), Without(f, UI))
<1> DEFINE names == <<"sampler", "vbres", "ibres", "ib", "vb", "bs", "dss", "rs", "ps", "cb_res", "cb", "il", "vs">>
           k == Destroyed(h, UI, names)
<1>0. h.ptr = f.ptr /\ f \in Frames /\ UI \in Structures /\ UI # Ctx /\ (\A l \in Layers : UI # Quad(l))
  BY FitsIs, StructuresAre, OwnersDiffer
<1>1. mty_d3d11_ui_destroy(h) = IF UI \notin h.ptr THEN h ELSE [k EXCEPT !.len = NewLen]
  BY DEF mty_d3d11_ui_destroy
<1>2. Names(f.api, UI) \subseteq Range(names)
  BY D3D11UIAre
<1> HIDE DEF names
<1>3. Fits(k, Without(f, UI))
  BY <1>0, <1>2, StructureGone
<1> HIDE DEF k
<1>4. Fits([k EXCEPT !.len = NewLen], Without(f, UI))
  BY <1>3, FieldsFitting
<1> QED
  BY <1>0, <1>1, <1>4, NotThere

LEMMA D3D11UIFits ==
  ASSUME NEW h, NEW f, Fits(h, f), f.api = "d3d11", UI \notin f.ptr
  PROVE  \A r \in mty_d3d11_ui_create(h) : Fits(r.g, IF r.ok THEN Having(f, UI) ELSE f)
<1> DEFINE e == Having(f, UI)
           m(i) == MakeAll([h EXCEPT !.ptr = @ \cup {UI}], UI, SubSeq(D3D11UISteps, 1, i))
<1>0. UI \in Structures /\ Home(UI) = UI
  BY StructuresAre, HomesAre
<1>1. ASSUME NEW r \in mty_d3d11_ui_create(h) PROVE Fits(r.g, IF r.ok THEN e ELSE f)
  <2>1. PICK i \in 0..Len(D3D11UISteps) : r = Result(m(i), TRUE) \/ r = Result(mty_d3d11_ui_destroy(m(i)), FALSE)
    BY <1>1, D3D11UIAre DEF mty_d3d11_ui_create, Create
  <2>2. \A x \in 0..Len(D3D11UISteps) : Range(SubSeq(D3D11UISteps, 1, x)) \subseteq Names(f.api, UI)
    BY D3D11UIAre
  <2>3. Fits(m(i), e) /\ e.api = f.api /\ Without(e, UI) = f
    BY <1>0, <2>2, CreatedFits
  <2> HIDE DEF m, e
  <2>4. Fits(mty_d3d11_ui_destroy(m(i)), Without(e, UI))
    BY <2>3, D3D11UIGone
  <2>5. (r.ok /\ r.g = m(i)) \/ (~r.ok /\ r.g = mty_d3d11_ui_destroy(m(i)))
    BY <2>1 DEF Result
  <2>6. QED
    BY <2>3, <2>4, <2>5
<1> QED
  BY <1>1

LEMMA D3D11UIRenderFits ==
  ASSUME NEW h, NEW f, Fits(h, f), f.api = "d3d11", UI \in f.ptr
  PROVE  \A need : \A k \in mty_d3d11_ui_render(h, need) : Fits(k, f)
<1>1. ASSUME NEW j, Fits(j, f), NEW b \in {"vb", "ib"}, NEW need, NEW r \in d3d11_ui_resize_buffer(j, b, need)
      PROVE  Fits(r.g, f)
  <2> DEFINE res == IF b = "vb" THEN "vbres" ELSE "ibres"
             a == FreeAll(j, UI, <<res, b>>)
             m == MakeAll(a, UI, <<b, res>>)
             n == Make(a, UI, b)
             x == [m.len EXCEPT ![b] = need]
             k == [m EXCEPT !.len = x]
  <2>1. Fits(a, f)
    BY <1>1, FreedFits, OwnersDiffer
  <2>3. k = [m EXCEPT !.len[b] = need]
    OBVIOUS
  <2>4. r.g = j \/ r.g = k \/ r.g = a \/ r.g = n
    BY <1>1, <2>3 DEF d3d11_ui_resize_buffer, Result
  <2> HIDE DEF a
  <2>5. Range(<<b, res>>) \subseteq Names(f.api, UI) /\ Range(<<b>>) \subseteq Names(f.api, UI) /\ Home(UI) \in f.ptr
    BY D3D11UIAre, HomesAre
  <2> HIDE DEF res
  <2>6. Fits(m, f) /\ Fits(n, f)
    BY <2>1, <2>5, MakeFits DEF Make
  <2> HIDE DEF m, n, x
  <2>2. Fits(k, f)
    BY <2>6, FieldsFitting
  <2> HIDE DEF k
  <2> QED
    BY <1>1, <2>1, <2>2, <2>4, <2>6
<1>2. ASSUME NEW j, Fits(j, f) PROVE Fits(D3D11UIDraw(j), f) /\ (\A uses : Fits(Use(j, uses), f)) /\ \A w : Fits(Error(j, w), f)
  BY <1>2, DriverFits DEF D3D11UIDraw
<1>3. ASSUME NEW need, NEW k \in mty_d3d11_ui_render(h, need) PROVE Fits(k, f)
  <2>1. PICK q \in Then(d3d11_ui_resize_buffer(h, "vb", need), LAMBDA x : d3d11_ui_resize_buffer(x, "ib", need)) :
          \/ k = q.g \/ k = Use(q.g, {<<UI, {"vbres", "ibres"}>>}) \/ k = D3D11UIDraw(q.g)
          \/ k = Error(Use(q.g, {<<UI, {"vbres", "ibres"}>>}), "buffer stays mapped")
    <3> DEFINE both == Then(d3d11_ui_resize_buffer(h, "vb", need), LAMBDA x : d3d11_ui_resize_buffer(x, "ib", need))
               used(x) == Use(x, {<<UI, {"vbres", "ibres"}>>})
               stuck(x) == Error(used(x), "buffer stays mapped")
               draw(x) == {Result(used(x), FALSE), Result(D3D11UIDraw(x), TRUE)}
                          \cup (IF "map" \in Faults THEN {Result(stuck(x), FALSE)} ELSE {})
               all == Then(both, draw)
    <3>1. PICK z \in all : k = z.g
      BY <1>3 DEF mty_d3d11_ui_render
    <3> HIDE DEF both, used, stuck, draw
    <3>2. PICK q \in both : z = q \/ z \in draw(q.g)
      BY DEF Then
    <3> HIDE DEF all
    <3>3. \A x : z \in draw(x) => z.g = used(x) \/ z.g = D3D11UIDraw(x) \/ z.g = stuck(x)
      BY DEF draw, Result
    <3>4. k = q.g \/ k = used(q.g) \/ k = D3D11UIDraw(q.g) \/ k = stuck(q.g)
      BY <3>1, <3>2, <3>3
    <3> QED
      BY <3>4 DEF both, used, stuck
  <2>2. PICK t \in d3d11_ui_resize_buffer(h, "vb", need) :
          q \in IF t.ok THEN d3d11_ui_resize_buffer(t.g, "ib", need) ELSE {t}
    BY DEF Then
  <2>3. Fits(t.g, f)
    BY <1>1
  <2>4. Fits(q.g, f)
    BY <1>1, <2>2, <2>3
  <2> QED
    BY <1>2, <2>1, <2>4
<1> QED
  BY <1>3

-----------------------------------------------------------------------------
(* Metal. *)

\* A structure with objects that were made before it.
LEMMA MadeThenThere ==
  ASSUME NEW h, NEW f, Fits(h, f), NEW o \in {Ctx, UI} \cup UITextures, NEW names, Range(names) \subseteq Names(f.api, o)
  PROVE  Fits([MakeAll(h, o, names) EXCEPT !.ptr = @ \cup {o}], Having(f, o))
<1> DEFINE P == Owned(f)
           Q == [P EXCEPT ![o] = @ \cup Range(names)]
           k == MakeAll(h, o, names)
           j == [k EXCEPT !.ptr = k.ptr \cup {o}]
           e == [f EXCEPT !.ptr = k.ptr \cup {o}]
<1>0. o \in Owners \ {Kept} /\ o \in Structures /\ Home(o) = o
  BY AloneAre
<1>1. DOMAIN P = Owners /\ Fit(h, f, P)
  BY DEF Owned, Fits
<1>2. Fit(k, f, Q)
  BY <1>1, MakeAllFit
<1>3. \A x \in Owners : Q[x] = IF x = o THEN P[o] \cup Range(names) ELSE P[x]
  <2> HIDE DEF P
  <2> QED
    BY <1>1
<1> HIDE DEF Q, k
<1>a. k.ptr = f.ptr /\ f \in Frames
  BY <1>2, LikeIs
<1>b. f.ptr \in SUBSET Structures
  BY <1>a DEF Frames
<1>4. k.ptr = f.ptr /\ e = Having(f, o) /\ k.ptr \cup {o} \in SUBSET Structures /\ f \in Frames
  BY <1>0, <1>a, <1>b DEF Having
<1>5. Fit(j, e, Q)
  BY <1>2, <1>4, PtrFit
<1>6. e.ptr = f.ptr \cup {o} /\ e.api = f.api
  BY <1>4, LikeIs DEF Frames
<1> HIDE DEF e, j
<1>7. ASSUME NEW x \in Owners \ {Kept} PROVE Q[x] \subseteq Owned(e)[x]
  BY <1>0, <1>3, <1>6 DEF Owned
<1>8. Fit(j, e, Owned(e))
  BY <1>5, <1>7, Weaker
<1> QED
  BY <1>4, <1>8 DEF j, k, Fits

LEMMA MetalAre ==
  /\ Range(<<"layer", "cq">>) \subseteq Names("metal", Ctx) /\ Range(<<"back_buffer">>) \subseteq Names("metal", Ctx)
  /\ Range(<<"dlink">>) \subseteq Names("metal", Ctx)
  /\ Names("metal", Ctx) \subseteq Range(<<"dlink", "layer", "cq", "back_buffer">>)
  /\ \A l : Names("metal", Quad(l)) \subseteq
              Range(<<"library", "fs", "vs", "vb", "ib", "pipeline", "ss_linear", "ss_nearest", "niltex">>)
  /\ \A l : \A k \in 0..Len(MetalQuadSteps) : Range(SubSeq(MetalQuadSteps, 1, k)) \subseteq Names("metal", Quad(l))
  /\ Len(MetalQuadSteps) \in 0..Len(MetalQuadSteps)
  /\ \A l, p : Names("metal", Plane(l, p)) = Range(<<"texture">>)
  /\ \A t : Names("metal", Tex(t)) = Range(<<"texture">>)
  /\ Names("metal", UI) \subseteq Range(<<"rps", "niltex", "vb", "ib">>)
  /\ \A k \in 0..Len(MetalUISteps) : Range(SubSeq(MetalUISteps, 1, k)) \subseteq Names("metal", UI)
  /\ Len(MetalUISteps) \in 0..Len(MetalUISteps)
  /\ \A b \in {"vb", "ib"} : Range(<<b>>) \subseteq Names("metal", UI)
<1>1. Names("metal", Ctx) = {"dlink", "layer", "cq", "back_buffer"}
  BY DEF Names, MetalNames, Ctx
<1>2. \A l : Names("metal", Quad(l)) = Range(MetalQuadSteps)
  BY DEF Names, MetalNames, Quad
<1>3. (\A l, p : Names("metal", Plane(l, p)) = {"texture"}) /\ (\A t : Names("metal", Tex(t)) = {"texture"})
  BY DEF Names, MetalNames, Plane, Tex
<1>4. Names("metal", UI) = {"rps", "niltex", "vb", "ib"}
  BY DEF Names, MetalNames, UI
<1>5. \A b, c : Range(<<b, c>>) = {b, c} /\ Range(<<b>>) = {b}
  BY DEF Range
<1>6. \A a, b, c, d : Range(<<a, b, c, d>>) = {a, b, c, d}
  BY DEF Range
<1>7. Range(MetalQuadSteps) \subseteq
        Range(<<"library", "fs", "vs", "vb", "ib", "pipeline", "ss_linear", "ss_nearest", "niltex">>)
  BY DEF Range, MetalQuadSteps
<1>8. \A k \in 0..Len(MetalQuadSteps) : Range(SubSeq(MetalQuadSteps, 1, k)) \subseteq Range(MetalQuadSteps)
  BY DEF Range, MetalQuadSteps
<1>9. \A k \in 0..Len(MetalUISteps) : Range(SubSeq(MetalUISteps, 1, k)) \subseteq {"rps", "niltex"}
  BY DEF Range, MetalUISteps
<1>10. Len(MetalUISteps) \in 0..Len(MetalUISteps) /\ Len(MetalQuadSteps) \in 0..Len(MetalQuadSteps)
  BY DEF MetalUISteps, MetalQuadSteps
<1>11. Range(<<"layer", "cq">>) \subseteq Names("metal", Ctx) /\ Range(<<"back_buffer">>) \subseteq Names("metal", Ctx)
       /\ Range(<<"dlink">>) \subseteq Names("metal", Ctx)
       /\ Names("metal", Ctx) \subseteq Range(<<"dlink", "layer", "cq", "back_buffer">>)
  BY <1>1, <1>5, <1>6
<1>12. Names("metal", UI) \subseteq Range(<<"rps", "niltex", "vb", "ib">>)
       /\ \A b \in {"vb", "ib"} : Range(<<b>>) \subseteq Names("metal", UI)
  BY <1>4, <1>5, <1>6
<1>13. \A k \in 0..Len(MetalUISteps) : Range(SubSeq(MetalUISteps, 1, k)) \subseteq Names("metal", UI)
  BY <1>4, <1>9
<1>14. (\A l, p : Names("metal", Plane(l, p)) = Range(<<"texture">>)) /\ (\A t : Names("metal", Tex(t)) = Range(<<"texture">>))
  BY <1>3, <1>5
<1> QED
  BY <1>2, <1>7, <1>8, <1>10, <1>11, <1>12, <1>13, <1>14

LEMMA MetalContextFits ==
  ASSUME NEW h, NEW f, Fits(h, f), f.api = "metal"
  PROVE  /\ \A r \in mty_metal_ctx_create(h) :
              Fits(r.g, IF r.ok THEN [Having(f, Ctx) EXCEPT !.known = TRUE] ELSE f)
         /\ Fits(mty_metal_ctx_destroy(h), Without(f, Ctx))
         /\ Ctx \in f.ptr =>
              /\ \A r \in mty_metal_ctx_get_surface(h) : Fits(r.g, f)
              /\ \A k \in mty_metal_ctx_present(h) : Fits(k, f)
              /\ \A n : \A k \in mty_metal_ctx_set_sync_interval(h, n) : Fits(k, f)
<1>0. f \in Frames /\ Ctx \in Structures /\ (\A l \in Layers : Ctx # Quad(l)) /\ Home(Ctx) = Ctx
  BY FitsIs, StructuresAre, OwnersDiffer, HomesAre
<1>1. ASSUME NEW r \in mty_metal_ctx_create(h)
      PROVE  Fits(r.g, IF r.ok THEN [Having(f, Ctx) EXCEPT !.known = TRUE] ELSE f)
  <2> DEFINE m == MakeAll(h, Ctx, <<"layer", "cq">>)
             k == [m EXCEPT !.ptr = @ \cup {Ctx}]
             j == [k EXCEPT !.ctx.dev = 1, !.ctx.size = 0, !.ctx.interval = 0, !.ctx.rem = 0, !.drift = 0]
             e == Having(f, Ctx)
             P == Owned(e)
  <2>1. Fits(k, e)
    BY MadeThenThere, MetalAre
  <2> DEFINE n == [m EXCEPT !.ptr = @ \cup {Ctx}, !.ctx.dev = 1, !.ctx.size = 0, !.ctx.interval = 0,
                            !.ctx.rem = 0, !.drift = 0]
  <2>a. n = j
    OBVIOUS
  <2>b. r = Result(h, FALSE) \/ r = Result(n, TRUE)
    BY DEF mty_metal_ctx_create
  <2> HIDE DEF n, j, k
  <2>2. (~r.ok /\ r.g = h) \/ (r.ok /\ r.g = j)
    BY <2>a, <2>b DEF Result
  <2>3. e.api = "metal"
    BY <1>0, FramesAre DEF Akin
  <2>4. Fit(k, e, P)
    BY <2>1 DEF Fits
  <2> HIDE DEF e, P
  <2>5. Fit(j, e, P) /\ j.ctx.dev # 0
    <3> DEFINE b == [k EXCEPT !.ctx.dev = 1]
    <3>1. Fit(b, e, P) /\ b.ctx.dev = 1 /\ "ctx" \in DOMAIN b /\ "dev" \in DOMAIN b.ctx
      BY <2>3, <2>4 DEF Fit, Like, Has
    <3>2. j = [b EXCEPT !.ctx.size = 0, !.ctx.interval = 0, !.ctx.rem = 0, !.drift = 0]
      BY DEF j
    <3> HIDE DEF b
    <3>3. Fit([b EXCEPT !.ctx.size = 0, !.ctx.interval = 0, !.ctx.rem = 0, !.drift = 0], e, P)
      BY <3>1 DEF Fit, Like, Has
    <3>4. [b EXCEPT !.ctx.size = 0, !.ctx.interval = 0, !.ctx.rem = 0, !.drift = 0].ctx.dev = b.ctx.dev
      BY <3>1
    <3> QED
      BY <3>1, <3>2, <3>3, <3>4
  <2>6. Fits(j, e)
    BY <2>5 DEF P, Fits
  <2>7. Fits(j, [e EXCEPT !.known = TRUE])
    BY <2>3, <2>5, <2>6, KnownFits
  <2> QED
    BY <2>2, <2>7 DEF e
<1>2. Fits(mty_metal_ctx_destroy(h), Without(f, Ctx))
  BY <1>0, MetalAre, StructureGone DEF mty_metal_ctx_destroy
<1>3. ASSUME Ctx \in f.ptr, NEW r \in mty_metal_ctx_get_surface(h) PROVE Fits(r.g, f)
  <2> DEFINE s == [h EXCEPT !.ctx.size = h.win.size]
             j == Use(s, {<<Ctx, {"layer"}>>})
             k == Make(j, Ctx, "back_buffer")
  <2>1. r = Result(h, TRUE) \/ r = Result(j, FALSE) \/ r = Result(k, TRUE)
    BY <1>3 DEF mty_metal_ctx_get_surface, metal_ctx_refresh
  <2>2. Fits(s, f)
    BY FieldsFitting
  <2> HIDE DEF s
  <2>3. Fits(j, f)
    BY <2>2, DriverFits
  <2> HIDE DEF j
  <2>4. Fits(k, f)
    BY <1>0, <1>3, <2>3, MetalAre, MakeFits DEF Make
  <2> HIDE DEF k
  <2>5. r.g = h \/ r.g = j \/ r.g = k
    BY <2>1 DEF Result
  <2> QED
    BY <2>3, <2>4, <2>5
<1>4. ASSUME Ctx \in f.ptr, NEW k \in mty_metal_ctx_present(h) PROVE Fits(k, f)
  <2> DEFINE a == Use(h, {<<Ctx, {"cq", "back_buffer"}>>})
             j == sync_next_interval(a)
             d == display_link_wait(j)
  <2>1. k = h \/ k = Free(j, Ctx, "back_buffer") \/ k = Free(d, Ctx, "back_buffer")
    BY <1>4 DEF mty_metal_ctx_present
  <2>2. Fits(a, f)
    BY DriverFits
  <2> HIDE DEF a
  <2>3. Fits(j, f)
    BY <2>2, DriverFits
  <2> HIDE DEF j
  <2>4. Fits(d, f)
    BY <1>0, <1>4, <2>3, MetalAre, MakeFits DEF Make, display_link_wait
  <2> HIDE DEF d
  <2> QED
    BY <2>1, <2>3, <2>4, FreedFits
<1>5. \A n : \A k \in mty_metal_ctx_set_sync_interval(h, n) : Fits(k, f)
  BY DriverFits DEF mty_metal_ctx_set_sync_interval
<1> QED
  BY <1>1, <1>2, <1>3, <1>4, <1>5

LEMMA MetalLayerGone ==
  ASSUME NEW h, NEW f, Fits(h, f), f.api = "metal", NEW l \in Layers
  PROVE  Fits(mty_metal_destroy(h, l), Without(f, Quad(l)))
<1> DEFINE o == Quad(l)
           plane == <<"texture">>
           names == <<"library", "fs", "vs", "vb", "ib", "pipeline", "ss_linear", "ss_nearest", "niltex">>
           j == FreeAll(h, Plane(l, 1), plane)
           k == FreeAll(j, Plane(l, 2), plane)
<1>1. h.ptr = f.ptr /\ f \in Frames
  BY FitsIs
<1>2. mty_metal_destroy(h, l) = IF o \notin h.ptr THEN h ELSE Destroyed(k, o, names)
  BY DEF mty_metal_destroy, Free
<1>3. \A p \in {1, 2} : Names(f.api, Plane(l, p)) \subseteq Range(plane)
  BY MetalAre
<1>4. Names(f.api, o) \subseteq Range(names)
  BY MetalAre
<1> HIDE DEF plane, names
<1>5. CASE o \notin f.ptr
  BY <1>1, <1>2, <1>5, NotThere
<1>6. CASE o \in f.ptr
  <2>1. Fit(j, f, Vacant(Owned(f), Plane(l, 1)))
    BY <1>3, PlanesFreed
  <2> HIDE DEF j
  <2>2. Fit(k, f, Vacant(Vacant(Owned(f), Plane(l, 1)), Plane(l, 2)))
    BY <1>3, <2>1, PlanesFreed
  <2> HIDE DEF k
  <2>5. Fits(Destroyed(k, o, names), Without(f, o))
    BY <1>4, <1>6, <2>2, LayerGone
  <2> QED
    BY <1>1, <1>2, <1>6, <2>5
<1> QED
  BY <1>5, <1>6

LEMMA MetalLayerFits ==
  ASSUME NEW h, NEW f, Fits(h, f), f.api = "metal", NEW l \in Layers, Quad(l) \notin f.ptr
  PROVE  \A r \in mty_metal_create(h, l) : Fits(r.g, IF r.ok THEN Having(f, Quad(l)) ELSE f)
<1> DEFINE o == Quad(l)
           e == Having(f, o)
           m(i) == MakeAll([h EXCEPT !.ptr = @ \cup {o}], o, SubSeq(MetalQuadSteps, 1, i))
<1>0. o \in Structures /\ Home(o) = o
  BY StructuresAre, HomesAre
<1>1. ASSUME NEW r \in mty_metal_create(h, l) PROVE Fits(r.g, IF r.ok THEN e ELSE f)
  <2>1. PICK i \in 0..Len(MetalQuadSteps) : r = Result(m(i), TRUE) \/ r = Result(mty_metal_destroy(m(i), l), FALSE)
    BY <1>1, MetalAre DEF mty_metal_create, Create
  <2>2. \A x \in 0..Len(MetalQuadSteps) : Range(SubSeq(MetalQuadSteps, 1, x)) \subseteq Names(f.api, o)
    BY MetalAre
  <2> HIDE DEF o
  <2>3. Fits(m(i), e) /\ e.api = f.api /\ Without(e, o) = f
    BY <1>0, <2>2, CreatedFits DEF o
  <2> HIDE DEF m, e
  <2>4. Fits(mty_metal_destroy(m(i), l), Without(e, o))
    BY <2>3, MetalLayerGone DEF o
  <2>5. (r.ok /\ r.g = m(i)) \/ (~r.ok /\ r.g = mty_metal_destroy(m(i), l))
    BY <2>1 DEF Result
  <2>6. QED
    BY <2>3, <2>4, <2>5
<1> QED
  BY <1>1

LEMMA MetalPlaneFits ==
  ASSUME NEW h, NEW f, Fits(h, f), f.api = "metal", NEW l \in Layers, Quad(l) \in f.ptr, NEW p, NEW fmt, NEW size,
         NEW r \in metal_refresh_resource(h, l, p, fmt, size)
  PROVE  Fits(r.g, f)
<1> DEFINE o == Plane(l, p)
           a == Free(h, o, "texture")
           b == Make(a, o, "texture")
           set == SetPlane(b, l, p, fmt, size)
           used == Use(h, {<<o, {"texture"}>>})
<1>0. o # Ctx /\ Home(o) \in f.ptr
  BY HomesAre DEF Plane, Ctx
<1>1. r.g = h \/ r.g = set \/ r.g = used
  BY DEF metal_refresh_resource, Assign, Result
<1>2. Fits(a, f) /\ Fits(used, f)
  BY <1>0, FreedFits, DriverFits
<1>3. Range(<<"texture">>) \subseteq Names(f.api, o)
  BY MetalAre
<1> HIDE DEF a, o, used
<1>4. Fits(b, f)
  BY <1>0, <1>2, <1>3, MakeFits DEF Make
<1> HIDE DEF b
<1>5. Fits(set, f)
  BY <1>4, QuadFits
<1> QED
  BY <1>1, <1>2, <1>5

LEMMA MetalRenderFits ==
  ASSUME NEW h, NEW f, Fits(h, f), f.api = "metal", NEW l \in Layers, Quad(l) \in f.ptr, NEW fmt, NEW size,
         NEW k \in mty_metal_render(h, l, fmt, size)
  PROVE  Fits(k, f)
<1> DEFINE j == SetFormat(h, l, fmt)
           loaded == fmt_reload_textures(j, l, fmt, size, metal_refresh_resource)
<1>1. Fits(j, f)
  BY QuadFits
<1>2. k = j \/ \E s \in loaded : k = s.g \/ k = MetalDraw(s.g, l)
  BY DEF mty_metal_render, Then, Result
<1> HIDE DEF j
<1>3. ASSUME NEW s \in loaded PROVE Fits(s.g, f)
  <2>1. \A x, p : Fits(x, f) => \A r \in metal_refresh_resource(x, l, p, fmt, size) : Fits(r.g, f)
    BY MetalPlaneFits
  <2>2. CASE fmt = "bgra"
    BY <1>1, <2>1, <2>2 DEF fmt_reload_textures
  <2>3. CASE fmt = "nv12"
    <3>1. PICK r \in metal_refresh_resource(j, l, 1, fmt, size) :
            s \in IF r.ok THEN metal_refresh_resource(r.g, l, 2, fmt, size) ELSE {r}
      BY <2>3 DEF fmt_reload_textures, Then
    <3> QED
      BY <1>1, <2>1, <3>1
  <2>4. CASE fmt # "bgra" /\ fmt # "nv12"
    BY <1>1, <2>4 DEF fmt_reload_textures, Result
  <2> QED
    BY <2>2, <2>3, <2>4
<1> HIDE DEF loaded
<1>4. ASSUME NEW x, Fits(x, f) PROVE Fits(MetalDraw(x, l), f)
  <2>1. Fits(Shown(x, l), f)
    BY <1>4, QuadFits
  <2> QED
    BY <2>1, DriverFits DEF MetalDraw
<1> QED
  BY <1>1, <1>2, <1>3, <1>4

LEMMA MetalUIGone ==
  ASSUME NEW h, NEW f, Fits(h, f), f.api = "metal"
  PROVE  Fits(mty_metal_ui_destroy(h), Without(f, UI))
<1> DEFINE names == <<"rps", "niltex", "vb", "ib">>
           k == Destroyed(h, UI, names)
<1>0. UI \in Structures /\ UI # Ctx /\ (\A l \in Layers : UI # Quad(l))
  BY StructuresAre, OwnersDiffer
<1>1. mty_metal_ui_destroy(h) = [k EXCEPT !.len = NewLen]
  BY DEF mty_metal_ui_destroy
<1>2. Names(f.api, UI) \subseteq Range(names)
  BY MetalAre
<1> HIDE DEF names
<1>3. Fits(k, Without(f, UI))
  BY <1>0, <1>2, StructureGone
<1> HIDE DEF k
<1>4. Fits([k EXCEPT !.len = NewLen], Without(f, UI))
  BY <1>3, FieldsFitting
<1> QED
  BY <1>1, <1>4

LEMMA MetalUIFits ==
  ASSUME NEW h, NEW f, Fits(h, f), f.api = "metal", UI \notin f.ptr
  PROVE  \A r \in mty_metal_ui_create(h) : Fits(r.g, IF r.ok THEN Having(f, UI) ELSE f)
<1> DEFINE e == Having(f, UI)
           m(i) == MakeAll([h EXCEPT !.ptr = @ \cup {UI}], UI, SubSeq(MetalUISteps, 1, i))
<1>0. UI \in Structures /\ Home(UI) = UI
  BY StructuresAre, HomesAre
<1>1. ASSUME NEW r \in mty_metal_ui_create(h) PROVE Fits(r.g, IF r.ok THEN e ELSE f)
  <2>1. PICK i \in 0..Len(MetalUISteps) : r = Result(m(i), TRUE) \/ r = Result(mty_metal_ui_destroy(m(i)), FALSE)
    BY <1>1, MetalAre DEF mty_metal_ui_create, Create
  <2>2. \A x \in 0..Len(MetalUISteps) : Range(SubSeq(MetalUISteps, 1, x)) \subseteq Names(f.api, UI)
    BY MetalAre
  <2>3. Fits(m(i), e) /\ e.api = f.api /\ Without(e, UI) = f
    BY <1>0, <2>2, CreatedFits
  <2> HIDE DEF m, e
  <2>4. Fits(mty_metal_ui_destroy(m(i)), Without(e, UI))
    BY <2>3, MetalUIGone
  <2>5. (r.ok /\ r.g = m(i)) \/ (~r.ok /\ r.g = mty_metal_ui_destroy(m(i)))
    BY <2>1 DEF Result
  <2>6. QED
    BY <2>3, <2>4, <2>5
<1> QED
  BY <1>1

LEMMA MetalUIRenderFits ==
  ASSUME NEW h, NEW f, Fits(h, f), f.api = "metal", UI \in f.ptr
  PROVE  \A need : \A k \in mty_metal_ui_render(h, need) : Fits(k, f)
<1>1. ASSUME NEW j, Fits(j, f), NEW b \in {"vb", "ib"}, NEW need
      PROVE  Fits(ResizeBuffer(j, b, need), f)
  <2> DEFINE a == Free(j, UI, b)
             m == Make(a, UI, b)
             x == [m.len EXCEPT ![b] = need]
             k == [m EXCEPT !.len = x]
  <2>1. Fits(a, f)
    BY <1>1, FreedFits, OwnersDiffer
  <2>2. k = [m EXCEPT !.len[b] = need]
    OBVIOUS
  <2>3. ResizeBuffer(j, b, need) = j \/ ResizeBuffer(j, b, need) = k
    BY <2>2 DEF ResizeBuffer, Assign
  <2> HIDE DEF a
  <2>4. Range(<<b>>) \subseteq Names(f.api, UI) /\ Home(UI) \in f.ptr
    BY MetalAre, HomesAre
  <2>5. Fits(m, f)
    BY <2>1, <2>4, MakeFits DEF Make
  <2> HIDE DEF m, x
  <2>6. Fits(k, f)
    BY <2>5, FieldsFitting
  <2> HIDE DEF k
  <2> QED
    BY <1>1, <2>3, <2>6
<1>2. ASSUME NEW need, NEW k \in mty_metal_ui_render(h, need) PROVE Fits(k, f)
  <2> DEFINE a == ResizeBuffer(h, "vb", need)
             b == ResizeBuffer(a, "ib", need)
  <2>1. \E uses : k = Use(b, uses)
    BY <1>2 DEF mty_metal_ui_render
  <2>2. Fits(a, f)
    BY <1>1
  <2> HIDE DEF a
  <2>3. Fits(b, f)
    BY <1>1, <2>2
  <2> HIDE DEF b
  <2> QED
    BY <2>1, <2>3, DriverFits
<1> QED
  BY <1>2

LEMMA MetalTextureFits ==
  ASSUME NEW h, NEW f, Fits(h, f), f.api = "metal", NEW t \in Textures
  PROVE  /\ Fits(mty_metal_ui_destroy_texture(h, Tex(t)), Without(f, Tex(t)))
         /\ \A r \in mty_metal_ui_create_texture(h, Tex(t)) : r.ok /\ Fits(r.g, Having(f, Tex(t)))
<1> DEFINE o == Tex(t)
<1>0. o \in UITextures /\ o \in Owners \ {Kept}
  BY UITexturesAre DEF UITextures
<1>1. Fits(mty_metal_ui_destroy_texture(h, o), Without(f, o))
  <2> DEFINE k == [h EXCEPT !.has[o] = {}, !.live[o] = {}, !.live[Kept] = {"texture"}]
             j == [k EXCEPT !.ptr = @ \ {o}]
             P == Owned(f)
  <2>1. h.ptr = f.ptr /\ f \in Frames
    BY FitsIs
  <2>2. mty_metal_ui_destroy_texture(h, o) = IF o \notin h.ptr THEN h ELSE j
    BY DEF mty_metal_ui_destroy_texture
  <2>3. Fit(h, f, P)
    BY DEF Fits
  <2> HIDE DEF o, P
  <2>4. Like(h, f) /\ DOMAIN h.has = Owners /\ DOMAIN h.live = Owners /\ "live" \in DOMAIN h /\ "has" \in DOMAIN h
    BY <2>3 DEF Fit, Like
  <2>5. /\ DOMAIN k.has = Owners /\ DOMAIN k.live = Owners /\ k.live[o] = {}
        /\ \A x \in Owners \ {Kept} : x # o => k.has[x] = h.has[x] /\ k.live[x] = h.live[x]
    BY <1>0, <2>4
  <2>6. Like(k, f)
    BY <2>4 DEF Like
  <2> HIDE DEF k
  <2>7. Fit(k, f, P)
    BY <2>3, <2>5, <2>6 DEF Fit
  <2>8. Fits(j, Without(f, o))
    BY <1>0, <2>5, <2>7, EmptyGone DEF P, Fits
  <2> HIDE DEF j
  <2> QED
    BY <2>1, <2>2, <2>8, NotThere
<1>2. ASSUME NEW r \in mty_metal_ui_create_texture(h, o) PROVE r.ok /\ Fits(r.g, Having(f, o))
  <2> DEFINE k == [MakeAll(h, o, <<"texture">>) EXCEPT !.ptr = @ \cup {o}]
  <2>1. r = Result(k, TRUE)
    BY <1>2 DEF mty_metal_ui_create_texture, Make
  <2>2. Range(<<"texture">>) \subseteq Names(f.api, o)
    BY MetalAre
  <2>3. Fits(k, Having(f, o))
    BY <1>0, <2>2, MadeThenThere
  <2> HIDE DEF k
  <2>4. r.ok /\ r.g = k
    BY <2>1 DEF Result
  <2> QED
    BY <2>3, <2>4
<1> QED
  BY <1>1, <1>2

-----------------------------------------------------------------------------
(* OpenGL. *)

LEMMA GLContextNames ==
  LET both == <<"context", "eglsurface">>
      made == <<"eglsurface", "context">>
  IN /\ Range(made) = {"context", "eglsurface"} /\ Range(both) = {"context", "eglsurface"}
     /\ Range(<<"context">>) = {"context"} /\ "vkdevice" \notin Range(<<"eglsurface">>)
     /\ plat = "android" => Names("gl", Ctx) = {"context", "eglsurface"}
     /\ plat = "x11" => Names("gl", Ctx) = {"context"}
     /\ plat # "android" /\ plat # "x11" => Names("gl", Ctx) = {}
<1>1. /\ plat = "android" => Names("gl", Ctx) = {"context", "eglsurface"}
      /\ plat = "x11" => Names("gl", Ctx) = {"context"}
      /\ plat # "android" /\ plat # "x11" => Names("gl", Ctx) = {}
  BY DEF Names, GLNames, Ctx
<1>2. \A b, c : Range(<<b, c>>) = {b, c} /\ Range(<<b>>) = {b}
  BY DEF Range
<1> QED
  BY <1>1, <1>2

LEMMA ContextLostFits ==
  ASSUME NEW h, NEW f, Fits(h, f)
  PROVE  Fits(ContextLost(h), f)
<1> DEFINE new == [NoObjects EXCEPT ![Ctx] = h.live[Ctx]]
           k == [h EXCEPT !.live = new]
           P == Owned(f)
<1>1. ContextLost(h) = k
  BY DEF ContextLost
<1>2. NoObjects \in [Owners -> {{}}]
  <2>1. [o \in Owners |-> {}] \in [Owners -> {{}}]
    OBVIOUS
  <2> QED
    BY <2>1 DEF NoObjects
<1>3. DOMAIN new = Owners /\ \A x \in Owners : new[x] = IF x = Ctx THEN h.live[x] ELSE {}
  BY <1>2, OwnersDiffer
<1>4. Fit(h, f, P)
  BY DEF Fits
<1> HIDE DEF new, P
<1>5. k.live = new /\ k.has = h.has /\ Like(k, f)
  BY <1>4 DEF Fit, Like, Has
<1> HIDE DEF k
<1>6. Fit(k, f, P)
  BY <1>3, <1>4, <1>5 DEF Fit
<1> QED
  BY <1>1, <1>6 DEF P, Fits

LEMMA GLContextGone ==
  ASSUME NEW h, NEW f, Fits(h, f), f.api = "gl"
  PROVE  /\ Fits(gl_ctx_destroy_context(h), f)
         /\ plat = "android" => gl_ctx_destroy_context(h).live[Ctx] = {}
<1> DEFINE a == IF Has(h, Ctx, "context") THEN ContextLost(h) ELSE h
           both == <<"context", "eglsurface">>
           k == FreeAll(a, Ctx, both)
<1>0. Ctx \in Owners \ {Kept} /\ Home(Ctx) = Ctx
  BY OwnersDiffer, HomesAre
<1>1. Fits(a, f)
  BY ContextLostFits
<1>2. gl_ctx_destroy_context(h) = k
  BY DEF gl_ctx_destroy_context
<1> HIDE DEF a
<1>3. Fits(k, f)
  BY <1>1, FreedFits
<1>4. k.live[Ctx] = a.live[Ctx] \ Range(both)
  BY <1>0, <1>1, LiveAfter DEF Fits
<1>5. a.live[Ctx] \subseteq Names("gl", Ctx)
  BY <1>0, <1>1 DEF Fits, Fit, Owned
<1> HIDE DEF k
<1>6. plat = "android" => a.live[Ctx] \subseteq Range(both)
  BY <1>5, GLContextNames
<1> QED
  BY <1>2, <1>3, <1>4, <1>6

\* A call that makes a context anew has it.
LEMMA GLCheckFits ==
  ASSUME NEW h, NEW f, Fits(h, f), f.api = "gl", plat = "android", Ctx \in f.ptr
  PROVE  \A r \in gl_ctx_check(h) : Fits(r.g, f) /\ (r.ok => r.g.ctx.dev # 0)
<1> DEFINE a == gl_ctx_destroy_context(h)
           b == gl_ctx_create_context(a)
           c == NewDevice(b)
           k == [c EXCEPT !.ctx.init = TRUE]
<1>1. ASSUME NEW r \in gl_ctx_check(h)
      PROVE  (~r.ok /\ r.g = h) \/ (r.ok /\ r.g = h /\ h.ctx.init) \/ (r.ok /\ r.g = k)
  <2>1. r = Result(h, FALSE) \/ (r = Result(h, TRUE) /\ h.ctx.init) \/ r = Result(k, TRUE)
    <3> DEFINE up == h.win.up
               init == h.ctx.init
    <3>1. gl_ctx_check(h) = CASE ~up -> {Result(h, FALSE)} [] init -> {Result(h, TRUE)} [] OTHER -> {Result(k, TRUE)}
      BY DEF gl_ctx_check
    <3> HIDE DEF up, init, k
    <3>2. gl_ctx_check(h) = {Result(h, FALSE)} \/ (init /\ gl_ctx_check(h) = {Result(h, TRUE)})
          \/ gl_ctx_check(h) = {Result(k, TRUE)}
      BY <3>1
    <3> QED
      BY <1>1, <3>2 DEF init
  <2> HIDE DEF k
  <2> QED
    BY <2>1 DEF Result
<1>2. h.ctx.init => h.ctx.dev # 0
  BY DEF Fits, Fit, Like
<1>3. Fits(a, f)
  BY GLContextGone
<1> HIDE DEF a
<1>4. Fits(b, f)
  BY <1>3, GLContextNames, HomesAre, MakeFits DEF gl_ctx_create_context
<1> HIDE DEF b
<1>5. Fits(c, f) /\ c.ctx.dev # 0
  BY <1>4, DeviceFits
<1> HIDE DEF c
<1>6. Fits(k, f) /\ k.ctx.dev # 0
  <2> DEFINE P == Owned(f)
  <2>1. Fit(c, f, P)
    BY <1>5 DEF Fits
  <2> HIDE DEF P
  <2>2. Fit(k, f, P) /\ k.ctx.dev # 0
    BY <1>5, <2>1 DEF Fit, Like, Has
  <2> QED
    BY <2>2 DEF P, Fits
<1> HIDE DEF k
<1> QED
  BY <1>1, <1>2, <1>5, <1>6

LEMMA GLContextFits ==
  ASSUME NEW h, NEW f, Fits(h, f), f.api = "gl"
  PROVE  /\ \A r \in mty_gl_ctx_create(h) : Fits(r.g, IF r.ok THEN Having(f, Ctx) ELSE f)
         /\ Fits(mty_gl_ctx_destroy(h), Without(f, Ctx))
         /\ Ctx \in f.ptr =>
              /\ \A r \in mty_gl_ctx_lock(h) : Fits(r.g, f) /\ (r.ok /\ plat = "android" => r.g.ctx.dev # 0)
              /\ \A k \in mty_gl_ctx_present(h) : Fits(k, f)
         /\ Fits(mty_gl_ctx_unlock(h), f)
<1>0. f \in Frames /\ Ctx \in Structures /\ Home(Ctx) = Ctx /\ Ctx \in Owners \ {Kept}
  BY FitsIs, StructuresAre, HomesAre, OwnersDiffer
<1>a. \A uses : \A k : Fits(k, f) => Fits(Use(k, uses), f) /\ Fits(mty_gfx_lock(k), f) /\ Fits(mty_gfx_unlock(k), f)
  BY DriverFits
<1>1. ASSUME NEW r \in mty_gl_ctx_create(h) PROVE Fits(r.g, IF r.ok THEN Having(f, Ctx) ELSE f)
  <2> DEFINE e == Having(f, Ctx)
             k == GLCtxCreated(h)
             m == Make(k, Ctx, "context")
  <2>1. (~r.ok /\ r.g = h) \/ (r.ok /\ r.g = k) \/ (r.ok /\ r.g = m /\ plat = "x11")
    BY <1>1 DEF mty_gl_ctx_create, Result
  <2>2. Fits(k, e)
    BY <1>0, HavingFits DEF GLCtxCreated
  <2>3. e.ptr = f.ptr \cup {Ctx} /\ e.api = "gl"
    BY <1>0, FramesAre DEF Akin
  <2> HIDE DEF k, e
  <2>4. plat = "x11" => Fits(m, e)
    BY <1>0, <2>2, <2>3, GLContextNames, MakeFits DEF Make
  <2> HIDE DEF m
  <2> QED
    BY <2>1, <2>2, <2>4 DEF e
<1>2. Fits(mty_gl_ctx_destroy(h), Without(f, Ctx))
  <2>1. ASSUME NEW k, Fits(k, f), k.live[Ctx] = {} PROVE Fits(GLCtxDestroyed(k), Without(f, Ctx))
    BY <2>1, EmptyGone DEF GLCtxDestroyed
  <2>2. CASE plat = "x11"
    <3> DEFINE a == ContextLost(h)
               k == FreeAll(a, Ctx, <<"context">>)
    <3>1. mty_gl_ctx_destroy(h) = GLCtxDestroyed(k)
      BY <2>2 DEF mty_gl_ctx_destroy, Free
    <3>2. Fits(a, f)
      BY ContextLostFits
    <3> HIDE DEF a
    <3>3. Fits(k, f)
      BY <3>2, FreedFits
    <3>4. k.live[Ctx] = a.live[Ctx] \ Range(<<"context">>)
      BY <1>0, <3>2, LiveAfter DEF Fits
    <3>5. a.live[Ctx] \subseteq Names("gl", Ctx)
      BY <1>0, <3>2 DEF Fits, Fit, Owned
    <3> HIDE DEF k
    <3> QED
      BY <2>1, <2>2, <3>1, <3>3, <3>4, <3>5, GLContextNames
  <2>3. CASE plat = "android"
    <3> DEFINE a == mty_gfx_lock(h)
               b == gl_ctx_destroy_context(a)
               k == mty_gfx_unlock(b)
    <3>1. mty_gl_ctx_destroy(h) = GLCtxDestroyed(k)
      BY <2>3 DEF mty_gl_ctx_destroy
    <3>2. Fits(a, f)
      BY <1>a
    <3> HIDE DEF a
    <3>3. Fits(b, f) /\ b.live[Ctx] = {}
      BY <2>3, <3>2, GLContextGone
    <3>4. "live" \in DOMAIN b
      BY <3>3 DEF Fits, Fit, Like
    <3> HIDE DEF b
    <3>5. Fits(k, f)
      BY <1>a, <3>3
    <3>6. k.live = b.live
      BY <3>4 DEF mty_gfx_unlock, Error
    <3> HIDE DEF k
    <3> QED
      BY <2>1, <3>1, <3>3, <3>5, <3>6
  <2>4. CASE plat # "x11" /\ plat # "android"
    <3>1. mty_gl_ctx_destroy(h) = GLCtxDestroyed(h)
      BY <2>4 DEF mty_gl_ctx_destroy
    <3>2. h.live[Ctx] \subseteq Names("gl", Ctx)
      BY <1>0 DEF Fits, Fit, Owned
    <3> QED
      BY <2>1, <2>4, <3>1, <3>2, GLContextNames
  <2> QED
    BY <2>2, <2>3, <2>4
<1>3. ASSUME Ctx \in f.ptr, NEW r \in mty_gl_ctx_lock(h) PROVE Fits(r.g, f) /\ (r.ok /\ plat = "android" => r.g.ctx.dev # 0)
  <2>1. CASE plat # "android"
    BY <1>3, <2>1 DEF mty_gl_ctx_lock, Result
  <2>2. CASE plat = "android"
    <3> DEFINE a == mty_gfx_lock(h)
    <3>1. PICK s \in gl_ctx_check(a) : r = IF s.ok THEN s ELSE Result(mty_gfx_unlock(s.g), FALSE)
      BY <1>3, <2>2 DEF mty_gl_ctx_lock
    <3>2. Fits(a, f)
      BY <1>a
    <3> HIDE DEF a
    <3>3. Fits(s.g, f) /\ (s.ok => s.g.ctx.dev # 0)
      BY <1>3, <2>2, <3>2, GLCheckFits
    <3>4. (s.ok /\ r = s) \/ (~s.ok /\ ~r.ok /\ r.g = mty_gfx_unlock(s.g))
      BY <3>1 DEF Result
    <3> QED
      BY <1>a, <3>3, <3>4
  <2> QED
    BY <2>1, <2>2
<1>4. ASSUME Ctx \in f.ptr, NEW k \in mty_gl_ctx_present(h) PROVE Fits(k, f)
  <2>1. CASE plat # "android"
    BY <1>4, <1>a, <2>1 DEF mty_gl_ctx_present, X11Presented, WebPresented
  <2>2. CASE plat = "android"
    <3> DEFINE a == mty_gfx_lock(h)
               used(x) == Use(x, {<<Ctx, {"context", "eglsurface"}>>})
    <3>1. PICK s \in gl_ctx_check(a) : k = mty_gfx_unlock(IF s.ok THEN used(s.g) ELSE s.g)
      BY <1>4, <2>2 DEF mty_gl_ctx_present
    <3>2. Fits(a, f)
      BY <1>a
    <3> HIDE DEF a
    <3>3. Fits(s.g, f)
      BY <1>4, <2>2, <3>2, GLCheckFits
    <3>4. Fits(used(s.g), f)
      BY <1>a, <3>3
    <3> HIDE DEF used
    <3> QED
      BY <1>a, <3>1, <3>3, <3>4
  <2> QED
    BY <2>1, <2>2
<1>5. Fits(mty_gl_ctx_unlock(h), f)
  BY <1>a DEF mty_gl_ctx_unlock
<1> QED
  BY <1>1, <1>2, <1>3, <1>4, <1>5

\* Android's window goes, whatever draws on it.
LEMMA SurfaceGoneFits ==
  ASSUME NEW h, NEW f, Fits(h, f)
  PROVE  Fits(mty_gl_ctx_destroy_egl_surface(h), f)
<1> DEFINE k == Free(h, Ctx, "eglsurface")
           P == Owned(f)
<1>1. Fits(k, f)
  BY FreeFits, GLContextNames DEF Free
<1>2. Fit(k, f, P)
  BY <1>1 DEF Fits
<1> HIDE DEF k, P
<1>3. Fit([k EXCEPT !.ctx.init = FALSE], f, P)
  BY <1>2 DEF Fit, Like, Has
<1> QED
  BY <1>3 DEF k, P, Fits, mty_gl_ctx_destroy_egl_surface

LEMMA GLUseFits ==
  ASSUME NEW h, NEW f, Fits(h, f)
  PROVE  \A uses : Fits(GLUse(h, uses), f)
BY DriverFits DEF GLUse

LEMMA GLAre ==
  /\ \A l : Names("gl", Quad(l)) \subseteq Range(<<"vb", "eb", "vs", "fs", "prog">>)
  /\ Names("gl", UI) \subseteq Range(<<"vb", "eb", "vs", "fs", "prog">>)
  /\ \A k \in 0..Len(GLSteps) : /\ \A l : Range(SubSeq(GLSteps, 1, k)) \subseteq Names("gl", Quad(l))
                               /\ Range(SubSeq(GLSteps, 1, k)) \subseteq Names("gl", UI)
  /\ Len(GLSteps) \in 0..Len(GLSteps)
  /\ \A l, p : Names("gl", Plane(l, p)) = Range(<<"texture">>)
  /\ \A o \in UITextures : Names("gl", o) \subseteq Range(<<"texture">>)
  /\ \A t : Names("gl", Tex(t)) = Range(<<"texture">>)
<1>1. \A l : Names("gl", Quad(l)) = Range(GLSteps)
  BY DEF Names, GLNames, Quad
<1>2. Names("gl", UI) = Range(GLSteps)
  BY DEF Names, GLNames, UI
<1>3. (\A l, p : Names("gl", Plane(l, p)) = {"texture"}) /\ (\A t : Names("gl", Tex(t)) = {"texture"})
  BY DEF Names, GLNames, Plane, Tex
<1>4. Names("gl", Clear) = {}
  BY DEF Names, GLNames, Clear
<1>5. Range(<<"texture">>) = {"texture"}
  BY DEF Range
<1>6. Range(GLSteps) \subseteq Range(<<"vb", "eb", "vs", "fs", "prog">>)
  BY DEF Range, GLSteps
<1>7. \A k \in 0..Len(GLSteps) : Range(SubSeq(GLSteps, 1, k)) \subseteq Range(GLSteps)
  BY DEF Range, GLSteps
<1>8. Len(GLSteps) \in 0..Len(GLSteps)
  BY DEF GLSteps
<1>9. \A o \in UITextures : Names("gl", o) \subseteq Range(<<"texture">>)
  BY <1>3, <1>4, <1>5 DEF UITextures
<1>10. (\A l, p : Names("gl", Plane(l, p)) = Range(<<"texture">>)) /\ (\A t : Names("gl", Tex(t)) = Range(<<"texture">>))
  BY <1>3, <1>5
<1> QED
  BY <1>1, <1>2, <1>6, <1>7, <1>8, <1>9, <1>10

LEMMA GLLayerGone ==
  ASSUME NEW h, NEW f, Fits(h, f), f.api = "gl", NEW l \in Layers
  PROVE  Fits(mty_gl_destroy(h, l), Without(f, Quad(l)))
<1> DEFINE o == Quad(l)
           plane == <<"texture">>
           names == <<"vb", "eb", "vs", "fs", "prog">>
           j == FreeAll(h, Plane(l, 1), plane)
           k == FreeAll(j, Plane(l, 2), plane)
<1>1. h.ptr = f.ptr /\ f \in Frames
  BY FitsIs
<1>2. mty_gl_destroy(h, l) = IF o \notin h.ptr THEN h ELSE Destroyed(k, o, names)
  BY DEF mty_gl_destroy, gl_res_destroy, Free
<1>3. \A p \in {1, 2} : Names(f.api, Plane(l, p)) \subseteq Range(plane)
  BY GLAre
<1>4. Names(f.api, o) \subseteq Range(names)
  BY GLAre
<1> HIDE DEF plane, names
<1>5. CASE o \notin f.ptr
  BY <1>1, <1>2, <1>5, NotThere
<1>6. CASE o \in f.ptr
  <2>1. Fit(j, f, Vacant(Owned(f), Plane(l, 1)))
    BY <1>3, PlanesFreed
  <2> HIDE DEF j
  <2>2. Fit(k, f, Vacant(Vacant(Owned(f), Plane(l, 1)), Plane(l, 2)))
    BY <1>3, <2>1, PlanesFreed
  <2> HIDE DEF k
  <2>5. Fits(Destroyed(k, o, names), Without(f, o))
    BY <1>4, <1>6, <2>2, LayerGone
  <2> QED
    BY <1>1, <1>2, <1>6, <2>5
<1> QED
  BY <1>5, <1>6

LEMMA GLLayerFits ==
  ASSUME NEW h, NEW f, Fits(h, f), f.api = "gl", NEW l \in Layers, Quad(l) \notin f.ptr
  PROVE  \A r \in mty_gl_create(h, l) : Fits(r.g, IF r.ok THEN Having(f, Quad(l)) ELSE f)
<1> DEFINE o == Quad(l)
           e == Having(f, o)
           j == GLUse(h, {})
           m(i) == MakeAll([j EXCEPT !.ptr = @ \cup {o}], o, SubSeq(GLSteps, 1, i))
<1>0. o \in Structures /\ Home(o) = o
  BY StructuresAre, HomesAre
<1>1. ASSUME NEW r \in mty_gl_create(h, l) PROVE Fits(r.g, IF r.ok THEN e ELSE f)
  <2>1. \/ r = Result(h, FALSE)
        \/ \E i \in 0..Len(GLSteps) : r = Result(m(i), TRUE) \/ r = Result(mty_gl_destroy(m(i), l), FALSE)
    BY <1>1, GLAre DEF mty_gl_create, Create
  <2>2. \A x \in 0..Len(GLSteps) : Range(SubSeq(GLSteps, 1, x)) \subseteq Names(f.api, o)
    BY GLAre
  <2>3. Fits(j, f)
    BY GLUseFits
  <2> HIDE DEF o, j
  <2>4. \A i \in 0..Len(GLSteps) : Fits(m(i), e) /\ e.api = f.api /\ Without(e, o) = f
    BY <1>0, <2>2, <2>3, CreatedFits DEF o
  <2> HIDE DEF m, e
  <2>5. \A i \in 0..Len(GLSteps) : Fits(mty_gl_destroy(m(i), l), Without(e, o))
    BY <2>4, GLLayerGone DEF o
  <2>6. \/ ~r.ok /\ r.g = h
        \/ \E i \in 0..Len(GLSteps) : (r.ok /\ r.g = m(i)) \/ (~r.ok /\ r.g = mty_gl_destroy(m(i), l))
    BY <2>1 DEF Result
  <2>7. QED
    BY <2>4, <2>5, <2>6
<1> QED
  BY <1>1

LEMMA GLPlaneFits ==
  ASSUME NEW h, NEW f, Fits(h, f), f.api = "gl", NEW l \in Layers, Quad(l) \in f.ptr, NEW p, NEW fmt, NEW size,
         NEW r \in gl_refresh_resource(h, l, p, fmt, size)
  PROVE  Fits(r.g, f)
<1> DEFINE o == Plane(l, p)
           a == Free(h, o, "texture")
           b == Make(a, o, "texture")
           set == SetPlane(b, l, p, fmt, size)
           used == GLUse(h, {<<o, {"texture"}>>})
<1>0. o # Ctx /\ Home(o) \in f.ptr
  BY HomesAre DEF Plane, Ctx
<1>1. r.g = set \/ r.g = used
  BY DEF gl_refresh_resource, gl_res_destroy, Result
<1>2. Fits(a, f) /\ Fits(used, f)
  BY <1>0, FreedFits, GLUseFits
<1>3. Range(<<"texture">>) \subseteq Names(f.api, o)
  BY GLAre
<1> HIDE DEF a, o, used
<1>4. Fits(b, f)
  BY <1>0, <1>2, <1>3, MakeFits DEF Make
<1> HIDE DEF b
<1>5. Fits(set, f)
  BY <1>4, QuadFits
<1> QED
  BY <1>1, <1>2, <1>5

LEMMA GLRenderFits ==
  ASSUME NEW h, NEW f, Fits(h, f), f.api = "gl", NEW l \in Layers, Quad(l) \in f.ptr, NEW fmt, NEW size,
         NEW k \in mty_gl_render(h, l, fmt, size)
  PROVE  Fits(k, f)
<1> DEFINE j == SetFormat(h, l, fmt)
           loaded == fmt_reload_textures(j, l, fmt, size, gl_refresh_resource)
<1>1. Fits(j, f)
  BY QuadFits
<1>2. k = j \/ \E s \in loaded : k = GLDraw(s.g, l)
  BY DEF mty_gl_render
<1> HIDE DEF j
<1>3. ASSUME NEW s \in loaded PROVE Fits(s.g, f)
  <2>1. \A x, p : Fits(x, f) => \A r \in gl_refresh_resource(x, l, p, fmt, size) : Fits(r.g, f)
    BY GLPlaneFits
  <2>2. CASE fmt = "bgra"
    BY <1>1, <2>1, <2>2 DEF fmt_reload_textures
  <2>3. CASE fmt = "nv12"
    <3>1. PICK r \in gl_refresh_resource(j, l, 1, fmt, size) :
            s \in IF r.ok THEN gl_refresh_resource(r.g, l, 2, fmt, size) ELSE {r}
      BY <2>3 DEF fmt_reload_textures, Then
    <3> QED
      BY <1>1, <2>1, <3>1
  <2>4. CASE fmt # "bgra" /\ fmt # "nv12"
    BY <1>1, <2>4 DEF fmt_reload_textures, Result
  <2> QED
    BY <2>2, <2>3, <2>4
<1> HIDE DEF loaded
<1>4. ASSUME NEW x, Fits(x, f) PROVE Fits(GLDraw(x, l), f)
  <2>1. Fits(Shown(x, l), f)
    BY <1>4, QuadFits
  <2> QED
    BY <2>1, GLUseFits DEF GLDraw
<1> QED
  BY <1>1, <1>2, <1>3, <1>4

LEMMA GLUIFits ==
  ASSUME NEW h, NEW f, Fits(h, f), f.api = "gl"
  PROVE  /\ Fits(mty_gl_ui_destroy(h), Without(f, UI))
         /\ UI \notin f.ptr => \A r \in mty_gl_ui_create(h) : Fits(r.g, IF r.ok THEN Having(f, UI) ELSE f)
         /\ \A k \in mty_gl_ui_render(h) : Fits(k, f)
<1> DEFINE e == Having(f, UI)
           j == GLUse(h, {})
           m(i) == MakeAll([j EXCEPT !.ptr = @ \cup {UI}], UI, SubSeq(GLSteps, 1, i))
<1>0. UI \in Structures /\ Home(UI) = UI /\ UI # Ctx /\ \A l \in Layers : UI # Quad(l)
  BY StructuresAre, HomesAre, OwnersDiffer
<1>1. ASSUME NEW x, NEW k, Fits(k, x), x.api = "gl" PROVE Fits(mty_gl_ui_destroy(k), Without(x, UI))
  BY <1>0, <1>1, GLAre, StructureGone DEF mty_gl_ui_destroy
<1>2. ASSUME UI \notin f.ptr, NEW r \in mty_gl_ui_create(h) PROVE Fits(r.g, IF r.ok THEN e ELSE f)
  <2>1. \/ r = Result(h, FALSE)
        \/ \E i \in 0..Len(GLSteps) : r = Result(m(i), TRUE) \/ r = Result(mty_gl_ui_destroy(m(i)), FALSE)
    BY <1>2, GLAre DEF mty_gl_ui_create, Create
  <2>2. \A x \in 0..Len(GLSteps) : Range(SubSeq(GLSteps, 1, x)) \subseteq Names(f.api, UI)
    BY GLAre
  <2>3. Fits(j, f)
    BY GLUseFits
  <2> HIDE DEF j
  <2>4. \A i \in 0..Len(GLSteps) : Fits(m(i), e) /\ e.api = f.api /\ Without(e, UI) = f
    BY <1>0, <1>2, <2>2, <2>3, CreatedFits
  <2> HIDE DEF m, e
  <2>5. \A i \in 0..Len(GLSteps) : Fits(mty_gl_ui_destroy(m(i)), Without(e, UI))
    BY <1>1, <2>4
  <2>6. \/ ~r.ok /\ r.g = h
        \/ \E i \in 0..Len(GLSteps) : (r.ok /\ r.g = m(i)) \/ (~r.ok /\ r.g = mty_gl_ui_destroy(m(i)))
    BY <2>1 DEF Result
  <2>7. QED
    BY <2>4, <2>5, <2>6
<1>3. \A k \in mty_gl_ui_render(h) : Fits(k, f)
  BY GLUseFits DEF mty_gl_ui_render
<1> QED
  BY <1>1, <1>2, <1>3

LEMMA GLTextureFits ==
  ASSUME NEW h, NEW f, Fits(h, f), f.api = "gl", NEW t \in Textures
  PROVE  /\ Fits(mty_gl_ui_destroy_texture(h, Tex(t)), Without(f, Tex(t)))
         /\ \A r \in mty_gl_ui_create_texture(h, Tex(t)) : r.ok /\ Fits(r.g, Having(f, Tex(t)))
<1> DEFINE o == Tex(t)
           j == GLUse(h, {})
<1>0. o \in UITextures /\ o \in Structures /\ o # Ctx /\ \A l \in Layers : o # Quad(l)
  BY UITexturesAre DEF UITextures
<1>1. Fits(mty_gl_ui_destroy_texture(h, o), Without(f, o))
  BY <1>0, GLAre, StructureGone DEF mty_gl_ui_destroy_texture
<1>2. ASSUME NEW r \in mty_gl_ui_create_texture(h, o) PROVE r.ok /\ Fits(r.g, Having(f, o))
  <2> DEFINE k == [MakeAll(j, o, <<"texture">>) EXCEPT !.ptr = @ \cup {o}]
  <2>1. r = Result(k, TRUE)
    BY <1>2 DEF mty_gl_ui_create_texture, Make
  <2>2. Range(<<"texture">>) \subseteq Names(f.api, o)
    BY GLAre
  <2>3. Fits(j, f)
    BY GLUseFits
  <2> HIDE DEF j
  <2>4. Fits(k, Having(f, o))
    BY <1>0, <2>2, <2>3, MadeThenThere
  <2> HIDE DEF k
  <2>5. r.ok /\ r.g = k
    BY <2>1 DEF Result
  <2> QED
    BY <2>4, <2>5
<1> QED
  BY <1>1, <1>2

-----------------------------------------------------------------------------
(* The tables. *)

\* The state has these structures, and is as another in the rest.
Standing(h, f, ptr) == \E e : Fits(h, e) /\ Akin(e, f) /\ Referenced(e) /\ e.ptr = ptr

LEMMA StandingIs ==
  ASSUME NEW k, NEW f \in Frames, Referenced(f)
  PROVE  /\ Fits(k, f) => Standing(k, f, f.ptr)
         /\ \A o \in Structures :
              /\ o \in Users /\ Fits(k, Drop(f, o)) => Standing(k, f, f.ptr \ {o})
              /\ f.api # "vk" /\ Fits(k, Without(f, o)) => Standing(k, f, f.ptr \ {o})
              /\ o \notin Users /\ Fits(k, Without(f, o)) => Standing(k, f, f.ptr \ {o})
              /\ o \in Users /\ o \notin f.ptr /\ Fits(k, Add(f, o)) => Standing(k, f, f.ptr \cup {o})
              /\ o \notin f.ptr /\ f.api # "vk" /\ Fits(k, Having(f, o)) => Standing(k, f, f.ptr \cup {o})
              /\ o \notin Users /\ Fits(k, Having(f, o)) => Standing(k, f, f.ptr \cup {o})
<1>1. Fits(k, f) => Standing(k, f, f.ptr)
  BY DEF Standing, Akin
<1>2. ASSUME NEW o \in Structures
      PROVE  /\ o \in Users /\ Fits(k, Drop(f, o)) => Standing(k, f, f.ptr \ {o})
             /\ f.api # "vk" /\ Fits(k, Without(f, o)) => Standing(k, f, f.ptr \ {o})
             /\ o \notin Users /\ Fits(k, Without(f, o)) => Standing(k, f, f.ptr \ {o})
             /\ o \in Users /\ o \notin f.ptr /\ Fits(k, Add(f, o)) => Standing(k, f, f.ptr \cup {o})
             /\ o \notin f.ptr /\ f.api # "vk" /\ Fits(k, Having(f, o)) => Standing(k, f, f.ptr \cup {o})
             /\ o \notin Users /\ Fits(k, Having(f, o)) => Standing(k, f, f.ptr \cup {o})
  <2>1. /\ Akin(Without(f, o), f) /\ Without(f, o).ptr = f.ptr \ {o} /\ Without(f, o).ref = f.ref
        /\ Akin(Having(f, o), f) /\ Having(f, o).ptr = f.ptr \cup {o} /\ Having(f, o).ref = f.ref
        /\ Akin(Add(f, o), f) /\ Add(f, o).ptr = f.ptr \cup {o}
        /\ Akin(Drop(f, o), f) /\ Drop(f, o).ptr = f.ptr \ {o}
    BY <1>2, FramesAre
  <2>2. /\ o \in Users /\ o \notin f.ptr => Referenced(Add(f, o))
        /\ o \in Users => Referenced(Drop(f, o))
        /\ o \notin Users => Referenced(Without(f, o)) /\ Referenced(Having(f, o))
    BY <1>2, ReferencesKept
  <2>3. f.api # "vk" => Referenced(Without(f, o)) /\ Referenced(Having(f, o))
    BY <2>1 DEF Referenced, Akin
  <2> QED
    BY <2>1, <2>2, <2>3 DEF Standing
<1> QED
  BY <1>1, <1>2

LEMMA DestroyStands ==
  ASSUME NEW h, NEW f, Fits(h, f), f.api \in APIs, Referenced(f), NEW l \in Layers,
         f.api = "vk" /\ Quad(l) \in f.ptr => f.device # 0
  PROVE  Standing(destroy(h, l), f, f.ptr \ {Quad(l)})
<1> DEFINE o == Quad(l)
           k == CASE h.api = "vk"    -> mty_vk_destroy(h, l)
                  [] h.api = "d3d12" -> mty_d3d12_destroy(h, l)
                  [] h.api = "d3d11" -> mty_d3d11_destroy(h, l)
                  [] h.api = "metal" -> mty_metal_destroy(h, l)
                  [] h.api = "gl"    -> mty_gl_destroy(h, l)
<1>0. f \in Frames /\ h.api = f.api /\ o \in Users /\ o \in Structures
  BY FitsIs, StructuresAre
<1>1. destroy(h, l) = [k EXCEPT !.quad[l] = NewQuad]
  BY DEF destroy
<1>2. Fits(k, IF f.api = "vk" THEN Drop(f, o) ELSE Without(f, o))
  <2>1. CASE f.api = "vk"
    BY <1>0, <2>1, VkLayerFits
  <2>2. CASE f.api = "d3d12"
    BY <1>0, <2>2, D3D12LayerGone
  <2>3. CASE f.api = "d3d11"
    BY <1>0, <2>3, D3D11LayerGone
  <2>4. CASE f.api = "metal"
    BY <1>0, <2>4, MetalLayerGone
  <2>5. CASE f.api = "gl"
    BY <1>0, <2>5, GLLayerGone
  <2> QED
    BY <2>1, <2>2, <2>3, <2>4, <2>5 DEF APIs
<1> HIDE DEF k
<1>3. Fits([k EXCEPT !.quad[l] = NewQuad], IF f.api = "vk" THEN Drop(f, o) ELSE Without(f, o))
  BY <1>2, QuadFits
<1> QED
  BY <1>0, <1>1, <1>3, StandingIs

\* What is not there cannot go.
LEMMA SamePtrFits ==
  ASSUME NEW k, NEW e, Fits(k, e), NEW o, o \notin e.ptr
  PROVE  Fits([k EXCEPT !.ptr = @ \ {o}], e)
<1> DEFINE P == Owned(e)
           x == k.ptr \ {o}
<1>1. Fit(k, e, P)
  BY DEF Fits
<1>2. e \in Frames /\ k.ptr = e.ptr /\ e.ptr \in SUBSET Structures
  BY FitsIs
<1>3. x = e.ptr
  BY <1>2
<1>4. [e EXCEPT !.ptr = e.ptr] = e
  BY <1>2 DEF Frames
<1> HIDE DEF P
<1>5. Fit([k EXCEPT !.ptr = e.ptr], e, P)
  BY <1>1, <1>2, <1>4, PtrFit
<1> QED
  BY <1>3, <1>5 DEF P, Fits

LEMMA TextureStands ==
  ASSUME NEW h, NEW f, Fits(h, f), f.api \in APIs, Referenced(f), NEW t \in Textures,
         f.api = "vk" /\ Tex(t) \in f.ptr => UI \in f.ptr /\ f.device # 0
  PROVE  Standing(ui_destroy_texture(h, Tex(t)), f, f.ptr \ {Tex(t)})
<1> DEFINE o == Tex(t)
           k == CASE h.api = "vk"    -> mty_vk_ui_destroy_texture(h, o)
                  [] h.api = "d3d12" -> mty_d3d12_ui_destroy_texture(h, o)
                  [] h.api = "d3d11" -> mty_d3d11_ui_destroy_texture(h, o)
                  [] h.api = "metal" -> mty_metal_ui_destroy_texture(h, o)
                  [] h.api = "gl"    -> mty_gl_ui_destroy_texture(h, o)
<1>0. f \in Frames /\ h.api = f.api /\ o \in Structures \ Users /\ o \in UITextures
  BY FitsIs, StructuresAre DEF UITextures
<1>1. ui_destroy_texture(h, o) = [k EXCEPT !.ptr = @ \ {o}]
  BY DEF ui_destroy_texture
<1>2. Fits(k, Without(f, o))
  <2>1. CASE f.api = "vk"
    BY <1>0, <2>1, VkTextureFits
  <2>2. CASE f.api = "d3d12"
    BY <1>0, <2>2, D3D12TextureFits
  <2>3. CASE f.api = "d3d11"
    BY <1>0, <2>3, D3D11TextureFits
  <2>4. CASE f.api = "metal"
    BY <1>0, <2>4, MetalTextureFits
  <2>5. CASE f.api = "gl"
    BY <1>0, <2>5, GLTextureFits
  <2> QED
    BY <2>1, <2>2, <2>3, <2>4, <2>5 DEF APIs
<1> HIDE DEF k
<1>3. o \notin Without(f, o).ptr
  <2>1. Without(f, o).ptr = f.ptr \ {o}
    BY <1>0, FramesAre
  <2> QED
    BY <2>1
<1>4. Fits([k EXCEPT !.ptr = @ \ {o}], Without(f, o))
  BY <1>2, <1>3, SamePtrFits
<1> QED
  BY <1>0, <1>1, <1>4, StandingIs

LEMMA UIStands ==
  ASSUME NEW h, NEW f, Fits(h, f), f.api \in APIs, Referenced(f),
         f.api = "vk" /\ UI \in f.ptr => f.device # 0,
         Clear \in f.ptr => UI \in f.ptr /\ f.api \in {"vk", "d3d12"}
  PROVE  Standing(ui_destroy(h), f, f.ptr \ {Clear, UI})
<1> DEFINE e == Without(f, Clear)
<1>0. f \in Frames /\ h.api = f.api /\ UI \in Users /\ UI \in Structures /\ Clear \in Structures \ Users
  BY FitsIs, StructuresAre
<1>1. e \in Frames /\ Akin(e, f) /\ e.ptr = f.ptr \ {Clear} /\ e.ref = f.ref
  BY <1>0, FramesAre
<1>2. Referenced(e)
  BY <1>0, ReferencesKept
<1>3. f.api \notin {"vk", "d3d12"} => e = f
  BY <1>0, NotThere
<1> HIDE DEF e
<1>4. Fits(ui_destroy(h), IF f.api = "vk" THEN Drop(e, UI) ELSE Without(e, UI))
  <2>1. CASE f.api = "vk"
    BY <1>0, <2>1, VkUIGone DEF ui_destroy, Without2, e
  <2>2. CASE f.api = "d3d12"
    BY <1>0, <2>2, D3D12UIGone DEF ui_destroy, NoUI, e
  <2>3. CASE f.api = "d3d11"
    BY <1>0, <1>3, <2>3, D3D11UIGone DEF ui_destroy
  <2>4. CASE f.api = "metal"
    BY <1>0, <1>3, <2>4, MetalUIGone DEF ui_destroy
  <2>5. CASE f.api = "gl"
    BY <1>0, <1>3, <2>5, GLUIFits DEF ui_destroy
  <2> QED
    BY <2>1, <2>2, <2>3, <2>4, <2>5 DEF APIs
<1>5. e.api = f.api /\ e.ptr \ {UI} = f.ptr \ {Clear, UI}
  BY <1>1 DEF Akin
<1>6. Standing(ui_destroy(h), e, e.ptr \ {UI})
  BY <1>0, <1>1, <1>2, <1>4, <1>5, StandingIs
<1> QED
  BY <1>1, <1>5, <1>6 DEF Standing, Akin

LEMMA CreateStands ==
  ASSUME NEW h, NEW f, Fits(h, f), f.api \in APIs, Referenced(f), NEW l \in Layers, Quad(l) \notin f.ptr,
         f.api = "vk" => f.device # 0
  PROVE  \A r \in create(h, l) : Standing(r.g, f, IF r.ok THEN f.ptr \cup {Quad(l)} ELSE f.ptr)
<1> DEFINE o == Quad(l)
<1>0. f \in Frames /\ h.api = f.api /\ o \in Users /\ o \in Structures
  BY FitsIs, StructuresAre
<1>1. ASSUME NEW r \in create(h, l)
      PROVE  Fits(r.g, IF r.ok THEN (IF f.api = "vk" THEN Add(f, o) ELSE Having(f, o)) ELSE f)
  <2>1. CASE f.api = "vk"
    BY <1>0, <1>1, <2>1, VkCreateFits DEF create
  <2>2. CASE f.api = "d3d12"
    BY <1>0, <1>1, <2>2, D3D12LayerFits DEF create
  <2>3. CASE f.api = "d3d11"
    BY <1>0, <1>1, <2>3, D3D11LayerFits DEF create
  <2>4. CASE f.api = "metal"
    BY <1>0, <1>1, <2>4, MetalLayerFits DEF create
  <2>5. CASE f.api = "gl"
    BY <1>0, <1>1, <2>5, GLLayerFits DEF create
  <2> QED
    BY <2>1, <2>2, <2>3, <2>4, <2>5 DEF APIs
<1> HIDE DEF o
<1>2. ASSUME NEW r \in create(h, l) PROVE Standing(r.g, f, IF r.ok THEN f.ptr \cup {o} ELSE f.ptr)
  <2>1. CASE r.ok
    BY <1>0, <1>1, <1>2, <2>1, StandingIs DEF o
  <2>2. CASE ~r.ok
    BY <1>0, <1>1, <1>2, <2>2, StandingIs
  <2> QED
    BY <2>1, <2>2
<1> QED
  BY <1>2 DEF o

LEMMA TextureCreateStands ==
  ASSUME NEW h, NEW f, Fits(h, f), f.api \in APIs, Referenced(f), NEW t \in Textures, Tex(t) \notin f.ptr
  PROVE  \A r \in ui_create_texture(h, Tex(t)) :
           Standing(r.g, f, IF r.ok THEN f.ptr \cup {Tex(t)} ELSE f.ptr)
<1> DEFINE o == Tex(t)
<1>0. f \in Frames /\ h.api = f.api /\ o \in Structures \ Users /\ o \in UITextures
  BY FitsIs, StructuresAre DEF UITextures
<1>1. ASSUME NEW r \in ui_create_texture(h, o) PROVE Fits(r.g, IF r.ok THEN Having(f, o) ELSE f)
  <2>1. CASE f.api = "vk"
    BY <1>0, <1>1, <2>1, VkTextureFits DEF ui_create_texture
  <2>2. CASE f.api = "d3d12"
    BY <1>0, <1>1, <2>2, D3D12TextureFits DEF ui_create_texture
  <2>3. CASE f.api = "d3d11"
    BY <1>0, <1>1, <2>3, D3D11TextureFits DEF ui_create_texture
  <2>4. CASE f.api = "metal"
    BY <1>0, <1>1, <2>4, MetalTextureFits DEF ui_create_texture
  <2>5. CASE f.api = "gl"
    BY <1>0, <1>1, <2>5, GLTextureFits DEF ui_create_texture
  <2> QED
    BY <2>1, <2>2, <2>3, <2>4, <2>5 DEF APIs
<1> HIDE DEF o
<1>2. ASSUME NEW r \in ui_create_texture(h, o) PROVE Standing(r.g, f, IF r.ok THEN f.ptr \cup {o} ELSE f.ptr)
  <2>1. CASE r.ok
    BY <1>0, <1>1, <1>2, <2>1, StandingIs
  <2>2. CASE ~r.ok
    BY <1>0, <1>1, <1>2, <2>2, StandingIs
  <2> QED
    BY <2>1, <2>2
<1> QED
  BY <1>2 DEF o

\* What the UI's renderer comes with.
UIParts(api) == IF api \in {"vk", "d3d12"} THEN {UI, Clear} ELSE {UI}

LEMMA UICreateStands ==
  ASSUME NEW h, NEW f, Fits(h, f), f.api \in APIs, Referenced(f), UI \notin f.ptr, Clear \notin f.ptr,
         f.api = "vk" => f.device # 0
  PROVE  \A r \in ui_create(h) : Standing(r.g, f, IF r.ok THEN f.ptr \cup UIParts(f.api) ELSE f.ptr)
<1> DEFINE e == IF f.api = "vk" THEN Add(f, UI) ELSE Having(f, UI)
<1>0. f \in Frames /\ h.api = f.api /\ UI \in Users /\ UI \in Structures /\ Clear \in Structures \ Users
  BY FitsIs, StructuresAre
<1>1. e \in Frames /\ Akin(e, f) /\ e.ptr = f.ptr \cup {UI} /\ (f.api # "vk" => e.ref = f.ref)
  BY <1>0, FramesAre
<1>2. Referenced(e)
  <2>1. CASE f.api = "vk"
    BY <1>0, <2>1, ReferencesKept
  <2>2. CASE f.api # "vk"
    BY <1>1, <2>2 DEF Referenced, Akin
  <2> QED
    BY <2>1, <2>2
<1>3. ASSUME NEW r \in ui_create(h)
      PROVE  Fits(r.g, IF r.ok THEN (IF f.api \in {"vk", "d3d12"} THEN Having(e, Clear) ELSE e) ELSE f)
  <2>1. CASE f.api = "vk"
    BY <1>0, <1>3, <2>1, VkUICreateFits DEF ui_create
  <2>2. CASE f.api = "d3d12"
    BY <1>0, <1>3, <2>2, D3D12UIFits DEF ui_create
  <2>3. CASE f.api = "d3d11"
    BY <1>0, <1>3, <2>3, D3D11UIFits DEF ui_create
  <2>4. CASE f.api = "metal"
    BY <1>0, <1>3, <2>4, MetalUIFits DEF ui_create
  <2>5. CASE f.api = "gl"
    BY <1>0, <1>3, <2>5, GLUIFits DEF ui_create
  <2> QED
    BY <2>1, <2>2, <2>3, <2>4, <2>5 DEF APIs
<1> HIDE DEF e
<1>4. ASSUME NEW r \in ui_create(h) PROVE Standing(r.g, f, IF r.ok THEN f.ptr \cup UIParts(f.api) ELSE f.ptr)
  <2>1. CASE r.ok /\ f.api \in {"vk", "d3d12"}
    <3>1. Standing(r.g, e, e.ptr \cup {Clear})
      BY <1>0, <1>1, <1>2, <1>3, <1>4, <2>1, StandingIs
    <3>2. e.ptr \cup {Clear} = f.ptr \cup UIParts(f.api)
      BY <1>1, <2>1 DEF UIParts
    <3> QED
      BY <1>1, <2>1, <3>1, <3>2 DEF Standing, Akin
  <2>2. CASE r.ok /\ f.api \notin {"vk", "d3d12"}
    <3>1. Fits(r.g, e)
      BY <1>3, <1>4, <2>2
    <3> QED
      BY <1>1, <1>2, <2>2, <3>1 DEF Standing, UIParts
  <2>3. CASE ~r.ok
    BY <1>0, <1>3, <1>4, <2>3, StandingIs
  <2> QED
    BY <2>1, <2>2, <2>3
<1> QED
  BY <1>4

\* What is drawn and presented changes no structure.
LEMMA DrawnFits ==
  ASSUME NEW h, NEW f, Fits(h, f), f.api \in APIs, Ctx \in f.ptr
  PROVE  /\ \A r \in ctx_get_surface(h) : Fits(r.g, f)
         /\ \A k \in ctx_present(h) : Fits(k, f)
         /\ \A n : \A k \in ctx_set_sync_interval(h, n) : Fits(k, f)
         /\ \A l \in Layers : \A fmt, size : Quad(l) \in f.ptr => \A k \in render(h, l, fmt, size) : Fits(k, f)
         /\ (f.api = "vk" => f.device # 0) => Fits(clear(h), f)
         /\ UI \in f.ptr => \A need : \A k \in ui_render(h, need) : Fits(k, f)
<1>0. h.api = f.api /\ 0 \in Layers
  BY FitsIs, GraphicsAssumption
<1>1. /\ \A r \in ctx_get_surface(h) : Fits(r.g, f)
      /\ \A k \in ctx_present(h) : Fits(k, f)
      /\ \A n : \A k \in ctx_set_sync_interval(h, n) : Fits(k, f)
  <2>1. CASE f.api = "vk"
    BY <1>0, <2>1, VkSurfaceFits, VkPresentFits DEF ctx_get_surface, ctx_present, ctx_set_sync_interval
  <2>2. CASE f.api = "d3d12"
    BY <1>0, <2>2, D3D12ContextFits DEF ctx_get_surface, ctx_present, ctx_set_sync_interval
  <2>3. CASE f.api = "d3d11"
    BY <1>0, <2>3, D3D11ContextFits DEF ctx_get_surface, ctx_present, ctx_set_sync_interval
  <2>4. CASE f.api = "metal"
    BY <1>0, <2>4, MetalContextFits DEF ctx_get_surface, ctx_present, ctx_set_sync_interval
  <2>5. CASE f.api = "gl"
    <3>1. \A r \in mty_gl_ctx_get_surface(h) : r.g = h
      BY DEF mty_gl_ctx_get_surface, Result
    <3> QED
      BY <1>0, <2>5, <3>1, GLContextFits DEF ctx_get_surface, ctx_present, ctx_set_sync_interval
  <2> QED
    BY <2>1, <2>2, <2>3, <2>4, <2>5 DEF APIs
<1>2. ASSUME NEW l \in Layers, NEW fmt, NEW size, Quad(l) \in f.ptr, NEW k \in render(h, l, fmt, size) PROVE Fits(k, f)
  <2>1. CASE f.api = "vk"
    BY <1>0, <1>2, <2>1, VkRenderFits DEF render
  <2>2. CASE f.api = "d3d12"
    BY <1>0, <1>2, <2>2, D3D12RenderFits DEF render
  <2>3. CASE f.api = "d3d11"
    BY <1>0, <1>2, <2>3, D3D11RenderFits DEF render
  <2>4. CASE f.api = "metal"
    BY <1>0, <1>2, <2>4, MetalRenderFits DEF render
  <2>5. CASE f.api = "gl"
    BY <1>0, <1>2, <2>5, GLRenderFits DEF render
  <2> QED
    BY <2>1, <2>2, <2>3, <2>4, <2>5 DEF APIs
<1>3. ASSUME f.api = "vk" => f.device # 0 PROVE Fits(clear(h), f)
  <2>1. CASE f.api = "vk"
    BY <1>0, <1>3, <2>1, VkLayerFits DEF clear
  <2>2. CASE f.api = "d3d12"
    BY <1>0, <2>2, DriverFits DEF clear, mty_d3d12_clear
  <2>3. CASE f.api = "d3d11"
    BY <1>0, <2>3, DriverFits DEF clear, mty_d3d11_clear
  <2>4. CASE f.api = "metal"
    BY <1>0, <2>4, DriverFits DEF clear, mty_metal_clear
  <2>5. CASE f.api = "gl"
    BY <1>0, <2>5, GLUseFits DEF clear, mty_gl_clear
  <2> QED
    BY <2>1, <2>2, <2>3, <2>4, <2>5 DEF APIs
<1>4. ASSUME UI \in f.ptr, NEW need, NEW k \in ui_render(h, need) PROVE Fits(k, f)
  <2>1. CASE f.api = "vk"
    BY <1>0, <1>4, <2>1, VkUIRenderFits DEF ui_render
  <2>2. CASE f.api = "d3d12"
    BY <1>0, <1>4, <2>2, D3D12UIRenderFits DEF ui_render
  <2>3. CASE f.api = "d3d11"
    BY <1>0, <1>4, <2>3, D3D11UIRenderFits DEF ui_render
  <2>4. CASE f.api = "metal"
    BY <1>0, <1>4, <2>4, MetalUIRenderFits DEF ui_render
  <2>5. CASE f.api = "gl"
    BY <1>0, <1>4, <2>5, GLUIFits DEF ui_render
  <2> QED
    BY <2>1, <2>2, <2>3, <2>4, <2>5 DEF APIs
<1> QED
  BY <1>1, <1>2, <1>3, <1>4

-----------------------------------------------------------------------------
(* What another device takes with it. *)

\* What the back ends assume of the structures.
Able(f) ==
  /\ f.api \in APIs /\ Referenced(f)
  /\ f.api = "vk" => /\ f.ptr \subseteq {Ctx} \/ f.device # 0
                     /\ \A t \in Textures : Tex(t) \in f.ptr => UI \in f.ptr

Lost(kind, x) == IF kind = "layers" THEN Quad(x) ELSE Tex(x)
Losses == {Quad(l) : l \in Layers} \cup {Tex(t) : t \in Textures}

LEMMA LossesAre ==
  /\ \A kind : \A x \in Members(kind) : Lost(kind, x) \in Losses
  /\ Losses \subseteq Structures /\ UI \notin Losses /\ Ctx \notin Losses /\ Clear \notin Losses
BY OwnersDiffer, StructuresAre DEF Lost, Members, Losses

LEMMA EmptiedStands ==
  ASSUME NEW f \in Frames, Able(f), NEW S \in SUBSET Losses, NEW h, Standing(h, f, f.ptr \ S), NEW kind, NEW x \in Members(kind)
  PROVE  Standing(Emptied(kind, h, x), f, f.ptr \ (S \cup {Lost(kind, x)}))
<1> DEFINE o == Lost(kind, x)
<1>1. PICK e : Fits(h, e) /\ Akin(e, f) /\ Referenced(e) /\ e.ptr = f.ptr \ S
  BY DEF Standing
<1>2. e.api = f.api /\ e.api \in APIs /\ e.device = f.device
  BY <1>1 DEF Akin, Able
<1>3. Standing(Emptied(kind, h, x), e, e.ptr \ {o})
  <2>1. CASE kind = "layers"
    <3>1. x \in Layers /\ Quad(x) # Ctx
      BY <2>1, OwnersDiffer DEF Members
    <3>2. e.api = "vk" /\ Quad(x) \in e.ptr => e.device # 0
      BY <1>1, <1>2, <3>1 DEF Able
    <3>3. Standing(destroy(h, x), e, e.ptr \ {Quad(x)})
      BY <1>1, <1>2, <3>1, <3>2, DestroyStands
    <3> QED
      BY <2>1, <3>3 DEF Emptied, Lost
  <2>2. CASE kind # "layers"
    <3>1. x \in Textures /\ Tex(x) # Ctx
      BY <2>2, OwnersDiffer DEF Members
    <3>2. e.api = "vk" /\ Tex(x) \in e.ptr => UI \in e.ptr /\ e.device # 0
      BY <1>1, <1>2, <3>1, LossesAre DEF Able
    <3>3. Standing(ui_destroy_texture(h, Tex(x)), e, e.ptr \ {Tex(x)})
      BY <1>1, <1>2, <3>1, <3>2, TextureStands
    <3> QED
      BY <2>2, <3>3 DEF Emptied, Lost
  <2> QED
    BY <2>1, <2>2
<1>4. e.ptr \ {o} = f.ptr \ (S \cup {o})
  BY <1>1
<1> HIDE DEF o
<1>5. Standing(Emptied(kind, h, x), e, f.ptr \ (S \cup {o}))
  BY <1>3, <1>4
<1>6. Standing(Emptied(kind, h, x), f, f.ptr \ (S \cup {o}))
  BY <1>1, <1>5 DEF Standing, Akin
<1> QED
  BY <1>6 DEF o

\* After a fold they are gone, each of them.
Taken(kind, seq, s) == {Lost(kind, seq[i]) : i \in s}

LEMMA FoldStands ==
  ASSUME NEW f \in Frames, Able(f), NEW h, Standing(h, f, f.ptr), NEW kind,
         NEW seq \in Seq(Members(kind)), NEW iter, Folds(iter, SUBSET DOMAIN seq, kind, h, seq)
  PROVE  Standing(iter[DOMAIN seq], f, f.ptr \ Taken(kind, seq, DOMAIN seq))
<1> DEFINE N == Len(seq)
           K(s) == Standing(iter[s], f, f.ptr \ Taken(kind, seq, s))
<1>2. DOMAIN seq = 1..N /\ N \in Nat
  OBVIOUS
<1>5. \A n \in Nat : n <= N => \A s \in SUBSET (1..n) : K(s)
  <2> DEFINE G(n) == \A s \in SUBSET (1..n) : K(s)
             T == {n \in Nat : n <= N /\ ~G(n)}
  <2>0. ASSUME NEW s \in SUBSET DOMAIN seq
        PROVE  iter[s] = IF s = {} THEN h ELSE Emptied(kind, iter[s \ {Max(s)}], seq[Max(s)])
    BY DEF Folds
  <2> HIDE DEF N, K
  <2>1. G(0)
    <3>1. ASSUME NEW s \in SUBSET (1..0) PROVE s = {} /\ s \in SUBSET DOMAIN seq
      OBVIOUS
    <3>2. Taken(kind, seq, {}) = {}
      BY DEF Taken
    <3>3. f.ptr \ {} = f.ptr
      OBVIOUS
    <3>4. ASSUME NEW s \in SUBSET (1..0) PROVE K(s)
      <4>1. s = {} /\ iter[s] = h
        BY <2>0, <3>1
      <4> QED
        BY <3>2, <3>3, <4>1 DEF K
    <3>5. QED
      BY <3>4
  <2>2. ASSUME NEW n \in Nat, n + 1 <= N, G(n)
        PROVE  G(n + 1)
    <3> SUFFICES ASSUME NEW s \in SUBSET (1..(n + 1)) PROVE K(s)
      OBVIOUS
    <3>1. s \in SUBSET DOMAIN seq
      BY <1>2, <2>2
    <3>2. CASE n + 1 \notin s
      <4>1. s \in SUBSET (1..n)
        BY <3>2
      <4>2. QED
        BY <2>2, <4>1
    <3>3. CASE n + 1 \in s
      <4> DEFINE r == s \ {n + 1}
                 x == seq[n + 1]
                 S == Taken(kind, seq, r)
      <4>1. Max(s) = n + 1
        BY <3>3, MaxIs
      <4>2. r \in SUBSET (1..n)
        OBVIOUS
      <4>3. Standing(iter[r], f, f.ptr \ S)
        BY <2>2, <4>2 DEF K
      <4>4. iter[s] = Emptied(kind, iter[r], x)
        BY <2>0, <3>1, <3>3, <4>1
      <4>5. x \in Members(kind) /\ \A i \in s : seq[i] \in Members(kind)
        BY <3>1, <3>3
      <4>6. S \in SUBSET Losses
        BY <4>5, LossesAre DEF Taken
      <4>7. Taken(kind, seq, s) = S \cup {Lost(kind, x)}
        BY <3>3 DEF Taken
      <4> HIDE DEF r, x, S
      <4>8. Standing(Emptied(kind, iter[r], x), f, f.ptr \ (S \cup {Lost(kind, x)}))
        BY <4>3, <4>5, <4>6, EmptiedStands
      <4>9. QED
        BY <4>4, <4>7, <4>8 DEF K
    <3>4. QED
      BY <3>2, <3>3
  <2>3. 0 \notin T
    BY <2>1
  <2>4. \A n \in Nat : n + 1 \in T => n \in T
    <3> SUFFICES ASSUME NEW n \in Nat, n + 1 \in T PROVE n \in T
      OBVIOUS
    <3>1. n + 1 <= N /\ ~G(n + 1)
      OBVIOUS
    <3>2. ~G(n)
      BY <2>2, <3>1
    <3>3. n <= N
      BY <1>2, <3>1
    <3>4. QED
      BY <3>2, <3>3
  <2>5. T \subseteq Nat
    OBVIOUS
  <2>6. T = {}
    <3> HIDE DEF T
    <3>1. QED
      BY <2>3, <2>4, <2>5, Induction
  <2>7. QED
    BY <2>6
<1> HIDE DEF K
<1>6. K(DOMAIN seq)
  BY <1>2, <1>5
<1>7. QED
  BY <1>6 DEF K

\* Every element is in the sequence.
LEMMA OrderedAll ==
  ASSUME NEW S, IsFiniteSet(S)
  PROVE  /\ SetToSeq(S) \in Seq(S)
         /\ \A x \in S : \E i \in DOMAIN SetToSeq(S) : SetToSeq(S)[i] = x
<1> DEFINE n == Cardinality(S)
           seq == SetToSeq(S)
<1>1. n \in Nat /\ ExistsBijection(1..n, S)
  BY FS_NatBijection, FS_CardinalityType
<1>2. \E q \in [1..n -> S] : IsInjective(q)
  BY <1>1 DEF ExistsBijection, Bijection, Injection, Surjection
<1>3. seq \in [1..n -> S] /\ IsInjective(seq)
  BY <1>2 DEF SetToSeq
<1>4. seq \in Injection(1..n, S)
  BY <1>3 DEF IsInjective, Injection
<1>5. Cardinality(1..n) = n
  BY <1>1, FS_Interval
<1> HIDE DEF n, seq
<1>6. seq \in Surjection(1..n, S)
  BY <1>4, <1>5, FS_Injection DEF n
<1>7. \A x \in S : \E i \in DOMAIN seq : seq[i] = x
  BY <1>3, <1>6 DEF Surjection
<1> QED
  BY <1>7, OrderedType DEF seq

LEMMA HashFits ==
  ASSUME NEW h, NEW f, Fits(h, f), NEW x \in BOOLEAN
  PROVE  /\ Fits([h EXCEPT !.hash = x], [f EXCEPT !.hash = x])
         /\ \A y \in 0..1 : Fits([h EXCEPT !.hash = x, !.device = y], [f EXCEPT !.hash = x, !.device = y])
<1>1. Fit(h, f, Owned(f)) /\ f \in Frames
  BY FitsIs DEF Fits
<1>2. ASSUME NEW k, NEW e \in Frames, e.api = f.api, e.ptr = f.ptr, e.ref = f.ref, e.known = f.known,
             {"api", "ptr", "hash", "ref", "device", "has", "live", "ctx"} \subseteq DOMAIN k,
             k.api = h.api, k.ptr = h.ptr, k.ref = h.ref, k.has = h.has, k.live = h.live, k.ctx = h.ctx,
             k.hash = e.hash, k.device = e.device
      PROVE  Fits(k, e)
  <2>1. Owned(e) = Owned(f)
    BY <1>2 DEF Owned
  <2>2. Like(k, e)
    BY <1>1, <1>2 DEF Fit, Like, Has
  <2> QED
    BY <1>1, <1>2, <2>1, <2>2 DEF Fits, Fit
<1>3. {"api", "ptr", "hash", "ref", "device", "has", "live", "ctx"} \subseteq DOMAIN h
      /\ h.device = f.device
  BY <1>1 DEF Fit, Like
<1>4. Fits([h EXCEPT !.hash = x], [f EXCEPT !.hash = x])
  <2> DEFINE k == [h EXCEPT !.hash = x]
             e == [f EXCEPT !.hash = x]
  <2>1. e \in Frames /\ e.api = f.api /\ e.ptr = f.ptr /\ e.ref = f.ref /\ e.known = f.known /\ e.hash = x /\ e.device = f.device
    BY <1>1 DEF Frames
  <2>2. /\ {"api", "ptr", "hash", "ref", "device", "has", "live", "ctx"} \subseteq DOMAIN k
        /\ k.api = h.api /\ k.ptr = h.ptr /\ k.ref = h.ref /\ k.has = h.has /\ k.live = h.live /\ k.ctx = h.ctx
        /\ k.hash = x /\ k.device = h.device
    BY <1>3
  <2> HIDE DEF k, e
  <2>3. Fits(k, e)
    BY <1>2, <1>3, <2>1, <2>2
  <2> QED
    BY <2>3 DEF k, e
<1>5. ASSUME NEW y \in 0..1
      PROVE  Fits([h EXCEPT !.hash = x, !.device = y], [f EXCEPT !.hash = x, !.device = y])
  <2> DEFINE k == [h EXCEPT !.hash = x, !.device = y]
             e == [f EXCEPT !.hash = x, !.device = y]
  <2>1. e \in Frames /\ e.api = f.api /\ e.ptr = f.ptr /\ e.ref = f.ref /\ e.known = f.known /\ e.hash = x /\ e.device = y
    BY <1>1 DEF Frames
  <2>2. /\ {"api", "ptr", "hash", "ref", "device", "has", "live", "ctx"} \subseteq DOMAIN k
        /\ k.api = h.api /\ k.ptr = h.ptr /\ k.ref = h.ref /\ k.has = h.has /\ k.live = h.live /\ k.ctx = h.ctx
        /\ k.hash = x /\ k.device = y
    BY <1>3
  <2> HIDE DEF k, e
  <2>3. Fits(k, e)
    BY <1>2, <2>1, <2>2
  <2> QED
    BY <2>3 DEF k, e
<1> QED
  BY <1>4, <1>5

LEMMA LayersStand ==
  ASSUME NEW f \in Frames, Able(f), NEW h, Standing(h, f, f.ptr)
  PROVE  Standing(FoldLeft(destroy, h, SetToSeq(Layers)), f, f.ptr \ {Quad(l) : l \in Layers})
<1> DEFINE seq == SetToSeq(Layers)
           Rec(F) == F = [s \in SUBSET DOMAIN seq |->
                            IF s = {} THEN h ELSE destroy(F[s \ {Max(s)}], seq[Max(s)])]
           iter == CHOOSE F : Rec(F)
<1>1. seq \in Seq(Members("layers")) /\ \A l \in Layers : \E i \in DOMAIN seq : seq[i] = l
  BY GraphicsAssumption, OrderedAll DEF Members
<1>2. \A F : Folds(F, SUBSET DOMAIN seq, "layers", h, seq) <=> Rec(F)
  BY DEF Folds, Emptied
<1>3. FoldLeft(destroy, h, SetToSeq(Layers)) = iter[DOMAIN seq]
  BY DEF FoldLeft, MapThenFoldSet
<1> HIDE DEF seq, Rec
<1>4. \E F : Folds(F, SUBSET DOMAIN seq, "layers", h, seq)
  <2>1. DOMAIN seq = 1..Len(seq) /\ Len(seq) \in Nat
    BY <1>1
  <2>2. QED
    BY <2>1, FoldExists
<1>5. Folds(iter, SUBSET DOMAIN seq, "layers", h, seq)
  BY <1>2, <1>4
<1>6. Taken("layers", seq, DOMAIN seq) = {Quad(l) : l \in Layers}
  <2>1. \A i \in DOMAIN seq : seq[i] \in Layers
    BY <1>1 DEF Members
  <2> QED
    BY <1>1, <2>1 DEF Taken, Lost
<1> HIDE DEF iter
<1>7. Standing(iter[DOMAIN seq], f, f.ptr \ Taken("layers", seq, DOMAIN seq))
  BY <1>1, <1>5, FoldStands
<1> QED
  BY <1>3, <1>6, <1>7

LEMMA TexturesStand ==
  ASSUME NEW f \in Frames, Able(f), NEW h, Standing(h, f, f.ptr)
  PROVE  Standing(FoldLeft(LAMBDA k, t : ui_destroy_texture(k, Tex(t)), h, SetToSeq(Textures)), f,
                  f.ptr \ {Tex(t) : t \in Textures})
<1> DEFINE seq == SetToSeq(Textures)
           Rec(F) == F = [s \in SUBSET DOMAIN seq |->
                            IF s = {} THEN h ELSE ui_destroy_texture(F[s \ {Max(s)}], Tex(seq[Max(s)]))]
           iter == CHOOSE F : Rec(F)
           left == FoldLeft(LAMBDA k, t : ui_destroy_texture(k, Tex(t)), h, SetToSeq(Textures))
<1>1. seq \in Seq(Members("textures")) /\ \A t \in Textures : \E i \in DOMAIN seq : seq[i] = t
  BY GraphicsAssumption, OrderedAll DEF Members
<1>2. \A F : Folds(F, SUBSET DOMAIN seq, "textures", h, seq) <=> Rec(F)
  BY DEF Folds, Emptied
<1>3. left = iter[DOMAIN seq]
  BY DEF FoldLeft, MapThenFoldSet
<1> HIDE DEF seq, Rec
<1>4. \E F : Folds(F, SUBSET DOMAIN seq, "textures", h, seq)
  <2>1. DOMAIN seq = 1..Len(seq) /\ Len(seq) \in Nat
    BY <1>1
  <2>2. QED
    BY <2>1, FoldExists
<1>5. Folds(iter, SUBSET DOMAIN seq, "textures", h, seq)
  BY <1>2, <1>4
<1>6. Taken("textures", seq, DOMAIN seq) = {Tex(t) : t \in Textures}
  <2>1. \A i \in DOMAIN seq : seq[i] \in Textures
    BY <1>1 DEF Members
  <2> QED
    BY <1>1, <2>1 DEF Taken, Lost
<1> HIDE DEF iter
<1>7. Standing(left, f, f.ptr \ {Tex(t) : t \in Textures})
  <2> HIDE DEF left
  <2>1. Standing(iter[DOMAIN seq], f, f.ptr \ Taken("textures", seq, DOMAIN seq))
    BY <1>1, <1>5, FoldStands
  <2> QED
    BY <1>3, <1>6, <2>1
<1> QED
  BY <1>7

-----------------------------------------------------------------------------
(* The structures between two operations. *)

\* Between two calls: a back end has its context, the UI's textures are in their table,
\* and what was made was made with a device; desktop GL has none.
Settled(f) ==
  /\ f.api = "none" => f.ptr = {}
  /\ f.api # "none" => Ctx \in f.ptr
  /\ f.known = (f.api \notin {"gl", "none"})
  /\ Referenced(f)
  /\ Clear \in f.ptr => UI \in f.ptr /\ f.api \in {"vk", "d3d12"}
  /\ \A t \in Textures : Tex(t) \in f.ptr => f.hash /\ (f.api = "vk" => UI \in f.ptr)
  /\ f.ptr \subseteq {Ctx} \/ f.device = 1 \/ (f.api = "gl" /\ plat # "android")

LEMMA SettledIs ==
  ASSUME NEW f \in Frames, Settled(f), f.api \in APIs
  PROVE  /\ Able(f) /\ Ctx \in f.ptr
         /\ f.api = "vk" => f.ptr \subseteq {Ctx} \/ f.device # 0
BY DEF Settled, Able, APIs

\* Another device leaves nothing but the context.
Cleared(k, f, d) ==
  \E e : /\ Fits(k, e) /\ Referenced(e)
         /\ e.api = f.api /\ e.known = f.known /\ e.ptr = {Ctx} /\ e.hash = FALSE
         /\ e.device = IF d = 0 THEN 0 ELSE 1

LEMMA SetDeviceStands ==
  ASSUME NEW h, NEW f, Fits(h, f), Settled(f), f.api \in APIs, NEW d
  PROVE  IF h.device = d THEN gfx_set_device(h, d) = h ELSE Cleared(gfx_set_device(h, d), f, d)
<1> DEFINE quads == FoldLeft(destroy, h, SetToSeq(Layers))
           freed == FoldLeft(LAMBDA k, t : ui_destroy_texture(k, Tex(t)), quads, SetToSeq(Textures))
           textures == IF ~quads.hash THEN quads ELSE freed
           left == ui_destroy(textures)
           result == SameDevice([left EXCEPT !.hash = FALSE, !.device = d])
           Q == {Quad(l) : l \in Layers}
           T == {Tex(t) : t \in Textures}
<1>1. CASE h.device = d
  BY <1>1 DEF gfx_set_device
<1>2. CASE h.device # d
  <2>0. gfx_set_device(h, d) = result
    BY <1>2 DEF gfx_set_device
  <2>1. f \in Frames /\ Able(f) /\ Ctx \in f.ptr /\ f.ptr \subseteq Structures
    BY FitsIs, SettledIs
  <2>2. /\ Ctx \notin Q /\ Ctx \notin T /\ UI \notin Q /\ UI \notin T /\ Clear \notin Q /\ Clear \notin T
        /\ UI # Ctx /\ Clear # Ctx /\ Structures = {Ctx, UI, Clear} \cup Q \cup T
    BY OwnersDiffer DEF Structures
  <2>3. Q \cap T = {}
    BY DEF Quad, Tex
  <2>4. Standing(h, f, f.ptr)
    BY <2>1, StandingIs DEF Able
  <2>5. Standing(quads, f, f.ptr \ Q)
    BY <2>1, <2>4, LayersStand
  <2> HIDE DEF quads, result
  <2>6. PICK c : Fits(quads, c) /\ Akin(c, f) /\ Referenced(c) /\ c.ptr = f.ptr \ Q
    BY <2>5 DEF Standing
  <2>7. c \in Frames /\ quads.hash = c.hash /\ c.hash = f.hash /\ c.api = f.api /\ c.device = f.device /\ f.hash \in BOOLEAN
    BY <2>1, <2>6, FitsIs DEF Akin, Frames
  <2>8. Able(c)
    <3>1. \A t \in Textures : Tex(t) \in T
      OBVIOUS
    <3> HIDE DEF Q, T
    <3>2. c.api = "vk" => c.ptr \subseteq {Ctx} \/ c.device # 0
      BY <2>1, <2>6, <2>7 DEF Able
    <3>3. ASSUME c.api = "vk", NEW t \in Textures, Tex(t) \in c.ptr PROVE UI \in c.ptr
      BY <2>1, <2>2, <2>6, <2>7, <3>3 DEF Able
    <3> QED
      BY <2>1, <2>6, <2>7, <3>2, <3>3 DEF Able
  <2>9. Standing(textures, c, c.ptr \ T)
    <3>0. Standing(quads, c, c.ptr)
      BY <2>6 DEF Standing, Akin
    <3>1. CASE c.hash
      <4>1. Standing(freed, c, c.ptr \ T)
        BY <2>7, <2>8, <3>0, TexturesStand
      <4> HIDE DEF freed
      <4> QED
        BY <2>7, <3>1, <4>1
    <3>2. CASE ~c.hash
      <4>1. \A t \in Textures : Tex(t) \notin f.ptr
        BY <2>7, <3>2 DEF Settled
      <4>2. c.ptr \ T = c.ptr
        BY <2>6, <4>1
      <4> HIDE DEF freed
      <4> QED
        BY <2>7, <3>0, <3>2, <4>2
    <3> QED
      BY <3>1, <3>2
  <2> HIDE DEF freed, textures, Q, T
  <2>10. PICK b : Fits(textures, b) /\ Akin(b, c) /\ Referenced(b) /\ b.ptr = c.ptr \ T
    BY <2>9 DEF Standing
  <2>11. b \in Frames /\ b.api = f.api /\ b.device = f.device /\ b.known = f.known
    BY <2>6, <2>10, FitsIs DEF Akin
  <2>12. Standing(left, b, b.ptr \ {Clear, UI})
    <3>1. b.api = "vk" /\ UI \in b.ptr => b.device # 0
      <4>1. f.api = "vk" => f.ptr \subseteq {Ctx} \/ f.device # 0
        BY <2>1, SettledIs
      <4> QED
        BY <2>2, <2>6, <2>10, <2>11, <4>1
    <3>2. Clear \in b.ptr => UI \in b.ptr /\ b.api \in {"vk", "d3d12"}
      BY <2>2, <2>6, <2>10, <2>11 DEF Settled
    <3> QED
      BY <2>10, <2>11, <3>1, <3>2, UIStands
  <2> HIDE DEF left
  <2>13. PICK a : Fits(left, a) /\ Akin(a, b) /\ Referenced(a) /\ a.ptr = b.ptr \ {Clear, UI}
    BY <2>12 DEF Standing
  <2>14. a.ptr = {Ctx} /\ a \in Frames
    <3>1. a \in Frames
      BY <2>13, FitsIs
    <3>2. a.ptr = ((f.ptr \ Q) \ T) \ {Clear, UI}
      BY <2>6, <2>10, <2>13
    <3> QED
      BY <2>1, <2>2, <3>1, <3>2
  <2> DEFINE y == IF d = 0 THEN 0 ELSE 1
             e == [a EXCEPT !.hash = FALSE, !.device = y]
             m == [left EXCEPT !.hash = FALSE, !.device = y]
  <2>15. e.api = f.api /\ e.known = f.known /\ e.ptr = {Ctx} /\ e.hash = FALSE /\ e.device = y /\ e.ref = a.ref
    BY <2>11, <2>13, <2>14 DEF Frames, Akin
  <2>16. Referenced(e)
    BY <2>11, <2>13, <2>14, <2>15 DEF Referenced, Akin
  <2>17. Fits(m, e)
    <3>1. y \in 0..1 /\ FALSE \in BOOLEAN
      OBVIOUS
    <3> HIDE DEF y
    <3> QED
      BY <2>13, <3>1, HashFits
  <2>18. {"device", "hash", "ctx"} \subseteq DOMAIN left /\ "dev" \in DOMAIN left.ctx
    BY <2>13 DEF Fits, Fit, Like
  <2>19. CASE d = 0
    <3>1. result = m
      BY <2>18, <2>19 DEF result, SameDevice
    <3> HIDE DEF m, e
    <3> QED
      BY <1>2, <2>0, <2>15, <2>16, <2>17, <2>19, <3>1 DEF Cleared
  <2>20. CASE d # 0
    <3>1. result = [m EXCEPT !.ctx.dev = 1]
      BY <2>18, <2>20 DEF result, SameDevice
    <3> HIDE DEF m, e
    <3>2. Fits(result, e)
      <4>0. \A x : x # 0 => Fits([m EXCEPT !.ctx.dev = x], e)
        BY <2>17, DeviceFits
      <4>1. Fits([m EXCEPT !.ctx.dev = 1], e)
        BY <4>0
      <4> QED
        BY <3>1, <4>1
    <3> QED
      BY <1>2, <2>0, <2>15, <2>16, <2>20, <3>2 DEF Cleared
  <2> QED
    BY <2>19, <2>20
<1> QED
  BY <1>1, <1>2

-----------------------------------------------------------------------------
(* What the calls have in common. *)

Desktop(f) == f.api = "gl" /\ plat # "android"
\* There is a device, for those who have one; and the structures go with it.
Ready(h, f)  == Fits(h, f) /\ Settled(f) /\ f.api \in APIs /\ (f.api = "gl" /\ plat = "android" => h.ctx.dev # 0)
Backed(h, f) == Fits(h, f) /\ Settled(f) /\ f.api \in APIs /\ (f.device = 1 \/ Desktop(f))

LEMMA LockStands ==
  ASSUME NEW h, NEW f, Fits(h, f), Settled(f), f.api \in APIs
  PROVE  /\ \A r \in ctx_lock(h) : Fits(r.g, f) /\ (r.ok => Ready(r.g, f))
         /\ Fits(ctx_unlock(h), f)
<1>0. h.api = f.api /\ Ctx \in f.ptr
  BY FitsIs, SettledIs
<1>1. CASE f.api = "gl"
  <2>1. /\ \A r \in mty_gl_ctx_lock(h) : Fits(r.g, f) /\ (r.ok /\ plat = "android" => r.g.ctx.dev # 0)
        /\ Fits(mty_gl_ctx_unlock(h), f)
    BY <1>0, <1>1, GLContextFits
  <2> QED
    BY <1>0, <1>1, <2>1 DEF ctx_lock, ctx_unlock, Ready
<1>2. CASE f.api # "gl"
  <2>1. \A r \in ctx_lock(h) : r = Result(h, TRUE)
    BY <1>0, <1>2 DEF ctx_lock
  <2>2. \A r \in ctx_lock(h) : r.g = h
    BY <2>1 DEF Result
  <2> QED
    BY <1>0, <1>2, <2>2 DEF ctx_unlock, Ready
<1> QED
  BY <1>1, <1>2

LEMMA DeviceThere ==
  ASSUME NEW h, NEW f, Ready(h, f)
  PROVE  ctx_get_device(h) = 0 => Desktop(f)
<1>1. h.api = f.api /\ (f.known => h.ctx.dev # 0)
  BY FitsIs DEF Ready
<1>2. f.api # "gl" => f.known
  BY DEF Ready, Settled, APIs
<1>3. f.api = "gl" => plat # "android" \/ h.ctx.dev # 0
  BY DEF Ready
<1>4. CASE f.api = "gl"
  BY <1>1, <1>3, <1>4 DEF ctx_get_device, mty_gl_ctx_get_device, Desktop
<1>5. CASE f.api # "gl"
  <2>1. h.ctx.dev # 0
    BY <1>1, <1>2, <1>5
  <2>2. ctx_get_device(h) = h.ctx.dev
    BY <1>1, <1>5 DEF Ready, APIs, ctx_get_device, mty_vk_ctx_get_device, mty_d3d12_ctx_get_device,
                      mty_d3d11_ctx_get_device, mty_metal_ctx_get_device
  <2> QED
    BY <2>1, <2>2
<1> QED
  BY <1>4, <1>5

LEMMA SetDeviceBacks ==
  ASSUME NEW h, NEW f, Ready(h, f)
  PROVE  \E e : Backed(gfx_set_device(h, ctx_get_device(h)), e) /\ e.api = f.api
<1> DEFINE d == ctx_get_device(h)
<1>0. d = 0 => Desktop(f)
  BY DeviceThere
<1>1. Fits(h, f) /\ Settled(f) /\ f.api \in APIs /\ h.device = f.device /\ f.device \in 0..1
  BY FitsIs DEF Ready
<1> HIDE DEF d
<1>2. CASE h.device = d /\ gfx_set_device(h, d) = h
  <2>1. f.device = 1 \/ Desktop(f)
    BY <1>0, <1>1, <1>2
  <2> QED
    BY <1>1, <1>2, <2>1 DEF Backed, d
<1>3. ASSUME NEW e, Fits(gfx_set_device(h, d), e), Referenced(e), e.api = f.api, e.known = f.known, e.ptr = {Ctx},
             e.hash = FALSE, e.device = IF d = 0 THEN 0 ELSE 1
      PROVE  Backed(gfx_set_device(h, d), e)
  <2>1. \A t \in Textures : Tex(t) \notin e.ptr
    BY <1>3, OwnersDiffer
  <2>2. Clear \notin e.ptr
    BY <1>3, OwnersDiffer
  <2>3. Settled(e)
    BY <1>1, <1>3, <2>1, <2>2 DEF Settled, APIs
  <2>4. e.device = 1 \/ Desktop(e)
    BY <1>0, <1>3 DEF Desktop
  <2> QED
    BY <1>1, <1>3, <2>3, <2>4 DEF Backed
<1>4. IF h.device = d THEN gfx_set_device(h, d) = h ELSE Cleared(gfx_set_device(h, d), f, d)
  <2>1. Fits(h, f) /\ Settled(f) /\ f.api \in APIs
    BY <1>1
  <2> QED
    BY <2>1, SetDeviceStands
<1> QED
  BY <1>2, <1>3, <1>4 DEF d, Cleared

\* What may be added to the structures, or taken from them.
Backs(k, f, ptr) == \E e : Backed(k, e) /\ e.api = f.api /\ e.ptr = ptr /\ e.hash = f.hash

LEMMA StandingBacks ==
  ASSUME NEW h, NEW f, Backed(h, f), NEW k, NEW ptr, Standing(k, f, ptr), Ctx \in ptr,
         Clear \in ptr => UI \in ptr /\ f.api \in {"vk", "d3d12"},
         \A t \in Textures : Tex(t) \in ptr => f.hash /\ (f.api = "vk" => UI \in ptr)
  PROVE  Backs(k, f, ptr)
<1>1. PICK e : Fits(k, e) /\ Akin(e, f) /\ Referenced(e) /\ e.ptr = ptr
  BY DEF Standing
<1>2. Settled(e)
  BY <1>1 DEF Backed, Settled, Akin, Desktop, APIs
<1> QED
  BY <1>1, <1>2 DEF Backs, Backed, Akin, Desktop

LEMMA BeginStands ==
  ASSUME NEW h, NEW f, Ready(h, f), NEW l \in Layers
  PROVE  \A r \in gfx_begin(h, l) : \E e : Backed(r.g, e) /\ e.api = f.api /\ (r.ok => Quad(l) \in e.ptr)
<1> DEFINE k == gfx_set_device(h, ctx_get_device(h))
<1>1. PICK c : Backed(k, c) /\ c.api = f.api
  BY SetDeviceBacks
<1>2. gfx_begin(h, l) = IF Quad(l) \in k.ptr THEN {Result(k, TRUE)} ELSE create(k, l)
  BY DEF gfx_begin
<1> HIDE DEF k
<1>3. /\ Fits(k, c) /\ Settled(c) /\ c.api \in APIs /\ c \in Frames /\ k.ptr = c.ptr /\ Ctx \in c.ptr /\ Referenced(c)
      /\ c.api = "vk" => c.device # 0
  <2>1. Fits(k, c) /\ Settled(c) /\ c.api \in APIs /\ (c.api = "vk" => c.device # 0) /\ Referenced(c)
    BY <1>1 DEF Backed, Desktop, Settled
  <2> QED
    BY <2>1, FitsIs, SettledIs
<1>4. ASSUME NEW r \in gfx_begin(h, l)
      PROVE  \E e : Backed(r.g, e) /\ e.api = f.api /\ (r.ok => Quad(l) \in e.ptr)
  <2>1. CASE Quad(l) \in k.ptr
    <3>1. r = Result(k, TRUE)
      BY <1>2, <1>4, <2>1
    <3>2. r.g = k
      BY <3>1 DEF Result
    <3> QED
      BY <1>1, <1>3, <2>1, <3>2
  <2>2. CASE Quad(l) \notin k.ptr
    <3>1. r \in create(k, l)
      BY <1>2, <1>4, <2>2
    <3> DEFINE ptr == IF r.ok THEN c.ptr \cup {Quad(l)} ELSE c.ptr
    <3>2. Standing(r.g, c, ptr)
      BY <1>3, <2>2, <3>1, CreateStands
    <3>3. /\ Ctx \in ptr /\ (Clear \in ptr => Clear \in c.ptr) /\ c.ptr \subseteq ptr
          /\ \A t \in Textures : Tex(t) \in ptr => Tex(t) \in c.ptr
          /\ r.ok => Quad(l) \in ptr
      <4>1. Quad(l) # Clear /\ \A t \in Textures : Tex(t) # Quad(l)
        BY OwnersDiffer DEF Tex, Quad
      <4> QED
        BY <1>3, <4>1
    <3> HIDE DEF ptr
    <3>4. /\ Clear \in ptr => UI \in ptr /\ c.api \in {"vk", "d3d12"}
          /\ \A t \in Textures : Tex(t) \in ptr => c.hash /\ (c.api = "vk" => UI \in ptr)
      BY <1>3, <3>3 DEF Settled
    <3>5. Backs(r.g, c, ptr)
      BY <1>1, <3>2, <3>3, <3>4, StandingBacks
    <3> QED
      BY <1>1, <3>3, <3>5 DEF Backs
  <2> QED
    BY <2>1, <2>2
<1> QED
  BY <1>4

LEMMA BeginUIStands ==
  ASSUME NEW h, NEW f, Ready(h, f)
  PROVE  \A r \in gfx_begin_ui(h) : \E e : Backed(r.g, e) /\ e.api = f.api /\ e.hash /\ (r.ok => UI \in e.ptr)
<1> DEFINE k == gfx_set_device(h, ctx_get_device(h))
<1>1. PICK c : Backed(k, c) /\ c.api = f.api
  BY SetDeviceBacks
<1>2. gfx_begin_ui(h) = {Result([r.g EXCEPT !.hash = TRUE], r.ok) :
                              r \in IF UI \in k.ptr THEN {Result(k, TRUE)} ELSE ui_create(k)}
  BY DEF gfx_begin_ui
<1> HIDE DEF k
<1>3. /\ Fits(k, c) /\ Settled(c) /\ c.api \in APIs /\ c \in Frames /\ k.ptr = c.ptr /\ Ctx \in c.ptr /\ Referenced(c)
      /\ c.api = "vk" => c.device # 0
  <2>1. Fits(k, c) /\ Settled(c) /\ c.api \in APIs /\ (c.api = "vk" => c.device # 0) /\ Referenced(c)
    BY <1>1 DEF Backed, Desktop, Settled
  <2> QED
    BY <2>1, FitsIs, SettledIs
<1> DEFINE begun == IF UI \in k.ptr THEN {Result(k, TRUE)} ELSE ui_create(k)
<1>4. ASSUME NEW r \in begun PROVE \E e : Backed(r.g, e) /\ e.api = f.api /\ (r.ok => UI \in e.ptr)
  <2>1. CASE UI \in k.ptr
    <3>1. r = Result(k, TRUE)
      BY <1>4, <2>1
    <3>2. r.g = k
      BY <3>1 DEF Result
    <3> QED
      BY <1>1, <1>3, <2>1, <3>2
  <2>2. CASE UI \notin k.ptr
    <3>1. r \in ui_create(k)
      BY <1>4, <2>2
    <3> DEFINE ptr == IF r.ok THEN c.ptr \cup UIParts(c.api) ELSE c.ptr
    <3>0. UI \notin c.ptr /\ Clear \notin c.ptr
      BY <1>3, <2>2 DEF Settled
    <3>2. Standing(r.g, c, ptr)
      BY <1>3, <3>0, <3>1, UICreateStands
    <3>3. /\ Ctx \in ptr /\ (Clear \in ptr => UI \in ptr /\ c.api \in {"vk", "d3d12"}) /\ c.ptr \subseteq ptr
          /\ \A t \in Textures : Tex(t) \in ptr => Tex(t) \in c.ptr
          /\ r.ok => UI \in ptr
      <4>1. Clear # UI /\ \A t \in Textures : Tex(t) # UI /\ Tex(t) # Clear
        BY OwnersDiffer
      <4> QED
        BY <1>3, <3>0, <4>1 DEF UIParts
    <3> HIDE DEF ptr
    <3>4. \A t \in Textures : Tex(t) \in ptr => c.hash /\ (c.api = "vk" => UI \in ptr)
      BY <1>3, <3>3 DEF Settled
    <3>5. Backs(r.g, c, ptr)
      BY <1>1, <3>2, <3>3, <3>4, StandingBacks
    <3> QED
      BY <1>1, <3>3, <3>5 DEF Backs
  <2> QED
    BY <2>1, <2>2
<1>5. gfx_begin_ui(h) = {Result([r.g EXCEPT !.hash = TRUE], r.ok) : r \in begun}
  BY <1>2
<1> HIDE DEF begun
<1>6. ASSUME NEW s \in gfx_begin_ui(h)
      PROVE  \E e : Backed(s.g, e) /\ e.api = f.api /\ e.hash /\ (s.ok => UI \in e.ptr)
  <2>1. PICK r \in begun : s = Result([r.g EXCEPT !.hash = TRUE], r.ok)
    BY <1>5, <1>6
  <2>2. s.g = [r.g EXCEPT !.hash = TRUE] /\ s.ok = r.ok
    BY <2>1 DEF Result
  <2>3. PICK b : Backed(r.g, b) /\ b.api = f.api /\ (r.ok => UI \in b.ptr)
    BY <1>4, <2>1
  <2> DEFINE e == [b EXCEPT !.hash = TRUE]
  <2>4. Fits(s.g, e)
    <3>1. Fits(r.g, b)
      BY <2>3 DEF Backed
    <3>2. Fits([r.g EXCEPT !.hash = TRUE], [b EXCEPT !.hash = TRUE])
      BY <3>1, HashFits
    <3> QED
      BY <2>2, <3>2
  <2>5. b \in Frames
    BY <2>3, FitsIs DEF Backed
  <2>6. e.api = b.api /\ e.ptr = b.ptr /\ e.device = b.device /\ e.ref = b.ref /\ e.known = b.known /\ e.hash = TRUE
    BY <2>5 DEF Frames
  <2> HIDE DEF e
  <2>7. Settled(e)
    BY <2>3, <2>6 DEF Backed, Settled, Referenced
  <2>8. Backed(s.g, e)
    BY <2>3, <2>4, <2>6, <2>7 DEF Backed, Desktop
  <2> QED
    BY <2>2, <2>3, <2>6, <2>8
<1> QED
  BY <1>6

-----------------------------------------------------------------------------
(* The calls. *)

\* With a back end, and with any or none.
Sits(h)    == \E f : Fits(h, f) /\ Settled(f) /\ f.api \in APIs
Settles(h) == \E f : Fits(h, f) /\ Settled(f)

LEMMA BackedSits ==
  ASSUME NEW h, NEW f, Backed(h, f)
  PROVE  /\ Sits(h) /\ Fits(h, f) /\ Settled(f) /\ f.api \in APIs /\ f \in Frames
         /\ Ctx \in f.ptr /\ Referenced(f) /\ (f.api = "vk" => f.device # 0)
<1>1. Fits(h, f) /\ Settled(f) /\ f.api \in APIs /\ (f.api = "vk" => f.device # 0)
  BY DEF Backed, Desktop
<1>2. f \in Frames
  BY <1>1, FitsIs
<1>3. Ctx \in f.ptr /\ Referenced(f)
  BY <1>1 DEF Settled, APIs
<1> QED
  BY <1>1, <1>2, <1>3 DEF Sits

\* A call: what it draws with, the lock that it takes, what it draws, and the lock that
\* it leaves.
LEMMA CallSits ==
  ASSUME NEW z, Sits(z.g), NEW s, (~z.ok /\ s = z) \/ (z.ok /\ s \in ctx_lock(z.g)),
         NEW drawn, NEW r, (~s.ok /\ r = s) \/ (s.ok /\ \E x \in drawn : r = Result(ctx_unlock(x), TRUE)),
         (\E f : Ready(s.g, f)) => \A x \in drawn : Sits(x)
  PROVE  Sits(r.g)
<1>1. PICK f : Fits(z.g, f) /\ Settled(f) /\ f.api \in APIs
  BY DEF Sits
<1>2. s = z \/ (Fits(s.g, f) /\ (s.ok => Ready(s.g, f)))
  BY <1>1, LockStands
<1>3. Sits(s.g)
  BY <1>1, <1>2 DEF Sits
<1>4. CASE ~s.ok /\ r = s
  BY <1>3, <1>4
<1>5. CASE s.ok /\ \E x \in drawn : r = Result(ctx_unlock(x), TRUE)
  <2>1. Ready(s.g, f)
    <3>1. z.ok /\ s \in ctx_lock(z.g)
      BY <1>5
    <3> QED
      BY <1>1, <1>5, <3>1, LockStands
  <2>2. PICK x \in drawn : r = Result(ctx_unlock(x), TRUE)
    BY <1>5
  <2>3. Sits(x)
    BY <2>1, <2>2
  <2>4. PICK e : Fits(x, e) /\ Settled(e) /\ e.api \in APIs
    BY <2>3 DEF Sits
  <2>5. Fits(ctx_unlock(x), e)
    BY <2>4, LockStands
  <2>6. r.g = ctx_unlock(x)
    BY <2>2 DEF Result
  <2> QED
    BY <2>4, <2>5, <2>6 DEF Sits
<1> QED
  BY <1>4, <1>5

LEMMA SurfaceSits ==
  ASSUME Sits(g)
  PROVE  /\ \A r \in ctx_get_surface(g) : Sits(r.g)
         /\ \A r \in {Result(g, TRUE)} : Sits(r.g)
         /\ \A k \in ctx_present(g) : Sits(k)
         /\ \A n : \A k \in ctx_set_sync_interval(g, n) : Sits(k)
<1>1. PICK f : Fits(g, f) /\ Settled(f) /\ f.api \in APIs
  BY DEF Sits
<1>2. Ctx \in f.ptr
  BY <1>1 DEF Settled, APIs
<1>3. /\ \A r \in ctx_get_surface(g) : Fits(r.g, f)
      /\ \A k \in ctx_present(g) : Fits(k, f)
      /\ \A n : \A k \in ctx_set_sync_interval(g, n) : Fits(k, f)
  BY <1>1, <1>2, DrawnFits
<1>4. Result(g, TRUE).g = g
  BY DEF Result
<1> QED
  BY <1>1, <1>3, <1>4 DEF Sits

LEMMA DrawQuadSits ==
  ASSUME Sits(g), NEW l \in Layers, NEW fmt, NEW size, DrawQuad(l, fmt, size)
  PROVE  Sits(g') /\ plat' = plat
<1> DEFINE draw(h) == UNION {IF r.ok THEN render(r.g, l, fmt, size) ELSE {r.g} : r \in gfx_begin(h, l)}
           results == ctx_get_surface(g)
           locked == UNION {IF r.ok THEN ctx_lock(r.g) ELSE {r} : r \in results}
           ends == UNION {IF r.ok THEN {Result(ctx_unlock(k), TRUE) : k \in draw(r.g)} ELSE {r} : r \in locked}
<1>1. g' \in {r.g : r \in ends} /\ plat' = plat
  BY DEF DrawQuad, Go, Drawn, Locked, Then
<1>2. ASSUME NEW h, NEW f, Ready(h, f), NEW k \in draw(h) PROVE Sits(k)
  <2>1. PICK r \in gfx_begin(h, l) : k \in (IF r.ok THEN render(r.g, l, fmt, size) ELSE {r.g})
    BY <1>2
  <2>2. PICK e : Backed(r.g, e) /\ (r.ok => Quad(l) \in e.ptr)
    BY <1>2, BeginStands
  <2>3. Sits(r.g) /\ Fits(r.g, e) /\ Settled(e) /\ e.api \in APIs /\ Ctx \in e.ptr
    BY <2>2, BackedSits
  <2>4. ASSUME r.ok PROVE Fits(k, e)
    BY <2>1, <2>2, <2>3, <2>4, DrawnFits
  <2> QED
    BY <2>1, <2>3, <2>4 DEF Sits
<1> HIDE DEF draw
<1>3. PICK r \in ends : g' = r.g
  BY <1>1
<1>4. PICK s \in locked : (~s.ok /\ r = s) \/ (s.ok /\ \E x \in draw(s.g) : r = Result(ctx_unlock(x), TRUE))
  OBVIOUS
<1> HIDE DEF ends
<1>5. PICK z \in results : (~z.ok /\ s = z) \/ (z.ok /\ s \in ctx_lock(z.g))
  BY DEF locked
<1> HIDE DEF locked
<1>6. Sits(z.g)
  BY SurfaceSits
<1> HIDE DEF results
<1>7. (\E f : Ready(s.g, f)) => \A x \in draw(s.g) : Sits(x)
  BY <1>2
<1>8. Sits(r.g)
  BY <1>4, <1>5, <1>6, <1>7, CallSits
<1> QED
  BY <1>1, <1>3, <1>8

LEMMA ClearSits ==
  ASSUME Sits(g), MTY_WindowClear
  PROVE  Sits(g') /\ plat' = plat
<1> DEFINE draw(h) == UNION {IF r.ok THEN {clear(r.g)} ELSE {r.g} : r \in gfx_begin(h, 0)}
           results == ctx_get_surface(g)
           locked == UNION {IF r.ok THEN ctx_lock(r.g) ELSE {r} : r \in results}
           ends == UNION {IF r.ok THEN {Result(ctx_unlock(k), TRUE) : k \in draw(r.g)} ELSE {r} : r \in locked}
<1>1. g' \in {r.g : r \in ends} /\ plat' = plat
  BY DEF MTY_WindowClear, Go, Drawn, Locked, Then
<1>2. ASSUME NEW h, NEW f, Ready(h, f), NEW k \in draw(h) PROVE Sits(k)
  <2>1. PICK r \in gfx_begin(h, 0) : k \in (IF r.ok THEN {clear(r.g)} ELSE {r.g})
    BY <1>2
  <2>2. PICK e : Backed(r.g, e)
    BY <1>2, BeginStands, GraphicsAssumption
  <2>3. Sits(r.g) /\ Fits(r.g, e) /\ Settled(e) /\ e.api \in APIs /\ Ctx \in e.ptr /\ (e.api = "vk" => e.device # 0)
    BY <2>2, BackedSits
  <2>4. Fits(clear(r.g), e)
    BY <2>3, DrawnFits
  <2> QED
    BY <2>1, <2>3, <2>4 DEF Sits
<1> HIDE DEF draw
<1>3. PICK r \in ends : g' = r.g
  BY <1>1
<1>4. PICK s \in locked : (~s.ok /\ r = s) \/ (s.ok /\ \E x \in draw(s.g) : r = Result(ctx_unlock(x), TRUE))
  OBVIOUS
<1> HIDE DEF ends
<1>5. PICK z \in results : (~z.ok /\ s = z) \/ (z.ok /\ s \in ctx_lock(z.g))
  BY DEF locked
<1> HIDE DEF locked
<1>6. Sits(z.g)
  BY SurfaceSits
<1> HIDE DEF results
<1>7. (\E f : Ready(s.g, f)) => \A x \in draw(s.g) : Sits(x)
  BY <1>2
<1>8. Sits(r.g)
  BY <1>4, <1>5, <1>6, <1>7, CallSits
<1> QED
  BY <1>1, <1>3, <1>8

LEMMA DrawUISits ==
  ASSUME Sits(g), NEW need, DrawUI(need)
  PROVE  Sits(g') /\ plat' = plat
<1> DEFINE draw(h) == UNION {IF r.ok THEN ui_render(r.g, need) ELSE {r.g} : r \in gfx_begin_ui(h)}
           results == ctx_get_surface(g)
           locked == UNION {IF r.ok THEN ctx_lock(r.g) ELSE {r} : r \in results}
           ends == UNION {IF r.ok THEN {Result(ctx_unlock(k), TRUE) : k \in draw(r.g)} ELSE {r} : r \in locked}
<1>1. g' \in {r.g : r \in ends} /\ plat' = plat
  BY DEF DrawUI, Go, Drawn, Locked, Then
<1>2. ASSUME NEW h, NEW f, Ready(h, f), NEW k \in draw(h) PROVE Sits(k)
  <2>1. PICK r \in gfx_begin_ui(h) : k \in (IF r.ok THEN ui_render(r.g, need) ELSE {r.g})
    BY <1>2
  <2>2. PICK e : Backed(r.g, e) /\ (r.ok => UI \in e.ptr)
    BY <1>2, BeginUIStands
  <2>3. Sits(r.g) /\ Fits(r.g, e) /\ Settled(e) /\ e.api \in APIs /\ Ctx \in e.ptr
    BY <2>2, BackedSits
  <2>4. ASSUME r.ok PROVE Fits(k, e)
    BY <2>1, <2>2, <2>3, <2>4, DrawnFits
  <2> QED
    BY <2>1, <2>3, <2>4 DEF Sits
<1> HIDE DEF draw
<1>3. PICK r \in ends : g' = r.g
  BY <1>1
<1>4. PICK s \in locked : (~s.ok /\ r = s) \/ (s.ok /\ \E x \in draw(s.g) : r = Result(ctx_unlock(x), TRUE))
  OBVIOUS
<1> HIDE DEF ends
<1>5. PICK z \in results : (~z.ok /\ s = z) \/ (z.ok /\ s \in ctx_lock(z.g))
  BY DEF locked
<1> HIDE DEF locked
<1>6. Sits(z.g)
  BY SurfaceSits
<1> HIDE DEF results
<1>7. (\E f : Ready(s.g, f)) => \A x \in draw(s.g) : Sits(x)
  BY <1>2
<1>8. Sits(r.g)
  BY <1>4, <1>5, <1>6, <1>7, CallSits
<1> QED
  BY <1>1, <1>3, <1>8

LEMMA HasUITextureSits ==
  ASSUME Sits(g), MTY_WindowHasUITexture
  PROVE  Sits(g') /\ plat' = plat
<1> DEFINE draw(h) == {h}
           results == {Result(g, TRUE)}
           locked == UNION {IF r.ok THEN ctx_lock(r.g) ELSE {r} : r \in results}
           ends == UNION {IF r.ok THEN {Result(ctx_unlock(k), TRUE) : k \in draw(r.g)} ELSE {r} : r \in locked}
<1>1. g' \in {r.g : r \in ends} /\ plat' = plat
  BY DEF MTY_WindowHasUITexture, Go, Locked, Then
<1>2. ASSUME NEW h, NEW f, Ready(h, f), NEW k \in draw(h) PROVE Sits(k)
  BY <1>2 DEF Sits, Ready
<1> HIDE DEF draw
<1>3. PICK r \in ends : g' = r.g
  BY <1>1
<1>4. PICK s \in locked : (~s.ok /\ r = s) \/ (s.ok /\ \E x \in draw(s.g) : r = Result(ctx_unlock(x), TRUE))
  OBVIOUS
<1> HIDE DEF ends
<1>5. PICK z \in results : (~z.ok /\ s = z) \/ (z.ok /\ s \in ctx_lock(z.g))
  BY DEF locked
<1> HIDE DEF locked
<1>6. Sits(z.g)
  BY SurfaceSits
<1> HIDE DEF results
<1>7. (\E f : Ready(s.g, f)) => \A x \in draw(s.g) : Sits(x)
  BY <1>2
<1>8. Sits(r.g)
  BY <1>4, <1>5, <1>6, <1>7, CallSits
<1> QED
  BY <1>1, <1>3, <1>8

\* A texture goes, and comes.
LEMMA TextureSits ==
  ASSUME NEW h, NEW e, Backed(h, e), e.hash, UI \in e.ptr, NEW t \in Textures
  PROVE  /\ Sits(ui_destroy_texture(h, Tex(t)))
         /\ \A r \in ui_create_texture(ui_destroy_texture(h, Tex(t)), Tex(t)) : Sits(r.g)
<1> DEFINE o == Tex(t)
           k == ui_destroy_texture(h, o)
<1>1. /\ Fits(h, e) /\ Settled(e) /\ e.api \in APIs /\ e \in Frames
      /\ Ctx \in e.ptr /\ Referenced(e) /\ (e.api = "vk" => e.device # 0)
  BY BackedSits
<1>2. o # Ctx /\ o # UI /\ o # Clear
  BY OwnersDiffer
<1>3. Standing(k, e, e.ptr \ {o})
  BY <1>1, TextureStands
<1> HIDE DEF k, o
<1>4. Clear \in e.ptr => e.api \in {"vk", "d3d12"}
  BY <1>1 DEF Settled
<1>5. PICK c : Backed(k, c) /\ c.api = e.api /\ c.ptr = e.ptr \ {o} /\ c.hash = e.hash
  <2> DEFINE ptr == e.ptr \ {o}
  <2>1. Ctx \in ptr /\ UI \in ptr /\ (Clear \in ptr => Clear \in e.ptr)
    BY <1>1, <1>2
  <2>2. Standing(k, e, ptr)
    BY <1>3
  <2> HIDE DEF ptr
  <2>3. Backs(k, e, ptr)
    <3>1. /\ Clear \in ptr => UI \in ptr /\ e.api \in {"vk", "d3d12"}
          /\ \A x \in Textures : Tex(x) \in ptr => e.hash /\ (e.api = "vk" => UI \in ptr)
      BY <1>4, <2>1
    <3> QED
      BY <2>1, <2>2, <3>1, StandingBacks
  <2> QED
    BY <2>3 DEF Backs, ptr
<1>6. /\ Sits(k) /\ Fits(k, c) /\ c.api \in APIs /\ Referenced(c)
  BY <1>5, BackedSits
<1>7. ASSUME NEW r \in ui_create_texture(k, o) PROVE Sits(r.g)
  <2> DEFINE ptr == IF r.ok THEN c.ptr \cup {o} ELSE c.ptr
  <2>1. o \notin c.ptr
    BY <1>5
  <2>2. Standing(r.g, c, ptr)
    BY <1>6, <1>7, <2>1, TextureCreateStands DEF o
  <2>3. Ctx \in ptr /\ UI \in ptr /\ (Clear \in ptr => Clear \in e.ptr)
    BY <1>1, <1>2, <1>5
  <2> HIDE DEF ptr
  <2>4. Backs(r.g, c, ptr)
    <3>1. c.hash
      BY <1>5
    <3>2. /\ Clear \in ptr => UI \in ptr /\ c.api \in {"vk", "d3d12"}
          /\ \A x \in Textures : Tex(x) \in ptr => c.hash /\ (c.api = "vk" => UI \in ptr)
      BY <1>4, <1>5, <2>3, <3>1
    <3> QED
      BY <1>5, <2>2, <2>3, <3>2, StandingBacks
  <2> QED
    BY <2>4, BackedSits DEF Backs
<1> QED
  BY <1>6, <1>7 DEF k, o

LEMMA SetUITextureSits ==
  ASSUME Sits(g), NEW t \in Textures, NEW image, SetUITexture(t, image)
  PROVE  Sits(g') /\ plat' = plat
<1> DEFINE o == Tex(t)
           set(h) == IF image THEN {r.g : r \in ui_create_texture(h, o)} ELSE {h}
           draw(h) == UNION {IF r.ok THEN set(ui_destroy_texture(r.g, o)) ELSE {r.g} : r \in gfx_begin_ui(h)}
           results == {Result(g, TRUE)}
           locked == UNION {IF r.ok THEN ctx_lock(r.g) ELSE {r} : r \in results}
           ends == UNION {IF r.ok THEN {Result(ctx_unlock(k), TRUE) : k \in draw(r.g)} ELSE {r} : r \in locked}
<1>1. g' \in {r.g : r \in ends} /\ plat' = plat
  BY DEF SetUITexture, Go, Locked, Then
<1>2. ASSUME NEW h, NEW f, Ready(h, f), NEW k \in draw(h) PROVE Sits(k)
  <2>1. PICK r \in gfx_begin_ui(h) : k \in (IF r.ok THEN set(ui_destroy_texture(r.g, o)) ELSE {r.g})
    BY <1>2
  <2>2. PICK e : Backed(r.g, e) /\ e.hash /\ (r.ok => UI \in e.ptr)
    BY <1>2, BeginUIStands
  <2>3. Sits(r.g)
    BY <2>2, BackedSits
  <2> DEFINE freed == ui_destroy_texture(r.g, o)
  <2>4. k = r.g \/ (r.ok /\ (k = freed \/ \E x \in ui_create_texture(freed, o) : k = x.g))
    BY <2>1
  <2>5. r.ok => Sits(freed) /\ \A x \in ui_create_texture(freed, o) : Sits(x.g)
    BY <2>2, TextureSits
  <2> HIDE DEF freed
  <2> QED
    BY <2>3, <2>4, <2>5
<1> HIDE DEF draw
<1>3. PICK r \in ends : g' = r.g
  BY <1>1
<1>4. PICK s \in locked : (~s.ok /\ r = s) \/ (s.ok /\ \E x \in draw(s.g) : r = Result(ctx_unlock(x), TRUE))
  OBVIOUS
<1> HIDE DEF ends
<1>5. PICK z \in results : (~z.ok /\ s = z) \/ (z.ok /\ s \in ctx_lock(z.g))
  BY DEF locked
<1> HIDE DEF locked
<1>6. Sits(z.g)
  BY SurfaceSits
<1> HIDE DEF results
<1>7. (\E f : Ready(s.g, f)) => \A x \in draw(s.g) : Sits(x)
  BY <1>2
<1>8. Sits(r.g)
  BY <1>4, <1>5, <1>6, <1>7, CallSits
<1> QED
  BY <1>1, <1>3, <1>8

-----------------------------------------------------------------------------
(* Another back end. *)

\* Where there is no structure the back end has no names.
LEMMA RenamedFits ==
  ASSUME NEW h, NEW f, Fits(h, f), f.ptr = {}, NEW b \in APIs \cup {"none"}
  PROVE  /\ Fits([h EXCEPT !.api = b], [f EXCEPT !.api = b, !.known = FALSE])
         /\ \A x : {"dev", "init"} \subseteq DOMAIN x /\ (x.init = TRUE => x.dev # 0) =>
              Fits([h EXCEPT !.api = b, !.ctx = x, !.drift = 0], [f EXCEPT !.api = b, !.known = FALSE])
<1> DEFINE e == [f EXCEPT !.api = b, !.known = FALSE]
           P == Owned(f)
<1>1. Fit(h, f, P) /\ f \in Frames
  BY FitsIs DEF Fits
<1>2. e \in Frames /\ e.api = b /\ e.ptr = {} /\ e.hash = f.hash /\ e.ref = f.ref /\ e.device = f.device /\ e.known = FALSE
  BY <1>1 DEF Frames
<1>3. Owned(e) = P
  BY <1>2 DEF Owned
<1> HIDE DEF e, P
<1>4. ASSUME NEW k, {"api", "ptr", "hash", "ref", "device", "has", "live", "ctx"} \subseteq DOMAIN k,
             {"dev", "init"} \subseteq DOMAIN k.ctx, k.ctx.init = TRUE => k.ctx.dev # 0,
             k.api = b, k.ptr = h.ptr, k.hash = h.hash, k.ref = h.ref, k.device = h.device, k.has = h.has, k.live = h.live
      PROVE  Fits(k, e)
  <2>1. Like(k, e)
    BY <1>1, <1>2, <1>4 DEF Fit, Like
  <2>2. Fit(k, e, P)
    BY <1>1, <1>4, <2>1 DEF Fit
  <2> QED
    BY <1>3, <2>2 DEF Fits
<1>5. /\ {"api", "ptr", "hash", "ref", "device", "has", "live", "ctx"} \subseteq DOMAIN h
      /\ {"dev", "init"} \subseteq DOMAIN h.ctx /\ (h.ctx.init = TRUE => h.ctx.dev # 0)
  BY <1>1 DEF Fit, Like
<1>6. Fits([h EXCEPT !.api = b], e)
  <2> DEFINE k == [h EXCEPT !.api = b]
  <2>1. /\ DOMAIN k = DOMAIN h /\ k.ctx = h.ctx /\ k.api = b /\ k.ptr = h.ptr /\ k.hash = h.hash /\ k.ref = h.ref
        /\ k.device = h.device /\ k.has = h.has /\ k.live = h.live
    BY <1>5
  <2> HIDE DEF k
  <2>2. Fits(k, e)
    BY <1>4, <1>5, <2>1
  <2> QED
    BY <2>2 DEF k
<1>7. ASSUME NEW x, {"dev", "init"} \subseteq DOMAIN x, x.init = TRUE => x.dev # 0
      PROVE  Fits([h EXCEPT !.api = b, !.ctx = x, !.drift = 0], e)
  <2> DEFINE k == [h EXCEPT !.api = b, !.ctx = x, !.drift = 0]
  <2>1. /\ DOMAIN k = DOMAIN h /\ k.ctx = x /\ k.api = b /\ k.ptr = h.ptr /\ k.hash = h.hash /\ k.ref = h.ref
        /\ k.device = h.device /\ k.has = h.has /\ k.live = h.live
    BY <1>5
  <2> HIDE DEF k
  <2>2. Fits(k, e)
    BY <1>4, <1>5, <1>7, <2>1
  <2> QED
    BY <2>2 DEF k
<1> QED
  BY <1>6, <1>7 DEF e

\* Without a back end.
LEMMA NoneSettles ==
  ASSUME NEW h, NEW f, Fits(h, f), f.ptr = {}, f.ref = 0, NEW x, {"dev", "init"} \subseteq DOMAIN x,
         x.init = TRUE => x.dev # 0
  PROVE  \E e : Fits([h EXCEPT !.api = "none", !.ctx = x, !.drift = 0], e) /\ Settled(e) /\ e.api = "none"
<1> DEFINE e == [f EXCEPT !.api = "none", !.known = FALSE]
           k == [h EXCEPT !.api = "none", !.ctx = x, !.drift = 0]
<1>1. Fits(k, e)
  BY RenamedFits
<1>2. f \in Frames
  BY FitsIs
<1>3. e.api = "none" /\ e.ptr = {} /\ e.ref = 0 /\ e.known = FALSE
  BY <1>2 DEF Frames
<1> HIDE DEF e, k
<1>4. Settled(e)
  BY <1>3 DEF Settled, Referenced
<1> QED
  BY <1>1, <1>3, <1>4 DEF k

LEMMA ContextGone ==
  ASSUME NEW h, NEW f, Fits(h, f), Referenced(f), f.api \in APIs, f.known = (f.api # "gl"), f.ptr = {Ctx}
  PROVE  \E e : Fits(ctx_destroy(h), e) /\ e.ptr = {} /\ e.ref = 0
<1>1. f \in Frames /\ h.api = f.api /\ Ctx \in Users /\ Ctx \in Structures
  BY FitsIs, StructuresAre
<1>2. Without(f, Ctx).ptr = f.ptr \ {Ctx} /\ Without(f, Ctx).ref = f.ref
  BY <1>1, FramesAre
<1>3. CASE f.api = "vk"
  <2> DEFINE c == [f EXCEPT !.known = FALSE]
  <2>1. c \in Frames /\ c.api = f.api /\ c.ptr = f.ptr /\ c.ref = f.ref
    BY <1>1 DEF Frames
  <2>2. Fits(ctx_destroy(h), Drop(c, Ctx))
    BY <1>1, <1>3, VkContextFreedFits DEF ctx_destroy
  <2>3. Referenced(c)
    BY <2>1 DEF Referenced
  <2> HIDE DEF c
  <2>4. Referenced(Drop(c, Ctx))
    BY <1>1, <2>1, <2>3, ReferencesKept
  <2>5. Drop(c, Ctx).ptr = {} /\ Drop(c, Ctx).api = "vk"
    <3>1. Drop(c, Ctx).ptr = c.ptr \ {Ctx} /\ Akin(Drop(c, Ctx), c)
      BY <1>1, <2>1, FramesAre
    <3> QED
      BY <1>3, <2>1, <3>1 DEF Akin
  <2>6. Drop(c, Ctx).ref = 0
    <3>1. {} \cap Users = {} /\ Cardinality({}) = 0
      BY FS_EmptySet
    <3> QED
      BY <2>4, <2>5, <3>1 DEF Referenced
  <2> QED
    BY <2>2, <2>5, <2>6
<1>4. CASE f.api # "vk"
  <2>1. Fits(ctx_destroy(h), Without(f, Ctx))
    <3>2. CASE f.api = "d3d12"
      BY <1>1, <3>2, D3D12ContextGone DEF ctx_destroy
    <3>3. CASE f.api = "d3d11"
      BY <1>1, <3>3, D3D11ContextGone DEF ctx_destroy
    <3>4. CASE f.api = "metal"
      BY <1>1, <3>4, MetalContextFits DEF ctx_destroy
    <3>5. CASE f.api = "gl"
      BY <1>1, <3>5, GLContextFits DEF ctx_destroy
    <3> QED
      BY <1>4, <3>2, <3>3, <3>4, <3>5 DEF APIs
  <2>2. f.ref = 0
    BY <1>4 DEF Referenced
  <2> QED
    BY <1>2, <2>1, <2>2
<1> QED
  BY <1>3, <1>4

LEMMA FreedSettles ==
  ASSUME NEW h, NEW f, Fits(h, f), Settled(f), f.api \in APIs, Desktop(f) => f.ptr = {Ctx}
  PROVE  \E e : Fits(Freed(h), e) /\ Settled(e) /\ e.api = "none"
<1> DEFINE k == gfx_set_device(h, 0)
           m == ctx_destroy(k)
           c == IF plat = "android" /\ h.api = "gl"
                THEN [NewCtx EXCEPT !.dev = h.ctx.dev, !.init = h.ctx.init] ELSE NewCtx
<1>1. /\ f \in Frames /\ h.device = f.device /\ h.api = f.api /\ (h.ctx.init = TRUE => h.ctx.dev # 0)
      /\ Ctx \in f.ptr /\ f.known = (f.api # "gl") /\ Referenced(f)
  <2>1. f \in Frames /\ h.device = f.device /\ h.api = f.api /\ (h.ctx.init = TRUE => h.ctx.dev # 0)
    BY FitsIs
  <2> QED
    BY <2>1 DEF Settled, APIs
<1>2. PICK d : Fits(k, d) /\ Referenced(d) /\ d.api = f.api /\ d.known = f.known /\ d.ptr = {Ctx}
  <2>1. IF h.device = 0 THEN k = h ELSE Cleared(k, f, 0)
    BY SetDeviceStands
  <2> HIDE DEF k
  <2>2. CASE h.device = 0
    <3>1. f.ptr = {Ctx}
      BY <1>1, <2>2 DEF Settled, Desktop
    <3> QED
      BY <1>1, <2>1, <2>2, <3>1
  <2>3. CASE h.device # 0
    BY <2>1, <2>3 DEF Cleared
  <2> QED
    BY <2>2, <2>3
<1> HIDE DEF k
<1>3. PICK b : Fits(m, b) /\ b.ptr = {} /\ b.ref = 0
  BY <1>1, <1>2, ContextGone
<1>4. {"dev", "init"} \subseteq DOMAIN c /\ (c.init = TRUE => c.dev # 0)
  BY <1>1 DEF NewCtx
<1>5. Freed(h) = [m EXCEPT !.api = "none", !.ctx = c, !.drift = 0]
  BY DEF Freed, k
<1> HIDE DEF m, c
<1>6. \E e : Fits([m EXCEPT !.api = "none", !.ctx = c, !.drift = 0], e) /\ Settled(e) /\ e.api = "none"
  BY <1>3, <1>4, NoneSettles
<1> QED
  BY <1>5, <1>6

\* With a context that is new.
Afresh(k, a) == \E e : Fits(k, e) /\ Referenced(e) /\ e.api = a /\ e.ptr = {Ctx} /\ e.known = (a # "gl")

LEMMA ContextMade ==
  ASSUME NEW h, NEW f, Fits(h, f), f.api \in APIs, f.ptr = {}, f.ref = 0, f.known = FALSE
  PROVE  \A r \in ctx_create(h) :
           IF r.ok THEN Afresh(r.g, f.api) ELSE Fits(r.g, f)
<1> DEFINE a == IF f.api = "vk" THEN Add(f, Ctx) ELSE Having(f, Ctx)
           e == IF f.api = "gl" THEN a ELSE [a EXCEPT !.known = TRUE]
<1>1. f \in Frames /\ h.api = f.api /\ Ctx \in Users /\ Ctx \in Structures
  BY FitsIs, StructuresAre
<1>2. Referenced(f)
  <2>1. {} \cap Users = {} /\ Cardinality({}) = 0
    BY FS_EmptySet
  <2> QED
    BY <2>1 DEF Referenced
<1>3. a \in Frames /\ Akin(a, f) /\ a.ptr = {Ctx} /\ (f.api # "vk" => a.ref = 0)
  <2>1. /\ Having(f, Ctx) \in Frames /\ Akin(Having(f, Ctx), f) /\ Having(f, Ctx).ptr = f.ptr \cup {Ctx}
        /\ Having(f, Ctx).ref = f.ref
        /\ Add(f, Ctx) \in Frames /\ Akin(Add(f, Ctx), f) /\ Add(f, Ctx).ptr = f.ptr \cup {Ctx}
    BY <1>1, FramesAre
  <2> QED
    BY <2>1
<1>4. Referenced(a)
  <2>1. CASE f.api = "vk"
    BY <1>1, <1>2, <2>1, ReferencesKept
  <2>2. CASE f.api # "vk"
    BY <1>3, <2>2 DEF Referenced, Akin
  <2> QED
    BY <2>1, <2>2
<1>5. ASSUME NEW r \in ctx_create(h) PROVE Fits(r.g, IF r.ok THEN e ELSE f)
  <2>1. CASE f.api = "vk"
    BY <1>1, <1>2, <1>5, <2>1, VkContextFits DEF ctx_create
  <2>2. CASE f.api = "d3d12"
    BY <1>1, <1>5, <2>2, D3D12ContextFits DEF ctx_create
  <2>3. CASE f.api = "d3d11"
    BY <1>1, <1>5, <2>3, D3D11ContextFits DEF ctx_create
  <2>4. CASE f.api = "metal"
    BY <1>1, <1>5, <2>4, MetalContextFits DEF ctx_create
  <2>5. CASE f.api = "gl"
    BY <1>1, <1>5, <2>5, GLContextFits DEF ctx_create
  <2> QED
    BY <2>1, <2>2, <2>3, <2>4, <2>5 DEF APIs
<1> HIDE DEF a
<1>6. e.api = f.api /\ e.ptr = {Ctx} /\ e.ref = a.ref /\ e.known = (f.api # "gl")
  BY <1>3 DEF Frames, Akin
<1> HIDE DEF e
<1>7. Referenced(e)
  BY <1>3, <1>4, <1>6 DEF Referenced, Akin
<1> QED
  BY <1>5, <1>6, <1>7 DEF Afresh

LEMMA CreateContextSettles ==
  ASSUME NEW h, NEW f, Fits(h, f), Settled(f), f.api = "none", NEW c \in APIs
  PROVE  \A k \in CreateContext(h, c) : Settles(k)
<1> DEFINE m == [h EXCEPT !.api = c]
           b == [f EXCEPT !.api = c, !.known = FALSE]
<1>1. f \in Frames /\ f.ptr = {} /\ f.ref = 0
  <2>1. f \in Frames /\ f.ptr = {}
    BY FitsIs DEF Settled
  <2> QED
    BY <2>1 DEF Settled, Referenced
<1>2. Fits(m, b)
  BY <1>1, RenamedFits
<1>3. b.api = c /\ b.ptr = {} /\ b.ref = 0 /\ b.known = FALSE
  BY <1>1 DEF Frames
<1>4. CreateContext(h, c) = {IF r.ok THEN r.g ELSE [r.g EXCEPT !.api = "none", !.ctx = NewCtx, !.drift = 0] :
                               r \in ctx_create(m)}
  BY DEF CreateContext
<1> HIDE DEF m, b
<1>5. ASSUME NEW r \in ctx_create(m), r.ok PROVE Settles(r.g)
  <2>1. PICK e : Fits(r.g, e) /\ Referenced(e) /\ e.api = c /\ e.ptr = {Ctx} /\ e.known = (c # "gl")
    <3>1. b.api \in APIs
      BY <1>3
    <3>2. \A s \in ctx_create(m) : IF s.ok THEN Afresh(s.g, b.api) ELSE Fits(s.g, b)
      BY <1>2, <1>3, <3>1, ContextMade
    <3>3. Afresh(r.g, c)
      BY <1>3, <1>5, <3>2
    <3> QED
      BY <3>3 DEF Afresh
  <2>2. Clear \notin e.ptr /\ \A t \in Textures : Tex(t) \notin e.ptr
    BY <2>1, OwnersDiffer
  <2>3. Settled(e)
    BY <2>1, <2>2 DEF Settled, APIs
  <2> QED
    BY <2>1, <2>3 DEF Settles
<1>6. ASSUME NEW r \in ctx_create(m), ~r.ok PROVE Settles([r.g EXCEPT !.api = "none", !.ctx = NewCtx, !.drift = 0])
  <2>1. Fits(r.g, b)
    BY <1>2, <1>3, <1>6, ContextMade
  <2>2. {"dev", "init"} \subseteq DOMAIN NewCtx /\ (NewCtx.init = TRUE => NewCtx.dev # 0)
    BY DEF NewCtx
  <2>3. \E e : Fits([r.g EXCEPT !.api = "none", !.ctx = NewCtx, !.drift = 0], e) /\ Settled(e) /\ e.api = "none"
    BY <1>3, <2>1, <2>2, NoneSettles
  <2> QED
    BY <2>3 DEF Settles
<1> QED
  BY <1>4, <1>5, <1>6

LEMMA SetGFXSettles ==
  ASSUME plat \in Platforms, "again" \notin Faults, Settles(g), NEW api, SetGFX(api)
  PROVE  Settles(g') /\ plat' = plat
<1> DEFINE used == IF api \in Supported THEN api ELSE Default
           h == IF g.api = "none" THEN g ELSE Freed(g)
           created == CreateContext(h, used)
           again == UNION {CreateContext(k, "d3d11") : k \in {c \in created : c.api = "none"}}
           fallback == IF used # "d3d12" THEN {} ELSE again
<1>0. /\ g' \in IF api = "none" THEN {h} ELSE {c \in created : used # "d3d12" \/ c.api # "none"} \cup fallback
      /\ plat' = plat
  BY DEF SetGFX, Go
<1>1. used \in APIs /\ "d3d11" \in APIs
  BY SupportedGood DEF APIs
<1>2. ~(g.api = "gl" /\ plat # "android" /\ g.ptr # {Ctx})
  BY DEF SetGFX
<1>3. PICK f : Fits(g, f) /\ Settled(f)
  BY DEF Settles
<1>4. f \in Frames /\ g.api = f.api /\ g.ptr = f.ptr /\ f.api \in APIs \cup {"none"}
  BY <1>3, FitsIs DEF Frames
<1>5. PICK e : Fits(h, e) /\ Settled(e) /\ e.api = "none"
  <2>1. CASE g.api = "none"
    BY <1>3, <1>4, <2>1
  <2>2. CASE g.api # "none"
    <3>1. Desktop(f) => f.ptr = {Ctx}
      BY <1>2, <1>4 DEF Desktop
    <3>2. \E e : Fits(Freed(g), e) /\ Settled(e) /\ e.api = "none"
      BY <1>3, <1>4, <2>2, <3>1, FreedSettles
    <3> QED
      BY <2>2, <3>2
  <2> QED
    BY <2>1, <2>2
<1> HIDE DEF used, h
<1>6. \A k \in created : Settles(k)
  BY <1>1, <1>5, CreateContextSettles
<1> HIDE DEF created
<1>7. ASSUME NEW k \in again PROVE Settles(k)
  <2>1. PICK c \in created : c.api = "none" /\ k \in CreateContext(c, "d3d11")
    BY <1>7
  <2>2. PICK b : Fits(c, b) /\ Settled(b)
    BY <1>6 DEF Settles
  <2>3. b.api = "none"
    BY <2>1, <2>2, FitsIs
  <2> QED
    BY <1>1, <2>1, <2>2, <2>3, CreateContextSettles
<1> HIDE DEF again
<1>8. Settles(h)
  BY <1>5 DEF Settles
<1> QED
  BY <1>0, <1>6, <1>7, <1>8

-----------------------------------------------------------------------------
(* The objects go with the structures. *)

LEMMA WindowSettles ==
  ASSUME Settles(g), Window
  PROVE  Settles(g') /\ plat' = plat
<1>1. PICK f : Fits(g, f) /\ Settled(f)
  BY DEF Settles
<1>2. ASSUME NEW k, Fits(k, f)
      PROVE  \A x : Fits([k EXCEPT !.win.size = x], f) /\ Fits([k EXCEPT !.win.up = x], f)
  <2> SUFFICES ASSUME NEW x PROVE Fits([k EXCEPT !.win.size = x], f) /\ Fits([k EXCEPT !.win.up = x], f)
    OBVIOUS
  <2>1. \A y : Fits([k EXCEPT !.win = y], f)
    BY <1>2, FieldsFitting
  <2> DEFINE y == [k.win EXCEPT !.size = x]
             z == [k.win EXCEPT !.up = x]
  <2>2. [k EXCEPT !.win.size = x] = [k EXCEPT !.win = y] /\ [k EXCEPT !.win.up = x] = [k EXCEPT !.win = z]
    OBVIOUS
  <2> HIDE DEF y, z
  <2> QED
    BY <2>1, <2>2
<1>3. ASSUME NEW size, Resized(size) PROVE Settles(g') /\ plat' = plat
  <2>1. g' = [g EXCEPT !.win.size = size] /\ plat' = plat
    BY <1>3 DEF Resized, Go
  <2>2. Fits([g EXCEPT !.win.size = size], f)
    BY <1>1, <1>2
  <2> QED
    BY <1>1, <2>1, <2>2 DEF Settles
<1>4. CASE gfx_set_surface
  <2> DEFINE k == mty_gfx_lock(g)
             m == [k EXCEPT !.win.up = TRUE]
  <2>1. g' = mty_gfx_unlock(m) /\ plat' = plat
    BY <1>4 DEF gfx_set_surface, Go
  <2>2. Fits(k, f)
    BY <1>1, DriverFits
  <2> HIDE DEF k
  <2>3. Fits(m, f)
    BY <1>2, <2>2
  <2> HIDE DEF m
  <2>4. Fits(mty_gfx_unlock(m), f)
    BY <2>3, DriverFits
  <2> QED
    BY <1>1, <2>1, <2>4 DEF Settles
<1>5. CASE gfx_unset_surface
  <2> DEFINE k == mty_gfx_lock(g)
             d == mty_gl_ctx_destroy_egl_surface(k)
             m == [d EXCEPT !.win.up = FALSE]
  <2>1. g' = mty_gfx_unlock(m) /\ plat' = plat
    BY <1>5 DEF gfx_unset_surface, Go
  <2>2. Fits(k, f)
    BY <1>1, DriverFits
  <2> HIDE DEF k
  <2>3. Fits(d, f)
    BY <2>2, SurfaceGoneFits
  <2> HIDE DEF d
  <2>4. Fits(m, f)
    BY <1>2, <2>3
  <2> HIDE DEF m
  <2>5. Fits(mty_gfx_unlock(m), f)
    BY <2>4, DriverFits
  <2> QED
    BY <1>1, <2>1, <2>5 DEF Settles
<1> QED
  BY <1>3, <1>4, <1>5 DEF Window

\* Each object that is there belongs to a structure that is there.
Lifetimes == plat \in Platforms /\ Settles(g)

LEMMA InitSettles == Init => Lifetimes
<1> SUFFICES ASSUME Init PROVE Lifetimes
  OBVIOUS
<1> DEFINE f == [api |-> "none", ptr |-> {}, hash |-> FALSE, ref |-> 0, device |-> 0, known |-> FALSE]
<1>1. f \in Frames /\ f.api = "none" /\ f.ptr = {} /\ f.hash = FALSE /\ f.ref = 0 /\ f.device = 0 /\ f.known = FALSE
  BY DEF Frames
<1> HIDE DEF f
<1>2. Like(g, f)
  BY <1>1 DEF Init, Like, NewCtx
<1>3. DOMAIN g.has = Owners /\ DOMAIN g.live = Owners /\ \A o \in Owners : g.live[o] = {}
  BY DEF Init
<1>4. Fits(g, f)
  BY <1>2, <1>3 DEF Fits, Fit
<1>5. Settled(f)
  BY <1>1 DEF Settled, Referenced
<1> QED
  BY <1>4, <1>5 DEF Init, Lifetimes, Settles

\* One step for each action.
LEMMA StepSettles ==
  ASSUME "again" \notin Faults, Lifetimes, Next
  PROVE  Settles(g') /\ plat' = plat
<1>1. PICK f : Fits(g, f) /\ Settled(f)
  BY DEF Lifetimes, Settles
<1>2. g.api = f.api /\ f \in Frames
  BY <1>1, FitsIs
<1>3. g.api # "none" => Sits(g)
  BY <1>1, <1>2 DEF Sits, Frames
<1>4. ASSUME NEW k, Sits(k) PROVE Settles(k)
  BY <1>4 DEF Sits, Settles
<1>5. CASE MTY_WindowDrawQuad
  <2>1. PICK l, fmt, size : l \in Layers /\ DrawQuad(l, fmt, size)
    BY <1>5, GraphicsAssumption DEF MTY_WindowDrawQuad
  <2>2. g.api # "none"
    BY <2>1 DEF DrawQuad
  <2> QED
    BY <1>3, <1>4, <2>1, <2>2, DrawQuadSits
<1>6. CASE MTY_WindowClear
  <2>1. g.api # "none"
    BY <1>6 DEF MTY_WindowClear
  <2> QED
    BY <1>3, <1>4, <1>6, <2>1, ClearSits
<1>7. CASE MTY_WindowDrawUI
  <2>1. PICK need : DrawUI(need)
    BY <1>7 DEF MTY_WindowDrawUI
  <2>2. g.api # "none"
    BY <2>1 DEF DrawUI
  <2> QED
    BY <1>3, <1>4, <2>1, <2>2, DrawUISits
<1>8. CASE MTY_WindowHasUITexture
  <2>1. g.api # "none"
    BY <1>8 DEF MTY_WindowHasUITexture
  <2> QED
    BY <1>3, <1>4, <1>8, <2>1, HasUITextureSits
<1>9. CASE MTY_WindowSetUITexture
  <2>1. PICK t, image : t \in Textures /\ SetUITexture(t, image)
    BY <1>9 DEF MTY_WindowSetUITexture
  <2>2. g.api # "none"
    BY <2>1 DEF SetUITexture
  <2> QED
    BY <1>3, <1>4, <2>1, <2>2, SetUITextureSits
<1>10. CASE MTY_WindowPresent
  <2>1. g.api # "none" /\ g' \in ctx_present(g) /\ plat' = plat
    BY <1>10 DEF MTY_WindowPresent, Go
  <2> QED
    BY <1>3, <1>4, <2>1, SurfaceSits
<1>11. CASE MTY_WindowSetSyncInterval
  <2>1. PICK n : SetSyncInterval(n)
    BY <1>11 DEF MTY_WindowSetSyncInterval
  <2>2. g.api # "none" /\ g' \in ctx_set_sync_interval(g, n) /\ plat' = plat
    BY <2>1 DEF SetSyncInterval, Go
  <2> QED
    BY <1>3, <1>4, <2>2, SurfaceSits
<1>12. CASE MTY_WindowSetGFX
  <2>1. PICK api : SetGFX(api)
    BY <1>12 DEF MTY_WindowSetGFX
  <2> QED
    BY <2>1, SetGFXSettles DEF Lifetimes
<1>13. CASE Window
  BY <1>13, WindowSettles DEF Lifetimes
<1> QED
  BY <1>5, <1>6, <1>7, <1>8, <1>9, <1>10, <1>11, <1>12, <1>13 DEF Next

LEMMA NextSettles == "again" \notin Faults => (Lifetimes /\ [Next]_vars => Lifetimes')
<1> SUFFICES ASSUME "again" \notin Faults, Lifetimes, [Next]_vars PROVE Lifetimes'
  OBVIOUS
<1>1. Settles(g') /\ plat' = plat /\ plat \in Platforms
  <2>1. CASE UNCHANGED vars
    <3>1. g' = g /\ plat' = plat
      BY <2>1 DEF vars
    <3> QED
      BY <3>1 DEF Lifetimes
  <2>2. CASE Next
    BY <2>2, StepSettles DEF Lifetimes
  <2> QED
    BY <2>1, <2>2
<1>2. PICK f : Fits(g', f) /\ Settled(f)
  BY <1>1 DEF Settles
<1>3. Owned(f)' = Owned(f)
  BY <1>1 DEF Owned, Names, GLNames, MetalNames
<1>4. Fits(g, f)'
  BY <1>2, <1>3 DEF Fits, Fit, Like, Has
<1>5. Settled(f)'
  BY <1>1, <1>2 DEF Settled, Referenced
<1> QED
  BY <1>1, <1>4, <1>5 DEF Lifetimes, Settles

\* Without a back end there is no structure, and so nothing is left of one: of any number
\* of layers and textures, whatever back ends came before, and wherever making a structure
\* or an object failed.
THEOREM NothingIsLeft == "again" \notin Faults => (Spec => []NothingLeft)
<1> SUFFICES ASSUME "again" \notin Faults PROVE Spec => []NothingLeft
  OBVIOUS
<1>1. Init => Lifetimes
  BY InitSettles
<1>2. Lifetimes /\ [Next]_vars => Lifetimes'
  BY NextSettles
<1>3. Lifetimes => NothingLeft
  <2> SUFFICES ASSUME Lifetimes, g.api = "none"
               PROVE  g.ref = 0 /\ g.ptr = {} /\ \A o \in Owners \ {Kept} : g.live[o] = {}
    BY DEF NothingLeft
  <2>1. PICK f : Fits(g, f) /\ Settled(f)
    BY DEF Lifetimes, Settles
  <2>2. g.api = f.api /\ g.ptr = f.ptr /\ g.ref = f.ref
    BY <2>1, FitsIs
  <2>3. f.ptr = {} /\ f.ref = 0
    BY <2>1, <2>2 DEF Settled, Referenced
  <2>4. \A o \in Owners : Owned(f)[o] = {}
    BY <2>3 DEF Owned
  <2>5. \A o \in Owners \ {Kept} : g.live[o] \subseteq Owned(f)[o]
    BY <2>1 DEF Fits, Fit
  <2> QED
    BY <2>2, <2>3, <2>4, <2>5
<1> QED
  BY <1>1, <1>2, <1>3, PTL DEF Spec
=============================================================================

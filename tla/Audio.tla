-------------------------------- MODULE Audio --------------------------------
(***************************************************************************)
(* MTY_Audio: the same five operations on every platform, one of whose      *)
(* implementations is linked into a program.  platform says which; the      *)
(* variables of the others keep their initial values.                       *)
(***************************************************************************)
EXTENDS Naturals

CONSTANTS
  Platforms,              \* a subset of android, web, alsa, wasapi, apple
  MinBuffer, MaxBuffer,   \* the arguments of MTY_AudioCreate, in frames
  BufSize,                \* a second of audio, all a context can hold
  Counts,                 \* how many frames MTY_AudioQueue may be given
  Want,                   \* how many frames a device asks for (android, web)
  StageSize,              \* the staging buffer shared with the worklet (web)
  HwSize,                 \* the PCM's own buffer (alsa)
  Ctx, Retries,           \* the contexts and their retries (wasapi)
  Slots,                  \* the buffers of the audio queue (apple)
  MaxResets               \* bound: calls of MTY_AudioReset and MTY_AudioDestroy

\* The buffers make sense: what one call brings fits between the two thresholds,
\* and the maximum is below what a context can hold.
ASSUME SizesAssumption ==
  /\ {MinBuffer, MaxBuffer, BufSize, Want} \subseteq Nat \ {0}
  /\ {StageSize, HwSize, Retries, MaxResets} \subseteq Nat
  /\ Counts # {} /\ Counts \subseteq Nat \ {0}
  /\ \A n \in Counts : MinBuffer + n <= MaxBuffer /\ MaxBuffer + n <= BufSize

VARIABLES
  platform, resets,
  playing, pc, count,                                 \* android, web, alsa
  size, flushing, stream,                             \* android
  lock, stage, ibuf, node, wpc,                       \* web
  pos, pcm, hw,                                       \* alsa
  changed, at, client, wplaying, padding, tries,      \* wasapi
  inUse, osq, bytes, returning, cb, aplaying,         \* apple
  apc, slot, queued

androidVars == <<size, flushing, stream>>
webVars == <<lock, stage, ibuf, node, wpc>>
alsaVars == <<pos, pcm, hw>>
wasapiVars == <<changed, at, client, wplaying, padding, tries>>
appleVars == <<inUse, osq, bytes, returning, cb, aplaying, apc, slot, queued>>
vars == <<platform, resets, playing, pc, count, androidVars, webVars, alsaVars,
          wasapiVars, appleVars>>

Android == INSTANCE AudioAndroid
Web     == INSTANCE AudioWeb
ALSA    == INSTANCE AudioALSA
WASAPI  == INSTANCE AudioWASAPI
Apple   == INSTANCE AudioApple

On(p) == platform = p /\ UNCHANGED platform

TypeOK ==
  /\ platform \in Platforms
  /\ resets \in 0..MaxResets
  /\ platform = "android" => Android!TypeOK
  /\ platform = "web" => Web!TypeOK
  /\ platform = "alsa" => ALSA!TypeOK
  /\ platform = "wasapi" => WASAPI!TypeOK
  /\ platform = "apple" => Apple!TypeOK

Init ==
  /\ platform \in Platforms
  /\ resets = 0
  /\ Android!Init /\ Web!Init /\ ALSA!Init /\ WASAPI!Init /\ Apple!Init

-----------------------------------------------------------------------------
(* The platforms' steps. *)

AndroidStep(A) ==
  On("android") /\ A /\ UNCHANGED <<webVars, alsaVars, wasapiVars, appleVars>>
WebStep(A) ==
  On("web") /\ A /\ UNCHANGED <<androidVars, alsaVars, wasapiVars, appleVars>>
ALSAStep(A) ==
  /\ On("alsa") /\ A
  /\ UNCHANGED <<count, androidVars, webVars, wasapiVars, appleVars>>
WASAPIStep(A) ==
  /\ On("wasapi") /\ A
  /\ UNCHANGED <<playing, pc, count, androidVars, webVars, alsaVars, appleVars>>
AppleStep(A) ==
  /\ On("apple") /\ A
  /\ UNCHANGED <<playing, pc, androidVars, webVars, alsaVars, wasapiVars>>

\* A reset is a whole call: nothing comes of audio that is reset all the time.
Reset ==
  /\ resets < MaxResets /\ resets' = resets + 1
  /\ \/ AndroidStep(Android!AudioReset)
     \/ WebStep(Web!AudioCall(0)) \/ WebStep(Web!AudioDestroy)
     \/ ALSAStep(ALSA!AudioReset) \/ ALSAStep(ALSA!AudioDestroy)
     \/ AppleStep(Apple!AudioReset) \/ AppleStep(Apple!AudioDestroy)
     \/ \E c \in Ctx : \/ WASAPIStep(WASAPI!AudioReset(c))
                       \/ WASAPIStep(WASAPI!AudioDestroy(c))

\* The caller queues audio.
Queue ==
  /\ UNCHANGED resets
  /\ \E n \in Counts :
       \/ AndroidStep(Android!AudioStart(n))
       \/ WebStep(Web!AudioCall(n))
       \/ \E est \in 0..hw : ALSAStep(ALSA!AudioQueue(n, est))
       \/ AppleStep(Apple!AudioQueue(n))
       \/ \E c \in Ctx : WASAPIStep(WASAPI!AudioQueue(c, n))

\* The rest of a call that was made.
GoOn ==
  /\ UNCHANGED resets
  /\ \/ AndroidStep(Android!AudioQueue) \/ AndroidStep(Android!AudioClose)
     \/ WebStep(Web!MutexLock) \/ WebStep(Web!StageFrames)
     \/ WebStep(Web!PostQueue)
     \/ ALSAStep(ALSA!AudioWrite)
     \/ AppleStep(Apple!TakeSlot) \/ AppleStep(Apple!Enqueue)
     \/ AppleStep(Apple!MarkUsed) \/ AppleStep(Apple!Start)
     \/ \E c \in Ctx : \/ WASAPIStep(WASAPI!AudioCreate(c))
                       \/ WASAPIStep(WASAPI!HandleChange(c))
                       \/ WASAPIStep(WASAPI!Recreate(c))
                       \/ WASAPIStep(WASAPI!ClearChanged(c))

\* The device, its thread and the rest of the system.
Device ==
  /\ UNCHANGED resets
  /\ \/ AndroidStep(Android!AudioCallback)
     \/ WebStep(Web!NodeStart)
     \/ WebStep(Web!ProcessTryLock) \/ WebStep(Web!ProcessCopy)
     \/ WebStep(Web!ProcessRender)
     \/ ALSAStep(ALSA!Play)
     \/ \E s \in Slots : AppleStep(Apple!CallbackFrees(s))
     \/ AppleStep(Apple!CallbackClears)
     \/ WASAPIStep(WASAPI!DeviceChanged)
     \/ \E c \in Ctx : WASAPIStep(WASAPI!Play(c))

Next == Reset \/ Queue \/ GoOn \/ Device

\* The caller keeps queueing, its calls go on, the device keeps asking, and a
\* worker that is awake gets the lock when it keeps finding it free.
Spec ==
  /\ Init /\ [][Next]_vars
  /\ WF_vars(Queue) /\ WF_vars(GoOn) /\ WF_vars(Device)
  /\ SF_vars(UNCHANGED resets /\ WebStep(pc = "lock" /\ lock = "none" /\ Web!MutexLock))

-----------------------------------------------------------------------------
(* Properties. *)

\* A context is never used in a way that is undefined: WASAPI's is not called without a
\* client, and no buffer that Apple's audio queue has is written.
BufferIsOurs ==
  /\ platform = "wasapi" => WASAPI!RenderIsLive
  /\ platform = "apple" => Apple!SlotIsOurs

\* The latency is bounded: matoya.h says of maxBuffer "The maximum amount of audio in
\* milliseconds that can be queued before audio begins getting dropped".
LatencyBounded ==
  /\ platform = "android" => Android!Bounded
  /\ platform = "web" => Web!Bounded

\* matoya.h says of minBuffer "The minimum amount of audio in milliseconds that must be
\* queued before playback begins": at first, after running empty and after a flush;
\* and audio that reached the minimum is not held back.
StartsPrimed == [][
  /\ platform = "android" => Android!StartsPrimed
  /\ platform = "web" => Web!StartsPrimed
  /\ platform = "alsa" => (ALSA!NotWithheld)' ]_vars

\* matoya.h says of maxBuffer "The queue will flush to zero, then begin building back":
\* on Android a flush that began comes to its end, or the context is reset.
FlushEnds == (platform = "android" /\ flushing) ~> ~flushing

\* Playback recovers: a flush ends, an underrun is left, and a worker does not stay
\* asleep on the worklet's lock.
Recovers ==
  /\ FlushEnds
  /\ (platform = "alsa" /\ pcm = "xrun") ~> pcm # "xrun"
  /\ (platform = "web" /\ pc = "lock") ~> pc = "idle"
=============================================================================

----------------------------- MODULE AudioApple -----------------------------
(***************************************************************************)
(* MTY_Audio on AudioToolbox (src/unix/apple/audio.c): a set of buffers     *)
(* that are either in use (the audio queue has them) or free.  The audio    *)
(* queue's thread gives one back in a callback, which may run between any   *)
(* two steps of the caller.                                                 *)
(***************************************************************************)
EXTENDS Naturals, FiniteSetsExt

CONSTANTS
  Slots,                  \* the buffers, 1..AUDIO_BUFS
  MinBuffer, MaxBuffer,   \* ctx->min_buffer, ctx->max_buffer
  Counts                  \* how many frames MTY_AudioQueue may be given

VARIABLES
  inUse,      \* the slots whose in_use is 1
  osq,        \* the slots the audio queue has
  bytes,      \* mAudioDataByteSize of each slot, in frames
  returning,  \* AudioQueueStop gives back what the audio queue has
  cb,         \* the slot whose callback runs, or 0
  aplaying,   \* ctx->playing
  apc, slot, count, queued  \* the caller, and the locals of MTY_AudioQueue

callVars == <<apc, slot, count, queued>>
vars == <<inUse, osq, bytes, returning, cb, aplaying, callVars>>

TypeOK ==
  /\ inUse \subseteq Slots /\ osq \subseteq Slots
  /\ bytes \in [Slots -> Counts \cup {0}]
  /\ returning \in BOOLEAN /\ aplaying \in BOOLEAN
  /\ cb \in Slots \cup {0}
  /\ apc \in {"idle", "fill", "enqueue", "mark", "start"}
  /\ slot \in Slots \cup {0}
  /\ count \in Counts \cup {0}
  /\ queued \in Nat

\* MTY_AudioCreate
Init ==
  /\ inUse = {} /\ osq = {}
  /\ bytes = [s \in Slots |-> 0]
  /\ returning = FALSE /\ cb = 0 /\ aplaying = FALSE
  /\ apc = "idle" /\ slot = 0 /\ count = 0 /\ queued = 0

\* What the scan of in_use may find: callbacks empty buffers while it goes on.
QueuedFrames == 0..MapThenSumSet(LAMBDA s : bytes[s], inUse)

-----------------------------------------------------------------------------
(* The audio queue. *)

\* audio_queue_callback: the buffer has left the audio queue and is marked free
\* before its size is cleared.
CallbackFrees(s) ==
  /\ cb = 0 /\ s \in osq
  /\ aplaying \/ returning
  /\ osq' = osq \ {s}
  /\ inUse' = inUse \ {s}
  /\ cb' = s
  /\ returning' = (returning /\ osq' # {})
  /\ UNCHANGED <<bytes, aplaying, callVars>>

CallbackClears ==
  /\ cb # 0
  /\ bytes' = [bytes EXCEPT ![cb] = 0]
  /\ cb' = 0
  /\ UNCHANGED <<inUse, osq, returning, aplaying, callVars>>

-----------------------------------------------------------------------------
(* The caller. *)

\* MTY_AudioReset: an immediate AudioQueueStop gives every buffer back, unless it
\* fails.
Stop ==
  \/ aplaying' = FALSE /\ returning' = (osq # {})
  \/ UNCHANGED <<aplaying, returning>>

AudioReset ==
  /\ apc = "idle" /\ aplaying
  /\ Stop
  /\ UNCHANGED <<inUse, osq, bytes, cb, callVars>>

\* MTY_AudioDestroy disposes of the audio queue at once; then a new MTY_AudioCreate.
AudioDestroy ==
  /\ apc = "idle" /\ cb = 0
  /\ inUse' = {} /\ osq' = {}
  /\ bytes' = [s \in Slots |-> 0]
  /\ returning' = FALSE /\ aplaying' = FALSE
  /\ UNCHANGED <<cb, callVars>>

\* MTY_AudioQueue up to its scan for a free buffer, where callbacks may come in.
AudioQueue(n) ==
  /\ apc = "idle"
  /\ count' = n
  /\ \E q \in QueuedFrames :
       /\ queued' = q
       /\ IF aplaying /\ (q > MaxBuffer \/ q = 0) THEN Stop
          ELSE UNCHANGED <<aplaying, returning>>
  /\ apc' = "fill" /\ slot' = 0
  /\ UNCHANGED <<inUse, osq, bytes, cb>>

\* A free buffer gets the frames; with none free they are dropped.  Any free
\* one is taken, not the first: callbacks free buffers while the scan goes on.
TakeSlot ==
  /\ apc = "fill"
  /\ IF inUse = Slots
     THEN apc' = "start" /\ UNCHANGED <<slot, bytes>>
     ELSE \E s \in Slots \ inUse :
            /\ slot' = s /\ apc' = "enqueue"
            /\ bytes' = [bytes EXCEPT ![s] = count]
  /\ UNCHANGED <<inUse, osq, returning, cb, aplaying, count, queued>>

\* AudioQueueEnqueueBuffer; it takes no empty buffer, and may fail.
Enqueue ==
  /\ apc = "enqueue"
  /\ \/ /\ bytes[slot] > 0
        /\ osq' = osq \cup {slot}
        /\ apc' = "mark"
     \/ apc' = "start" /\ UNCHANGED osq
  /\ UNCHANGED <<inUse, bytes, returning, cb, aplaying, slot, count, queued>>

\* in_use is set after the buffer was handed over: a callback may have come first.
MarkUsed ==
  /\ apc = "mark"
  /\ inUse' = inUse \cup {slot}
  /\ apc' = "start"
  /\ UNCHANGED <<osq, bytes, returning, cb, aplaying, slot, count, queued>>

\* The start is decided with what was queued before the reset; AudioQueueStart may
\* fail.
Start ==
  /\ apc = "start"
  /\ \/ ~aplaying /\ queued + count >= MinBuffer /\ aplaying' = TRUE
     \/ UNCHANGED aplaying
  /\ apc' = "idle" /\ slot' = 0 /\ count' = 0 /\ queued' = 0
  /\ UNCHANGED <<inUse, osq, bytes, returning, cb>>

Next ==
  \/ \E s \in Slots : CallbackFrees(s)
  \/ CallbackClears \/ AudioReset \/ AudioDestroy
  \/ \E n \in Counts : AudioQueue(n)
  \/ TakeSlot \/ Enqueue \/ MarkUsed \/ Start

-----------------------------------------------------------------------------
(* Properties. *)

\* The caller writes into no buffer the audio queue has: in_use covers osq, but for
\* the buffer whose flag is about to be set.
SlotIsOurs ==
  /\ apc = "enqueue" => slot \notin osq
  /\ osq \subseteq inUse \cup (IF apc = "mark" THEN {slot} ELSE {})
=============================================================================

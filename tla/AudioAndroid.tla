---------------------------- MODULE AudioAndroid ----------------------------
(***************************************************************************)
(* MTY_Audio on AAudio (src/unix/linux/android/audio.c).  The context keeps *)
(* the queued frames itself; a callback on the device's thread takes Want   *)
(* frames at a time, or gives the device silence.  Both sides work under    *)
(* ctx->mutex, so each critical section is one step.  Sizes are in frames.  *)
(***************************************************************************)
EXTENDS Naturals

CONSTANTS
  MinBuffer, MaxBuffer,   \* ctx->min_buffer, ctx->max_buffer
  BufSize,                \* AUDIO_BUF_SIZE: one second
  Want,                   \* numFrames of the data callback
  Counts                  \* how many frames MTY_AudioQueue may be given

VARIABLES
  size,       \* ctx->size
  playing, flushing,
  stream,     \* ctx->stream is open and runs
  pc, count   \* where the caller is, and the frames it queues

vars == <<size, playing, flushing, stream, pc, count>>

TypeOK ==
  /\ size \in 0..BufSize
  /\ playing \in BOOLEAN /\ flushing \in BOOLEAN /\ stream \in BOOLEAN
  /\ pc \in {"idle", "queue", "close"}
  /\ count \in Counts \cup {0}

\* MTY_AudioCreate
Init ==
  /\ size = 0
  /\ playing = FALSE /\ flushing = FALSE /\ stream = FALSE
  /\ pc = "idle" /\ count = 0

\* MTY_AudioQueue opens the stream if need be: the callback runs from here on.
AudioStart(n) ==
  /\ pc = "idle"
  /\ stream' = TRUE
  /\ pc' = "queue" /\ count' = n
  /\ UNCHANGED <<size, playing, flushing>>

\* A mutation of the next definition: maxBuffer is not looked at.
AudioQueueUnbounded ==
  LET full == size + count > BufSize
      rest == IF full THEN size ELSE size + count
  IN
  /\ pc = "queue"
  /\ size' = rest
  /\ flushing' = FALSE
  /\ playing' = ((playing /\ size # 0) \/ rest >= MinBuffer)
  /\ pc' = "idle" /\ count' = 0
  /\ UNCHANGED stream

\* The critical section of MTY_AudioQueue: above the maximum nothing is taken
\* until the buffer has run empty; then it fills to the minimum before it plays.
AudioQueue ==
  LET flush == size # 0 /\ (flushing \/ size + count >= MaxBuffer)
      full  == size + count > BufSize
      rest  == IF flush \/ full THEN size ELSE size + count
  IN
  /\ pc = "queue"
  /\ size' = rest
  /\ flushing' = flush
  /\ playing' = ((playing /\ size # 0) \/ rest >= MinBuffer)
  /\ pc' = "idle" /\ count' = 0
  /\ UNCHANGED stream

\* A mutation of the next definition: the device gets what there is not.
AudioCallbackDry ==
  /\ stream
  /\ playing
  /\ size' = size - Want
  /\ UNCHANGED <<playing, flushing, stream, pc, count>>

\* audio_callback; it changes nothing when it has only silence to give.
AudioCallback ==
  /\ stream
  /\ playing /\ size >= Want
  /\ size' = size - Want
  /\ UNCHANGED <<playing, flushing, stream, pc, count>>

\* MTY_AudioReset under the mutex; the stream is closed after it.
AudioReset ==
  /\ pc = "idle" /\ stream
  /\ size' = 0 /\ playing' = FALSE /\ flushing' = FALSE
  /\ pc' = "close"
  /\ UNCHANGED <<stream, count>>

AudioClose ==
  /\ pc = "close"
  /\ stream' = FALSE
  /\ pc' = "idle"
  /\ UNCHANGED <<size, playing, flushing, count>>

Next ==
  \/ \E n \in Counts : AudioStart(n)
  \/ AudioQueue \/ AudioCallback \/ AudioReset \/ AudioClose

-----------------------------------------------------------------------------
(* Properties. *)

\* matoya.h of maxBuffer: "The maximum amount of audio in milliseconds that can be
\* queued before audio begins getting dropped": the latency stays below it.
Bounded == size < MaxBuffer

\* matoya.h of minBuffer: "The minimum amount of audio in milliseconds that must be
\* queued before playback begins", at first and again after the buffer ran empty.
StartsPrimed ==
  (~playing \/ size = 0) /\ size' > 0 /\ playing' => size' >= MinBuffer
=============================================================================

------------------------------ MODULE AudioALSA ------------------------------
(***************************************************************************)
(* MTY_Audio on ALSA (src/unix/linux/x11/audio.c).  Frames wait in ctx->buf *)
(* until playback starts; then every call hands them to the PCM, which is   *)
(* nonblocking.  The PCM plays between any two steps of a call, and stops   *)
(* (an xrun) when it has nothing left.  Sizes are in frames.                *)
(***************************************************************************)
EXTENDS Naturals

CONSTANTS
  MinBuffer, MaxBuffer,   \* ctx->min_buffer, ctx->max_buffer
  BufSize,                \* AUDIO_BUF_SIZE: one second
  HwSize,                 \* what the PCM's own buffer holds
  Counts                  \* how many frames MTY_AudioQueue may be given

VARIABLES
  playing,
  pos,     \* ctx->pos, in frames
  pcm, hw, \* the PCM's state and the frames it still has to play
  pc       \* "write" between the preparation and snd_pcm_writei

vars == <<playing, pos, pcm, hw, pc>>

TypeOK ==
  /\ playing \in BOOLEAN
  /\ pos \in 0..BufSize
  /\ pcm \in {"prepared", "running", "xrun"}
  /\ hw \in 0..HwSize
  /\ pc \in {"idle", "write"}

\* MTY_AudioCreate; snd_pcm_hw_params leaves the PCM prepared.
Init ==
  /\ playing = FALSE /\ pos = 0
  /\ pcm = "prepared" /\ hw = 0
  /\ pc = "idle"

\* avail_max - avail is at most what the PCM has, and may be far less: avail_max
\* is the most that was free since the last snd_pcm_status.
Queued(est) == pos + (IF playing THEN est ELSE 0)

\* snd_pcm_prepare; a running PCM refuses it, or (a plugin) starts over.
Prepare ==
  \/ /\ pcm = "running"
     /\ UNCHANGED <<pcm, hw>>
  \/ /\ pcm' = "prepared" /\ hw' = 0

\* MTY_AudioQueue up to the decision to play: above the maximum, or with nothing
\* left, it starts over.  The start tests what was queued before that.
AudioQueue(n, est) ==
  LET queued == Queued(est)
      reset  == playing /\ (queued > MaxBuffer \/ queued = 0)
      kept   == IF reset THEN 0 ELSE pos
      start  == (reset \/ ~playing) /\ queued + n >= MinBuffer
  IN
  /\ pc = "idle"
  /\ pos' = IF kept + n <= BufSize THEN kept + n ELSE kept
  /\ playing' = ((playing /\ ~reset) \/ start)
  /\ IF start THEN Prepare ELSE UNCHANGED <<pcm, hw>>
  /\ pc' = "write"

\* The rest of MTY_AudioQueue.  A short write drops what did not fit, -EAGAIN
\* keeps it, -EPIPE is MTY_AudioReset.
AudioWrite ==
  LET n == IF pos <= HwSize - hw THEN pos ELSE HwSize - hw
  IN
  /\ pc = "write"
  /\ pc' = "idle"
  /\ \/ /\ ~playing \/ (pcm # "xrun" /\ n = 0 /\ pos > 0)
        /\ UNCHANGED <<playing, pos, pcm, hw>>
     \/ /\ playing /\ pcm = "xrun"
        /\ playing' = FALSE /\ pos' = 0
        /\ UNCHANGED <<pcm, hw>>
     \/ /\ playing /\ pcm # "xrun" /\ (n > 0 \/ pos = 0)
        /\ hw' = hw + n /\ pos' = 0
        /\ pcm' = IF n > 0 THEN "running" ELSE pcm
        /\ UNCHANGED playing

\* MTY_AudioReset; the PCM goes on playing what it has.
AudioReset ==
  /\ pc = "idle"
  /\ playing' = FALSE /\ pos' = 0
  /\ UNCHANGED <<pcm, hw, pc>>

\* MTY_AudioDestroy closes the PCM; then a new MTY_AudioCreate.
AudioDestroy ==
  /\ pc = "idle"
  /\ playing' = FALSE /\ pos' = 0
  /\ pcm' = "prepared" /\ hw' = 0
  /\ UNCHANGED pc

\* The sound card plays a frame.
Play ==
  /\ pcm = "running"
  /\ hw' = hw - 1
  /\ pcm' = IF hw = 1 THEN "xrun" ELSE pcm
  /\ UNCHANGED <<playing, pos, pc>>

Next ==
  \/ \E n \in Counts, est \in 0..hw : AudioQueue(n, est)
  \/ AudioWrite \/ AudioReset \/ AudioDestroy \/ Play

-----------------------------------------------------------------------------
(* Properties. *)

\* Audio that reached the minimum is not held back (audio.c:142, "Begin playing
\* again when the minimum buffer has been reached").
NotWithheld == ~playing => pos < MinBuffer
=============================================================================

------------------------------ MODULE AudioWeb ------------------------------
(***************************************************************************)
(* MTY_Audio in the browser (src/unix/web/matoya-worker.js, matoya.js).  A  *)
(* worker puts frames in a staging buffer that is shared with an audio      *)
(* worklet; the worklet moves them to its own buffer and plays from there.  *)
(* The two share a lock word in audioObjs.control: the worker waits for it, *)
(* the worklet only tries.                                                  *)
(***************************************************************************)
EXTENDS Naturals

CONSTANTS
  MinBuffer, MaxBuffer,   \* of the processor, in frames
  StageSize, BufSize,     \* how many frames the staging buffer and ibuf hold
  Want,                   \* frames of one call of process()
  Counts                  \* how many frames MTY_AudioQueue may be given

VARIABLES
  lock,     \* who holds control[0]: "none", "worker", "worklet"
  stage,    \* control[1], frames in the staging buffer
  ibuf,     \* ibufLen
  playing,
  node,     \* the worklet node: "none", "asked" (message posted), "running"
  pc, count,\* where the worker is; 0 frames stand for MTY_AudioReset
  wpc       \* where process() is

vars == <<lock, stage, ibuf, playing, node, pc, count, wpc>>

TypeOK ==
  /\ lock \in {"none", "worker", "worklet"}
  /\ stage \in 0..StageSize
  /\ ibuf \in 0..BufSize
  /\ playing \in BOOLEAN
  /\ node \in {"none", "asked", "running"}
  /\ pc \in {"idle", "lock", "wait", "asleep", "locked", "post"}
  /\ count \in Counts \cup {0}
  /\ wpc \in {"idle", "copy", "render"}

Init ==
  /\ lock = "none" /\ stage = 0 /\ ibuf = 0
  /\ playing = FALSE /\ node = "none"
  /\ pc = "idle" /\ count = 0 /\ wpc = "idle"

-----------------------------------------------------------------------------
(* The worker. *)

AudioCall(n) ==
  /\ pc = "idle"
  /\ pc' = "lock" /\ count' = n
  /\ UNCHANGED <<lock, stage, ibuf, playing, node, wpc>>

\* mty_mutex_lock: compareExchange, and Atomics.wait for a value still 1.
MutexLock ==
  /\ \/ /\ pc = "lock" /\ lock = "none"
        /\ lock' = "worker" /\ pc' = "locked"
     \/ /\ pc = "lock" /\ lock # "none"
        /\ pc' = "wait" /\ UNCHANGED lock
     \/ /\ pc = "wait"
        /\ pc' = IF lock = "none" THEN "lock" ELSE "asleep"
        /\ UNCHANGED lock
  /\ UNCHANGED <<stage, ibuf, playing, node, count, wpc>>

\* The critical section of MTY_AudioQueue or MTY_AudioReset; unlocking does not
\* notify, since the worklet never waits.
StageFrames ==
  /\ pc = "locked"
  /\ stage' = IF count = 0 THEN 0
              ELSE IF count <= StageSize - stage THEN stage + count
              ELSE stage
  /\ lock' = "none"
  /\ pc' = IF count = 0 THEN "idle" ELSE "post"
  /\ UNCHANGED <<ibuf, playing, node, count, wpc>>

\* postMessage 'audio-queue': the first one makes the main thread create the node.
PostQueue ==
  /\ pc = "post"
  /\ node' = IF node = "none" THEN "asked" ELSE node
  /\ pc' = "idle" /\ count' = 0
  /\ UNCHANGED <<lock, stage, ibuf, playing, wpc>>

\* MTY_AudioDestroy: the main thread closes the AudioContext between two calls of
\* process().  The staging buffer stays as it is.
AudioDestroy ==
  /\ pc = "idle" /\ wpc = "idle" /\ node # "none"
  /\ node' = "none"
  /\ ibuf' = 0 /\ playing' = FALSE
  /\ UNCHANGED <<lock, stage, pc, count, wpc>>

\* mty_audio_queue has created the node and its processor has the shared buffers.
NodeStart ==
  /\ node = "asked"
  /\ node' = "running"
  /\ UNCHANGED <<lock, stage, ibuf, playing, pc, count, wpc>>

-----------------------------------------------------------------------------
(* The worklet: process(). *)

ProcessTryLock ==
  /\ node = "running" /\ wpc = "idle"
  /\ IF lock = "none"
     THEN lock' = "worklet" /\ wpc' = "copy"
     ELSE wpc' = "render" /\ UNCHANGED lock
  /\ UNCHANGED <<stage, ibuf, playing, node, pc, count>>

\* A mutation of the next definition: the worklet unlocks without notifying.
ProcessCopyQuiet ==
  /\ wpc = "copy"
  /\ IF stage <= BufSize - ibuf
     THEN ibuf' = ibuf + stage /\ stage' = 0
     ELSE UNCHANGED <<ibuf, stage>>
  /\ lock' = "none"
  /\ wpc' = "render"
  /\ UNCHANGED <<playing, node, pc, count>>

\* Staged frames move when all of them fit; unlocking wakes the worker.
ProcessCopy ==
  /\ wpc = "copy"
  /\ IF stage <= BufSize - ibuf
     THEN ibuf' = ibuf + stage /\ stage' = 0
     ELSE UNCHANGED <<ibuf, stage>>
  /\ lock' = "none"
  /\ pc' = IF pc = "asleep" THEN "lock" ELSE pc
  /\ wpc' = "render"
  /\ UNCHANGED <<playing, node, count>>

\* A mutation of the next definition: playing is set by any frame at all.
ProcessRenderEager ==
  LET play == ibuf # 0
      rest == IF play THEN ibuf - (IF ibuf < Want THEN ibuf ELSE Want) ELSE ibuf
      over == play /\ rest > MaxBuffer
  IN
  /\ wpc = "render"
  /\ playing' = (play /\ ~over)
  /\ ibuf' = IF over THEN 0 ELSE rest
  /\ wpc' = "idle"
  /\ UNCHANGED <<lock, stage, node, pc, count>>

\* Start at the minimum, stop when empty, play, and drop everything above the
\* maximum.
ProcessRender ==
  LET play == (playing \/ ibuf >= MinBuffer) /\ ibuf # 0
      rest == IF play THEN ibuf - (IF ibuf < Want THEN ibuf ELSE Want) ELSE ibuf
      over == play /\ rest > MaxBuffer
  IN
  /\ wpc = "render"
  /\ playing' = (play /\ ~over)
  /\ ibuf' = IF over THEN 0 ELSE rest
  /\ wpc' = "idle"
  /\ UNCHANGED <<lock, stage, node, pc, count>>

-----------------------------------------------------------------------------
Next ==
  \/ \E n \in Counts \cup {0} : AudioCall(n)
  \/ MutexLock \/ StageFrames \/ PostQueue \/ AudioDestroy
  \/ NodeStart \/ ProcessTryLock \/ ProcessCopy \/ ProcessRender

-----------------------------------------------------------------------------
(* Properties. *)

\* Between two calls of process() no more than the maximum is buffered, played or not.
Bounded == wpc = "idle" => ibuf <= MaxBuffer

\* Playback begins only with the minimum queued.
StartsPrimed == ~playing /\ playing' => ibuf >= MinBuffer
=============================================================================

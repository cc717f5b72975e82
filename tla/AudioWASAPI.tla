----------------------------- MODULE AudioWASAPI -----------------------------
(***************************************************************************)
(* MTY_Audio on WASAPI (src/windows/audio.c): any number of contexts, each  *)
(* used by one thread, that all react to one global flag when the default   *)
(* device changes.  A context without a client has lost its device.         *)
(***************************************************************************)
EXTENDS Naturals

CONSTANTS
  Ctx,                    \* the MTY_Audio contexts
  MinBuffer, MaxBuffer,   \* ctx->min_buffer, ctx->max_buffer
  BufSize,                \* ctx->buffer_size: one second
  Retries,                \* how often a failed audio_device_create is repeated
  Counts                  \* how many frames MTY_AudioQueue may be given

VARIABLES
  changed,   \* AUDIO_DEVICE_CHANGED
  at,        \* where each context's caller is; "crashed": called through NULL
  client,    \* ctx->client and ctx->render: "none", "stopped" or "started"
  wplaying,  \* ctx->playing
  padding,   \* the frames the client still has to play
  tries      \* x of audio_handle_device_change

vars == <<changed, at, client, wplaying, padding, tries>>

TypeOK ==
  /\ changed \in BOOLEAN
  /\ at \in [Ctx -> {"none", "idle", "create", "clear", "queue", "crashed"}]
  /\ client \in [Ctx -> {"none", "stopped", "started"}]
  /\ wplaying \in [Ctx -> BOOLEAN]
  /\ padding \in [Ctx -> 0..BufSize]
  /\ tries \in [Ctx -> 0..Retries]

Init ==
  /\ changed = FALSE
  /\ at = [c \in Ctx |-> "none"]
  /\ client = [c \in Ctx |-> "none"]
  /\ wplaying = [c \in Ctx |-> FALSE]
  /\ padding = [c \in Ctx |-> 0]
  /\ tries = [c \in Ctx |-> 0]

Go(c, l) == at' = [at EXCEPT ![c] = l]

-----------------------------------------------------------------------------
(* The client. *)

\* audio_device_destroy, and what a failed audio_device_create leaves.
NoClient(c) ==
  /\ client' = [client EXCEPT ![c] = "none"]
  /\ wplaying' = [wplaying EXCEPT ![c] = FALSE]
  /\ padding' = [padding EXCEPT ![c] = 0]

\* audio_device_create, after the device was destroyed.
NewClient(c) ==
  /\ client' = [client EXCEPT ![c] = "stopped"]
  /\ UNCHANGED <<wplaying, padding>>

\* MTY_AudioCreate returns NULL when it has no device.
AudioCreate(c) ==
  /\ at[c] = "none"
  /\ \/ NewClient(c) /\ Go(c, "idle")
     \/ NoClient(c) /\ UNCHANGED at
  /\ UNCHANGED <<changed, tries>>

AudioDestroy(c) ==
  /\ at[c] = "idle"
  /\ NoClient(c)
  /\ Go(c, "none")
  /\ UNCHANGED <<changed, tries>>

\* OnDefaultDeviceChanged, on a thread of the system.
DeviceChanged ==
  /\ changed' = TRUE
  /\ UNCHANGED <<at, client, wplaying, padding, tries>>

\* The device plays a frame.
Play(c) ==
  /\ client[c] = "started" /\ padding[c] > 0
  /\ padding' = [padding EXCEPT ![c] = @ - 1]
  /\ UNCHANGED <<changed, at, client, wplaying, tries>>

-----------------------------------------------------------------------------
(* audio_handle_device_change. *)

HandleChange(c) ==
  /\ at[c] = "idle"
  /\ IF changed
     THEN /\ NoClient(c) /\ Go(c, "create")
          /\ tries' = [tries EXCEPT ![c] = 0]
     ELSE Go(c, "queue") /\ UNCHANGED <<client, wplaying, padding, tries>>
  /\ UNCHANGED changed

\* The last failure makes MTY_AudioQueue return with the flag still set.
Recreate(c) ==
  /\ at[c] = "create"
  /\ \/ /\ NewClient(c) /\ Go(c, "clear")
        /\ UNCHANGED tries
     \/ /\ IF tries[c] < Retries
           THEN tries' = [tries EXCEPT ![c] = @ + 1] /\ UNCHANGED at
           ELSE Go(c, "idle") /\ UNCHANGED tries
        /\ UNCHANGED <<client, wplaying, padding>>
  /\ UNCHANGED changed

ClearChanged(c) ==
  /\ at[c] = "clear"
  /\ changed' = FALSE
  /\ Go(c, "queue")
  /\ UNCHANGED <<client, wplaying, padding, tries>>

-----------------------------------------------------------------------------
(* The rest of MTY_AudioQueue, with the device's answers in between. *)

\* A mutation of the next definition: no client means that nothing is queued.
GetQueuedZero(c) == IF client[c] = "none" THEN {0} ELSE {padding[c], BufSize}

\* audio_get_queued_frames: the whole buffer when the padding cannot be had.
GetQueued(c) == IF client[c] = "none" THEN {BufSize} ELSE {padding[c], BufSize}

\* What MTY_AudioReset leaves in <<client, playing, padding>> of one context: it
\* gives up when a call fails, and does nothing unless it plays.
ResetResults(cl, pl, pad) ==
  IF cl = "none" \/ ~pl THEN {<<cl, pl, pad>>}
  ELSE {<<cl, pl, pad>>, <<"stopped", pl, pad>>, <<"stopped", FALSE, 0>>}

\* audio_play
PlayResults(cl, pl) ==
  IF cl = "none" \/ pl THEN {<<cl, pl>>} ELSE {<<cl, pl>>, <<"started", TRUE>>}

AudioReset(c) ==
  /\ at[c] = "idle"
  /\ \E r \in ResetResults(client[c], wplaying[c], padding[c]) :
       /\ client' = [client EXCEPT ![c] = r[1]]
       /\ wplaying' = [wplaying EXCEPT ![c] = r[2]]
       /\ padding' = [padding EXCEPT ![c] = r[3]]
  /\ UNCHANGED <<changed, at, tries>>

\* Room and start are decided with what was queued before the reset.  GetBuffer
\* fails when the frames do not fit, and is called through ctx->render.
AudioQueue(c, n) ==
  /\ at[c] = "queue"
  /\ \E queued \in GetQueued(c) :
     \E r \in IF wplaying[c] /\ (queued > MaxBuffer \/ queued = 0)
              THEN ResetResults(client[c], wplaying[c], padding[c])
              ELSE {<<client[c], wplaying[c], padding[c]>>} :
     LET room == BufSize - queued >= n
         live == r[1] # "none"
         took == room /\ live /\ r[3] + n <= BufSize
     IN \E p \in IF room /\ live /\ queued + n >= MinBuffer
                 THEN PlayResults(r[1], r[2]) ELSE {<<r[1], r[2]>>} :
          /\ client' = [client EXCEPT ![c] = p[1]]
          /\ wplaying' = [wplaying EXCEPT ![c] = p[2]]
          /\ padding' = [padding EXCEPT ![c] = IF took THEN r[3] + n ELSE r[3]]
          /\ Go(c, IF room /\ ~live THEN "crashed" ELSE "idle")
  /\ UNCHANGED <<changed, tries>>

Next ==
  \/ DeviceChanged
  \/ \E c \in Ctx :
       \/ AudioCreate(c) \/ AudioDestroy(c) \/ AudioReset(c) \/ Play(c)
       \/ HandleChange(c) \/ Recreate(c) \/ ClearChanged(c)
       \/ \E n \in Counts : AudioQueue(c, n)

-----------------------------------------------------------------------------
(* Properties. *)

\* ctx->render is not used without a client, though one context's success clears
\* the flag for all of them and lets another one in that has no client.
RenderIsLive == \A c \in Ctx : at[c] # "crashed"
=============================================================================

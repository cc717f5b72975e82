---------------------------- MODULE AudioProofs ----------------------------
(***************************************************************************)
(* The safety of Audio on every platform, for any sizes, contexts and       *)
(* buffers, any failures of the calls below and any order of callbacks.     *)
(***************************************************************************)
EXTENDS Audio, TLAPS

\* Android, and the worklet: what is queued stays within the maximum.
AndroidInv == size \in Nat /\ size < MaxBuffer
WebInv == stage \in Nat /\ ibuf \in Nat /\ Web!Bounded

\* ALSA: what reached the minimum plays.
ALSAInv == pos \in Nat /\ (platform = "alsa" => ALSA!NotWithheld)

\* WASAPI: a context without a client reports a full buffer, so nothing is put there.
WASAPIInv ==
  /\ at \in [Ctx -> {"none", "idle", "create", "clear", "queue", "crashed"}]
  /\ WASAPI!RenderIsLive

IInv ==
  /\ count \in Counts \cup {0}
  /\ AndroidInv /\ WebInv /\ ALSAInv /\ WASAPIInv
  /\ Apple!SlotIsOurs

\* A call brings at least one frame, and no more than fits above the minimum.
LEMMA Sizes ==
  ASSUME NEW n \in Counts
  PROVE  /\ MinBuffer \in Nat /\ MaxBuffer \in Nat /\ BufSize \in Nat /\ Want \in Nat
         /\ MinBuffer > 0 /\ MaxBuffer > 0 /\ Want > 0 /\ n \in Nat /\ n > 0
         /\ MinBuffer + n <= MaxBuffer /\ n < MaxBuffer
BY SizesAssumption

LEMMA InitIInv == Init => IInv
BY SizesAssumption
DEF Init, IInv, AndroidInv, WebInv, ALSAInv, WASAPIInv, Android!Init, Web!Init, ALSA!Init,
    WASAPI!Init, Apple!Init, Web!Bounded, ALSA!NotWithheld, WASAPI!RenderIsLive,
    Apple!SlotIsOurs

-----------------------------------------------------------------------------
(* One lemma for each platform. *)

LEMMA AndroidKeeps ==
  ASSUME IInv,
         \/ \E n \in Counts : AndroidStep(Android!AudioStart(n))
         \/ AndroidStep(Android!AudioReset) \/ AndroidStep(Android!AudioQueue)
         \/ AndroidStep(Android!AudioClose) \/ AndroidStep(Android!AudioCallback)
  PROVE  IInv'
<1> USE DEF AndroidStep, On
<1>1. count' \in Counts \cup {0} /\ AndroidInv'
  BY Sizes, SizesAssumption
  DEF IInv, AndroidInv, Android!AudioReset, Android!AudioStart, Android!AudioQueue,
      Android!AudioClose, Android!AudioCallback
<1>2. WebInv' /\ ALSAInv' /\ WASAPIInv' /\ Apple!SlotIsOurs'
  BY DEF IInv, WebInv, ALSAInv, WASAPIInv, Web!Bounded, ALSA!NotWithheld,
         WASAPI!RenderIsLive, Apple!SlotIsOurs, webVars, alsaVars, wasapiVars, appleVars
<1>3. QED
  BY <1>1, <1>2 DEF IInv

LEMMA WebKeeps ==
  ASSUME IInv,
         \/ \E n \in Counts \cup {0} : WebStep(Web!AudioCall(n))
         \/ WebStep(Web!MutexLock) \/ WebStep(Web!StageFrames) \/ WebStep(Web!PostQueue)
         \/ WebStep(Web!AudioDestroy) \/ WebStep(Web!NodeStart)
         \/ WebStep(Web!ProcessTryLock) \/ WebStep(Web!ProcessCopy)
         \/ WebStep(Web!ProcessRender)
  PROVE  IInv'
<1> USE DEF WebStep, On
<1>1. CASE WebStep(Web!StageFrames)
  BY <1>1, SizesAssumption
  DEF IInv, AndroidInv, WebInv, ALSAInv, WASAPIInv, Web!Bounded, ALSA!NotWithheld,
      WASAPI!RenderIsLive, Apple!SlotIsOurs, androidVars, alsaVars, wasapiVars, appleVars,
      Web!StageFrames
<1>2. CASE WebStep(Web!ProcessRender)
  <2>1. ibuf' \in Nat /\ ibuf' <= MaxBuffer
    <3> DEFINE play == (playing \/ ibuf >= MinBuffer) /\ ibuf # 0
               drop == IF ibuf < Want THEN ibuf ELSE Want
               rest == IF play THEN ibuf - drop ELSE ibuf
    <3>1. ibuf' = IF play /\ rest > MaxBuffer THEN 0 ELSE rest
      BY <1>2 DEF Web!ProcessRender
    <3>2. ibuf \in Nat /\ MaxBuffer \in Nat /\ MinBuffer \in Nat /\ MinBuffer <= MaxBuffer
      <4>1. PICK n \in Counts : TRUE
        BY SizesAssumption
      <4>2. MaxBuffer \in Nat /\ MinBuffer \in Nat /\ n \in Nat /\ MinBuffer + n <= MaxBuffer
        BY <4>1, SizesAssumption
      <4>3. QED
        BY <4>2 DEF IInv, WebInv
    <3>3. rest \in Nat /\ (play \/ rest <= MaxBuffer)
      BY <3>2, SizesAssumption
    <3>4. QED
      BY <3>1, <3>2, <3>3
  <2>2. QED
    BY <1>2, <2>1
    DEF IInv, AndroidInv, WebInv, Web!Bounded, ALSAInv, WASAPIInv, ALSA!NotWithheld, WASAPI!RenderIsLive,
        Apple!SlotIsOurs, androidVars, alsaVars, wasapiVars, appleVars, Web!ProcessRender
<1>3. ASSUME \/ \E n \in Counts \cup {0} : WebStep(Web!AudioCall(n))
             \/ WebStep(Web!MutexLock) \/ WebStep(Web!PostQueue) \/ WebStep(Web!AudioDestroy)
             \/ WebStep(Web!NodeStart) \/ WebStep(Web!ProcessTryLock)
             \/ WebStep(Web!ProcessCopy)
      PROVE  IInv'
  <2>1. count' \in Counts \cup {0}
    BY <1>3
    DEF IInv, Web!AudioCall, Web!MutexLock, Web!PostQueue, Web!AudioDestroy, Web!NodeStart,
        Web!ProcessTryLock, Web!ProcessCopy
  <2>2. WebInv'
    <3>1. MaxBuffer \in Nat /\ stage \in Nat /\ ibuf \in Nat
      BY SizesAssumption DEF IInv, WebInv
    <3>2. CASE WebStep(Web!ProcessCopy)
      BY <3>1, <3>2 DEF Web!ProcessCopy, WebInv, Web!Bounded
    <3>3. CASE WebStep(Web!AudioDestroy)
      BY <3>1, <3>3 DEF Web!AudioDestroy, WebInv, Web!Bounded
    <3>4. CASE WebStep(Web!ProcessTryLock)
      BY <3>1, <3>4 DEF Web!ProcessTryLock, IInv, WebInv, Web!Bounded
    <3>5. ASSUME ~WebStep(Web!ProcessCopy), ~WebStep(Web!AudioDestroy),
                 ~WebStep(Web!ProcessTryLock)
          PROVE  UNCHANGED <<stage, ibuf, wpc>>
      BY <1>3, <3>5 DEF Web!AudioCall, Web!MutexLock, Web!PostQueue, Web!NodeStart
    <3>6. QED
      BY <3>2, <3>3, <3>4, <3>5 DEF IInv, WebInv, Web!Bounded
  <2>3. UNCHANGED <<platform, androidVars, alsaVars, wasapiVars, appleVars>>
    BY <1>3
  <2>4. platform = "web"
    BY <1>3
  <2>5. QED
    BY <2>1, <2>2, <2>3, <2>4
    DEF IInv, AndroidInv, ALSAInv, WASAPIInv, ALSA!NotWithheld, WASAPI!RenderIsLive,
        Apple!SlotIsOurs, androidVars, alsaVars, wasapiVars, appleVars
<1>4. QED
  BY <1>1, <1>2, <1>3

LEMMA ALSAKeeps ==
  ASSUME IInv,
         \/ \E n \in Counts, est \in 0..hw : ALSAStep(ALSA!AudioQueue(n, est))
         \/ ALSAStep(ALSA!AudioWrite) \/ ALSAStep(ALSA!AudioReset)
         \/ ALSAStep(ALSA!AudioDestroy) \/ ALSAStep(ALSA!Play)
  PROVE  IInv'
<1> USE DEF ALSAStep, On
<1>1. ALSAInv'
  <2>1. ASSUME NEW n \in Counts, NEW est \in 0..hw, ALSAStep(ALSA!AudioQueue(n, est))
        PROVE  ALSAInv'
    <3> DEFINE q == IF playing THEN est ELSE 0
               reset == playing /\ (pos + q > MaxBuffer \/ pos + q = 0)
               kept == IF reset THEN 0 ELSE pos
               start == (reset \/ ~playing) /\ pos + q + n >= MinBuffer
    <3>1. /\ pos' = IF kept + n <= BufSize THEN kept + n ELSE kept
          /\ playing' = ((playing /\ ~reset) \/ start)
      BY <2>1 DEF ALSA!AudioQueue, ALSA!Queued
    <3>2. n \in Nat /\ MinBuffer \in Nat /\ MaxBuffer \in Nat /\ 0 < MinBuffer
      BY <2>1, SizesAssumption
    <3>3. pos \in Nat /\ est \in Nat
      BY <2>1 DEF IInv, ALSAInv
    <3>4. pos' \in Nat
      BY <3>1, <3>2, <3>3
    <3>5. ASSUME ~playing' PROVE pos' < MinBuffer
      <4>1. ~start /\ (reset \/ ~playing)
        BY <3>1, <3>5
      <4>2. ~(pos + q + n >= MinBuffer)
        BY <4>1
      <4>3. q \in Nat /\ kept \in Nat /\ kept <= pos
        BY <3>3
      <4>4. QED
        <5> HIDE DEF q, kept, reset, start
        <5>1. kept + n < MinBuffer /\ kept < MinBuffer
          BY <3>2, <3>3, <4>2, <4>3
        <5>2. QED
          BY <3>1, <5>1
    <3>6. QED
      BY <3>4, <3>5 DEF ALSAInv, ALSA!NotWithheld
  <2>2. ASSUME \/ ALSAStep(ALSA!AudioWrite) \/ ALSAStep(ALSA!AudioReset)
               \/ ALSAStep(ALSA!AudioDestroy) \/ ALSAStep(ALSA!Play)
        PROVE  ALSAInv'
    <3>1. \/ UNCHANGED <<playing, pos>>
          \/ pos' = 0
      BY <2>2 DEF ALSA!AudioWrite, ALSA!AudioReset, ALSA!AudioDestroy, ALSA!Play
    <3>2. 0 < MinBuffer /\ 0 \in Nat
      BY SizesAssumption
    <3>3. platform' = platform
      BY <2>2
    <3>4. QED
      BY <3>1, <3>2, <3>3 DEF IInv, ALSAInv, ALSA!NotWithheld
  <2>3. QED
    BY <2>1, <2>2
<1>2. UNCHANGED <<count, androidVars, webVars, wasapiVars, appleVars>>
  OBVIOUS
<1>3. QED
  BY <1>1, <1>2
  DEF IInv, AndroidInv, WebInv, WASAPIInv, Web!Bounded, WASAPI!RenderIsLive,
      Apple!SlotIsOurs, androidVars, webVars, wasapiVars, appleVars

LEMMA WASAPIKeeps ==
  ASSUME IInv,
         \/ WASAPIStep(WASAPI!DeviceChanged)
         \/ \E c \in Ctx :
              \/ WASAPIStep(WASAPI!AudioCreate(c)) \/ WASAPIStep(WASAPI!AudioDestroy(c))
              \/ WASAPIStep(WASAPI!AudioReset(c)) \/ WASAPIStep(WASAPI!Play(c))
              \/ WASAPIStep(WASAPI!HandleChange(c)) \/ WASAPIStep(WASAPI!Recreate(c))
              \/ WASAPIStep(WASAPI!ClearChanged(c))
              \/ \E n \in Counts : WASAPIStep(WASAPI!AudioQueue(c, n))
  PROVE  IInv'
<1> USE DEF WASAPIStep, On
<1>1. WASAPIInv'
  <2>1. ASSUME NEW c \in Ctx, NEW n \in Counts, WASAPI!AudioQueue(c, n)
        PROVE  at' = [at EXCEPT ![c] = "idle"]
    <3> DEFINE kept == <<client[c], wplaying[c], padding[c]>>
               reset == WASAPI!ResetResults(client[c], wplaying[c], padding[c])
    <3>1. \E q \in WASAPI!GetQueued(c), r \in reset \cup {kept} :
            at' = [at EXCEPT ![c] = IF BufSize - q >= n /\ ~(r[1] # "none")
                                    THEN "crashed" ELSE "idle"]
      BY <2>1 DEF WASAPI!AudioQueue, WASAPI!Go
    <3>2. PICK q \in WASAPI!GetQueued(c), r \in reset \cup {kept} :
            at' = [at EXCEPT ![c] = IF BufSize - q >= n /\ ~(r[1] # "none")
                                    THEN "crashed" ELSE "idle"]
      BY <3>1
    <3>3. client[c] = "none" => ~(BufSize - q >= n)
      BY <3>2, Sizes DEF WASAPI!GetQueued
    <3>4. client[c] # "none" => r[1] # "none"
      <4>1. r \in {kept, <<"stopped", wplaying[c], padding[c]>>, <<"stopped", FALSE, 0>>}
        BY <3>2 DEF WASAPI!ResetResults
      <4>2. r[1] = client[c] \/ r[1] = "stopped"
        <5>1. CASE r = kept
          BY <5>1
        <5>2. CASE r = <<"stopped", wplaying[c], padding[c]>>
          BY <5>2
        <5>3. CASE r = <<"stopped", FALSE, 0>>
          BY <5>3
        <5>4. QED
          BY <4>1, <5>1, <5>2, <5>3
      <4>3. QED
        BY <4>2
    <3>5. QED
      BY <3>2, <3>3, <3>4
  <2>2. ASSUME NEW c \in Ctx, NEW n \in Counts, WASAPIStep(WASAPI!AudioQueue(c, n))
        PROVE  WASAPIInv'
    BY <2>1, <2>2 DEF IInv, WASAPIInv, WASAPI!RenderIsLive
  <2>3. ASSUME NEW c \in Ctx,
               \/ WASAPIStep(WASAPI!AudioCreate(c)) \/ WASAPIStep(WASAPI!AudioDestroy(c))
               \/ WASAPIStep(WASAPI!AudioReset(c)) \/ WASAPIStep(WASAPI!Play(c))
               \/ WASAPIStep(WASAPI!HandleChange(c)) \/ WASAPIStep(WASAPI!Recreate(c))
               \/ WASAPIStep(WASAPI!ClearChanged(c))
        PROVE  WASAPIInv'
    BY <2>3
    DEF IInv, WASAPIInv, WASAPI!RenderIsLive, WASAPI!AudioCreate, WASAPI!AudioDestroy,
        WASAPI!AudioReset, WASAPI!Play, WASAPI!HandleChange, WASAPI!Recreate,
        WASAPI!ClearChanged, WASAPI!Go
  <2>4. CASE WASAPIStep(WASAPI!DeviceChanged)
    BY <2>4 DEF IInv, WASAPIInv, WASAPI!RenderIsLive, WASAPI!DeviceChanged
  <2>5. QED
    BY <2>2, <2>3, <2>4
<1>2. UNCHANGED <<playing, pc, count, androidVars, webVars, alsaVars, appleVars>>
  OBVIOUS
<1>3. platform' = platform
  OBVIOUS
<1>4. QED
  BY <1>1, <1>2, <1>3
  DEF IInv, AndroidInv, WebInv, ALSAInv, Web!Bounded, ALSA!NotWithheld,
      Apple!SlotIsOurs, androidVars, webVars, alsaVars, appleVars

LEMMA AppleKeeps ==
  ASSUME IInv,
         \/ \E s \in Slots : AppleStep(Apple!CallbackFrees(s))
         \/ \E n \in Counts : AppleStep(Apple!AudioQueue(n))
         \/ AppleStep(Apple!CallbackClears) \/ AppleStep(Apple!AudioReset)
         \/ AppleStep(Apple!AudioDestroy) \/ AppleStep(Apple!TakeSlot)
         \/ AppleStep(Apple!Enqueue) \/ AppleStep(Apple!MarkUsed) \/ AppleStep(Apple!Start)
  PROVE  IInv'
<1> USE DEF AppleStep, On
<1>1. Apple!SlotIsOurs'
  BY DEF IInv, Apple!SlotIsOurs, Apple!CallbackFrees, Apple!AudioQueue,
         Apple!CallbackClears, Apple!AudioReset, Apple!AudioDestroy, Apple!TakeSlot,
         Apple!Enqueue, Apple!MarkUsed, Apple!Start, Apple!callVars
<1>2. count' \in Counts \cup {0}
  BY DEF IInv, Apple!CallbackFrees, Apple!AudioQueue, Apple!CallbackClears,
         Apple!AudioReset, Apple!AudioDestroy, Apple!TakeSlot, Apple!Enqueue,
         Apple!MarkUsed, Apple!Start, Apple!callVars
<1>3. UNCHANGED <<platform, playing, pc, androidVars, webVars, alsaVars, wasapiVars>>
  OBVIOUS
<1>4. QED
  BY <1>1, <1>2, <1>3
  DEF IInv, AndroidInv, WebInv, ALSAInv, WASAPIInv, Web!Bounded, ALSA!NotWithheld,
      WASAPI!RenderIsLive, androidVars, webVars, alsaVars, wasapiVars

LEMMA NextIInv ==
  ASSUME IInv, [Next]_vars
  PROVE  IInv'
<1>1. CASE Next
  BY <1>1, AndroidKeeps, WebKeeps, ALSAKeeps, WASAPIKeeps, AppleKeeps
  DEF Next, Reset, Queue, GoOn, Device
<1>2. CASE UNCHANGED vars
  BY <1>2
  DEF vars, IInv, AndroidInv, WebInv, ALSAInv, WASAPIInv, Web!Bounded, ALSA!NotWithheld,
      WASAPI!RenderIsLive, Apple!SlotIsOurs, androidVars, webVars, alsaVars, wasapiVars,
      appleVars
<1>3. QED
  BY <1>1, <1>2

LEMMA IInvHolds == Spec => []IInv
BY InitIInv, NextIInv, PTL DEF Spec

-----------------------------------------------------------------------------
(* Types. *)

\* A step is one of the implementation that is linked in.
LEMMA StepOfPlatform ==
  ASSUME Next
  PROVE  /\ platform' = platform
         /\ platform = "android" => Android!Next
         /\ platform = "web" => Web!Next
         /\ platform = "alsa" => ALSA!Next
         /\ platform = "wasapi" => WASAPI!Next
         /\ platform = "apple" => Apple!Next
<1> USE DEF Next, Reset, Queue, GoOn, Device, AndroidStep, WebStep, ALSAStep, WASAPIStep,
            AppleStep, On
<1>1. platform' = platform
  OBVIOUS
<1>2. platform = "android" => Android!Next
  BY DEF Android!Next
<1>3. platform = "web" => Web!Next
  BY DEF Web!Next
<1>4. platform = "alsa" => ALSA!Next
  BY DEF ALSA!Next
<1>5. platform = "wasapi" => WASAPI!Next
  BY DEF WASAPI!Next
<1>6. platform = "apple" => Apple!Next
  BY DEF Apple!Next
<1>7. QED
  BY <1>1, <1>2, <1>3, <1>4, <1>5, <1>6

LEMMA InitTypes == Init => TypeOK
<1> SUFFICES ASSUME Init PROVE TypeOK
  OBVIOUS
<1>1. /\ 0 \in 0..BufSize /\ 0 \in 0..StageSize /\ 0 \in 0..HwSize /\ 0 \in 0..Retries
      /\ 0 \in 0..MaxResets
  BY SizesAssumption
<1>2. Android!TypeOK
  BY <1>1 DEF Init, Android!Init, Android!TypeOK
<1>3. Web!TypeOK
  BY <1>1 DEF Init, Web!Init, Web!TypeOK
<1>4. ALSA!TypeOK
  BY <1>1 DEF Init, ALSA!Init, ALSA!TypeOK
<1>5. WASAPI!TypeOK
  BY <1>1 DEF Init, WASAPI!Init, WASAPI!TypeOK
<1>6. Apple!TypeOK
  BY DEF Init, Apple!Init, Apple!TypeOK
<1>7. QED
  BY <1>1, <1>2, <1>3, <1>4, <1>5, <1>6 DEF Init, TypeOK

LEMMA AndroidTypes ==
  ASSUME Android!TypeOK, AndroidInv', Android!Next
  PROVE  Android!TypeOK'
<1>1. size' \in 0..BufSize
  <2>1. PICK n \in Counts : TRUE
    BY SizesAssumption
  <2>2. MaxBuffer \in Nat /\ BufSize \in Nat /\ n \in Nat /\ MaxBuffer + n <= BufSize
    BY <2>1, SizesAssumption
  <2>3. QED
    BY <2>2 DEF AndroidInv
<1>2. /\ playing' \in BOOLEAN /\ flushing' \in BOOLEAN /\ stream' \in BOOLEAN
      /\ pc' \in {"idle", "queue", "close"} /\ count' \in Counts \cup {0}
  BY DEF Android!TypeOK, Android!Next, Android!AudioStart, Android!AudioQueue,
         Android!AudioCallback, Android!AudioReset, Android!AudioClose
<1>3. QED
  BY <1>1, <1>2 DEF Android!TypeOK

LEMMA WebTypes ==
  ASSUME Web!TypeOK, Web!Next
  PROVE  Web!TypeOK'
<1> USE DEF Web!TypeOK
<1>1. CASE Web!StageFrames
  BY <1>1, SizesAssumption DEF Web!StageFrames
<1>2. CASE Web!ProcessCopy
  BY <1>2, SizesAssumption DEF Web!ProcessCopy
<1>3. CASE Web!ProcessRender
  <2> DEFINE play == (playing \/ ibuf >= MinBuffer) /\ ibuf # 0
             rest == IF play THEN ibuf - (IF ibuf < Want THEN ibuf ELSE Want) ELSE ibuf
             over == play /\ rest > MaxBuffer
  <2>1. ibuf' = (IF over THEN 0 ELSE rest) /\ playing' = (play /\ ~over)
    BY <1>3 DEF Web!ProcessRender
  <2>2. rest \in 0..BufSize
    BY SizesAssumption
  <2>3. 0 \in 0..BufSize
    BY SizesAssumption
  <2>4. ibuf' \in 0..BufSize
    BY <2>1, <2>2, <2>3
  <2>5. QED
    BY <1>3, <2>1, <2>4 DEF Web!ProcessRender
<1>4. CASE Web!AudioDestroy
  <2>1. 0 \in 0..BufSize
    BY SizesAssumption
  <2>2. QED
    BY <1>4, <2>1 DEF Web!AudioDestroy
<1>5. CASE Web!MutexLock
  BY <1>5 DEF Web!MutexLock
<1>6. CASE Web!PostQueue
  <2>1. node' \in {"none", "asked", "running"}
    BY <1>6 DEF Web!PostQueue
  <2>2. QED
    BY <1>6, <2>1 DEF Web!PostQueue
<1>7. CASE Web!NodeStart \/ Web!ProcessTryLock
  BY <1>7 DEF Web!NodeStart, Web!ProcessTryLock
<1>8. ASSUME NEW n \in Counts \cup {0}, Web!AudioCall(n)
      PROVE  Web!TypeOK'
  BY <1>8 DEF Web!AudioCall
<1>9. QED
  BY <1>1, <1>2, <1>3, <1>4, <1>5, <1>6, <1>7, <1>8 DEF Web!Next

\* The PCM that runs has a frame to play: it stops with its last one.
PCMRuns == platform = "alsa" /\ pcm = "running" => hw > 0

LEMMA ALSATypes ==
  ASSUME ALSA!TypeOK, pcm = "running" => hw > 0, ALSA!Next
  PROVE  ALSA!TypeOK' /\ (pcm' = "running" => hw' > 0)
<1> USE DEF ALSA!TypeOK
<1>1. ASSUME NEW n \in Counts, NEW est \in 0..hw, ALSA!AudioQueue(n, est)
      PROVE  ALSA!TypeOK' /\ (pcm' = "running" => hw' > 0)
  <2> DEFINE waiting == pos + (IF playing THEN est ELSE 0)
             reset == playing /\ (waiting > MaxBuffer \/ waiting = 0)
             kept == IF reset THEN 0 ELSE pos
             start == (reset \/ ~playing) /\ waiting + n >= MinBuffer
  <2>1. /\ pos' = IF kept + n <= BufSize THEN kept + n ELSE kept
        /\ playing' = ((playing /\ ~reset) \/ start)
        /\ pc' = "write"
        /\ UNCHANGED <<pcm, hw>> \/ (pcm' = "prepared" /\ hw' = 0)
    BY <1>1 DEF ALSA!AudioQueue, ALSA!Queued, ALSA!Prepare
  <2>2. kept \in 0..BufSize /\ n \in Nat /\ BufSize \in Nat
    BY SizesAssumption
  <2>3. pos' \in 0..BufSize
    <3> HIDE DEF kept
    <3>1. QED
      BY <2>1, <2>2
  <2>4. hw' \in 0..HwSize /\ pcm' \in {"prepared", "running", "xrun"}
    BY <2>1, SizesAssumption
  <2>5. playing' \in BOOLEAN
    BY <2>1
  <2>6. pcm' = "running" => hw' > 0
    BY <2>1
  <2>7. QED
    BY <2>1, <2>3, <2>4, <2>5, <2>6
<1>2. 0 \in 0..BufSize /\ 0 \in 0..HwSize /\ HwSize \in Nat
  BY SizesAssumption
<1>3. ASSUME ALSA!AudioWrite
      PROVE  ALSA!TypeOK' /\ (pcm' = "running" => hw' > 0)
  <2> DEFINE n == IF pos <= HwSize - hw THEN pos ELSE HwSize - hw
  <2>1. pc' = "idle"
    BY <1>3 DEF ALSA!AudioWrite
  <2>2. \/ UNCHANGED <<playing, pos, pcm, hw>>
        \/ playing' = FALSE /\ pos' = 0 /\ UNCHANGED <<pcm, hw>>
        \/ /\ hw' = hw + n /\ pos' = 0 /\ UNCHANGED playing
           /\ pcm' = IF n > 0 THEN "running" ELSE pcm
    BY <1>3 DEF ALSA!AudioWrite
  <2>3. pos \in Nat /\ hw \in Nat /\ hw <= HwSize
    BY SizesAssumption
  <2>4. n \in Nat /\ hw + n \in 0..HwSize
    BY <1>2, <2>3
  <2>5. CASE UNCHANGED <<playing, pos, pcm, hw>>
    BY <2>1, <2>5
  <2>6. CASE playing' = FALSE /\ pos' = 0 /\ UNCHANGED <<pcm, hw>>
    BY <1>2, <2>1, <2>6
  <2>7. CASE /\ hw' = hw + n /\ pos' = 0 /\ UNCHANGED playing
             /\ pcm' = IF n > 0 THEN "running" ELSE pcm
    <3> HIDE DEF n
    <3>1. hw' \in 0..HwSize /\ pos' \in 0..BufSize /\ playing' \in BOOLEAN
      BY <1>2, <2>4, <2>7
    <3>2. pcm' \in {"prepared", "running", "xrun"}
      BY <2>7
    <3>3. pcm' = "running" => hw' > 0
      BY <2>3, <2>4, <2>7
    <3>4. QED
      BY <2>1, <3>1, <3>2, <3>3
  <2>8. QED
    BY <2>2, <2>5, <2>6, <2>7
<1>4. ASSUME ALSA!AudioReset \/ ALSA!AudioDestroy
      PROVE  ALSA!TypeOK' /\ (pcm' = "running" => hw' > 0)
  BY <1>2, <1>4 DEF ALSA!AudioReset, ALSA!AudioDestroy
<1>5. ASSUME ALSA!Play
      PROVE  ALSA!TypeOK' /\ (pcm' = "running" => hw' > 0)
  <2>1. hw \in Nat /\ hw <= HwSize /\ hw > 0 /\ hw' = hw - 1
    BY <1>2, <1>5 DEF ALSA!Play
  <2>2. pcm' = (IF hw = 1 THEN "xrun" ELSE pcm) /\ UNCHANGED <<playing, pos, pc>>
    BY <1>5 DEF ALSA!Play
  <2>3. hw' \in 0..HwSize /\ (hw # 1 => hw' > 0)
    BY <1>2, <2>1
  <2>4. QED
    BY <2>2, <2>3
<1>6. QED
  BY <1>1, <1>3, <1>4, <1>5 DEF ALSA!Next

LEMMA WASAPITypes ==
  ASSUME WASAPI!TypeOK, WASAPIInv', WASAPI!Next
  PROVE  WASAPI!TypeOK'
<1> USE DEF WASAPI!TypeOK
<1>0. 0 \in 0..BufSize /\ 0 \in 0..Retries /\ BufSize \in Nat /\ Retries \in Nat
  BY SizesAssumption
<1>1. at' \in [Ctx -> {"none", "idle", "create", "clear", "queue", "crashed"}]
  BY DEF WASAPIInv
<1>2. ASSUME NEW c \in Ctx, NEW n \in Counts, WASAPI!AudioQueue(c, n)
      PROVE  WASAPI!TypeOK'
  <2> DEFINE kept == <<client[c], wplaying[c], padding[c]>>
             Clients == {"none", "stopped", "started"}
  <2>1. PICK r \in WASAPI!ResetResults(client[c], wplaying[c], padding[c]) \cup {kept} :
          \E took \in BOOLEAN :
          \E p \in WASAPI!PlayResults(r[1], r[2]) \cup {<<r[1], r[2]>>} :
            /\ client' = [client EXCEPT ![c] = p[1]]
            /\ wplaying' = [wplaying EXCEPT ![c] = p[2]]
            /\ padding' = [padding EXCEPT ![c] = IF took THEN r[3] + n ELSE r[3]]
            /\ took => r[3] + n <= BufSize
    BY <1>2 DEF WASAPI!AudioQueue
  <2>2. r[1] \in Clients /\ r[2] \in BOOLEAN /\ r[3] \in 0..BufSize
    <3>1. r \in {kept, <<"stopped", wplaying[c], padding[c]>>, <<"stopped", FALSE, 0>>}
      BY <2>1 DEF WASAPI!ResetResults
    <3>2. CASE r = kept
      BY <3>2
    <3>3. CASE r = <<"stopped", wplaying[c], padding[c]>>
      BY <3>3
    <3>4. CASE r = <<"stopped", FALSE, 0>>
      BY <1>0, <3>4
    <3>5. QED
      BY <3>1, <3>2, <3>3, <3>4
  <2>3. PICK took \in BOOLEAN,
             p \in WASAPI!PlayResults(r[1], r[2]) \cup {<<r[1], r[2]>>} :
          /\ client' = [client EXCEPT ![c] = p[1]]
          /\ wplaying' = [wplaying EXCEPT ![c] = p[2]]
          /\ padding' = [padding EXCEPT ![c] = IF took THEN r[3] + n ELSE r[3]]
          /\ took => r[3] + n <= BufSize
    BY <2>1
  <2>4. p[1] \in Clients /\ p[2] \in BOOLEAN
    <3>1. p \in {<<r[1], r[2]>>, <<"started", TRUE>>}
      BY <2>3 DEF WASAPI!PlayResults
    <3>2. CASE p = <<r[1], r[2]>>
      BY <2>2, <3>2
    <3>3. CASE p = <<"started", TRUE>>
      BY <3>3
    <3>4. QED
      BY <3>1, <3>2, <3>3
  <2>5. (IF took THEN r[3] + n ELSE r[3]) \in 0..BufSize
    BY <1>0, <2>2, <2>3, SizesAssumption
  <2>6. client' \in [Ctx -> Clients] /\ wplaying' \in [Ctx -> BOOLEAN]
    BY <2>3, <2>4
  <2>7. padding' \in [Ctx -> 0..BufSize]
    BY <2>3, <2>5
  <2>8. UNCHANGED <<changed, tries>>
    BY <1>2 DEF WASAPI!AudioQueue
  <2>9. QED
    BY <1>1, <2>6, <2>7, <2>8
<1>3. ASSUME NEW c \in Ctx, WASAPI!AudioReset(c)
      PROVE  WASAPI!TypeOK'
  <2>1. PICK r \in WASAPI!ResetResults(client[c], wplaying[c], padding[c]) :
          /\ client' = [client EXCEPT ![c] = r[1]]
          /\ wplaying' = [wplaying EXCEPT ![c] = r[2]]
          /\ padding' = [padding EXCEPT ![c] = r[3]]
    BY <1>3 DEF WASAPI!AudioReset
  <2>2. /\ r[1] \in {"none", "stopped", "started"} /\ r[2] \in BOOLEAN
        /\ r[3] \in 0..BufSize
    <3>1. r \in {<<client[c], wplaying[c], padding[c]>>,
                <<"stopped", wplaying[c], padding[c]>>, <<"stopped", FALSE, 0>>}
      BY <2>1 DEF WASAPI!ResetResults
    <3>2. CASE r = <<client[c], wplaying[c], padding[c]>>
      BY <3>2
    <3>3. CASE r = <<"stopped", wplaying[c], padding[c]>>
      BY <3>3
    <3>4. CASE r = <<"stopped", FALSE, 0>>
      BY <1>0, <3>4
    <3>5. QED
      BY <3>1, <3>2, <3>3, <3>4
  <2>3. UNCHANGED <<changed, tries>>
    BY <1>3 DEF WASAPI!AudioReset
  <2>4. QED
    BY <1>1, <2>1, <2>2, <2>3
<1>4. ASSUME NEW c \in Ctx,
             \/ WASAPI!AudioCreate(c) \/ WASAPI!AudioDestroy(c) \/ WASAPI!HandleChange(c)
             \/ WASAPI!ClearChanged(c)
      PROVE  WASAPI!TypeOK'
  <2>1. WASAPI!NoClient(c) \/ WASAPI!NewClient(c) \/ UNCHANGED <<client, wplaying, padding>>
    BY <1>4 DEF WASAPI!AudioCreate, WASAPI!AudioDestroy, WASAPI!HandleChange,
                WASAPI!ClearChanged
  <2>2. /\ client' \in [Ctx -> {"none", "stopped", "started"}]
        /\ wplaying' \in [Ctx -> BOOLEAN] /\ padding' \in [Ctx -> 0..BufSize]
    <3>1. CASE WASAPI!NoClient(c)
      BY <1>0, <3>1 DEF WASAPI!NoClient
    <3>2. CASE WASAPI!NewClient(c)
      BY <3>2 DEF WASAPI!NewClient
    <3>3. QED
      BY <2>1, <3>1, <3>2
  <2>3. changed' \in BOOLEAN /\ tries' \in [Ctx -> 0..Retries]
    BY <1>0, <1>4 DEF WASAPI!AudioCreate, WASAPI!AudioDestroy, WASAPI!HandleChange,
                      WASAPI!ClearChanged
  <2>4. QED
    BY <1>1, <2>2, <2>3
<1>5. ASSUME NEW c \in Ctx, WASAPI!Play(c) \/ WASAPI!Recreate(c)
      PROVE  WASAPI!TypeOK'
  <2>1. CASE WASAPI!Play(c)
    <3>1. padding[c] - 1 \in 0..BufSize
      BY <1>0, <2>1 DEF WASAPI!Play
    <3>2. QED
      BY <1>1, <2>1, <3>1 DEF WASAPI!Play
  <2>2. CASE WASAPI!Recreate(c)
    <3>1. client' \in [Ctx -> {"none", "stopped", "started"}]
      BY <2>2 DEF WASAPI!Recreate, WASAPI!NewClient
    <3>2. tries' \in [Ctx -> 0..Retries]
      <4>1. tries[c] < Retries => tries[c] + 1 \in 0..Retries
        BY <1>0
      <4>2. QED
        BY <2>2, <4>1 DEF WASAPI!Recreate
    <3>3. UNCHANGED <<changed, wplaying, padding>>
      BY <2>2 DEF WASAPI!Recreate, WASAPI!NewClient
    <3>4. QED
      BY <1>1, <3>1, <3>2, <3>3
  <2>3. QED
    BY <1>5, <2>1, <2>2
<1>6. CASE WASAPI!DeviceChanged
  BY <1>6 DEF WASAPI!DeviceChanged
<1>7. QED
  BY <1>2, <1>3, <1>4, <1>5, <1>6 DEF WASAPI!Next

\* Between the choice of a buffer and its use there is one.
SlotChosen == apc \in {"enqueue", "mark"} => slot \in Slots

LEMMA AppleTypes ==
  ASSUME Apple!TypeOK, SlotChosen, Apple!Next
  PROVE  Apple!TypeOK' /\ SlotChosen'
<1> USE DEF Apple!TypeOK, SlotChosen
<1>1. ASSUME NEW n \in Counts, Apple!AudioQueue(n)
      PROVE  Apple!TypeOK' /\ SlotChosen'
  <2>1. queued' \in Nat
    BY <1>1 DEF Apple!AudioQueue, Apple!QueuedFrames
  <2>2. returning' \in BOOLEAN /\ aplaying' \in BOOLEAN
    BY <1>1 DEF Apple!AudioQueue, Apple!Stop
  <2>3. QED
    BY <1>1, <2>1, <2>2 DEF Apple!AudioQueue
<1>2. ASSUME \/ \E s \in Slots : Apple!CallbackFrees(s)
             \/ Apple!CallbackClears \/ Apple!AudioReset \/ Apple!AudioDestroy
      PROVE  Apple!TypeOK' /\ SlotChosen'
  BY <1>2
  DEF Apple!CallbackFrees, Apple!CallbackClears, Apple!AudioReset, Apple!AudioDestroy,
      Apple!Stop, Apple!callVars
<1>3. CASE Apple!TakeSlot
  BY <1>3 DEF Apple!TakeSlot
<1>4. CASE Apple!Enqueue
  <2>1. osq' \subseteq Slots /\ apc' \in {"mark", "start"} /\ slot \in Slots
    BY <1>4 DEF Apple!Enqueue
  <2>2. QED
    BY <1>4, <2>1 DEF Apple!Enqueue
<1>5. CASE Apple!MarkUsed
  BY <1>5 DEF Apple!MarkUsed
<1>6. CASE Apple!Start
  BY <1>6 DEF Apple!Start
<1>7. QED
  BY <1>1, <1>2, <1>3, <1>4, <1>5, <1>6 DEF Apple!Next

\* Every variable of the implementation that is linked in keeps its type, on every
\* platform: the buffers' fill levels stay within what the buffers hold.
THEOREM AudioTypeCorrect == Spec => []TypeOK
<1> DEFINE Chosen == platform = "apple" => SlotChosen
           Types == TypeOK /\ PCMRuns /\ Chosen
<1>1. Init => Types
  BY InitTypes DEF Init, PCMRuns, SlotChosen, ALSA!Init, Apple!Init
<1>2. ASSUME Types, IInv, IInv', [Next]_vars
      PROVE  Types'
  <2>1. CASE Next
    <3>1. platform' \in Platforms /\ resets' \in 0..MaxResets
      <4>1. resets' = resets \/ (resets < MaxResets /\ resets' = resets + 1)
        BY <2>1 DEF Next, Reset, Queue, GoOn, Device
      <4>2. resets \in 0..MaxResets /\ MaxResets \in Nat
        BY <1>2, SizesAssumption DEF TypeOK
      <4>3. resets' \in 0..MaxResets
        BY <4>1, <4>2
      <4>4. QED
        BY <1>2, <2>1, <4>3, StepOfPlatform DEF TypeOK
    <3>2. platform = "android" => Android!TypeOK'
      BY <1>2, <2>1, StepOfPlatform, AndroidTypes DEF TypeOK, IInv
    <3>3. platform = "web" => Web!TypeOK'
      BY <1>2, <2>1, StepOfPlatform, WebTypes DEF TypeOK
    <3>4. platform = "alsa" => ALSA!TypeOK' /\ (pcm' = "running" => hw' > 0)
      BY <1>2, <2>1, StepOfPlatform, ALSATypes DEF TypeOK, PCMRuns
    <3>5. platform = "wasapi" => WASAPI!TypeOK'
      BY <1>2, <2>1, StepOfPlatform, WASAPITypes DEF TypeOK, IInv
    <3>6. platform = "apple" => Apple!TypeOK' /\ SlotChosen'
      BY <1>2, <2>1, StepOfPlatform, AppleTypes DEF TypeOK
    <3>7. QED
      BY <2>1, <3>1, <3>2, <3>3, <3>4, <3>5, <3>6, StepOfPlatform DEF TypeOK, PCMRuns
  <2>2. CASE UNCHANGED vars
    BY <1>2, <2>2
    DEF vars, TypeOK, PCMRuns, SlotChosen, Android!TypeOK, Web!TypeOK, ALSA!TypeOK, WASAPI!TypeOK,
        Apple!TypeOK, androidVars, webVars, alsaVars, wasapiVars, appleVars
  <2>3. QED
    BY <1>2, <2>1, <2>2
<1>3. QED
  BY <1>1, <1>2, IInvHolds, PTL DEF Spec

-----------------------------------------------------------------------------
\* No WASAPI context without a client is called through, and no buffer that Apple's
\* audio queue has is written, whatever fails and whenever callbacks come.
THEOREM AudioBufferIsOurs == Spec => []BufferIsOurs
<1>1. IInv => BufferIsOurs
  BY DEF IInv, WASAPIInv, BufferIsOurs
<1>2. QED
  BY IInvHolds, <1>1, PTL

\* On Android, in the browser and with ALSA playback begins only with the minimum
\* queued, and what reached the minimum is not held back.
THEOREM AudioStartsPrimed == Spec => StartsPrimed
<1> DEFINE Primed == /\ platform = "android" => Android!StartsPrimed
                     /\ platform = "web" => Web!StartsPrimed
                     /\ platform = "alsa" => (ALSA!NotWithheld)'
<1>1. ASSUME IInv, IInv', [Next]_vars
      PROVE  [Primed]_vars
  <2> SUFFICES ASSUME Next PROVE Primed
    BY <1>1
  <2>1. platform' = platform
    BY StepOfPlatform
  <2>2. CASE platform = "android"
    <3>1. \/ \E n \in Counts : Android!AudioStart(n)
          \/ Android!AudioReset \/ Android!AudioQueue \/ Android!AudioClose
          \/ Android!AudioCallback
      BY <2>2, StepOfPlatform DEF Android!Next
    <3>2. size \in Nat /\ Want \in Nat /\ Want > 0
      BY <1>1, SizesAssumption DEF IInv, AndroidInv
    <3>3. ASSUME \/ \E n \in Counts : Android!AudioStart(n)
                 \/ Android!AudioReset \/ Android!AudioClose
          PROVE  Android!StartsPrimed
      <4>1. ASSUME NEW n \in Counts, Android!AudioStart(n)
            PROVE  Android!StartsPrimed
        <5>1. size' = size /\ playing' = playing
          BY <4>1 DEF Android!AudioStart
        <5>2. size > 0 => size # 0
          BY <3>2
        <5>3. QED
          BY <5>1, <5>2 DEF Android!StartsPrimed
      <4>2. ASSUME Android!AudioReset PROVE Android!StartsPrimed
        BY <4>2 DEF Android!StartsPrimed, Android!AudioReset
      <4>3. ASSUME Android!AudioClose PROVE Android!StartsPrimed
        <5>1. size' = size /\ playing' = playing
          BY <4>3 DEF Android!AudioClose
        <5>2. size > 0 => size # 0
          BY <3>2
        <5>3. QED
          BY <5>1, <5>2 DEF Android!StartsPrimed
      <4>4. QED
        BY <3>3, <4>1, <4>2, <4>3
    <3>4. ASSUME Android!AudioQueue PROVE Android!StartsPrimed
      <4>1. playing' = ((playing /\ size # 0) \/ size' >= MinBuffer)
        BY <3>4 DEF Android!AudioQueue
      <4>2. QED
        BY <4>1 DEF Android!StartsPrimed
    <3>5. ASSUME Android!AudioCallback PROVE Android!StartsPrimed
      <4>1. playing /\ size >= Want
        BY <3>5 DEF Android!AudioCallback
      <4>2. size # 0
        BY <3>2, <4>1
      <4>3. QED
        BY <4>1, <4>2 DEF Android!StartsPrimed
    <3>6. Android!StartsPrimed
      BY <3>1, <3>3, <3>4, <3>5
    <3>7. QED
      BY <2>2, <3>6
  <2>3. CASE platform = "web"
    <3>1. \/ \E n \in Counts \cup {0} : Web!AudioCall(n)
          \/ Web!MutexLock \/ Web!StageFrames \/ Web!PostQueue \/ Web!AudioDestroy
          \/ Web!NodeStart \/ Web!ProcessTryLock \/ Web!ProcessCopy \/ Web!ProcessRender
      BY <2>3, StepOfPlatform DEF Web!Next
    <3>2. Web!StartsPrimed
      BY <3>1
      DEF Web!StartsPrimed, Web!AudioCall, Web!MutexLock, Web!StageFrames, Web!PostQueue,
          Web!AudioDestroy, Web!NodeStart, Web!ProcessTryLock, Web!ProcessCopy,
          Web!ProcessRender
    <3>3. QED
      BY <2>3, <3>2
  <2>4. CASE platform = "alsa"
    BY <1>1, <2>1, <2>4 DEF IInv, ALSAInv
  <2>5. QED
    BY <2>2, <2>3, <2>4
<1>2. QED
  BY IInvHolds, <1>1, PTL DEF Spec, StartsPrimed

\* On Android and in the browser no more than the maximum is ever buffered.
THEOREM AudioLatencyBounded == Spec => []LatencyBounded
<1>1. IInv => LatencyBounded
  BY DEF IInv, AndroidInv, WebInv, LatencyBounded, Android!Bounded
<1>2. QED
  BY IInvHolds, <1>1, PTL
=============================================================================

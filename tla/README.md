# libmatoya in TLA+

TLA+ models of the parts of libmatoya that are hard to test: its concurrency
primitives, the queue and the thread pool built on them, asynchronous HTTP, audio
playback, WebSockets, graphics and controllers. TLC checks the models on small
instances; TLAPS proves the safety properties of the queue, the reader-writer
lock, asynchronous HTTP, audio and WebSockets, and all but two of those of
graphics and controllers (`DriverSilent`, `AxesInPlace`), for every instance
(section 5).
`PROJECT.json` lists the components, the runs, which definition stands for which
lines of `src/`, the hazards, the findings and the theorems.

    tlc -workers 2 -config MCQueue.cfg MTYQueue.tla     # a run
    tlapm MTYQueueProofs.tla                            # the proofs of a module

## 1. The system

libmatoya is a C library for applications that need a window, a GPU, input,
sound and a network on Windows, macOS, iOS, Android, Linux and in a browser.
`matoya.h` is its one interface. Code shared by all platforms is directly in
`src/src`; `unix/`, `unix/apple/`, `unix/linux/`, `unix/web/` and `windows/` hold
the implementations.

| component | state | operations | who calls it | hard behaviour | correct when |
|---|---|---|---|---|---|
| Waitable (`thread.c`) | flag, mutex, condition variable | Wait, Signal | queue, applications | wakeup against wait, several waiters | no signal is lost; who waits without a timeout does not give up |
| Queue (`queue.c`) | ring of slots with an atomic state each, two positions, push mutex, waitable | GetInputBuffer, Push, PushPtr, GetOutputBuffer, GetLastOutputBuffer, Pop, PopPtr, Flush, GetLength | any producers, one consumer that takes no lock; web views, applications | the lock-free check and the sleep after it, dropping while filling | buffers are exclusive, order is kept, nothing is lost, doubled or freed twice, the consumer wakes up |
| Thread pool (`thread.c`) | per slot: mutex, status, opaque, detach callback, thread | Dispatch, Detach, Poll, Destroy | async HTTP, applications | a detach against the end of the function, joins under a lock | each task is cleaned up once, slots come back, Destroy ends |
| Async HTTP (`async.c`) | the global pool, a handle per caller, heap state per request | Create, Request, Poll, Clear, Destroy | applications | stale handles, full pools, destroying what runs | no state is used after it was freed, none leaks |
| RW lock (`thread.c`) | native lock, `yield` counter, a record per thread | Reader, TryReader, Writer, Unlock, Destroy | applications | recursion, upgrade, starvation | exclusion, records agree with the lock, writers get in |
| Global lock (`thread.c`) | table of native locks, index that is made on first use | Lock, Unlock | `async.c`, dynamic loaders | first use by two threads | made once, used after it was made |
| Audio (5 platforms) | frames waiting, playing, flushing, the device's own buffer | Create, Queue, Reset, GetQueued, Destroy | one thread per context, the device's thread | callbacks between any two steps, underruns, device changes | latency bounded, starts primed, recovers, no buffer shared with the device |
| WebSocket (`ws.c`, `ws.m`) | connection, frame parser, ping and pong times, close code | Connect, Read, Write, Destroy | applications | fragments, control frames between data, timeouts | messages are in order and none is lost, each is read as a whole where fragments are joined, a dead peer is noticed |
| Web main thread (`matoya.js`, `matoya-worker.js`) | sync words, object tables, workers | messages, `mty_wait`, `mty_signal` | every worker | a signal before the wait, two signals | no worker sleeps for ever, answers go to who asked |
| Web views (`swebview.c`, `webview.c`, `webview.m`) | ready, visible, queue of early messages | Navigate, SendText, Show, callbacks | `app.c`, the page | messages before the page is ready | in order, none lost below the limit |
| Graphics front end (`app.c`) | API, context, device, layers, UI textures per window | SetGFX, DrawQuad, DrawUI, SetUITexture, Present | the render thread, the main thread | device loss, fallback, locking | nothing of an old device is used with a new one, nothing is left behind |
| Graphics back ends (`gfx/`, `d3d*`, `metal*`) | swapchain, command list, planes, the UI's buffers, the vertical blanks still owed | create, render, present, resize, destroy of each kind of object | the front end | lost surfaces and devices, a step of many that fails, objects that commands still use | the driver has nothing to complain of, a frame shows one image |
| App and windows (`app*.c`, `app.m`) | window table, main loop, activation, grabs | Create, Destroy, Run, events | the application, the OS | life cycle against callbacks | events only for windows that exist; grabs are released |
| Controllers (`hid/`, `hidw.c`, `xip.h`, `macosx/hid.c`, `evdev.c`, `android/app.c`, `web/`) | tables of devices by handle, id and slot, the state of their drivers, the last event of each | arrival, removal, report, poll, rumble | the OS, the main loop | handshakes, hot plug, ids that are used again, changes nobody reads | connect and disconnect alternate, the program comes to know where each control is |
| Hash, list, JSON, thread-local heap, log | data | get, set, pop, iterate, parse | everywhere | iteration while popping, limits | equal to a map, a sequence, a tree |

Interaction: `async.c` calls the thread pool under its own global lock; the pool
calls back into `async.c` to free a request's state, from whichever of two
threads is last. The queue calls the waitable, from producers under their mutex
and from the consumer under none. Audio contexts share memory with a callback
thread (Android, Apple), an audio worklet (web), the PCM (ALSA) or, through one
global flag, with each other (WASAPI). A WebSocket shares its buffer with
callbacks of the OS (WinHTTP, NSURLSession, the page). `app.c` dispatches a
window's drawing to one of five back ends through tables of functions; Android's
surface comes and goes on another thread, under one lock. Controllers reach the
application through a queue of the OS or of the library, are decoded by a driver,
and become events that the application calls the program with.

## 2. The modules

| module | models | uses |
|---|---|---|
| `Waitable` | `MTY_Waitable` as a record, the condition variable's sleepers and wakeups | |
| `BoundedFifo` | what the queue promises: a bounded FIFO whose consumer may skip to the newest | |
| `MTYQueue` | `queue.c`, every shared access a step | extends `Waitable`, implements `BoundedFifo` |
| `MTYQueueProofs` | theorems about it: buffers and wake-ups, then the order of messages | `MTYQueue`, `TLAPS` |
| `ThreadPool` | `MTY_ThreadPool`, actions that a caller composes | |
| `HttpAsync` | `async.c` over the pool | extends `ThreadPool` |
| `HttpAsyncProofs` | theorems about both | `HttpAsync`, `TLAPS` |
| `RWLock` | `MTY_RWLock` over the native lock | |
| `RWLockProofs` | theorems about it | `RWLock`, `TLAPS` |
| `AudioAndroid`, `AudioWeb`, `AudioALSA`, `AudioWASAPI`, `AudioApple` | one implementation of `MTY_Audio` each | |
| `Audio` | the five behind one interface | instantiates them |
| `AudioProofs` | theorems about it | `Audio`, `TLAPS` |
| `WebSocketPeer` | the server and the caller of a WebSocket | |
| `WebSocketLinux`, `WebSocketWindows`, `WebSocketApple`, `WebSocketWeb` | one implementation of `MTY_WebSocket` each; Linux over TCP and TLS, and Android with it | extend `WebSocketPeer` |
| `WebSocket` | the four behind one interface | instantiates them |
| `WebSocketProofs` | theorems about it: types, callbacks, messages are read in order, whole where fragments are joined, none is lost, a live server is not given up | `WebSocket`, `TLAPS` |
| `GfxDriver` | what back ends share: owners, objects, commands, the errors of a driver's debug layer | |
| `GfxVk`, `GfxD3D12`, `GfxD3D11`, `GfxGL`, `GfxMetal` | context, renderer and UI of one back end | extend `GfxDriver` |
| `Graphics` | `app.c`: the calls of a window, over the back ends | extends them |
| `GraphicsProofs` | theorems about it: types, frames, blanks | `Graphics`, `TLAPS` |
| `GraphicsLifetimes` | theorem: what a back end made is destroyed | `GraphicsProofs` |
| `HidUtils` | `hid/utils.c`: events, axes, repetitions | |
| `HidDrivers` | `hid/hid.c` and the drivers of PlayStation, Xbox, Switch, Stadia and other controllers | extends `HidUtils` |
| `HidWindows`, `HidMac`, `HidEvdev`, `HidAndroid`, `HidWeb` | how a platform finds, reads and drives controllers, with its application | extend `HidDrivers` or `HidUtils` |
| `Controllers` | a program, its platform, and the controllers | instantiates them |
| `ControllersProofs` | theorems about it: tables agree, events come in order, what `mty_hid_map_axes` computes | `Controllers`, `TLAPS` |
| `MC*` | instances for TLC; the runs of `MTYQueue`, `RWLock`, `Audio` and `WebSocket` need none | |

How the models correspond to the code:

* A critical section that does not block is one step. A thread that reads or
  writes shared memory outside of one takes a step for each access. A call that
  blocks inside a critical section (the join in `MTY_ThreadPoolDispatch`) holds
  the modelled mutex across steps.
* Program counters (`pc`, `ppc`, `cpc`, `apc`, `at`) say where a call is. Actions
  have the name of the function, with a suffix for the part of it.
* `CondWait` may return spuriously, and a signal wakes one sleeper of the OS's
  choice. A negative timeout never ends; any other may end at any time.
* `HttpAsync`: the state of a request is a task; `cleanups` counts how often it
  was freed. The request itself succeeds or fails. The application calls
  `MTY_HttpAsyncDestroy` when its other threads are in no call, since those read
  `ASYNC_CTX` without the lock (`Quiet`, `NoDestroy`).
* `RWLock`: the native lock may refuse a try while a writer waits and may prefer
  readers; an unlock by a thread that holds nothing takes somebody's lock away.
  `WriterAfterFailedTry` says whether a thread goes on to write after a failed
  try; section 4 shows what happens then.
* Audio counts frames; the sample data is left out. The ALSA estimate of what
  the PCM has is any number up to the truth, as `avail_max - avail` allows. A
  WASAPI call may fail, and a context that uses an interface that is NULL is
  "crashed". Apple's audio queue gives buffers back in any order. A context that
  is destroyed and created again is the context as created.
* WebSockets: a message is its number and its fragments. The messages of the
  constant `Fragmented` come in two (`Fragments`): on Linux and Android as a text frame
  and a continuation, on Windows as two parts of which WinHTTP says which is the last.
  A browser and Apple's session join fragments before the library sees them, so
  there a message is one part. The server sends texts, pings, an empty text, one too
  large, a close, or falls silent or away. On Linux a record of TLS may hold two frames, of which `poll` sees
  one. A minute that passes is a step (`Tick`). `call.pc` says where the caller is.
* Graphics: an object is a field of an owner (the context, a layer's renderer, a
  plane, the UI, a texture). `has` is what the structure's fields say, `live` what
  the driver knows, `rec` the owners whose objects the recorded commands name; a
  use of what is not there, a second free, a free under commands that use it, or
  a field that is overwritten puts a word into `err`, as a debug layer would.
  A function that makes several objects may fail at each of them. A call of the
  window is one step: graphics run on one thread, and Android's surface changes
  under the lock that the call holds.
* Controllers: `s` is a record, since a call passes through four layers that each
  change a few fields. The OS's messages are in `q` (Android: `os`, then the
  library's queue `q`), `pads` are the controllers with their positions, motors and
  unanswered questions, `devices`, `rev`, `fds`, `xip` and `dedupe` the library's tables,
  `seen` what the program was told. A control is 0 or 1, or 0, 128, 255; an axis
  keeps its usage, value and where it came from. `odd` collects an event of a
  controller the program does not know, a second connect, and a use of what was
  freed. Time is a step that makes a driver's timers due (`Tick`). An effect of evdev
  lasts a second and one of a browser two, and then the motors stop by themselves
  (`EffectEnds`); what the program asked for is over with it, so `RumbleArrives` asks
  that the motors come to what the last call asked while that lasts. An Xbox
  controller's rumble is sent again every two seconds.

## 3. The runs that pass

| run | instance | states | what it shows |
|---|---|---|---|
| `queue` | 2 producers, ring of 2, 4 messages, every kind of pop and timeout | 237,000 | `BufferExclusion`, `NoLostWakeup`, `InOrder`, `FateIsFinal`, `EventuallyTaken`, `ImplementsFifo` |
| `http_async` | 2 clients, 2 threads, 3 requests | 146,000 | `CleanedOnce`, `NoUseAfterFree`, `HandleIsOwn`, `DestroyFreesAll`, `DestroyEndsEventually`, `AbandonedIsFreed` |
| `rwlock` | 3 threads, depth 2 | 6,300 | `MutualExclusion`, `RecordsAgree`, `YieldCountsWriters`, `WriterGetsIn` |
| `audio` | every platform; minimum 2, maximum 4, second 6 frames; calls of 1 or 2 frames | 62,000 | `BufferIsOurs`, `LatencyBounded`, `StartsPrimed`, `Recovers` |
| `websocket` | every implementation; two messages, the first in two fragments where the library sees fragments; two other frames | 254,000 | `MessagesRead`, `NothingLost`, `CallbacksDone`, `LivePeerKept`, `Answers` |
| `graphics` | every platform and back end; one texture, images of one and two planes, two sizes, two layers on GL | 61,000 | `DriverSilent`, `FrameWhole`, `NothingLeft`, `PresentsPaced` |
| `controllers` | every platform and driver, one to three controllers, plugged, moved, made to rumble, unfocused once or twice; an application that is made again | 88,000 | `EventsInOrder`, `AxesInPlace`, `UpToDate`, `RumbleArrives` |

Bounds. Four messages on a ring of two wrap it twice and leave every slot FULL
and EMPTY in turn; the second producer is what the push mutex is for, and a
third would wait like the second. Two clients and two slots let a slot be reused
by the other client, and three requests overflow the pool. Of three threads on
the lock two can keep it read-locked while the third waits to write, which is
the starvation `yield` is for; depth 2 is recursion, and all deeper levels do the
same. With a minimum of two frames and a maximum of four every threshold is
reached from below, hit and passed. `MaxMsgs`, `MaxTaken` and `MaxResets` are
bounds of the model, not of the code. `Retries` is 5 in the code and 1 here.
Two messages let one be behind the other, with a ping or a close between any two
fragments of the first. In graphics one texture and one layer meet every
other object; two layers are made on GL only, which shares the state between them,
and two sizes make each resize. Each case of `MCControllers` is a few controllers
with a budget of moves, unpluggings, rumbles and changes of focus: one of each
exercises a handshake, two let an id, a slot or a packet number be used again.
`Slots` is 32 in the code and 2 here, so that a third Linux controller finds
none. `FromDpadUp` are the buttons from the D-pad's first on, six here: four of the
D-pad, one behind them that is moved up and one that has no room then. The layouts of the axes are the permutations that swap in a cycle, miss
standard axes or fill the room.

Fairness. A thread that is in a call goes on (weak fairness of its steps). The
queue's consumer keeps calling; a producer need not. A request ends, since HTTP
requests have a timeout. A holder of the RW lock leaves its sections, and the
native lock does not pass a waiting writer over for ever when it becomes free
again and again (strong fairness of `WriterEnter`); whether it becomes free at
all is what the readers' yielding has to bring about. In `Audio` the caller
keeps queueing and the device keeps asking; resets are finitely many, since
nothing comes of audio that is reset all the time; the worker that is awake
gets the lock word if it finds it free again and again (the worklet has it for
a fraction of each period). In `WebSocket` the caller keeps reading and destroys
what has ended, its calls go on, callbacks that are due run, and minutes pass
(strong fairness, since a minute may end only between two calls). In `Controllers`
the application's loop and the platform's threads run, timers become due, and a
controller answers and sends what it has to; plugging, moving and rumbling need
never happen. `Graphics` has no liveness: its calls return.

What the environment may do beyond that is a constant `Faults`, empty in the
passing runs but for one. Each of its members lets one thing happen that the
code does not stand, and a property is then violated; the passing run says
that nothing else is wrong. `"joined"` (two frames in a record of TLS) the code
does stand, and the run `websocket` has it.

Each property has a mutation in the module it depends on, "A mutation of ..."
above the definition it changes, under which TLC finds the property violated: a
guard dropped, a signal forgotten, a slot looked up too late. They are used in no
specification.

Deadlock is checked except where the system may stop: an audio context that was
never queued, the bounded thread pool of `MCThreadPool`, a WebSocket that was
destroyed, and controllers that nobody moves.

## 4. Where the code differs from what it says

Five runs end in a violation. Each states a sentence of `matoya.h`.

* `queue_length` (`LengthIsItemCount`): the length of a full ring is 0, because
  it is computed from two positions that are equal again.
* `pool_detach_null` (`DetachedIsReusableNow`): a slot that was detached with a
  NULL callback while its function ran stays `MTY_ASYNC_OK`, and is never
  dispatched to again.
* `rwlock_failed_try` (`MutualExclusion`): `MTY_RWTryLockReader` sets the read flag
  also when it fails. If that thread then takes the write lock it first unlocks
  a read lock it does not hold, and two threads are inside.
* `waitable` (`OthersContinueWaiting`): a thread that waits without a timeout may
  return false, when another caller of Wait took the flag first.
* `audio_flush` (`FlushEnds`): on Android, frames that are fewer than the device
  asks for are never played, and while a flush lasts none are added; the context
  stays silent until `MTY_AudioReset`. In the run the device asks for two frames
  and three are queued. `audio` has a device that asks for one.

Other differences are hazards in `PROJECT.json` with a note: ALSA, WASAPI and
Apple resume after an overflow without waiting for the minimum; a WASAPI device
change during another one is lost; an Apple buffer whose callback comes before
`in_use` is set is lost.

The passing runs exclude what follows, by a member of `Faults` or by an exception
in the property's text.

WebSockets. On Linux and Android `MTY_WebSocketRead` gives the first fragment of a message
in fragments as a message, and reads the continuation as nothing: the opcode TEXT is
`MTY_ASYNC_OK` whatever its FIN bit says, and `WS_OPCODE_CONTINUE` is `MTY_ASYNC_CONTINUE`
(`ws.c:514-535`); where the first fragment is empty nothing is given. `matoya.h` says that
"MTY_ASYNC_OK means a message has been successfully read into `msg`". The run has such a
message and checks what is true of the code: `MessagesRead` asks for the first fragment there
and for the whole message on Windows, Apple and the web. `MessagesWhole`, which asks for the
whole message everywhere, is false on Linux and Android with a message in `Fragmented`; it is
in no run, and proved without one of the two (section 5). Apple and the web answer "done" when the close came, with messages
still waiting (`NothingLost` excludes them). On Windows a callback between the
check and the next receive is missed (`"race"`); on Apple an open after the timeout
wakes the destroyer, and the session's end finds the structure freed
(`"lateopen"`); on Android a read with a timeout of 0 sets the socket's timeout
to 0, which is for ever (`"poll"`).

Graphics, by member of `Faults`:

* `"again"`: `MTY_WindowSetGFX` after GL has drawn keeps the renderers of the context
  that is gone, since on X11 and the web GL's device is always NULL and
  `gfx_set_device(NULL)` changes nothing; from GL to Vulkan the next device change
  gives GL's structures to Vulkan's functions. Android's static context says that
  it is initialized after it was destroyed (`gl-ctx.c:122-136`).
* `"redraw"`: a frame without an image after a refresh that failed shows planes of two
  images. `"twice"`: a texture or plane that changes within a frame is freed while
  recorded commands use it (D3D12 and Vulkan).
* `"lost"`: after a fatal error a D3D core is made again and the result is not looked at
  (`d3d12-ctx.c:366-370`). `"refresh"`: Vulkan without a window, a surface or a swapchain; when Android's surface or
  swapchain fails `gfx_mutex` stays locked (`vk-ctx.c:298-303`).
  `"alloc"`: the length of the UI's buffer is stored before the buffer is made
  (`vk-ui.c:319`); and where Vulkan cannot begin its commands the image was acquired and
  its semaphore stays signaled (`vk-ctx.c:642-644`). `"map"`: Vulkan's uniforms are not
  uploaded and the render pass stays open (`vk.c:467-469`), or Direct3D 11 maps the UI's
  vertices and not its indices, and the first stay mapped (`d3d11-ui.c:227-231`). `"semaphore"`: a suboptimal image is acquired again with the
  semaphore that it has signaled.
* Vulkan keeps a plane whose upload failed (`vk.c:385`), and that call returns false: the
  plane has the format and size of the new image and not its contents. What was copied
  into a plane is not tracked.
* `NothingLeft` leaves out Metal's UI textures, which are never released
  (`metal-ui.m:213-222`).

Controllers, by member of `Faults`:

* `"lost"`: the calibration of a Switch controller is asked for once (`nx.h:401`).
* `"again"`: devices that are announced to a second window are destroyed with
  `mty_hid_destroy` (`hidw.c:355`).
* `"held"`: a controller that is pulled out while moved leaves its last event behind;
  the next one with its id is not told where it equals that.
* `"background"`: Linux drops what changes while the application is inactive
  (`x11/app.c:589`), Android what changes without one. `"unknown"`: whether a Linux
  device is a gamepad is learned from its first button.
* `"still"`, `"unready"`: an XInput controller whose first packet has the old number, or
  that is asked before XInput serves it, is not told.
* `"first"`: a PS5 controller on Windows connects when it arrives, and the first report
  initializes it a second time (`ps5.h:63-67`): a rumble that was asked for between the two
  ends, and nothing asks for it again.
* `"early"`: the page polls before there is an application, and a connect is lost.
* `"ghost"`: input after the removal makes an Android controller again.
* `"remade"`: a second application in the same worker or Android activity. The
  worker's `MTY.app` is the freed one (`web/app.c:332`), Android keeps its table.

Three things are seen without a run. In a ring of one slot
`MTY_QueueGetLastOutputBuffer` takes the only message for an older one and drops it
(`queue.c:142`), while `matoya.h:3163` says that it discards all "besides the most
recent". The Guide button of an Xbox controller with the first firmware is never told
(`xbox.h:149`). An Android key for a D-pad is undone by the next axis event
(`android/app.c:668`). A Linux controller that found no slot is not tried again
(`Served`).

## 5. Proofs

For every set of threads, every size of the ring, any number of messages and any
depth of recursion. The assumptions are the named ASSUMEs of the modules
(`QueueAssumption`, `RWLockAssumption`, `PoolAssumption`, `SizesAssumption`,
`GraphicsAssumption`): the
ring has at least one slot, the stand-in for "nobody" is no thread, and one call's
audio fits between the two thresholds, the other sizes are numbers, and layers
and textures are finitely many.

`MTYQueueProofs`: `QueueTypeCorrect`, `QueueBufferExclusion`, `QueueNoLostWakeup`.
None of the properties is inductive. The invariant `IInv` adds

* `MutexInv`: a producer in a call holds the push mutex, so there is at most one;
* `WriterSlotEmpty`: the slot it writes is EMPTY until it publishes it;
* `ReaderSlotFull`: the slot the consumer reads or releases is FULL;
* `SleeperInv`: the waitable knows the consumer as asleep exactly when it is;
* `RoomInv`: a message on its way in respects the model's bound `MaxMsgs`.

An EMPTY slot is not a FULL one, which is `BufferExclusion`. For `NoLostWakeup` the
only step that makes the consumer's slot FULL is `PushPublish`, after which that
producer still has to signal; its signal sets the flag and, if the consumer
sleeps, wakes it. There is one lemma for each action.

Its second half: `QueueInOrder`, `QueueFateIsFinal`, `QueueImplementsFifo`. The
properties name absolute slots, and `InOrder` speaks of a residue modulo the
ring's length; the invariant `RingInv` counts slots from `pop_pos` instead, with the
addition of `queue_next_pos`. The first `Held` (pushed less taken) are FULL and hold
the next tickets (`FullInv`), the others are EMPTY (`EmptyInv`) but the one that the
consumer went past and did not yet release, which lies just behind (`ReturnInv`);
the producer writes the next ticket right after the last message (`WriteInv`).
Publishing a message makes the first part longer at its end, taking one makes it
shorter at its front. `FateInv` says which messages are queued and which unsent,
`PtrInv` that a FULL slot's flag is the one its message was pushed with; from them
a fate is final. For the refinement the ring is the interval of tickets from `taken`
to `pushed` (`MappingInv`), and each step appends to it, removes its head or leaves it.
It is proved for `QueueLen > 1` (section 4).

`RWLockProofs`: `RWLockTypeCorrect`, `RWLockRecordsAgree`, `RWLockExcludes`, if no
thread takes the write lock after a failed try (`~WriterAfterFailedTry`; without
that the property is false). The invariant says that the native lock excludes,
that the records agree with it (`RecordsAgree`), and what a record may be at each
program point (`RecordInv`). Exclusion follows, since who holds the lock in its
record holds the native one. `RWLockYieldCounts` needs no assumption on tries: the
threads that wait to write are finitely many, even of infinitely many threads, and
`yield` is their number (`YieldInv`).

`HttpAsyncProofs`: `HttpTypeCorrect`, `HttpCleanedOnce`, `HttpNoUseAfterFree`,
`HttpHandleIsOwn`, `HttpDestroyFreesAll`, for any number of clients, slots and
requests (`PoolAssumption`). The states of requests are treated as owned: each that
was made is with the client that dispatches it, in one slot that is not DONE, or
freed, and never in two of these places (`TaskInv`, `SlotInv`, `PendingInv`). A slot
that is CONTINUE has a thread that runs. `HandleInv` says that a client which is not
replacing its handle has a slot of its own that is not detached, so that
nobody else detaches it; `CallInv` says how far each call has got, `DestroyInv` that
Destroy is alone and which slots it has passed. One lemma (`DetachKeeps`) covers the
three callers of `MTY_ThreadPoolDetach`, one (`FreesKeeps`) every step that frees. The
theorems rest on the clients' side of the contract as the model states it: no
call is under way when Destroy begins (`Quiet`).

`AudioProofs`: `AudioBufferIsOurs`, `AudioStartsPrimed`, `AudioLatencyBounded`, for any
sizes that satisfy `SizesAssumption`, any number of contexts and of Apple's buffers. `IInv`
has one part for each platform. Android's is stronger than the bound: a call above
the maximum adds nothing unless the buffer is empty, and what it then adds is
below the maximum by the assumption (`AndroidInv`). In the browser the worklet
drops what is above the maximum only while it plays; when it does not, less than
the minimum is there (`WebInv`). On ALSA the start is decided with what was
queued before an overflow's reset, which is at least what is left (`ALSAInv`). A WASAPI
context that has lost its client reports a full buffer, so `AudioQueue` finds no
room and does not call through it (`WASAPIInv`). Apple's callback clears `in_use`
only for a buffer that the audio queue gave back, and the flag that is not yet set
is the caller's own (`SlotIsOurs`, inductive as it stands). `AudioTypeCorrect` adds that
the implementation that is linked keeps its types and bounds: a step is one of that
implementation (`StepOfPlatform`), and the types need that a running PCM of ALSA has
something to play (`PCMRuns`) and that Apple's caller has a buffer when it fills
one (`SlotChosen`).

The theorems about WebSockets hold for any number of messages and of other frames;
`BoundsAssumption` only says that the two bounds are numbers. `Faults` is a constant
like the others, so a theorem without a hypothesis on it holds whatever the
environment does of what section 4 lists.

`WebSocketProofs` begins with `TypeCorrect`, for all of `Faults`. `TypeInv` adds what is on the wire
(`PeerInv`: a part of a message that is not its last is followed by its last, and
nothing that is read comes after the end), each platform's context and what a result
says of the caller; the browser needs `WebInv`, that a ws-read which was woken finds a
message. `CallbacksAreDone`, if no open comes after its timeout (`"lateopen"`; with it
the property is false): on Apple the waitable that the destroyer waits for is then set
by the session's end alone (`LateInv`).

Then `MessagesAreRead` and `NothingIsLost`, if no receive completes inside
`MTY_WebSocketRead` on Windows (`"race"`; with it a part is dropped), whichever messages are
in fragments. `MessagesAreWhole` follows where no message is in fragments, or where neither
Linux nor Android is linked; otherwise it is false (section 4). A part of message
m that the caller is given has the key 2m or 2m + 1, anything else the key 0, a
continuation in a byte stream included. `SafeInv` says, for each platform,
that what was received and not read, followed by what is on the wire, has each key of
the messages after the last one read, once and in order (`Backlog`); what was received
is nothing for a byte stream, a buffer with half a message, a whole one or one that is too
large on Windows, the handler's message on Apple, and the list of messages in the
browser. Sending appends the next keys, a read takes the least; when the end of the
connection is the first frame there are no keys left, which is `NothingLost`.

Also there: `LivePeerIsKept`, the action property `LivePeerKept`, for all of
`Faults`. While a ping is unanswered or its pong is on the wire, `last_pong` is at most two
minutes older than `last_ping`, and else not older (`AgeLive`): so neither is more than
three minutes old when `MTY_WebSocketRead` looks. It rests on the pong being read within
the minute after the one it came in, which on Linux is a matter of TLS: `poll` does
not see a frame that libcurl has decrypted already, but those came in one record with
a frame that was read (`TlsLive`), and a pong begins a record (`WireLive`).

`GraphicsProofs`: `GraphicsTypeCorrect`, `PlanesOfOneFrame`, `BlanksAreWaitedFor`, on
every platform and back end, for any layers, textures, images and intervals. A call
of a window is one step, but hundreds of operators deep; so the invariant, `Good`, is
one that holds between any two of them, and each operator has a lemma: from the
driver's (`DriverGood`) over those of a back end to the calls. `Good` says which back
end is in use and whether `gfx_mutex` is held (`Off`, `On`), and of what format and size
each plane is, q: an operator of the driver leaves q alone, a plane that was loaded
is `With` its image, a renderer that is destroyed forgets its planes, and when all
of a frame was loaded q is `Whole`, which is what the draw looks at (`LoadedShown`).
`PlanesOfOneFrame` needs that no frame is repeated after one that failed (`"redraw"`),
`GraphicsTypeCorrect` that Vulkan finds a window and a swapchain (`"refresh"`);
both are false otherwise. `gfx_set_device` destroys every layer and every texture with a
fold. The library's induction theorems cannot be instantiated, but numbers are
well-founded: the least place where the fold would leave the invariant has one before
it, where it does not (`Least`, `FoldKept`).

`GraphicsLifetimes`: `NothingIsLeft`, on every platform and back end, for any layers and
textures and whatever fails: a window without graphics has no structure, no object of
the driver and no reference to Vulkan's library. `NothingLeft` alone is far from inductive:
that a destructor frees all there is depends on what each constructor made before it
failed. The invariant, `Lifetimes`, describes a state by a frame f: which back end is in
use, which structures are there, how many references to the library are held, whether there
is a device. Between any two operators, those of one constructor included, each object is
one its owner has a field for, and the owner belongs to a structure of f (`Fits`); so a
structure's destructor, which frees its fields by name, leaves nothing of it (`GoneFits`),
and one that was made only in part is destroyed like a whole one (`Standing`). Between two
calls f is `Settled`: the back end has a context, there are layers, a UI and textures only
with a device (or desktop GL, which has none of its own), Vulkan's textures only with its
UI, and the library has one reference for each of its users (`Referenced`), which is 0 when
there is none. There is a lemma on each operator of the five back ends, then one for each
call; the fold of `gfx_set_device` is by the same argument as above, with the structures
that are gone so far (`Taken`). The theorem needs that the back end is not changed once
desktop GL has drawn (`"again"`): there the code keeps the renderers of the context that it
destroys, which section 4 lists as a finding.

`ControllersProofs`: `TypeCorrect` and `EventsAreInOrder`, for any controllers on any
platform, however often they are plugged in and out, moved and made to rumble. On
Windows, macOS and Linux the invariant is `DeskInv`. The tables by handle and by id are
inverses, and so is Linux's table of slots (`Paired`, `Slotted`); ids are given out in
order, so a new one is not in use (`Numbered`); the program knows of each device but
XInput's (`Tabled`); a message is of a controller (`Mailed`). A handler goes through
states where that is not true of the device it is at work on, which `Tabled` leaves
out: D has no driver's state yet, A was not announced. Windows trusts an arrival, so
there a second one of a controller needs a removal before it in the queue, and so does one
of a controller that is a device already (`Ordered`). On Android and in a page the
invariant is `Else`: the events in Android's queue, applied to what the program was told,
give what the library has (`Announces`), and a page has at most one message of each
gamepad on its way, which is a connect or a disconnect exactly when what the program
knows and what the page polled last call for it (`Spoken`). The machine of a Switch
controller, the reports of Linux and the slots of XInput and of a page are folds; they are
by the least step that would leave the invariant, as above.

`TypeCorrect` needs that a window that listens is made once (`"again"`), `EventsAreInOrder`
that besides no browser polls early and no application is made again in the same
activity or worker (`Sane`); with any of the three the property is false. It also
needs room in Android's queue of 500 events for all that happens: `app_push_event` writes
where there is no room when the program does not keep up (with `QueueLen` 3 TLC finds it),
and nothing in the code bounds what a program leaves there. The other members of `Faults`
may all happen.

`MapAxesInPlace` is about `mty_hid_map_axes` for every layout with room for six more axes:
after it each standard axis is at its place, its value comes from an axis of that usage
if there is one, and every other axis is still there. The drivers of known controllers
report six of `MTY_CAXIS_MAX` (16) axes; a generic controller with more than ten has no
such promise, since `hid_move_value` does nothing once 16 are there
(`utils.c:117`). The two loops are folds. A swap keeps what is
right (`Swapped`), six swaps at a place either settle it or put all six places right,
which is counted (`RightGrows`), and what `hid_move_value` displaces goes to the end
(`Moving`).

Only model-checked: every liveness property (`EventuallyTaken`,
`DestroyEndsEventually`, `AbandonedIsFreed`, `WriterGetsIn`, `Recovers`, `Answers`,
`UpToDate`, `RumbleArrives`), which rest on fairness; the pool under clients that give no
callback (its run is a violation); `DriverSilent` of graphics; `AxesInPlace` of
controllers. `MapAxesInPlace` is the heart of that; what is missing is that each driver
and platform passes the axes on as they are until the program sees them.

## 6. What is left

1. Theorems about `DriverSilent`, which needs of each owner which of its fields are set
   at every step of a call, and what the commands that were not executed yet refer to; and
   `AxesInPlace`, from `MapAxesInPlace` and the axes that each driver reports.
2. The synchronous calls of a web worker (`mty_wait`, `mty_signal`), two workers and the
   main thread.
3. The application of each platform beyond what controllers need: keyboard, mouse,
   grabs, relative mode. Web views: readiness of the page and its early messages.
4. Global locks; Apple's and Android's HTTP back ends below `HttpAsync`.

## 7. What is not modelled

Image, compression, crypto and resampling are numerical or calls of an OS
library. Files, dialogs and the clipboard are I/O. Shaders, draw calls and the
viewport are data for the GPU. Dynamic loading of libraries is one call under
the global lock; of Vulkan's only the count of users is modelled. TLS, DTLS and the
HTTP upgrade of a WebSocket are protocols of the OS library or one exchange that
succeeds or fails. JSON, lists and the buckets of the hash are sequential data
structures; their recursion and their strings are better served by tests. Of the
controllers, device names, raw reports for the program and the checksums of
Bluetooth reports are left out. `MTY_WindowDestroy` does not call
`MTY_WindowSetGFX(MTY_GFX_NONE)`, so a window with graphics is destroyed by a
program that has called it; `Graphics` ends there.

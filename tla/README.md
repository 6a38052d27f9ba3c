# Thunderbrew in TLA+

Thunderbrew is a reimplementation of a game client in C++: it opens a window and a
graphics device, loads an interface of XML and Lua, shows models, logs on to a logon
server, fetches the list of realms and connects to one ("it does not fully connect to
a realm server", says the repository's README.md). This directory describes the parts
of it whose correctness depends on the order in which things happen: threads,
callbacks, messages, nested calls. Paths below are relative to `src/src/`.

To check a configuration: `tlc -workers 2 -config WowNet.cfg MCWowNetPair` (section 4 names
the module and the configuration of each run); to check proofs: `tlapm WowNetProofs.tla`
(section 5 names the modules that hold proofs). `PROJECT.json` holds, for every definition,
the lines it was translated from, and for every property that a run checks a mutant (an
operator marked "wrong variant" in the modules) that makes it fail.

- [1. The system](#1-the-system)
- [2. Plan](#2-plan)
- [3. The modules and the code](#3-the-modules-and-the-code)
- [4. Runs, bounds and fairness](#4-runs-bounds-and-fairness)
- [5. Proofs](#5-proofs)
- [6. What the runs found](#6-what-the-runs-found)
- [7. What is not modelled](#7-what-is-not-modelled)

## 1. The system

### Threads

| thread | started by | runs |
|---|---|---|
| main | the program | the event scheduler (one scheduler thread, run on the main thread): input, CGlueMgr::Idle, AsyncFileReadPollHandler, NETEVENTQUEUE::Poll, drawing |
| network | WowConnectionNet::Start | PlatformRun: scan the connections, select, hand ready ones to workers |
| network worker | InitOsNet(..., 1, ...) starts one | services a connection and calls its response back |
| timer, one per logon link | Grunt::Timer::Initialize | calls ClientLink::Call about ten times a second |
| GL worker, on macOS | GLDevice | GLWorker::Worker: executes uploads and deletions with an OpenGL context of its own |
| disk | AsyncFileReadInitialize starts one queue and thread | reads files into buffers |

### Components

| component | state | operations | works with |
|---|---|---|---|
| Connections, `net/connection/WowConnection*` | per connection: m_connState, m_sock, m_refCount, m_serviceCount, m_lock, response references; shared: m_connectionList, the wakeup pipe, the array of select's connections; per worker: serviceConn, event; m_workerSem | Connect, Disconnect, SetState, Send; PlatformRun, SignalWorker; RunWorker, Service, DoWrites/DoReads/DoExceptions/DoDisconnect | calls WowConnectionResponse (ClientLink, NetClient) back from the worker; those call Send and Disconnect |
| Logging on, `net/grunt`, `net/login`, `glue/CGlueMgr` | ClientLink::m_state, m_critSect, m_accountPassword; Login's data; CGlueMgr's m_loginState, m_loginResult, m_authenticated, m_idleState; s_loginObj | LoginServerLogin, PollLoginServerLogin, StatusDialogClick; WCConnected, the CmdAuth* handlers; LogonNewSession (timer) | connections below, CGlueMgr above; hands the session key to the realm connection |
| Realm login, `net/connection/{NetClient,RealmConnection,ClientConnection}` | m_netState, the event queue and its m_critSect, encryption keys; m_statusComplete, m_statusResult; m_realmList | GetRealmList, ChangeRealm, Cancel, PollStatus; HandleRealmData, Connect; WCConnected, WCMessageReady, AddEvent, Poll, HandleAuthChallenge, HandleAuthResponse | the logon link delivers the list, a connection of its own the realm server's messages |
| File loading, `async` | read, post, free lists; per object isCurrent, isRead, isProcessed, priority, callback; s_asyncWaitObject | AsyncFileReadObject, -Thread, -Poll, -Wait, -DestroyObject | CM2Shared's callbacks, which queue and wait again |
| Models, `model` | CM2Shared: asyncObject, m_m2DataLoaded, m_skinProfileLoaded, status | CM2Cache::CreateShared, LoadSucceededCallback, Initialize, SkinProfileLoadedCallback, CM2Model::WaitForLoad | file loading; scene, rendering |
| Input, `event/Input`, `event/Queue` | ring of OS events (s_queueHead, s_queueTail), s_metaKeyState, s_buttonState; the context's key and button lists | OsQueuePut/Get/SetParam, ProcessInput, PostKeyDown ... PostFocus, UpdateSyncKeyState, Dispatch | the platform puts events, handlers (CSimpleTop, Console, Lua) get them |
| Event scheduler, `event/{Scheduler,Context,Synthesize,Timer}` | contexts by weight, scheduler threads, timers, handler lists | CreateContext, SchedulerThreadProcProcess, GetNextContext, PutContext, EventRegister | everything on the main thread |
| Render states, `gx/CGxDevice`, `gx/d3d` | m_appRenderStates, m_hwRenderStates, m_deviceStates, m_dirtyStates, m_pushedStates, m_stackOffsets, m_context | RsSet, RsPush, RsPop, IRsSync, DeviceWM, ScenePresent | interface, models, fonts and console set states; Direct3D or OpenGL takes them |
| OpenGL devices, `gx/glsdl`, `gx/gll` | m_States, the context's own state, textures with mipmaps and bindings, framebuffers; on macOS GLWorker's command list | Draw, SceneClear, ScenePresent, TexDestroy, IStateSync, Resize, GLMipmap::Unmap, WaitOnGLObjects | CGxDevice above; textures and buffers |
| Buffers, `gx/Buffer`, `gx/glsdl/GLBuffer` | pools and their CGxBuf, the storage of each GLBuffer, vertex arrays | BufStream, IBufLock, IBufUnlock, PoolSizeSet, Draw | interface, text, models, console, cursor |
| Textures, `gx/Texture` | the cache (CTexture by file name), handles, s_mipBits | TextureCreate, TextureCreateSolid, PumpBlpTextureAsync, CSimpleTexture::SetTexture | regions of the interface, models; the device fetches the levels |
| Script events, `ui/FrameScript*` | per event: listeners, those waiting to be registered or unregistered, pendingSignalCount | RegisterScriptEvent, UnregisterScriptEvent, FrameScript_SignalEvent | Lua handlers that register, unregister and signal |
| Frames, `ui` | CSimpleTop's strata, event queues, focus, captures; per frame level, visibility, listeners; per level its batches | mouse and key handlers, Show, Hide, SetFrameLevel, OnLayerUpdate, OnLayerRender | input, script events, render states; handlers that call back |
| Edit boxes, `ui/CSimpleEditBox` | m_text, m_textInfo, cursor, m_visibleLen, dirty bits, s_currentFocus | OnLayerChar, OnLayerKeyDown, Insert, DeleteForward, DeleteBackward, SetKeyboardFocus, OnLayerUpdate | keyboard, font strings, scripts |
| Layout, loading of XML, `ui` | rectangles, nodes | sequential | interface |
| Realm list screen, `glue/CRealmList` | categories and their realms | UpdateList, SetPreferredInfo | the realm list of ClientConnection |
| Console, `console`; DBC files, `db`; sound, `sound`; cursor, `cursor`; start-up, `client`, `app`; utilities, `util`, `math` | tables, files | sequential | - |

`lib/` and `vendor/` hold third-party code (the submodules are empty); it is modelled,
where it matters, by how `src/` uses it: locks, semaphores and events of storm, sockets
and select, and Direct3D.

### What is hard here, and what would make it correct

- **Connections.** Three kinds of thread write a connection's state, and only some of the
  steps take its lock. Correct means: at most one worker services a connection; no
  assertion fails; a reference is given back exactly once; a change of state never waits
  for select's 30 seconds; list, socket and state agree once calls have ended; a
  Disconnect is carried out.
- **Logging on.** Main thread, worker and timer each advance the dialogue when they see a
  state another one wrote, over fields without a lock. Correct means: each command goes
  out once and in order; what is reported never goes back; the realm connection is
  opened on an accepted login, with its key; every login ends.
- **Realm login.** One status is written by two threads and polled by a third party; the
  player may cancel and ask again while a list is on its way. Correct means: the program
  never ends in NetClient's fatal branch; the challenge is answered; success is shown of
  a connection that is up; no request hangs.
- **File loading.** Objects wander between two threads' lists and are used again at once.
  Correct means: an object is in one place; its buffer is left alone while it is read; a
  model is either settled or on its way; a wait ends.
- **Input.** What is held is recorded twice, behind different filters, with a ring between
  that may drop events. Correct means: the records agree, and nothing stays held.
- **Render states.** A stack that saves lazily, above two caches of what the device has, on
  a device that can be reset. Correct means: a pop restores what the push found, and what
  is drawn is drawn with the current states.
- **OpenGL devices.** The device keeps an account of what it told OpenGL and leaves out what
  would change nothing; clears, blits, uploads and deletions change OpenGL beside it, on
  macOS from a second thread. Correct means: the account is true, a draw sees what drawing
  code set, nothing is uploaded after its deletion, a wait for the worker ends.
- **Buffers and textures.** Parts of streams are handed out again, levels are fetched through
  an array of pointers that all textures share. Correct means: a draw reads what its own
  code wrote, a texture shows its own levels, a file is there once.
- **Interface.** A handler may show, hide or move frames in the middle of what called it.
  Correct means: nothing hidden is drawn, the focus is the topmost frame under the mouse,
  no frame that is gone captures anything.
- **Edit boxes.** Text, the array of character starts, the part shown and what scripts were
  told are updated at different times. Correct means: they agree when nothing is dirty.
- **Script events.** A list is changed by the handlers that are called from it, and global
  variables are saved on a stack that arguments share. Correct means: the last call to
  register or unregister decides; a script sees its own object.
- **Event loop.** Handlers are registered and removed during a dispatch, and the clock wraps.
  Correct means: no handler is missed or called twice, no sleep is too long.

Every such place is listed, at its line, under "hazards" in PROJECT.json.

## 2. Plan

Done, in this order: the connection engine, on which everything that talks to a server rests
(`WowNet`); file reads and models (`AsyncFile` implementing `ModelLoading`); the input queue
(`OsQueue` implementing `DropOldestQueue`) and input dispatch (`EvtInput`, which is made of
OsQueue's operations); the logon dialogue above connections (`GruntLogin`) and the realm
login (`RealmLogin`); render states (`GxRenderState` implementing `StateStack`); the OpenGL
devices (`CGxDevice`, `GLSDLDevice`, `CGxDeviceGLSDL`, `GLDevice`, `CGxDeviceGLL`), macOS' worker
(`GLWorker` implementing `CommandQueue`), buffers and textures; frames, edit boxes and script
events; the event loop. The proofs follow the same order (section 5).

Left, in the order of what they would say:

1. Proofs: `DrawSeesStates` of `CGxDeviceGLSDL`, from the invariant that carries its account;
   the text of `CSimpleEditBox`; the order of the event loop.
2. `MessageFraming`: DoMessageReads over a stream of bytes cut anywhere, implementing a
   sequence of messages, each byte of header and prefix decrypted once.
3. The glyph cache of the fonts, the realm list's categories, console variables with their
   callbacks.

## 3. The modules and the code

In every module an action is the code between two accesses another thread can observe; a
variable has the name of the field it stands for; `pc`-like variables (`workerPc`,
`ownerPc`, `netPc`, `mainPc`) say where a thread is. Contents of messages, files and
values are abstracted to what decides the control flow.

### WowNet (`MCWowNet`, `MCWowNetPair`; `WowNetProofs`, `WowNetCounts`)

WowConnection and WowConnectionNet on the BSD socket platform.

- *State.* Per connection connState, sock ("open", "closed" while m_sock still holds the
  number of a closed socket, "none"), refCount, responseRef, serviceCount, serviceFlags,
  and who holds m_lock; `linked` is m_connectionList; `slots`, `slotCount`, `interest`
  are the locals of PlatformRun's loop, which outlive an iteration; per worker
  serviceConn, event, lock and what it is executing; workerSem; `pipe` (a byte is in it).
- *Actions.* The owner's StartConnect in nine steps; Disconnect and its
  PlatformChangeState; the network thread: OpenPipe, BeginScan, ScanConnection, EndScan,
  SelectWake, SelectReady, WalkSlot, TakeWorker, NoWorker (the semaphore wait times out
  after 500 ms), AssignWorker, ReleaseSlot, EndWalk; a worker: the wait for its event,
  Service's four flags, CheckConnect, stream and message reads, the shared teardown, the
  callback, the return of the semaphore token.
- *Peer.* What connect, getsockopt and recv return is free.
- *fault* names the STORM_ASSERT or invalid access that happened; the model then stops.
- *staleSlot* becomes TRUE when the default case of PlatformRun's switch (a linked
  connection in a state that is not selected on) counts a slot nobody filled. From then on
  the code walks whatever the slot held, and most properties are stated `~staleSlot =>`.
  `wownet_stale_slot` shows where it leads.
- The Disconnect that DoMessageReads makes for a buffer beyond 32000000 bytes cannot
  happen: a message has at most 0x7FFFFF bytes, for which the buffer doubles to 16777216.

### AsyncFile, ModelLoading (`MCResources`; `AsyncFileProofs`)

The disk thread (AsyncFileReadThread), the main thread's poll and wait, and CM2Shared's
two reads. `ModelLoading` is what callers are promised: a model goes from absent through
reading and readingSkin to loaded or failed, and WaitForLoad returns only when it is
settled. AsyncFile refines it by `StageOf`. The interesting part is address reuse: the
callback of the first read frees its object, and the skin profile's read gets the same
object from the free list while AsyncFileReadWait still waits "for" it. Left out: the
streaming mode, s_waiting and the progress counters, shutdown, models created or waited for
inside a callback, failing allocations. ASSUME: there are at least as many objects as
models (CAsyncObjects are allocated when the free list is empty).

### OsQueue, DropOldestQueue, EvtInput (`MCEvents`; `EventProofs`)

`OsQueue` is the ring of event/Input.cpp with its head, tail and wrap-around;
`DropOldestQueue` is the bounded queue it implements, which drops its oldest event when
full. `EvtInput` takes OsQueue's operations for its ring (INSTANCE) and adds what is on both
sides: the keyboard and mouse with the window's focus, ProcessInput and the Post functions,
UpdateSyncKeyState and ResetSyncState, and the kinds handlers are told. Focus is
reported on Windows only. Left out: mouse moves and mode, characters, sizes, handler lists
and their markers, SDL's text input.

### GruntLogin (`MCLogins`, `MCGruntLogin`)

One ClientLink per login; main thread (CGlueMgr's idle and the player), network worker and
the link's timer. A report writes m_loginState, m_loginResult, m_authenticated and the
data of the login one field at a time, because the main thread reads them without a lock.
`conn` and `answers` are the connection and the server. The player may cancel at any
moment; with two logins, he then logs on anew while the old link is still connected.
Left out: Battle.net login, PIN, matrix, token, survey and patch (TODOs in the code).

### RealmLogin (`MCLogins`; `RealmLoginProofs`)

From an accepted login to the realm server's answer: main thread (requests, PollStatus,
PollAccountLogin, and NETEVENTQUEUE::Poll, which holds the queue's m_critSect while it
handles events) and worker (HandleRealmData, ConnectToSelectedServer, NetClient::Connect,
WCConnected, WCMessageReady, AddEvent). `inSync` becomes FALSE when an encrypted header is
read before EnableEncryption took effect; nothing after it is understood. Left out: the
error code and operation of the status, PONG, NET_DESTROY, what the code marks TODO.
Assumed: the player changes the realm only from the realm list (the dialog is modal).

### GxRenderState, StateStack, Sublists (`MCGx`; `GxProofs`)

`StateStack` is what drawing code relies on: a value per state and a stack of complete sets
of them. `GxRenderState` is how CGxDevice does it: RsPush records only an offset,
IRsDirty saves a state when it is first changed at a depth, RsPop undoes the frame. Below,
IRsSync compares with m_hwRenderStates and DsSet with m_deviceStates, and a Reset changes
the device behind both. `Saved(i)` reads the abstract stack from the saved entries. A
device state is the set of render states it is made of (ZFUNC of DepthTest and DepthFunc);
how Direct3D values are computed is left out, and so are the master enables (no caller),
textures, transforms and streams. A push may be left over when the device is presented or
reset: ICursorDraw returns without its pop when it cannot lock its vertices (CGxDevice.cpp:404).

### CGxDevice, GLSDLDevice, CGxDeviceGLSDL (`MCGL`; `GLSDLProofs`), GLDevice, CGxDeviceGLL (`MCGLL`)

`CGxDevice` is what drawing code sets: render states, textures, shader constants, transforms.
`GLSDLDevice` is the OpenGL device below: a device is a record, a member function an operator
from the device before the call to the device after it, so that a function which calls others
is their composition in the order of the code. `d.st` is m_States, what the device believes
OpenGL to have; `d.ctx` is what OpenGL has. `CGxDeviceGLSDL` joins the two by Draw, SceneClear
and ScenePresent. `GLDevice` and `CGxDeviceGLL` are the same on macOS, where content goes to
OpenGL and textures are deleted on the worker's thread; a Draw waits for it in the middle.
`SetAlphaTestEnable` never stores what it sends (GLSDLDevice.cpp:2192), so the account leaves
out the alpha test. Left out: sizes and formats, sampler states, cube maps, programs and their
uniforms but for two constants, windows and contexts.

### GLWorker, CommandQueue (`MCGx`; `GxProofs`)

The second thread of the macOS device with its two condition variables. Before a draw the
main thread sends a GLFlush and a null command and waits; the worker signals when it comes to
the null command. pthread_cond_wait may return without a signal (`WakesUnsignalled`,
`WorkerWakesUnsignalled`). The worker looks at its list again; WaitOnGLObjects waits once
(GLWorker.cpp:112), so it then sets m_UnkA1 with commands still queued and leaves its null command
behind, and that command ends the next wait too early if it is reached while that lasts. Nothing
in the repository says that it may not, so it is no finding, and what is true is stated instead:
`CommandQueue`, which GLWorker implements, executes what is sent in that order, and who waits goes
on when all of it has been executed or while an answer to a wait that was cut short is `overdue`
- never else, and when that answer has come waits are whole again. `SettledIsDone` says the same of
the draws that do not wait at all because m_UnkA1 is set; `WaitReturns` that no wait lasts for
ever. CGxDeviceGLL (above) takes a wait for whole: its `DrawSeesStates` and `ObjectsAreSound` assume
that pthread_cond_wait returns only when signalled. Commands are numbered round and round. `Sublists` has `Without`, the sequence less some of its elements, as a recursive
function, which unlike SelectSeq can be reasoned about.

### GxBuffers (`MCGx`; `GxProofs`)

CGxBuf, CGxPool, GLBuffer and the vertex arrays, with the five kinds of code that fill buffers
and draw. A stream pool hands out its next part and gets new storage when that does not fit.
`g.failed` collects what must not happen: a draw of what its code did not write, a part handed
out while OpenGL may read it, an assertion of GLBuffer. `object` are the GLBuffers by name;
BufferAssumption has enough of them for one per pool and one per growth, and what is locked at
once fit into MaxSize bytes.

### Textures (`MCGL`)

Textures of files and colours, with the cache and the handles. PumpBlpTextureAsync has the
device fetch the levels through s_mipBits, an array shared by all textures that points into the
buffer of the file. Things the code does which the model keeps: SetTexture with the same name
keeps the old texture even if wrap, filter or mode differ; a broken file enters the cache as
"SolidTexture" and is read anew each time; a missing one becomes a green texture that is not
cached; models never close theirs; a compressed texture's levels end at a short edge of 4.
Left out: palettes (the address of their levels is read from memory nobody set), TGA files, and
what is TODO (cube maps, atlases, substitution, asynchronous creation).

### CFrameStrata, CSimpleTop (`MCEvents`)

The interface: frames in lists by stratum and level, batches of regions per draw layer
(`CFrameStrata`), and who gets the mouse and the keys (`CSimpleTop`), with buttons. All is one
thread; what makes it hard is that a handler may call back in the middle of what called it, so
the operators map the whole interface to the next one and call the handler where the code
does. A behaviour has one handler, chosen at the start, that makes one call. Some handlers leave
the interface inconsistent in the code as it is. They are in the model, and each property names
the ones that are exceptions to it (`Disturbs`, `Misplaces`, `unheard`):

| handler or call | what is wrong afterwards | still claimed |
|---|---|---|
| OnLeave that shows or levels its frame, or the one it is in, while it is being hidden | the frame is in a list of its level where it does not belong, or visible and in none; batches with it | queues, focus, captures, buttons |
| OnLeave that hides the button the mouse goes to (or what holds it) | the hidden button is lit | all else |
| OnKeyDown that hides its own frame | the hidden frame has the key (m_keydownCapture) | all else, and no other frame |
| OnMouseDown or OnClick that hides the button | it stays pushed | all else |
| UnlockHighlight of a disabled button under the mouse | it stays lit when the mouse has left | all else |

So `QueuesAreLive` (queues, focus and mouse capture) and `FocusIsTopmost` hold whatever the handler
does; `BatchesAreCurrent`, `FramesAreListed`, `KeysAreLive` and `ButtonsAreSound` hold but for these.
One handler does not return and is left out: an OnLeave that disables its own button. Frames
shown during OnLayerUpdate wait in pendingFrames, which nothing empties. Left out: moving,
resizing and dragging (never set), the wheel, alpha, scale, layout, font strings.

### CSimpleEditBox (`MCLogins`)

Typing, deleting, cursor, the text shown and the keyboard's box: a box for digits, a password
box and one of several lines with characters of more than one byte, with a limit of bytes. "|" is
typed as "||"; in front of an "n" it becomes the token of a new line with the cursor inside, and a
deletion there leaves an entry of m_textInfo wrong, so InfoIsCurrent is about boxes without pipes.
Highlights, history and hyperlinks are TODOs.
A hidden box keeps s_currentFocus, and a box of several lines shows nothing (a TODO).

### ScriptEvents (`MCEvents`; `EventProofs`)

Listeners of an event, signals within signals, and FrameScript_Execute, which saves the global
variables it sets on the Lua stack. Faults of the code are part of the model, marked by a
variable that the properties refer to: an event with arguments restores its globals from the
wrong places of the stack and takes a value from its caller (`mixed`); an inner signal's end
drops the requests of the outer one, and a listener that is removed breaks the walk
(`undone`). Left out: compiling and loading of scripts, error texts, bindings.

### EventLoop (`MCResources`)

SchedulerThreadProcProcess for the one thread and one context the client makes: the wait, the
events of a pass, the handler lists with the markers that allow them to change while they are
walked, closing. IEvtInputProcess dispatches all the input there is, also behind an OS_INPUT_CLOSE,
which closes the context only when the ring is empty, and after a handler that has closed it
(ClientPostClose); POLL, IDLE and PAINT look first. So what `ClosedIsQuiet` says is that only input
is dispatched any more, and that the pass is the last. Times are clock readings that wrap around. Timers, messages and shutdown are
TODOs; SynthesizeDestroy ends the process without calling the DESTROY handlers; an
EventPostClose from outside a pass is lost; the comment of AttachContextToThread speaks of the
highest weight where the code picks the lowest (Context.cpp:11), which one context cannot show.

### MC modules

MCResources, MCEvents, MCLogins, MCGL, MCGLL and MCGx each hold several components or several
parts of one: `part` says at the start which of them the behaviour is about, and the others stay
as they start. So the states of the parts add up instead of multiplying, and no property is
about a combination that the code does not have: the components of one module share no
variable.

## 4. Runs, bounds and fairness

| run | module, configuration | question | instance | states |
|---|---|---|---|---|
| wownet | MCWowNetPair, WowNet | are references and tokens exact, do the assertions hold, is no wakeup lost and no connection serviced twice, do list, socket and state agree? | a stream and a message connection; from the start with one worker, or established and before two; Connect once each | 1,245,691 |
| wownet_live | MCWowNet, WowNetLive | is a Disconnect carried out, m_lock always released, each reference given back, when the connection is connected anew at any moment? | 1 message connection, 2 workers, Connect twice | 59,261 |
| wownet_stale_slot | MCWowNet, WowNetStaleSlot | (violation) is a connection never handed out twice? | 3 connections, two established; 2 workers | - |
| wownet_blocking | MCWowNet, WowNetBlocking | (violation) is m_lock released on a blocking socket? | 1 stream, 1 worker | - |
| resources | MCResources, Resources | lists, flags, buffers, order of loading; refinement of ModelLoading; reads and waits end; is the event loop fair, on time, and after closing given only what is left of its input? | 2 models, 3 objects, 2 tries; a loop on a clock modulo 16, 3 input events in a pass | 42,989 |
| events | MCEvents, Events | does the ring refine DropOldestQueue; do the records of what is held agree; is nothing stale drawn or focused; do listeners and globals survive nested signals? | ring of 4; a modifier, a key, a button, ring of 3; a window with a button, a panel, one handler; two listeners | 395,001 |
| logins | MCLogins, Logins | are both dialogues in order, and do they end; do the edit boxes agree with themselves? | 1 login; 2 requests; two boxes of 2 bytes, or one of several lines and 4 bytes | 60,375 |
| grunt_login_stale | MCGruntLogin, GruntLoginStale | (violation) is the login that asks for realms accepted? | 2 logins | - |
| gl | MCGL, GLSDL | is the device's account of OpenGL true, does a draw see what was set, do textures show their own levels? | 2 textures (symmetric), 2 units, 2 constants; 6 files, 2 regions, 1 model | 65,188 |
| gll | MCGLL, GLL | the same with the worker of macOS and a window that changes size | 2 textures (symmetric), 1 unit, 3 commands | 66,002 |
| gll_freed | MCGLL, GLLFreed | (violation) is nothing uploaded after its deletion? | as gll, without the proviso Settles | - |
| gx | MCGx, Gx | does RsPop restore, is drawing done with current states, are buffers used soundly, is the worker a queue, whenever its threads wake? | 3 states of which 2 share a device state, 2 values, 2 pushes, 3 saved entries; pools of 6 and 3; 3 commands | 1,188,550 |

Why these are enough to meet the cases:

- *WowNet.* Two connections are needed for one to wait while the only worker has the other,
  for SignalWorker to time out, and for slots of two kinds; two workers for handing out one
  connection twice. The program calls Connect once for each connection object; wownet_live
  calls it twice, for StartConnect's taking down of an old socket. The third connection of
  wownet_stale_slot is needed to count a slot that still holds another. The established
  connections are a reachable state, taken to leave out the way there. Three bounds keep the
  run small and are named in MCWowNetPair: from the start the second worker gets no time
  (`SecondIsLate`), one owner connects at a time (`OneConnects`), before two workers one of the
  two connections is disconnected by its owner (`OneDisconnects`; with one worker both are).
  Every invariant of this run is also proved without these bounds (section 5).
- *AsyncFile.* Two models suffice for waiting for one while another is read and called back;
  the third object makes the free list's choice matter. ReadTries = 2 has a failed read that
  is tried again, and one that is given up (the code tries ten times).
- *EventLoop.* The clock wraps at 16 with an idle time of 1 and steps up to 2 late, so sleeps
  and passes meet the wrap; an engine, a console and an interface handler give lists in which
  a handler removes itself, another or one ahead. MaxInput = 3 has input before a quit and behind
  it; without a bound a pass that always finds more never comes to POLL.
- *OsQueue.* Size 4 has every relation of head and tail to the end of the array. *EvtInput*: a
  modifier and an ordinary key take different paths, and the ring overflows within three inputs.
- *CSimpleTop, CFrameStrata.* Parent and child under one point, and a panel that overlaps both
  in the same stratum or another, give every order of hit frames; the drawing is looked at
  without mouse and keys, once with artwork on the window and once with the button's textures.
- *ScriptEvents.* Two listeners, three scripts, four nested frames: a signal inside a signal
  with a registration in each.
- *RealmLogin, GruntLogin.* MaxRequests = 2 has one cancelled and one on its way (3 were
  checked as well: 125,007 states). *CSimpleEditBox*: 2 bytes fit on the screen and
  the buffer grows by 4, so the text is longer than what is shown and limits are met.
- *OpenGL devices.* Each part has one kind of what drawing code sets, with two values of it,
  and at most MaxDirty states waiting; a part is a slice in which all calls that touch that
  kind interfere. `Settles`, the proviso of gll, says that a texture is released only after the
  states that no more name it have been sent; gll_freed shows what happens otherwise.
- *GxRenderState.* MaxDepth = 2 nests; MaxPushed = 3 saves one state twice and another once;
  a Reset comes below one push at most (`OneLeftOver` of MCGx), any number in the proofs.
  *GxBuffers*: meshes of 1 and 3 in pools of 6 and 3 grow, wrap and exactly fill; 12 objects are
  the most that can be made. *GLWorker*: three
  commands are one executing, one waiting and one being sent. Both threads may wake unsignalled
  at any time and any number of times.

Deadlock is checked except in `logins` and `grunt_login_stale`, where the program may really
come to rest (all logins used and closed; the connection lost, whose callbacks are TODOs). A
model that stopped after a fault repeats its state (`Halted`, `Exited`).

Fairness, and what in the code justifies it:

- *WowNet.* Weak fairness of the network thread except for select returning without a
  reason; strong fairness of a worker's and an owner's steps, because they wait for m_lock
  and m_connectionsLock, which others take again and again, and the operating system's
  locks let every waiter through in the end; weak fairness of recv only if sockets do not
  block; weak fairness for the PlatformChangeState that follows in Disconnect.
  `PausingSpec` adds that the peer of a message connection pauses now and then: DoMessageReads
  reads on as long as data comes and does not look at the state, so a Disconnect waits for
  it. Nobody has to connect or disconnect, and no peer has to answer.
- *AsyncFile, EventLoop.* The disk thread runs when there is something to read, the main thread
  finishes what it does and polls on each turn of the message loop; the loop's thread runs.
- *GruntLogin, RealmLogin.* Each frame idles and polls; threads that wait for a critical
  section get it (strong fairness); a server answers what it was sent while the connection
  stands. The player has to do nothing.
- *GLWorker.* The worker runs when it can; the main thread gets m_Mutex1 in the end, which the
  worker takes again each time it wakes (strong fairness), and goes on; it need not send or wait.
  No thread has to wake without a signal.

The others are sequential and have no liveness property.

## 5. Proofs

Each theorem holds for every value of the constants that the named assumption of its module
allows: any finite set of connections, models, objects, textures or render states, any number of
workers, calls, requests or commands, any keys, ring, listeners, meshes and pools. None of the bounds of
section 4 enters.

| module | theorem | says |
|---|---|---|
| WowNetProofs | `TypeCorrect` | types; the network thread stays inside its array of slots |
| | `OneWorker` | two workers never service one connection |
| | `HandOutIsSafe` | unless the stale slot was counted, SignalWorker does not find the connection already with a worker, and reads only slots that were written |
| WowNetCounts | `CountsAreExact` | references, response references and semaphore tokens are exact |
| | `AssertionsAlwaysHold` | no STORM_ASSERT of the engine fails |
| | `NoWakeupIsLost` | what the network thread sleeps on is what the connections want |
| | `SettledIsConsistent` | list, socket and state agree between calls, until an owner connects a second time |
| | `StreamsStop` | a stream delivers nothing after Disconnect, under the same proviso |
| AsyncFileProofs | `ObjectsAreInOnePlace`, `SkinComesAfterData`, `BuffersStayPut` | the three safety properties of the run |
| | `LoadsStepByStep` | every step is a step of ModelLoading or leaves it alone |
| EventProofs | `RingTypeCorrect`, `RingIsFifo` | the ring implements the bounded queue, for any size |
| | `InputTypeCorrect`, `HeldKnown` | types; the two records of what is held agree, and nothing that has come up stays held unless the ring overflowed |
| | `KeysInTurn` | handlers see each key go down, repeat and come up in turn, overflow or not |
| | `EventsKept` | those listen whose last call asked for it, a list is not changed while it is walked, scripts find and put back the globals that are theirs |
| RealmLoginProofs | `TypeCorrect`, `StatesAgree` | types; no fatal branch, the challenge is answered, success is of a connection that is up |
| GxProofs | `TypeCorrect`, `DeviceIsCurrent`, `RsPopRestores` | types; draws see current states; the stack implements StateStack |
| | `WorkerIsAQueue` | the worker implements CommandQueue, with condition variables that also wake without a signal |
| | `SettledDone` | while draws go on without a wait all that was sent has been executed, but for a wait that was cut short and is still to be answered |
| | `BuffersStaySound` | a draw reads what its own code wrote, no part of a stream is handed out while it is read, no assertion of GLBuffer fails |
| GLSDLProofs | `AccountTrue` | m_States and the bindings are what OpenGL has, and no assertion of a texture, mipmap or framebuffer fails |

*Hypotheses.* WowNetAssumption: the connections are finitely many, NoConn is not one, there is a
worker. AsyncFileAssumption: there are at least as many objects as models (CAsyncObjects are
allocated when the free list is empty). OsQueueAssumption: the ring has at least two slots
(32 in the code; with one it holds nothing). InputAssumption: the same of EvtInput's ring;
modifiers are keys, keys are not buttons. EventsKept: the objects
are finitely many (a theorem's own hypothesis). RenderStateAssumption: the states are finitely many, and
two of them may share a device state. WorkerAssumption: at least one number for commands.
BufferAssumption: what is locked at once fits into MaxSize bytes, and there are as many objects
as can be made. AccountAssumption: one to three units (the render states have three textures),
finitely many textures, names 1 to n with room for the device's own three; when names run out
no texture is made.

**WowNet: one worker.** OneWorkerPerConnection is not inductive. It holds because a connection
is in at most one slot (SlotsDistinct), a slot of the walk not yet reached holds a connection
nobody services (PendingIdle), which in turn needs m_serviceCount to be positive exactly while
a worker has the connection (ServicedCounted) - the scan skips those - and the worker chosen to
differ from the others (AssignedAlone, Distinct). All of this is lost once a slot was counted
that the scan did not fill, so the invariant is `CoreInv == ~staleSlot => Core`, and
`IInv == StructInv /\ CoreInv`; StructInv has the types and that a connection is linked at most
once. One lemma for each action and each part of the invariant it can disturb.

**WowNet: counts.** Where the tokens of m_workerSem are (`TokenInv`: in the semaphore, with the
network thread, or due from a worker) implies that a search with a token in hand has a free
worker ahead of it (`FreeAhead`), which is why the search may end in an assertion and never
does. What a worker holds of a connection's references depends only on where it is in the
Do* function it was called for (`RefsOf`, `RespOf`, a table of five rows); `WorkerAccounts` says
that each of its steps changes m_refCount and m_responseRef by exactly the difference of two
rows. With the owner's steps this gives `RefsCounted` (the references are those of the owner,
the list, the walk and the workers) and `ResponseExact`, so that a count is positive wherever
the code tests it and zero only when nobody has the connection: no assertion fails, nothing in
use is freed. The totals over workers are recursive functions; what happens to one when a
worker changes is proved once, for every number of workers.

**WowNet: wakeups.** `NoLostWakeup` holds without any proviso: not `~staleSlot`, not "connected
once". It needs m_lock to have one owner (`LockInv`), m_serviceCount to be exact
(`ServiceExact`), and `WakeInv`: while the network thread scans or sleeps and the pipe is empty,
every connection it has already passed and that nobody is changing has been asked for what it
wants now. Each change of a state, of the list or of m_serviceCount writes the pipe within the
same lock or before it counts.

**WowNet: state, list and socket.** SettledConsistent speaks of the moments between calls; the
invariant (`ConsistentInv`) says what is true of a connection at each place its owner can be
in StartConnect or Disconnect, and its worker in a Do* function (`OwnerPlace`, `WorkerPlace`),
with `Fresh` for one not yet connected. The steps of a worker are collected in one table of
paths (`WorkerPaths`), so that the proof that each leads to a place that fits is made once and
not once per action. It holds until an owner calls Connect a second time: a second Connect
while a worker is still tearing the connection down leaves it linked and CONNECTING with
m_sock -1, and an old worker's callback may read on for the new connection. That is why the
theorems carry `[]ConnectedOnce`; the program satisfies it: every logon link makes a connection object of its own, and
NetClient::Connect goes on only from NS_INITIALIZED. Checked by TLC before it was proved.

**AsyncFile.** `IInv` tells where each object is by its flags alone: allocated or not, isRead,
isProcessed, isCurrent and being called back are steps of one way from the free list through
the read list, the disk thread and the post list back (`ObjectPlaced`). Then a model's stage is
told by its object (`StagesAgree`), the wait's object is one that is on that way (`WaitAgrees`),
and the read list is sorted but for the object moved to the front (`SortedAside`). The address
reuse inside the callback - the freed object goes to the free list, and the skin profile may
take it before the wait looks again - is a lemma of its own. The refinement is proved step by step;
that reads and waits end stays with TLC.

**RealmLogin.** NetClient's state moves forward only, and it becomes NS_CONNECTED when the main
thread handles CONNECT. All rests on `BeforeConnected`: until then CONNECT is the first event of
the queue, Poll has not passed it, and the worker has no other event while the queue is
empty. `SuccessIsEarned` adds that a success which is written, or about to be, comes of an
event handled after it, whoever writes the status in between.

**GxRenderState.** `SyncInv`: m_deviceStates is what the device has, a state that differs from
m_hwRenderStates is in m_dirtyStates, and each device state is as it was sent or will be forced.
`FramesInv`: a state at depth k was saved in frame k, and every entry names the frame below in
which its state was saved before. Of the abstract stack, entry i is `Saved(i)`: what the oldest
entries above offset i bring back. RsPop is Pop because undoing a frame from its last entry to
its first leaves the oldest; the other operations leave every Saved(i) alone because IRsDirty
saves before the first change.

**GxBuffers.** Operations are chains of calls on the record g, so nearly every lemma is about one
call, from any record while the pools L are locked (`BuffersSound(h, L)`). A pool's object is its
own, is alive, has the pool's size and is mapped exactly while the pool is locked; OpenGL reads
of a stream only what lies before the part that is handed out next; a static pool is filled
before it is read and never written again; and objects made are no more than pools and growths,
so that the next one exists. A draw adds `FormatsSound` (a format that was put together is that
of the table) and `IndexSettled`: OpenGL's index buffer is that of the last draw, unless that pool
was locked since - which is when PrimIndexPtr marks it dirty. PrimIndexPtr compares the pool and
not its object; a stream that grew has a new one, and the proof needs that growing comes before a
lock, which marks the buffer as changed. RenderBatch is proved for any number of batches, by
induction along the chain.

**CGxDeviceGLSDL.** AccountIsTrue is not inductive: whether an image may be attached or a unit
bound depends on the other fields. `AccountInv` is `Sound(d, S, O)` for S = {} between calls, and
what textures and states name: m_States is what OpenGL has but for the states S; each unit has
the texture that the device has noted, as long as that is valid; textures and mipmaps know their
units and points; the objects O may not be freed. Inside Clear, Blit and uploads S grows by what
is overwritten behind m_States and shrinks when it is put back; at the end of each call it is
empty. Sending all dirty states is a loop whose invariant also counts the names left for the
textures that are still to be made.

**EvtInput.** The records agree because each event updates both, except across a dropped event,
where the reset of one must meet the reset of the other. That nothing stays held is
`WillComeUp`: unless the ring has dropped something, a key or button recorded as held, or on its
way to be, is down in a window with the focus, or an event that will clear it - its release or
the loss of the focus - is in the ring behind every event that would set it.

**ScriptEvents.** For the lists, `ListsInv` says at every moment what will be the case once what
waits is done: an object is `Wanted` if it listens and does not wait to be taken out, or waits to
be put in, and that is so exactly if its last call asked for it - for all but the `undone`, whose
request the end of an inner signal dropped. It needs pendingSignalCount to be the number of
signals that go on (`WalksInside`), since with none nothing waits. For the globals, `History` is
the chain of values they had before and during each of the calls that go on: a script gives back
exactly what its caller had (`Called`), however often the globals changed in between. That the
values it takes from the stack are those it saved depends on what lies below them, so `CallsFit`
says that a script for an event is called by a signal with one argument and that the event's name
is where the code looks for it. All of that holds until an event with arguments is run (`mixed`).
Depth, calls and listeners are not bounded.

**GLWorker.** While the main thread waits the queue ends in its null command (`EndsInNull`), and
when it has woken or m_UnkA1 is set the queue is empty or ends in one (`NullIsLast`). So a null
command that wakes the main thread is the last thing in the queue, or one that a wait cut short has
left, with the new one behind it, and then `Overdue` holds; and while m_UnkA1 is set nothing is left
or a null command is, which is overdue. The abstract queue is the list without the marks of the
waits.

**OsQueue.** Arithmetic on positions modulo Size; Put at the last free slot is the case in which
head and tail move together.

`SequenceFacts` holds the lemmas about lists that several proofs need: insertion and removal at
a place, the first occurrence, distinctness, one list after another, `Without` of an appended or
shortened list.

*Recursive definitions.* The library's induction theorems take an operator as a parameter and
cannot be used with the provers at hand, but induction stated of a set can
(`SequenceFacts!LeastElement`, `IntervalInduction`). So the recursive functions `Without` and the
totals over workers are proved for every input. Out of reach remain SelectSeq, MapThenSumSet and
everything with an operator parameter, and the modules with RECURSIVE operators, CSimpleTop and
Textures.

*Model-checked only:* `CommandsInOrder`, `ReportsAdvance` and `AccountIsLoggedOn` of GruntLogin:
they hold of a single login (grunt_login_stale shows that they fail with two), and of one login
TLC's run is exhaustive, so a theorem would say no more. `ObjectsAreSound` and `DrawSeesStates`
of the macOS device hold only under the proviso `Settles` of its run (section 4).
`DrawSeesStates` of CGxDeviceGLSDL, `EditBoxesAreSound` and `LoopIsSound`: not proved. `TexturesAreSound`, `BatchesAreCurrent` and `FocusIsSound`: modules with RECURSIVE
operators, about which nothing can be proved here. SettledConsistent and StreamsStopOnDisconnect
after a second Connect do not hold. Liveness, which the proof system does not handle: `DisconnectCompletes`, `LockIsReleased`, `ReadsComplete`, `DialogCloses`,
`LogonIsSettled`, `WaitReturns`, the ends of waits in `ImplementsLoading` and the painting in
`LoopIsSound`.

## 6. What the runs found

- *A connection is handed to two workers* (wownet_stale_slot). PlatformRun counts a
  connection in the switch's default case without writing its slot. A connection is linked
  before it is CONNECTING (StartConnect), so a scan at that moment counts the slot that
  still holds a connection of an earlier scan, perhaps one a worker is servicing; the
  assertion of SignalWorker (WowConnectionNet.cpp:138) fails. The program starts one
  worker, for which the second hand-out times out instead.
- *recv blocks with m_lock held* (wownet_blocking). On Linux the socket is not made
  non-blocking; a worker whose select was woken for another reason waits in recv, and with
  it everyone who calls Send or Disconnect.
- *A cancelled login speaks for the next one* (grunt_login_stale). Logon replaces
  s_loginObj without closing the old link, and all links report into the same fields:
  the AUTHENTICATED of the old one opens the client connection for the new one, against the
  comment in CGlueMgr.cpp:417.
- *A texture is uploaded after its deletion* (gll_freed). FreeTexture sends a GLTexDestroy to
  the worker and leaves the texture in m_Textures with m_LastFrameUsed 0; the next Clear binds
  it again, and RecreateGLTexture sends its levels behind the deletion, against the assertion in
  GLTexture.cpp:22.

What the models keep as it is without a run of its own is told with each module in section 3.

## 7. What is not modelled

- *Message framing, the realm screen, the glyph cache, console variables*: planned (section 2).
- *Event timers*: never dispatched by the program (IEvtTimerDispatch is a TODO). The
  GruntTimer's ordered list holds one event per timer, so its order cannot matter.
- *Layout, animation, lighting, shaders, XML, DBC files, SRP6*: floating point, parsing and big
  numbers, with no interleaving; outside what TLC can enumerate.
- *Direct3D beyond render states, other platforms' windows and input*: the same CGxDevice part,
  and the same events into the same queue.
- *Sound, cursor, start-up, utilities*: sequential tables and platform calls.
- *lib, vendor*: third-party.
- *Send on a connection*: its lock-keeping failure path ends in an assertion, and on Linux
  nothing is written at all.

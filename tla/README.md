# Models and proofs of Nova

Nova runs Android applications on a Linux desktop: a host process starts ART,
loads a rewritten Android framework, draws through Wayland, and talks to a
small daemon that answers Binder-like calls. This directory holds TLA+ models
of the parts where order, sharing and failure matter, TLC configurations that
check them on small instances, and proofs, checked by TLAPS, that do not depend
on the size of the instance.

All source paths below are relative to the repository root. In
`PROJECT.json`, "map" names the lines behind every definition, "mutants"
names, for every checked property, a changed definition that breaks it, and
"hazards" names the places of the code the properties are about.

## 1. The system

```
 application (Java)                                    Wayland compositor
   |  startActivity, Handler, Choreographer                ^        |
   v                                                       |        v
 Launcher -- main looper's queue -- RenderCoordinator -- CanvasRender (JNI globals)
   |             (NovaLooper)          render thread        |   NovaHost
   | NovaLauncher                                           v
   |   GLSurfaceView (NovaGLThread) -- EGLImpl -- nova_egl.c
   |   Canvas (NovaCanvas), SystemProperties (NovaProps)
   |
   +---- host process: main.c, art.c, nova_wayland.c (seat: NovaInput)
              |                        |
              | libnova_ipc (NovaIpc,  +-- bionic-loader: Android .so files (NovaLinker)
              |  NovaParcel), NovaBinderTransport (NovaBridge)
              v
          nova-daemon
```

| Part | State it keeps | Operations | What makes it correct |
|---|---|---|---|
| RPC transport, `libnova_ipc/nova_ipc.c` | `client_fds`, `n_clients`, the server's descriptors, the request being served; per client a socket with a stream each way | `nova_ipc_server_run/stop/destroy`, `nova_ipc_client_connect/destroy`, `nova_ipc_transact` | the table names each open descriptor once; the loop never blocks on a header; a reply belongs to the call it answers; a call runs at most once; calls return |
| `nova-daemon` | three registered stub services, signal handlers | `main`, `on_signal` | survives its clients; stops when told |
| Host process, `nova/src/main.c`, `art.c` | connection, window, VM, EGL, closed flag | acquire in five stages, launch, event loop, release | releases in reverse order on every path, nothing is used after it is freed, a closed window ends the process |
| Canvas bridge, `libnova_jni/nova_canvas_render.c` | `g_state`, `g_window`, `g_canvas_render` | `nativeInitDisplay`, `setRenderState`, `setRenderWindow`, `submitFrame`, `nativeDispatchEvents` | one frame uses objects of one connection, and live ones |
| Launcher, `nova/internal/Launcher.java` | `sLaunching`, `sCurrentActivity`, `sActivityStack` | `startActivity`, `launchActivity`, `launchActivityImpl`, `finishActivity` | one activity is resumed; callbacks in Android's order; the back stack is the history; the guard is up exactly during a guarded launch |
| Message loop, `android/os`, `android/view/Choreographer.java` | `mMessages`, `sPool`, `sThreadLocal`, two callback lists | post, remove, quit, `dispatchPendingMain`, `notifyFrameTime` | each post runs once, in order, not early; no `Message` object has two owners; frames end |
| Render coordinator, `nova/internal/RenderCoordinator.java` | `mLock`, `mRootView`, its thread | `start`, `setRootView`, `renderLoop` | neither starves nor deadlocks launches; a frame that throws loses no task |
| Bionic loader, `bionic-loader/bionic_loader.c` | list of loaded objects with reference counts, GOT slots, symbol index, error buffer | `bionic_dlopen/dlclose/dlerror`, `load_needed`, relocation with lazy loads | a file is mapped once; what is used stays mapped; needs are ready before they are bound to; loading ends |
| Parcel, `libnova_ipc/nova_ipc.c` | buffer, length, capacity, read position | `nova_parcel_write_*`, `nova_parcel_read_*`, `nova_parcel_reset_read`, `parcel_grow` | what was written is read back; growing ends |
| Java bridge, `NovaBinderTransport.java`, `transport_jni.c` | `mNativeHandle`, allocated clients | `connect`, `transact`, `close` | no client is used after it was freed, freed twice, used by two calls, or lost |
| Seat and listeners, `libnova_android/nova_wayland.c` | the seat's devices, `struct nova_state` | `nova_state_create`, `seat_capabilities`, `pointer_*`, `keyboard_key` | input reaches the views; the struct keeps what `art.c` put there |
| System properties, `libnova_jni/android_os_SystemProperties.c` | `prop_table`, `prop_count` | `native_set`, `native_get*` | a map; gets see whole values |
| Canvas state, `libnova_jni/softgfx.c` | translation, clip, save levels | `save`, `restore`, `restoreToCount`, `translate`, `clipRect` | a restore brings back what was saved |
| GL threads, `android/opengl/GLSurfaceView.java`, `EGLImpl` natives | the fields under `sGLThreadManager`, one EGL display and window for all | `guardedRun`, the calls of the life cycle, `requestRender`, `queueEvent`, `finalize` | calls return; paused means released; requests are drawn; views do not take each other's EGL objects |

The rest is listed in `PROJECT.json`, "components", with the reason why it is
not modelled:

- *Callback server* of `nova_ipc.c`: nothing in the repository but its test
  uses it, one connection and one request at a time.
- *Native message queue*: no Java class declares its methods.
- *Pixels, text, bitmaps, GL entry points, events' constructors*: arithmetic
  on data or forwarding of arguments, one thread, no protocol.
- *Resources and assets*: pure functions of file contents, run once.
- *View tree, widgets, fragments, framework stubs*: mostly Android's own code
  or empty bodies; when they run is modelled (`NovaLauncher`, `NovaLooper`),
  what they lay out is not.
- *Registration tables, reflection, tracing, shims*: straight-line code without
  state worth a transition.
- *Generated Wayland code and prebuilt headers*, which are more than half of
  the C in this repository, *vendored samples, patches, scripts, tests*.

How the parts interact, and where it is hard:

- **One thread, many sockets.** The daemon serves all clients from one
  `select` loop. Descriptors are closed, moved by swap-remove and reused by
  `accept` between `select` and the test of the `fd_set`; a header and its data
  are two writes and two reads, and a client may die between any two of them.
- **Two threads, one set of globals.** `RenderCoordinator.start` opens a second
  Wayland connection and starts the render thread; `nova_art_init_render` then
  redirects the globals to the host's own window, one global at a time.
- **Two dispatchers, one queue.** The main thread drains the main looper inside
  every launch; the render thread drains it every frame. A drained message may
  launch an activity, whose launch drains again.
- **Recursion through data.** Loading a library loads what it needs and may,
  while relocating, load what defines a symbol; needs may form cycles.
- **One monitor, many views.** All `GLSurfaceView`s wait and notify in
  `sGLThreadManager`, and draw through one EGL display and one native window,
  which any of them may terminate.
- **One struct, two declarations.** `struct nova_state` is declared by two
  headers that put `jvm` and `env` at different offsets.
- **No locks.** The property table, the handle of `NovaBinderTransport` and the
  globals of the Canvas bridge are plain fields that threads share.
- **Hand-written unwinding.** Five stages of `main`, each with its own list of
  releases.

## 2. Modules

| Module | Models | Kind |
|---|---|---|
| `NovaIpc` | transport: server loop, streams, clients, death, signals | state machine |
| `NovaRpc` | what a caller of `nova_ipc_transact` may rely on | abstract specification |
| `NovaIpcProofs` | client table, `HeaderReadNeverBlocks` | proofs |
| `NovaIpcCallProofs` | types, conversations, `NovaIpc` implements `NovaRpc` | proofs |
| `NovaHost` | host process, Wayland connections, render thread, compositor | state machine |
| `NovaHostProofs` | stages, releases, the render thread's objects | proofs |
| `NovaLauncher` | launches, activity life cycle, two dispatchers | state machine |
| `NovaTask` | what launches promise: a stack of activities | abstract specification |
| `NovaLauncherProofs` | the guard, `NovaLauncher` implements `NovaTask` | proofs |
| `NovaLooper` | messages, pool, drains, Choreographer, frame loop | state machine |
| `NovaTimedQueue` | what the main looper promises: a FIFO queue with times | abstract specification |
| `NovaLooperProofs` | ownership, nesting, `NovaLooper` implements `NovaTimedQueue` | proofs |
| `NovaLinker` | ELF loader: list, needs, relocation, lazy loads, close | state machine |
| `NovaLinkerProofs` | mapping, reference counts, order of relocation | proofs |
| `NovaParcel` | the parcel buffer with lengths that wrap | state machine |
| `NovaBridge` | `NovaBinderTransport` and its natives, on several threads | state machine |
| `NovaProps` | property table, store by store | state machine |
| `NovaCanvas` | translation, clip and save levels | state machine |
| `NovaInput` | seat, listeners, the two layouts of `struct nova_state` | state machine |
| `NovaGLThread` | GL threads, their monitor, the shared EGL display | state machine |
| `NovaNatives` | the six above, one per behaviour | composition |
| `NovaNativesProofs` | the parts' promises, all but the parcel's | proofs |
| `NovaParcelProofs` | what is written to a parcel is read back | proofs |
| `MC...` | values of the constants for TLC | instances |

Definitions whose name or comment says "mutant" are not part of a
specification: each is a plausible bug, kept to show that the property beside
it would notice.

### NovaIpc

A connection is one client handle from `connect` to its end. `pc` is where the
server's thread is: each read, write, `accept` and `select` is an action of its
own, because a client may act or die, and a signal may arrive, between any two.
`clientFds[0..nClients-1]` is `client_fds`, `fdTab` is the process's
descriptor table as far as `accept` fills it (lowest free number first), `rfds`
is what `select` reported. A stream is a sequence of parts, a header or a body;
payload bytes are left out and `data_len` is reduced to "zero or not". A part
carries the number of its call, which is not on the wire: the properties need
it to tell replies apart. Short reads and writes inside one part are not
modelled: `read_all` and `write_all` retry until the part is complete or the
peer is gone. Closing an end discards what it has not read (`CloseEnds` on the
server's side, `Quit` on the client's).

Between a header and its data each side calls `parcel_grow`, which may find no
memory. The server then removes the client (`RecvGrowFails`), as at the end of
its stream (`RecvEof`), also when the client is still writing the data or
waiting for its reply. The client only returns `NOVA_IPC_ERR_RECV`
(`ReplyGrowFails`): the data stay in the stream, the handle can be used again,
and its next call takes them for a header. From there on the handle is `garbled`:
a later call consumes any part of what is in its stream and fails or returns a
status it made up (`Misread`, from `Garbage`), or waits for bytes that never
come. What such a client sends is still whole, so the server and the other
clients are not affected; `TypeOK` and `ClientTableExact` hold with it.

The status crosses the wire as in the code, `(uint32_t)(-rc)` there and
`-(int)status` back, with the width as the constant `Word`.

Death is modelled on both sides: `Leave` is a destroyed handle or a dead
process at any moment of a call, `ReplyToGonePeer` the SIGPIPE that kills the
daemon, `SendFails` what a client gets from a closed connection (an error in a
process that blocks SIGPIPE, its own death in another).

`NovaRpc` is the promise: each handle makes its calls one after the other, a
call is executed at most once and only between its beginning and its return
unless the caller died, a result that is not a transport error is the code of
that execution, and after `NOVA_IPC_ERR_SEND` the call has not been executed
and never will be, not even once its caller is gone. A reply for which the
caller has no memory ends the promise for its handle (`Break`): that call was
executed and returns `NOVA_IPC_ERR_RECV`, and of later calls nothing is said.
`CallsAreAtMostOnce` is `NovaRpc`'s specification under the mapping at the end of
`NovaIpc`: a handle is idle, calling, gone or broken, or an orphan as long as
something a dead caller has sent is in the stream or in the server's hands
(`InFlight`); an execution is an entry of the server's history for the call
under way. `QuietBetweenCalls` and `CallsReturn` are stated for handles that are
not `garbled`.

### NovaHost

`pc` goes through the stages of `main.c`, with the failure branch of each, and
through `nativeInitDisplay` when the activity draws on a Canvas. A connection
has a set of undelivered events and a link that may break; `wl_display_dispatch`
blocks until there is an event or the link is broken, and delivers all events.
`nova_dispatch` makes two dispatches: `LoopPending` and `RtDispatch` are the first,
which handles what is in the connection's queue and does not block (and the
flush, which may fail), `LoopDispatch` and `RtReturn` the second, which blocks. The
queue is filled by whoever else reads the connection, EGL when it is initialised
and the buffer swaps of a GL thread (`queued`).
When two threads wait on one connection and one of them returns, the other may
return too or wait on: libwayland versions differ, so both are allowed. The
globals are read and written exactly where the code does it, without a lock.
`renderer` is what the activity draws with; a GL activity has a Java thread
too, which matters to `DestroyJavaVM` and reads the connection. `failed` is a
history variable, the stage that made main give up: `ReleasedInOrder` says with it
what is left behind when main returns. Its own objects never are. The connection
and window of `nativeInitDisplay` are left open when the start of the render thread
fails, for `nativeDestroyDisplay` has no caller, and `libart.so` stays loaded when
the first two options of the virtual machine cannot be copied (`art.c:464-468`
returns where the later failures `goto opt_fail`).

The option strings of the VM, the resolution of the activity's name and the
calls to the daemon are left out; pointer and keyboard are `NovaInput`'s.

### NovaLauncher

`stack[t]` holds the active calls of `launchActivityImpl` of a thread, each
with the activity, the callback it is at, and whether it is under the
`sLaunching` guard. The main thread starts inside the first launch. The render
thread exists once a Canvas activity has been bound (`Bind`), which is before
that launch returns and lowers its guard (`Leave`): what the render thread takes
in between it defers. It waits for the compositor (`rpc = "events"`), comes out
(`EventsDispatched`), and launches only while `rpc = "dispatch"`, which is while
it holds `mLock`. The hundred rounds of a drain are "any number of rounds". A
drain or a frame may stop with messages left in the queue, for
`dispatchPendingMain` stops at a delayed task, whatever is behind it, and after
128 messages; the tasks themselves are not in `queue`.
Reflection, manifests, themes and content views are left out; their failures
are `LoadFails` and `Throws`. `app` is the application that runs: which of its
activities are drawn on a Canvas, which call `finish`, whether callbacks throw,
and whether they start activities when the guard is down (`direct`); `Init`
picks one of `Apps`.

`NovaTask` is the promise: activities come one at a time, the one in front is
paused and stopped before the next is created, the back stack is the order in
which they came, and the renderer shows the activity in front. The mapping puts
the current activity behind the back stack, unless it is already on it, which
is while the next one is coming.

### NovaLooper

The messages are numbered objects, the pool and the queue sequences of their
numbers, so that a message that is reused while somebody still holds it would
be seen. Each block under `mMessages` or `sPool` is one step. `calls[t]` is the
stack of `dispatchPendingMain` calls with the looper each has to give back.
`lists` are the two callback lists of the Choreographer and `snapshot` is the
copy `notifyFrameTime` goes through. The queue is not ordered by time: that is
what the code does (`enqueue` appends, `nextIfReady` looks at the head).

`NovaTimedQueue` is the promise to those who post, without objects, pool and
nested calls: its `pending` is the queue with each object replaced by the
number and the time of the post it carries, its `running` what the dispatchers
have in hand. A removal keeps messages at ascending places of the queue
(`InOrder`). `QueueIsTimed` says that every step is one of that queue or none;
`HeadIsHanded`, that the next message whose time has come is handed over or
removed, is weak fairness of `Hand`, unless the frame loop waits for ever.

A turn of the frame loop starts in `nativeDispatchEvents`, which waits in
`wl_display_dispatch` with no limit (`EventsDispatched`). The release of a
buffer it has shown may be the event that wakes it, but nothing promises one
after a frame that was not drawn, so the action has no fairness, and what
depends on a further turn is stated with its exception: `HeadIsHanded` and
`EveryTaskRuns` hold unless the loop is `Waiting` for ever. Nothing else in the
program wakes it: a post does not.

Assumed: no other thread touches the queue while `Handler.remove*` walks it
(the code takes no lock there, and a race inside `LinkedList` has no defined
outcome); every post obtains a message of its own; callbacks throw exceptions,
not errors. `Looper.loop` has no caller and is left out.

### NovaLinker

Objects are numbered in the order they are mapped. A new object is always put
at the head of the list and unlinking keeps the order, so the list is the
linked objects from the highest number down. `stack` is the active calls of
`load_needed` and `bionic_dlopen`, each with the next item of its work: the
needed names in order, then the relocations that name a symbol. An object has
one GOT slot per symbol; relocation types differ only in what they bind to.
The symbol index is built once, on the first miss, and is stale after
`bionic_loader_set_lib_path`, as in the code. References taken for needed and
for lazily opened libraries are never given back, as in the code.

The files are data (`Disks`). A needed name may have a version that is not part
of a file name: `load_needed` looks for it in the list in full and on the path
in part, so such a library is mapped once more for each need (`Versioned`).
`FilesMappedOnce` says that this is the only way a file comes to be mapped
twice. Where such needs lead from a file back to it (`Endless`), `load_needed`
recurses until the C stack ends; the model stands still at its bound of mapped
objects (`Overrun`) and `LoadReturns` excepts exactly the loads that come to
such a file: every other load, through whatever other cycle, returns.

### NovaParcel, NovaBridge, NovaProps, NovaCanvas

These four are small and share no state. `NovaParcel` is the buffer cell by
cell: a new cell holds junk, a word is `WordBytes` cells, all sums are taken
modulo the word, a write appends one or two pieces and each may fail by itself;
the reader asks for what was written in that order, from the start again after
`nova_parcel_reset_read`; `taken` counts what it was given since the start and
`agree` says whether it always got what it asked for. `nova_parcel_free` starts
the parcel anew. `NovaBridge` takes `NovaBinderTransport` access by access: the test of
`mNativeHandle`, its second read for the native call, beginning and end of the
call, the free, the store of zero. `NovaProps` takes `native_set` store by
store and `find_prop` row by row. `NovaCanvas` is one axis of the
canvas; `ideal` is what an unbounded stack of levels would hold.

`NovaBridge` and `NovaProps` have no locks to model, and with threads that
overlap they break: a freed client is used, a count is lost, a pair is written
behind the table. `SerialUseIsSafe` and `WriteOnceMap` say exactly when they do
not: as long as calls of the bridge, or sets of properties, do not overlap. No
sentence of the repository promises more, so there is no finding.

### NovaInput

`mem` is the part of `struct nova_state` behind byte 80, four words, to which
the two headers give different names. `wire` is the ordered stream of events
from the compositor; an event for a proxy without a listener is dropped.
`Connect` is the first round trip, whose dispatch binds the seat; the answer to
the binding comes before the end of the second round trip, and `Listen` adds
the listener after it. Coordinates and button state are "zero" or not.

### NovaGLThread

A `synchronized` block is one step and `wait` puts its thread to sleep
until some `notifyAll`. `Updated` is what a round of `guardedRun`'s inner loop
does before it asks whether it may draw: pause state, lost context, lost and
acquired surface, notification of a rendered frame. `egl` is the one display:
`EGLImpl` gives every view the same native window, on which one surface at a
time can be made, and `finish` calls `eglTerminate`, which nothing counts. It
also gives every view the configuration `nova_egl_create` chose once
(`egl.config`), and that is stale after the first `eglTerminate`.
EGL may refuse a surface, a context or a swap at any time, and events and
callbacks of the renderer may throw, which ends the thread. A view that nobody
refers to is collected, and its `finalize` waits for the thread.

### NovaNatives

The parts above share no variables, so their product would only
multiply states. A behaviour of `NovaNatives` is a behaviour of the one part
`Init` picks, while the others stay in their initial states; each property
speaks of one part. `NativesAssumption` gives the constants their types;
`NothingAssumption` says that the values for "no client" and "not found" are
neither a client nor a property's value.

## 3. What the runs check

| Run | Question | Instance | Result |
|---|---|---|---|
| `ipc_table` | does the client table survive refusal, swap-remove and reuse of descriptors | 3 clients (symmetric), table of 2, backlog 0, 1 call each | holds |
| `ipc_calls` | are calls paired, executed at most once and answered; is a stop served | 2 clients, table of 1, backlog 1, 2 calls each, a known and an unknown service | holds |
| `ipc_sigpipe` | does the daemon run until it is stopped | 1 client, 1 call | violated |
| `host_safe` | are objects live, released in order, and main's own all gone, on every path; does a close request end the loop | all renderers, every stage may fail, links may break | holds |
| `host_no_exit` | does the process exit after its window was closed | Canvas activity, links do not break | violated |
| `host_buffer` | does a frame use one connection | Canvas activity | violated |
| `launcher_launches` | do launches implement a task with one dispatcher; is the guard exact, do launches return and get served with two | 4 activities, two applications: the first activity alone on a Canvas; all on a Canvas, callbacks may throw and start past the guard, the first may finish | holds |
| `launcher_threads` | is one activity resumed with two dispatchers | 4 Canvas activities | violated |
| `linker_safe` | mapping, use, order and end of loading | 4 files, 588 disks, 2 library paths, 5 mappings, 1 handle each | holds |
| `looper_queue` | is the message loop a timed queue, and is its head handed out; ownership, nesting, frames | 2 dispatchers, 1 worker, 2 callbacks, 2 posts, 1 task, clock 0..1, nesting 2 | holds |
| `natives` | does each of the six parts keep its promise | bridge: 2 threads, 2 clients; parcel: bytes of 4 values, lengths modulo 16, 3 writes; properties: 2 writers, 1 reader, 2 rows; canvas: 2 stored levels, depth 4; input: 1 change of devices, 4 events; GL: 2 views, 3 calls | holds |
| `host_input` | does a moved pointer reach the views | 1 change of devices, 3 events | violated |

Why the bounds are large enough for the interesting cases:

- `ipc_table`: a table of two with three clients is the smallest in which a
  client is refused, a descriptor is moved into a freed place in the middle of
  a scan, and a freed descriptor is given to a newcomer while its old report is
  still in `rfds`. `ipc_calls`: a table of one already refuses, and two calls
  per handle let a second call meet what the first left behind. `Word` is 256:
  only the two halves of the range and the all-ones status matter. `Garbage` is
  one status, 0, with which a misread reply looks like a success; a second call
  is needed for it, which `ipc_calls` has, and there it meets the other client's
  calls and a stop.
- `launcher_*`: four activities allow a launch, one posted while it runs, one
  deferred because of it, and one more on the other thread. In an application
  whose first activity alone is drawn on a Canvas no nested launch starts the
  render thread while the main thread still drains, so one thread dispatches at
  a time, though the main thread may not have lowered the guard yet: that is the
  situation `LaunchesMakeATask` is stated for, and `launcher_threads` shows that
  it is not true outside it.
- `linker_safe`: three files that need and import each other, each shape with
  and without a cycle, a fourth that shadows the name of the second, a name
  without a file, a name with a version, one file that is not ELF or does not
  map; contents where two versioned needs form a cycle, which no load of them
  leaves; every library path change, open and close in any order. Five mappings leave room to map a
  file again after it was closed.
- `looper_queue`: a pool of one overflows and is reused at the second
  message; a delay of one holds back what is behind it; nesting of two covers
  a drain inside a callback on each thread; a drain limit of two is met by a
  drain that dispatches both posts.

- `natives`, `host_input`: lengths that wrap at 16 are reached by two strings
  of three bytes, and a capacity that wraps to 0 with them; two stored levels
  and a depth of four are one level below, at and above the limit; a table of
  two rows with one seeded is full after one set and overrun by two that race;
  two views, of which one keeps its context on pause and draws on request, and
  three calls of the application are the fewest in which a view is shown,
  paused or asked to draw while another is at work. One change of the seat's
  devices is the event after which the listeners run at all.

`CHECK_DEADLOCK FALSE` is set for `NovaHost`, whose process may hang in
`DestroyJavaVM` (the finding of `host_no_exit`), and for `NovaLauncher`, which
has nothing to do when no activity is started any more, for `NovaInput`, whose
process exits, and for `NovaNatives`, whose callers need not call. `NovaIpc`,
`NovaLinker` and `NovaLooper` are checked for deadlock.

### Fairness

- `NovaIpc`: weak fairness of the server's thread, which is scheduled whenever
  it can run, and of a client that is inside `nova_ipc_transact`. Starting a
  call, connecting, leaving and sending a signal are nobody's duty. A client
  that is stopped for ever in the middle of a request would block the daemon
  for everybody; that is excluded here, and it is a property of the code. A
  call on a `garbled` handle has no fairness once it reads: it may wait for as
  many bytes as a length it made up says.
- `NovaHost`: weak fairness of both threads; a compositor that configures a new
  window and releases the buffers it got. It owes no other event, so either
  thread may wait in `wl_display_dispatch` for ever; `CloseEndsLoop` has that
  exception (`Silent`), for a close request that EGL has read is handled by the
  first dispatch of `nova_dispatch` and seen only when the second returns.
- `NovaLauncher`: weak fairness of both threads, and strong fairness of taking
  `mLock` in `bindRenderer`: the render thread leaves the lock free while it
  sleeps 16 ms and waits for events, so the main thread's chance comes again
  and again. `nativeDispatchEvents` returns when the compositor sends something,
  and nothing says that it will: `EventsDispatched` has no fairness, and
  `StartIsServed` excepts a render thread that waits for ever. If frames go on,
  a message behind a delayed task is taken once the task is due (strong fairness
  of the render thread's `Take`): no message is put in front of it.
- `NovaLooper`: weak fairness of the clock and of a frame that has begun, none
  of the compositor that lets the next one begin; strong fairness of a
  callback's return on the render thread and of a frame being drawn:
  application callbacks return, and drawing does not throw in every frame. The main thread gets no fairness: everything must be handled by the
  frame loop alone.
- `NovaGLThread`: weak fairness of every GL thread, and of a call that is under
  way: Java schedules them. What the application calls, when the collector runs
  and how EGL answers is theirs. `NovaNatives` takes this fairness over.
- `NovaInput`: weak fairness of the main thread, which dispatches the events
  that have come. Nobody has to move a pointer or to close the window.
- `NovaTimedQueue`: weak fairness of `Hand`, which the fairness of `NovaLooper`
  implements while frames go on.
- `NovaLinker`: weak fairness of a call in progress, because the loader waits
  for nothing.

## 4. What is proved

Each theorem holds for every value of the constants that satisfies the
assumptions named in the component's module. The assumptions say what the
constants are and little more (the parcel's, which bound what is written at
once, are justified below); the bounds of the instances (`MaxPosts`,
`MaxMaps`, `MaxCalls` and so on) are arbitrary numbers in the proofs.

| Theorem | Module | States |
|---|---|---|
| `TableAlwaysExact` | `NovaIpcProofs` | `Spec => []ClientTableExact` |
| `HeaderReadsNeverBlock` | `NovaIpcProofs` | `Spec => []HeaderReadNeverBlocks` |
| `TypesAreKept` | `NovaIpcCallProofs` | `Spec => []TypeOK` |
| `CallsLeaveSilence` | `NovaIpcCallProofs` | `Spec => []QuietBetweenCalls` |
| `TransportImplementsRpc` | `NovaIpcCallProofs` | `Spec => CallsAreAtMostOnce` (refinement of `NovaRpc`) |
| `HostTypes` | `NovaHostProofs` | `Spec => []TypeOK` |
| `RenderThreadIsSafe` | `NovaHostProofs` | `Spec => []RenderTouchesLiveObjects` |
| `ReleaseOrder` | `NovaHostProofs` | `Spec => []ReleasedInOrder` |
| `LauncherTypes` | `NovaLauncherProofs` | `Spec => []TypeOK` |
| `GuardIsExact` | `NovaLauncherProofs` | `Spec => []GuardExact` |
| `LaunchesImplementTask` | `NovaLauncherProofs` | `Spec => LaunchesMakeATask` (refinement of `NovaTask`) |
| `OneActivityIsUp` | `NovaLauncherProofs` | `Spec => [](Promised => ResumedIsCurrent /\ OneIsUp)` |
| `LooperTypesKept` | `NovaLooperProofs` | `Spec => []TypeOK` |
| `MessagesHaveOneOwner` | `NovaLooperProofs` | `Spec => []OwnedOnce` |
| `LooperIsGivenBack` | `NovaLooperProofs` | `Spec => []LooperRestored` |
| `LooperImplementsQueue` | `NovaLooperProofs` | `Spec => QueueIsTimed` (refinement of `NovaTimedQueue`) |
| `LoaderTypes` | `NovaLinkerProofs` | `Spec => []TypeOK` |
| `OneObjectPerFile` | `NovaLinkerProofs` | `Spec => []FilesMappedOnce` |
| `NothingInUseIsUnmapped` | `NovaLinkerProofs` | `Spec => []UsersStayMapped` |
| `OnlySymbolsDangle` | `NovaLinkerProofs` | `Spec => []DanglingOnlyIfOpened` |
| `RelocationsWaitForNeeds` | `NovaLinkerProofs` | `Spec => []NeedsComeFirst` |
| `BridgeIsSafe` | `NovaNativesProofs` | `Spec => []SerialUseIsSafe` |
| `BridgeLeaksByReconnect` | `NovaNativesProofs` | `Spec => []OnlyReconnectLeaks` |
| `InputKeepsVmPointer` | `NovaNativesProofs` | `Spec => []VmPointerKept` |
| `CanvasRestoresLevels` | `NovaNativesProofs` | `Spec => RestoreBringsBack` (an action property) |
| `PropsAreWriteOnce` | `NovaNativesProofs` | `Spec => []WriteOnceMap` |
| `GLPausedReleases` | `NovaNativesProofs` | `Spec => []PausedIsReleased` |
| `GLPoliteViews` | `NovaNativesProofs` | `Spec => []PoliteViewsDoNotClash` |
| `ParcelTypes` | `NovaParcelProofs` | `Spec => []Parcel!TypeOK` |
| `ParcelReadsBack` | `NovaParcelProofs` | `Spec => []ReadsBack` |

### The transport

The assumptions: `NoConn` is no connection; the table has at least one place;
registered services have ids clients may name; handlers return zero or a
negative number that fits half of the word, as those of nova-daemon do; what is
taken for a status is a word.

**The table.** Neither property is inductive. The invariant `TableInv` adds:
descriptors and connections correspond one to one (`OwnersExact`), a queued
connection is queued once and was never accepted (`BacklogFresh`), and a
descriptor the scan has not reached is as readable as `select` said
(`ReportsHold`). The last needs the others: only because no two places of the
table name one descriptor, and no two descriptors one connection, does serving
place `i` leave the readability of places after `i` alone; and a descriptor
number that `accept` reuses after `select` is never in `rfds`, because it was
not in the table then. `RemoveCur`, of `RecvEof` and `RecvGrowFails`, is the step
in which all parts meet: the last place moves to `idx`, and what was reported of
it must still be true there.

**The conversations.** `CallInv` is `TableInv` with `TalkInv`, which says for
every connection how far its call is: `RequestOf` describes what lies between
the client's writes and the server's reads, `CallOf` what the client may still
find, `HistoryOf` ties the last execution to the call counter. It is needed
because each property speaks of one end only: that a client in `ready` has an
empty stream depends on the server having written one header and at most one
body for the request it took, which depends on the client having sent no second
request. A `garbled` handle breaks all three, but not what the server rests on:
`Framed` says that the requests in a stream are whole, each header followed by the
data it announces, with the last owed by the client if they are missing. It does
not mention replies, so it holds for every handle, however many requests one that
no longer waits for its replies has written, and `TypeOK` follows from it. `TalkInv`
is `Framed` of every handle and `InStep` of every handle: it is `garbled`, or the
three parts hold. The induction has two lemmas for the client's steps
(`ClientFramed`, `ClientSpeaks`), two for the server's (`ServerFramed`,
`ServerSpeaks`), and frame lemmas which say that a step on one connection leaves
the others alone (`TalkFrame`, `FramedFrame`, `ClientOthers`, `ServingOthers`).

**The refinement.** Each client step is a step of `NovaRpc` at its handle or
changes nothing there (`ClientRpc`); the one that finds no memory is `Break`
(`BreakRpc`), after which no step of the handle changes anything
(`GarbledRpc`); `Handle` and `HandleUnknown` are `Execute`, unless the handle is
broken, and every other step of the server at most drops what dead callers
have sent (`RpcDrop`): it takes no request but from the stream of an open
connection (`InFlightShrinks`). A handle between two calls has nothing in
flight, so one that leaves then is gone at once and nothing of it runs later.
`CallInv` supplies what the abstract guards ask for: the request in hand is the
current call of its handle and has not been executed before.

### The host

Which object exists is no fact about one stage: `ReleasedInOrder` at the label
`windowDestroy` depends on which of two paths led there. `HostInv` says for
every value of `pc` exactly what is held (`StagesHold`: the connection from
`window` to `stateDestroy`, the window from `configure` to `windowDestroy`, and
so on), what the second connection is at and for whom it is there
(`CanvasHolds`: main makes it, the render thread uses it, or the thread could not
be started), and what the
redirected globals and the render thread may refer to (`RedirectHolds`). The
last is why the render thread is safe: it exists only from `startThread` to the
end of `nova_art_shutdown`, which waits for it, and main releases the window
and the connection after that.

### The launcher

`GuardExact` needs that no two calls, on whatever threads, are guarded at once
(`GuardInv`). The refinement is about applications whose first activity alone
is drawn on a Canvas and whose callbacks neither finish nor throw nor start an
activity while the guard is down, the situation in which one thread dispatches
and all launches come out of the queue; `PromisedInv` is `TaskInv` under that
hypothesis. `TaskInv` says that once the render thread is there the main thread
does nothing but return from the first launch (`OneThread`, so that at most one
thread is `Active`),
that all but the innermost call of its stack wait in a drain (`Nesting`), that
no activity is on the way twice (`LaunchedOnce`),
that only the innermost call has an activity half way up (`ComingUp`), and
where the activity in front is when a call begins, pauses, starts the next and
returns (`TaskShape`). Whether a call is guarded plays no part: a launch that the
render thread defers before the main thread lowers the guard, or that a drain
leaves behind, runs later with no guard. With two dispatchers `OneThread` fails,
and with it the refinement: see `launcher_threads`.

`OneActivityIsUp` uses the refinement: that whoever is resumed or paused is in
front, and that an activity comes alone and when nobody is up (`OneInFront`), is
an invariant of `NovaTask` (`FrontNext`), and the mapping makes the front of the
task the current activity (`FrontIsCurrent`). It is what the counterexample of
`launcher_threads` violates when two threads dispatch.

### The message loop

`OwnedOnce` for a post needs that an object that comes out of the pool is in
no dispatch, for a recycling that the one dispatch it leaves was its only
place: `Placed` keeps queue, pool and the messages in hand apart, whatever the
depth of the nesting. `Lent` says which looper each drain has to give back,
`Limited` that a message is in hand only while the drain has one left to count.
`LooperRestored` is the consequence of `Lent` for the innermost drain.

For the refinement, `Carried` says that what an object carries while it waits
or runs is what was posted, and `CarriedOnce` that no two objects carry the
same post. Both depend on `Placed`: a post may write an object only because
nobody has it. `TimedPost`, `TimedRemove`, `TimedHand` and `TimedDone` map the
steps one by one; the other steps change nothing of the abstract queue.

### The loader

No property of the loader is inductive. `LinkerInv` adds that the reference
count of an object is at least its handles, plus one while the program's own
`bionic_dlopen` of it runs, plus one if a relocation opened it or an object
needs it, and that an object is listed exactly as long as its count is
positive (`Counted`). An object that the program is opening and that a
library it needs needs in turn has both references: a form that counted
one of them only was refuted. `StackShape` says that each call on the stack is the one its caller's
work item makes, `IndexTrue` that the symbol index names definers,
`DoneOrLoading` that nothing is half loaded and forgotten, and `NeedsMet` that
what a call has passed is loaded or further out on the stack, which at the
moment of relocation is `NeedsComeFirst`.

What the files need, export and import is not restricted, cycles and versioned
needs included; `LinkerAssumption` only asks that there are finitely many files,
each with a name, and that every name has a form without its version.

### The natives

- *Bridge.* As long as calls do not overlap, whoever is inside `connect`,
  `transact` or `close` is alone there, and the handle it read is the one in
  `mNativeHandle` (`BridgeInv`).
- *Input.* Until the devices change, the answers to the bindings are all that
  comes, and they come before the seat has a listener: nothing is written into
  the struct (`InputQuiet`).
- *Canvas.* Each level below the limit holds what the ideal stack holds
  (`LevelsKept`); for any number of levels, any depth and any numbers.
- *Properties.* While sets do not overlap, one writer is between its search and
  its store, rows below the count are whole and final, and a reader that has
  passed a row has seen that it is not its own (`PropsInv`).
- *GL.* `GLInv` relates the life of each view to its thread (`LivesOK`), a call
  to what it waits for (`CallsOK`), the surfaces of the display to the fields
  that say so (`SurfacesHeld`), and, for polite applications, who may be at
  work (`OneAtWork`). A first form of the last said "the others are paused" and
  was refuted: a view that was paused and then forgotten is at work on its
  exit.

### The parcel

`LengthAssumption` says that the first capacity, doubled often enough, is
exactly the range of lengths, as 64 bytes double to 2^32, and that a word and
what one write appends are shorter than half that range: a Java array or string
has fewer than 2^31 elements. Nothing is assumed about how much is written in
all: a parcel may get so long that the loop in `parcel_grow` does not end, and
`ReadsBack` asks for what is true then (`hung` is an answer it allows only when
half the range is not enough).

Neither `ReadsBack` nor the types are inductive. `ParcelInv` says that the
length and the capacity are in range and the capacity, once there is one, is a
doubling of the first up to half the range (`ParcelLengths`), that the loop
hangs only for want of half the range (`GrowEnds`), and, until a realloc fails,
how the cells are laid out (`Faithful`): there is a sequence of positions `at`
such that item i, with its length in front if it is a string, stands in the
cells from `at[i-1]` to `at[i]`, the cursor is at `at[taken]`, and what the
write that is running has still to append is the rest of the last item
(`ToAppend`). A write extends `at`, growth copies the cells under it, a read
moves the cursor from one position to the next. After a failed realloc the
layout is lost, as it is in the code, and only the lengths remain.

The powers, the value of a word and the doublings of a capacity are recursive
functions. That such a function exists and satisfies its equation is proved
from well-founded induction on sets of naturals (`Induction`, `Recursion`), not
from the library's theorems about operators, which the installed provers cannot
instantiate. On it rest the facts about data: a word read back is the number
that was written (`WordRoundTrip`), every capacity is reached by doubling
(`CapsDouble`, `DoublingsReach`), and the loop picks the first that is enough
(`NewCapIs`).

### What stays with TLC

- Liveness and fairness: `CallsReturn`, `PendingIsTaken` and `StopEndsRun` of
  the transport, `CloseEndsLoop` of the host, `LaunchReturns` and
  `StartIsServed` of the launcher, `HeadIsHanded`, `FrameEnds` and
  `EveryTaskRuns` of the message loop, `LoadReturns` of the loader,
  `CallsReturn` and `RequestIsDrawn` of the GL threads. TLAPS as installed does
  not reason about fairness and `ENABLED`.
- The violated properties of section 5, which are false.

## 5. What the checks found

Each is the counterexample of a run listed as violated, and each is set against
a sentence of the repository in `PROJECT.json`, "findings".

1. **A client that dies before its reply takes the daemon down**
   (`ipc_sigpipe`): the write raises SIGPIPE, which `nova-daemon` neither
   ignores nor handles.
2. **A process with a Canvas activity does not exit after its window is closed**
   (`host_no_exit`): `DestroyJavaVM` waits for the render thread, and nothing
   calls `RenderCoordinator.stop`.
3. **A buffer of one Wayland connection is attached to a surface of the other**
   (`host_buffer`): `nova_canvas_render.c` recreates its buffer when the size
   changes, not when the connection does.
4. **Two activities can be resumed at once** (`launcher_threads`): a nested
   Canvas launch starts the render thread while the outer launch still drains
   the queue; each takes a deferred launch, and both leave the same activity.
5. **No input reaches the views** (`host_input`): the seat announces its devices
   before its listener is added, so no pointer or keyboard is made until the
   devices change; then the listeners look for the virtual machine at offsets
   where `art.c` does not store it, and return. `pointer_enter` does not look
   and writes the coordinates over `art.c`'s pointer to the virtual machine,
   through which `nova_art_shutdown` then calls (`VmPointerKept` holds until the
   second announcement only).

A stop that arrives before `nova_ipc_server_run` sets `running` is overwritten
and lost; `StopEndsRun` is therefore stated for stops that arrive inside the
loop. A client handle stays usable after a reply whose data found no memory
(`nova_ipc.c:127`), and its next call reads those data as a reply;
`QuietBetweenCalls`, `CallsAreAtMostOnce` and `CallsReturn` are therefore stated
for handles whose replies all found memory. No document of the repository says
what such a handle is good for; a caller should destroy it. `LaunchesMakeATask` is stated for applications that start nothing from a callback
while the guard is down: a deferred launch runs as `launchActivityImpl`, and if
the launch it waited for is over by then, because a drain stopped at a delayed
task or the render thread deferred it before `Launcher.java:202`, then
`startActivity` of its callbacks launches in the middle of it, which is what the
comment of `Launcher.java:49-52` says the guard prevents.
`RestoreBringsBack` is stated for callers of `restoreToCount` that close
one level at a time: `Canvas.restoreToCount` ignores its argument and restores
one. `PoliteViewsDoNotClash` is stated for applications that pause each view
before the next gets to work: `Launcher` does not do it for them. It promises
them the window and their own contexts and surfaces, but no configuration: the
one that `EGLImpl` puts in place of every view's own goes stale with the first
`eglTerminate`, the paused view's own included, so a resumed view may be refused
the context that `GLSurfaceView.java:302` says is recreated.

Seen while reading, and stated by no property: `bionic_dlerror` empties its
buffer before it returns it, so its text is always empty; input listeners use
the main thread's `JNIEnv` from whichever thread dispatches; `Handler.remove*`
walks the queue without its lock; `Launcher.finishActivity` resumes the activity
below without pausing the current one; a message sent a second time while it is
queued is recycled twice; quit does not end `Looper.loop`; a system property
cannot be changed once it is set.

## 6. Plan

Every component with a protocol has its model, and every invariant that the
passing runs check is proved. What is left, in this order:

1. **The guard under two dispatchers**: which part of `NovaTask` remains true
   when the render thread launches too.
2. **`NovaCallback`** on the streams of `NovaIpc`, should the callback server
   get a user; the view tree's hit test, once input arrives there.

New modules are to be checked in runs shared with an existing question where
that is possible, so that there stays one run for each question.

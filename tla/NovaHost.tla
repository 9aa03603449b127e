------------------------------ MODULE NovaHost ------------------------------
(***************************************************************************)
(* The host process (nova/src/main.c) from start to exit: the stages it     *)
(* acquires and releases, the two Wayland connections it ends up with (its  *)
(* own, and the one RenderCoordinator.start opens through nativeInitDisplay),*)
(* the globals of nova_canvas_render.c that both its main thread and         *)
(* NovaRenderThread read and write, and the compositor at the other end.    *)
(*                                                                          *)
(* libwayland is external: a connection is a set of undelivered events and  *)
(* a link that may break; a thread in wl_display_dispatch blocks until an   *)
(* event is there or the link is broken, and delivers all events at once.   *)
(* Events of the host's connection may also be read by EGL, for its own     *)
(* answers, and wait in the connection's queue: they are delivered by        *)
(* wl_display_dispatch_pending, which does not block.                        *)
(***************************************************************************)
EXTENDS Naturals, FiniteSets

CONSTANTS
  Renderers,     \* what the launched activity may draw with
  LinksMayBreak  \* whether the compositor may die or drop a connection
ASSUME HostAssumption ==
  Renderers \subseteq {"none", "canvas", "gl"} /\ LinksMayBreak \in BOOLEAN

Displays == {"main", "canvas"}
Nil == "nil"
Events == {"configure", "close", "release"}

VARIABLES
  pc,        \* where the main thread is
  daemon,    \* the connection to nova-daemon is open
  disp,      \* struct nova_state of a connection: none, open, freed
  link,      \* the compositor is still there
  win,       \* struct nova_window: none, waiting (not configured), open, freed
  closed,    \* win->closed
  events,    \* events the compositor has sent and nobody has read
  queued,    \* events of the host's connection EGL has read, not yet dispatched
  egl,       \* struct nova_egl exists
  libart,    \* libart.so is loaded
  jvm,       \* the virtual machine runs
  renderer,  \* what the activity draws with
  gState,    \* g_state: the connection it points to
  gWindow,   \* g_window: the connection its window belongs to
  canvas,    \* g_canvas_render: the connection its wl_buffer was created on
  rt,        \* where NovaRenderThread is
  rtOn,      \* the connection NovaRenderThread dispatches
  attached,  \* last wl_surface_attach: the connections of buffer and surface
  owed,      \* the compositor has a buffer it has not released yet
  failed     \* history: the stage that made main give up

hostVars == <<daemon, egl, libart, jvm, renderer, failed>>
wlVars == <<disp, link, win, closed, events, queued, owed>>
renderVars == <<gState, gWindow, canvas, rt, rtOn, attached>>
vars == <<pc, hostVars, wlVars, renderVars>>

Init ==
  /\ pc = "daemon" /\ daemon = FALSE /\ egl = FALSE /\ libart = FALSE
  /\ jvm = FALSE /\ renderer = "none" /\ failed = "none" /\ queued = {}
  /\ disp = [d \in Displays |-> "none"] /\ link = [d \in Displays |-> TRUE]
  /\ win = [d \in Displays |-> "none"] /\ closed = [d \in Displays |-> FALSE]
  /\ events = [d \in Displays |-> {}] /\ owed = [d \in Displays |-> FALSE]
  /\ gState = Nil /\ gWindow = Nil /\ canvas = Nil
  /\ rt = "unborn" /\ rtOn = Nil /\ attached = [buffer |-> Nil, surface |-> Nil]

-----------------------------------------------------------------------------
(* libwayland, and the listeners of nova_wayland.c.                         *)

\* The events in the queue of connection d, and all that have come for it.
Pending(d) == IF d = "main" THEN queued ELSE {}
Arrived(d) == events[d] \cup Pending(d)

\* A thread may return from wl_display_dispatch on d.
CanReturn(d) == Arrived(d) # {} \/ ~link[d]

\* The listeners get events es of d: xdg_surface_configure sets configured,
\* xdg_toplevel_close sets closed, buffer_release does nothing.
Handle(d, es) ==
  /\ win' = [win EXCEPT ![d] = IF "configure" \in es /\ @ = "waiting" THEN "open" ELSE @]
  /\ closed' = [closed EXCEPT ![d] = @ \/ "close" \in es]
  /\ queued' = IF d = "main" THEN {} ELSE queued

\* wl_display_dispatch on d: what has come is read and handled.
Deliver(d) ==
  /\ Handle(d, Arrived(d)) /\ events' = [events EXCEPT ![d] = {}]
  /\ UNCHANGED <<disp, link, owed>>

\* wl_display_dispatch_pending on d: only what is in the queue is handled.
DeliverPending(d) == Handle(d, Pending(d)) /\ UNCHANGED <<disp, link, events, owed>>

\* nova_state_create: NULL when the compositor is not there or lacks a global.
StateCreate(d) == disp' = [disp EXCEPT ![d] = "open"]
\* nova_window_create up to its wait for the first configure.
WindowCreate(d) == win' = [win EXCEPT ![d] = "waiting"]

\* The wait for the first configure is over, also when dispatch has failed.
Configured(d) == "configure" \in Arrived(d) \/ (Arrived(d) = {} /\ ~link[d])

-----------------------------------------------------------------------------
(* The main thread.                                                         *)

\* The daemon is optional; nova_daemon_register_window's result is ignored.
DaemonConnect ==
  /\ pc = "daemon" /\ pc' = "state"
  /\ daemon' \in BOOLEAN
  /\ UNCHANGED <<egl, libart, jvm, renderer, failed, wlVars, renderVars>>

\* A stage fails, and main unwinds what the stages before it have made.
Fails(label) == failed' = pc /\ pc' = label

MainState ==
  /\ pc = "state"
  /\ \/ StateCreate("main") /\ pc' = "window" /\ UNCHANGED failed
     \/ UNCHANGED disp /\ Fails("disconnect")
  /\ UNCHANGED <<daemon, egl, libart, jvm, renderer, link, win, closed, events, queued, owed, renderVars>>

MainWindow ==
  /\ pc = "window"
  /\ \/ WindowCreate("main") /\ pc' = "configure" /\ UNCHANGED failed
     \/ UNCHANGED win /\ Fails("stateDestroy")
  /\ UNCHANGED <<daemon, egl, libart, jvm, renderer, disp, link, closed, events, queued, owed, renderVars>>

MainConfigure ==
  /\ pc = "configure" /\ CanReturn("main")
  /\ Deliver("main")
  /\ pc' = IF Configured("main") THEN "art" ELSE "configure"
  /\ UNCHANGED <<hostVars, renderVars>>

\* nova_art_init loads libart.so and makes the virtual machine.  It unloads the
\* library when it fails, but for a failure of its first two options.
ArtInit ==
  /\ pc = "art"
  /\ \/ jvm' = TRUE /\ libart' = TRUE /\ pc' = "egl" /\ UNCHANGED failed
     \/ UNCHANGED <<jvm, libart>> /\ Fails("windowDestroy")
     \/ UNCHANGED jvm /\ libart' = TRUE /\ pc' = "windowDestroy" /\ failed' = "options"
  /\ UNCHANGED <<daemon, egl, renderer, wlVars, renderVars>>

\* eglInitialize reads the host's connection for the answers to its own requests.
EglMayRead ==
  \/ UNCHANGED <<events, queued>>
  \/ queued' = Arrived("main") /\ events' = [events EXCEPT !["main"] = {}]

\* Mutant: the virtual machine is left running when EGL fails.
MutantEglCreate ==
  /\ pc = "egl" /\ EglMayRead
  /\ \/ egl' = TRUE /\ pc' = "launch" /\ UNCHANGED failed
     \/ UNCHANGED egl /\ Fails("windowDestroy")
  /\ UNCHANGED <<daemon, libart, jvm, renderer, disp, link, win, closed, owed, renderVars>>

EglCreate ==
  /\ pc = "egl" /\ EglMayRead
  /\ \/ egl' = TRUE /\ pc' = "launch" /\ UNCHANGED failed
     \/ UNCHANGED egl /\ Fails("artShutdown")
  /\ UNCHANGED <<daemon, libart, jvm, renderer, disp, link, win, closed, owed, renderVars>>

\* nova_art_launch_apk runs Launcher.launch on this thread until the first
\* activity is bound to its renderer; any exception makes the launch fail.
Launch ==
  /\ pc = "launch"
  /\ \/ /\ renderer' \in Renderers /\ UNCHANGED failed
        /\ pc' = IF renderer' = "canvas" THEN "canvasState" ELSE "setState"
     \/ UNCHANGED renderer /\ Fails("eglDestroy")
  /\ UNCHANGED <<daemon, egl, libart, jvm, wlVars, renderVars>>

\* nativeInitDisplay: a second connection, stored in g_state.
CanvasState ==
  /\ pc = "canvasState"
  /\ \/ StateCreate("canvas") /\ gState' = "canvas" /\ pc' = "canvasWindow"
     \/ UNCHANGED disp /\ gState' = Nil /\ pc' = "startThread"
  /\ UNCHANGED <<hostVars, link, win, closed, events, queued, owed, gWindow, canvas, rt, rtOn, attached>>

\* ... and a second window; g_state is freed and cleared when it fails.
CanvasWindow ==
  /\ pc = "canvasWindow"
  /\ \/ WindowCreate("canvas") /\ pc' = "canvasConfigure" /\ UNCHANGED <<disp, gState>>
     \/ /\ disp' = [disp EXCEPT !["canvas"] = "freed"] /\ gState' = Nil
        /\ pc' = "startThread" /\ UNCHANGED win
  /\ UNCHANGED <<hostVars, link, closed, events, queued, owed, gWindow, canvas, rt, rtOn, attached>>

CanvasConfigure ==
  /\ pc = "canvasConfigure" /\ CanReturn("canvas")
  /\ Deliver("canvas")
  /\ IF Configured("canvas") THEN pc' = "startThread" /\ gWindow' = "canvas"
                             ELSE UNCHANGED <<pc, gWindow>>
  /\ UNCHANGED <<hostVars, gState, canvas, rt, rtOn, attached>>

\* RenderCoordinator.start goes on whether the display is there or not.  An
\* exception before the thread is started, or of a task the launch still drains
\* afterwards, makes the launch fail; nobody releases the second connection then.
StartThread ==
  /\ pc = "startThread"
  /\ \/ rt' = "dispatch" /\ pc' = "setState" /\ UNCHANGED failed
     \/ rt' \in {"unborn", "dispatch"} /\ Fails("eglDestroy")
  /\ UNCHANGED <<daemon, egl, libart, jvm, renderer, wlVars, gState, gWindow, canvas, rtOn, attached>>

\* nova_art_init_render redirects the globals to the host's own window, one
\* at a time, while the render thread uses them.
SetRenderState ==
  /\ pc = "setState" /\ pc' = "setWindow" /\ gState' = "main"
  /\ UNCHANGED <<hostVars, wlVars, gWindow, canvas, rt, rtOn, attached>>

SetRenderWindow ==
  /\ pc = "setWindow" /\ pc' = "loop" /\ gWindow' = "main"
  /\ UNCHANGED <<hostVars, wlVars, gState, canvas, rt, rtOn, attached>>

\* Mutant: the loop does not look at closed.
MutantLoopCheck == pc = "loop" /\ pc' = "dispatch" /\ UNCHANGED <<hostVars, wlVars, renderVars>>

\* while (!win->closed)
LoopCheck ==
  /\ pc = "loop" /\ pc' = IF closed["main"] THEN "eglDestroy" ELSE "dispatch"
  /\ UNCHANGED <<hostVars, wlVars, renderVars>>

\* nova_dispatch: what is queued is handled, then requests are flushed; on a
\* broken connection or a full socket the call, and with it the loop, is over.
LoopPending ==
  /\ pc = "dispatch" /\ DeliverPending("main")
  /\ pc' \in {"wait", "eglDestroy"}
  /\ UNCHANGED <<hostVars, renderVars>>

\* ... and then it blocks for further events, also when the close request was
\* among those just handled.  When it returns, another thread that waits on the
\* same connection may find the events gone and return too, or go on waiting:
\* libwayland versions differ.
LoopDispatch ==
  /\ pc = "wait" /\ CanReturn("main")
  /\ Deliver("main")
  /\ pc' = IF Arrived("main") # {} THEN "loop" ELSE "eglDestroy"
  /\ \/ UNCHANGED rt
     \/ rt = "wait" /\ rtOn = "main" /\ rt' = "frame"
  /\ UNCHANGED <<hostVars, gState, gWindow, canvas, rtOn, attached>>

EglDestroy ==
  /\ pc = "eglDestroy" /\ pc' = "artShutdown" /\ egl' = FALSE
  /\ UNCHANGED <<daemon, libart, jvm, renderer, failed, wlVars, renderVars>>

\* Threads DestroyJavaVM waits for: neither is a daemon thread, and nothing in
\* the process asks them to end.
JavaThreadRuns == rt # "unborn" \/ renderer = "gl"

\* Mutant: the virtual machine is left without waiting for its threads.
MutantArtShutdown ==
  /\ pc = "artShutdown" /\ pc' = "windowDestroy"
  /\ jvm' = FALSE /\ libart' = FALSE
  /\ UNCHANGED <<daemon, egl, renderer, failed, wlVars, renderVars>>

ArtShutdown ==
  /\ pc = "artShutdown" /\ pc' = "windowDestroy"
  /\ jvm => ~JavaThreadRuns
  /\ jvm' = FALSE /\ libart' = FALSE
  /\ UNCHANGED <<daemon, egl, renderer, failed, wlVars, renderVars>>

WindowDestroy ==
  /\ pc = "windowDestroy" /\ pc' = "stateDestroy"
  /\ win' = [win EXCEPT !["main"] = "freed"]
  /\ UNCHANGED <<hostVars, disp, link, closed, events, queued, owed, renderVars>>

StateDestroy ==
  /\ pc = "stateDestroy" /\ pc' = "disconnect"
  /\ disp' = [disp EXCEPT !["main"] = "freed"]
  /\ events' = [events EXCEPT !["main"] = {}] /\ queued' = {}
  /\ UNCHANGED <<hostVars, link, win, closed, owed, renderVars>>

Disconnect ==
  /\ pc = "disconnect" /\ pc' = "exit" /\ daemon' = FALSE
  /\ UNCHANGED <<egl, libart, jvm, renderer, failed, wlVars, renderVars>>

MainStep ==
  \/ DaemonConnect \/ MainState \/ MainWindow \/ MainConfigure \/ ArtInit \/ EglCreate
  \/ Launch \/ CanvasState \/ CanvasWindow \/ CanvasConfigure \/ StartThread
  \/ SetRenderState \/ SetRenderWindow \/ LoopCheck \/ LoopPending \/ LoopDispatch
  \/ EglDestroy \/ ArtShutdown \/ WindowDestroy \/ StateDestroy \/ Disconnect

-----------------------------------------------------------------------------
(* NovaRenderThread: renderLoop of RenderCoordinator.  Nobody calls stop(), *)
(* so mRunning stays true.                                                  *)

\* Mutant: g_state is not tested for NULL.
MutantRtDispatch ==
  /\ rt = "dispatch" /\ rt' = "wait" /\ rtOn' = gState
  /\ UNCHANGED <<pc, hostVars, wlVars, gState, gWindow, canvas, attached>>

\* nativeDispatchEvents reads g_state; nova_dispatch handles what is queued and
\* flushes (its result is ignored) ...
RtDispatch ==
  /\ rt = "dispatch"
  /\ IF gState = Nil THEN rt' = "frame" /\ UNCHANGED <<rtOn, wlVars>>
     ELSE rt' \in {"wait", "frame"} /\ rtOn' = gState /\ DeliverPending(gState)
  /\ UNCHANGED <<pc, hostVars, gState, gWindow, canvas, attached>>

\* ... and blocks in wl_display_dispatch.
RtReturn ==
  /\ rt = "wait" /\ CanReturn(rtOn)
  /\ Deliver(rtOn) /\ rt' = "frame"
  /\ \/ UNCHANGED pc
     \/ pc = "wait" /\ rtOn = "main" /\ pc' = "loop"
  /\ UNCHANGED <<hostVars, gState, gWindow, canvas, rtOn, attached>>

\* submitFrame: nothing without a display; the shared-memory buffer is created
\* on the connection of g_state, once (the size of a bitmap never changes).
RtFrame ==
  /\ rt = "frame"
  /\ IF gState = Nil \/ gWindow = Nil
     THEN rt' = "dispatch" /\ UNCHANGED canvas
     ELSE rt' = "submit" /\ canvas' = IF canvas = Nil THEN gState ELSE canvas
  /\ UNCHANGED <<pc, hostVars, wlVars, gState, gWindow, rtOn, attached>>

\* nova_canvas_render_submit: attach, damage, commit on the surface of g_window.
RtSubmit ==
  /\ rt = "submit" /\ rt' = "dispatch"
  /\ attached' = [buffer |-> canvas, surface |-> gWindow]
  /\ owed' = [owed EXCEPT ![gWindow] = TRUE]
  /\ UNCHANGED <<pc, hostVars, disp, link, win, closed, events, queued, gState, gWindow, canvas, rtOn>>

RtStep == RtDispatch \/ RtReturn \/ RtFrame \/ RtSubmit

-----------------------------------------------------------------------------
(* The compositor and its user (external).                                  *)

Send(d, e) ==
  /\ disp[d] = "open" /\ link[d] /\ e \notin events[d]
  /\ events' = [events EXCEPT ![d] = @ \cup {e}]
  /\ UNCHANGED <<pc, hostVars, disp, link, win, closed, queued, renderVars>>

SendConfigure(d) == win[d] \in {"waiting", "open"} /\ Send(d, "configure") /\ UNCHANGED owed
UserCloses(d) == win[d] = "open" /\ Send(d, "close") /\ UNCHANGED owed
SendRelease(d) == owed[d] /\ Send(d, "release") /\ owed' = [owed EXCEPT ![d] = FALSE]

LinkLost(d) ==
  /\ LinksMayBreak /\ disp[d] = "open" /\ link[d] /\ link' = [link EXCEPT ![d] = FALSE]
  /\ UNCHANGED <<pc, hostVars, disp, win, closed, events, queued, owed, renderVars>>

\* eglSwapBuffers of a GL thread reads the host's connection.
EglReads ==
  /\ renderer = "gl" /\ egl /\ events["main"] # {}
  /\ queued' = Arrived("main") /\ events' = [events EXCEPT !["main"] = {}]
  /\ UNCHANGED <<pc, hostVars, disp, link, win, closed, owed, renderVars>>

Compositor(d) == SendConfigure(d) \/ UserCloses(d) \/ SendRelease(d) \/ LinkLost(d)

Exited == pc = "exit" /\ UNCHANGED vars

\* exit() ends the process, and its render thread with it.
Next ==
  \/ pc # "exit" /\ (MainStep \/ RtStep \/ EglReads \/ \E d \in Displays : Compositor(d))
  \/ Exited

Spec == Init /\ [][Next]_vars

\* Both threads are scheduled; a compositor configures a new window and
\* releases the buffers it is given.  It owes nothing else, so a thread in
\* wl_display_dispatch may wait there for ever.
Fairness ==
  /\ WF_vars(pc # "exit" /\ MainStep) /\ WF_vars(pc # "exit" /\ RtStep)
  /\ \A d \in Displays :
       /\ WF_vars(pc # "exit" /\ win[d] = "waiting" /\ SendConfigure(d))
       /\ WF_vars(pc # "exit" /\ SendRelease(d))
FairSpec == Spec /\ Fairness

-----------------------------------------------------------------------------
(* Properties.                                                              *)

\* Types of all variables; the render thread dispatches and submits only through
\* pointers it has tested.
TypeOK ==
  /\ pc \in {"daemon", "state", "window", "configure", "art", "egl", "launch",
             "canvasState", "canvasWindow", "canvasConfigure", "startThread",
             "setState", "setWindow", "loop", "dispatch", "wait", "eglDestroy",
             "artShutdown", "windowDestroy", "stateDestroy", "disconnect", "exit"}
  /\ daemon \in BOOLEAN /\ egl \in BOOLEAN /\ libart \in BOOLEAN /\ jvm \in BOOLEAN
  /\ failed \in {"none", "state", "window", "art", "options", "egl", "launch", "startThread"}
  /\ renderer \in {"none", "canvas", "gl"}
  /\ disp \in [Displays -> {"none", "open", "freed"}] /\ link \in [Displays -> BOOLEAN]
  /\ win \in [Displays -> {"none", "waiting", "open", "freed"}]
  /\ closed \in [Displays -> BOOLEAN] /\ owed \in [Displays -> BOOLEAN]
  /\ events \in [Displays -> SUBSET Events] /\ queued \subseteq Events
  /\ {gState, gWindow, canvas, rtOn} \subseteq Displays \cup {Nil}
  /\ rt \in {"unborn", "dispatch", "wait", "frame", "submit"}
  /\ rt = "wait" => rtOn # Nil
  /\ rt = "submit" => canvas # Nil /\ gWindow # Nil
  /\ attached \in [buffer : Displays \cup {Nil}, surface : Displays \cup {Nil}]

\* The render thread never touches a freed object: whatever path main takes to
\* its exit, the connection it dispatches, the state and window the globals
\* name and the connection of the frame buffer stay allocated while it lives.
RenderTouchesLiveObjects ==
  (rt # "unborn" /\ pc # "exit") =>
    /\ \A d \in {gState, rtOn, canvas} \ {Nil} : disp[d] = "open"
    /\ gWindow # Nil => win[gWindow] \in {"waiting", "open"}

\* On every path, also the failing ones, objects are released in the reverse of
\* the order they were made in: a window lives inside its connection, EGL and
\* the virtual machine inside the host's window, the machine inside its library.
\* When main returns, the objects main.c made itself are gone, whichever stage
\* failed.  Two things others made stay behind, each after one failure only: the
\* connection and window of nativeInitDisplay when the start of the render thread
\* fails, and libart.so when nova_art_init has no memory for its first options.
ReleasedInOrder ==
  /\ \A d \in Displays : win[d] \in {"waiting", "open"} => disp[d] = "open"
  /\ egl => win["main"] \in {"waiting", "open"} /\ jvm
  /\ jvm => win["main"] \in {"waiting", "open"} /\ libart
  /\ pc = "exit" =>
       /\ ~daemon /\ ~egl /\ ~jvm /\ disp["main"] # "open"
       /\ disp["canvas"] = "open" => failed = "startThread"
       /\ libart <=> failed = "options"

\* A close request for the host's window ends the loop of an activity that does
\* not draw through the render thread, unless the compositor has nothing more to
\* say: nova_dispatch may have handled the request from the queue and blocks, for
\* ever then, before the loop looks at closed.
InLoop == pc \in {"loop", "dispatch", "wait"}
Silent == pc = "wait" /\ ~CanReturn("main")
CloseEndsLoop ==
  (InLoop /\ "close" \in Arrived("main") /\ renderer # "canvas") ~> (~InLoop \/ []Silent)

-----------------------------------------------------------------------------
(* What the repository says and the code does not do.                       *)

\* plan-v7.md:291 "Window close button exits cleanly": once main has left its loop
\* for a close request, the process exits.
CloseExits == (pc = "eglDestroy" /\ closed["main"]) ~> pc = "exit"

\* nova_canvas_render.c:168 "Create or recreate canvas_render if needed": the
\* buffer attached to a surface belongs to the surface's connection.
BufferOnOwnConnection == attached.buffer = attached.surface
=============================================================================

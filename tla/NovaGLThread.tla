---------------------------- MODULE NovaGLThread ----------------------------
(***************************************************************************)
(* GLSurfaceView and its GLThread: the monitor sGLThreadManager that all      *)
(* views share, the calls of the life cycle that wait in it, the threads that *)
(* draw, and the EGL objects they make through EGLImpl's natives.            *)
(*                                                                          *)
(* EGL is external.  EGLImpl gives every view the host's one display, one     *)
(* wl_egl_window and the one configuration the host chose when it started: a  *)
(* window carries one surface at a time, and eglTerminate invalidates all     *)
(* that is on the display, whoever made it, that configuration too.           *)
(*                                                                          *)
(* A synchronized block is one step; wait puts its thread in asleep, out of   *)
(* which any notifyAll takes it.  surfaceDestroyed, requestRenderAndNotify,   *)
(* requestReleaseEglContextLocked and the detach hooks have no caller here.   *)
(***************************************************************************)
EXTENDS Naturals, FiniteSets

CONSTANTS
  Views,
  Preserving,  \* views with setPreserveEGLContextOnPause
  WhenDirty,   \* views with RENDERMODE_WHEN_DIRTY; the application asks only these to render
  MaxCalls     \* bound on what the application does

Callers == {"main", "finalizer"}
Idle == [op |-> "none", view |-> "none"]

VARIABLES
  gl,      \* the GLThread of each view: fields under the monitor and locals of guardedRun
  egl,     \* the display: initialized; whether the host's configuration is valid; views
           \* whose context is, and views whose surface is
  call,    \* the call main and the finalizer thread are in
  asleep,  \* views whose thread waits, and callers that do
  life,    \* each view as the application sees it
  rude,    \* a view was put to work beside one that was not paused, or that keeps its context
  calls,   \* what the application has done so far
  asked    \* views with a requestRender no frame has been drawn after

vars == <<gl, egl, call, asleep, life, rude, calls, asked>>

\* A GLThread before it runs; mWidth and mHeight are positive or zero together.
Unstarted ==
  [pc |-> "none", shouldExit |-> FALSE, exited |-> FALSE, requestPaused |-> FALSE, paused |-> FALSE,
   hasSurface |-> FALSE, surfaceIsBad |-> FALSE, waitingForSurface |-> FALSE,
   haveEglContext |-> FALSE, haveEglSurface |-> FALSE, finishedCreating |-> FALSE,
   sized |-> FALSE, continuous |-> TRUE, requestRender |-> TRUE, wantNotification |-> FALSE,
   renderComplete |-> FALSE, events |-> 0, sizeChanged |-> TRUE, collected |-> FALSE,
   createEglSurface |-> FALSE, lostEglContext |-> FALSE, notify |-> FALSE, doNotification |-> FALSE]

Init ==
  /\ gl = [v \in Views |-> Unstarted]
  /\ egl = [initialized |-> TRUE, config |-> TRUE, contexts |-> {}, surfaces |-> {}]  \* nova_egl_create
  /\ call = [c \in Callers |-> Idle] /\ asleep = {}
  /\ life = [v \in Views |-> "none"] /\ rude = FALSE /\ calls = 0 /\ asked = {}

-----------------------------------------------------------------------------
ReadyToDraw(t) ==
  ~t.paused /\ t.hasSurface /\ ~t.surfaceIsBad /\ t.sized /\ (t.requestRender \/ t.continuous)
AbleToDraw(t) == t.haveEglContext /\ t.haveEglSurface /\ ReadyToDraw(t)

\* finish: the context is destroyed and eglTerminate takes the display down with
\* all that is on it.  eglInitialize brings the display back, but nobody chooses
\* active->config again, with which EGLImpl asks for every context and surface.
Terminated == [initialized |-> FALSE, config |-> FALSE, contexts |-> {}, surfaces |-> {}]

\* The display when v gives up its context or its surface; a view that was
\* collected can no longer be asked to destroy the surface.
Released(v, context, surface) ==
  IF gl[v].haveEglContext /\ context THEN Terminated
  ELSE [egl EXCEPT !.surfaces =
          IF gl[v].haveEglSurface /\ surface /\ ~gl[v].collected THEN @ \ {v} ELSE @]

\* What a round of the inner loop of guardedRun does before readyToDraw: the
\* thread t, the display e and whether it notified, n.
Updated(v) ==
  LET t == gl[v]
      turns == t.paused # t.requestPaused
      pausing == turns /\ t.requestPaused
      gone == ~t.hasSurface /\ ~t.waitingForSurface
      came == t.hasSurface /\ t.waitingForSurface
      stopSurface == t.lostEglContext \/ pausing \/ gone
      stopContext == t.lostEglContext \/ (pausing /\ (v \notin Preserving \/ t.collected))
  IN [t |-> [t EXCEPT !.paused = t.requestPaused, !.lostEglContext = FALSE,
                      !.haveEglSurface = @ /\ ~stopSurface, !.haveEglContext = @ /\ ~stopContext,
                      !.waitingForSurface = ~t.hasSurface, !.surfaceIsBad = @ /\ ~gone,
                      !.wantNotification = @ /\ ~t.doNotification,
                      !.renderComplete = @ \/ t.doNotification, !.doNotification = FALSE],
      e |-> Released(v, stopContext, stopSurface),
      n |-> turns \/ gone \/ came \/ t.doNotification \/ (stopContext /\ t.haveEglContext)]

\* The thread's step ends with t and e; the sleepers are woken if it notified.
Becomes(v, t, e, n, sleeps) ==
  /\ gl' = [gl EXCEPT ![v] = t] /\ egl' = e
  /\ asleep' = (IF n THEN {} ELSE asleep) \cup (IF sleeps THEN {v} ELSE {})

-----------------------------------------------------------------------------
(* guardedRun.                                                              *)

Runs(v, pc) == gl[v].pc = pc /\ v \notin asleep

PassExit(v) ==
  /\ Runs(v, "pass") /\ gl[v].shouldExit /\ gl' = [gl EXCEPT ![v].pc = "exit"]
  /\ UNCHANGED <<egl, call, asleep, life, rude, calls, asked>>

PassEvent(v) ==
  /\ Runs(v, "pass") /\ ~gl[v].shouldExit /\ gl[v].events > 0
  /\ gl' = [gl EXCEPT ![v].pc = "event", ![v].events = @ - 1]
  /\ UNCHANGED <<egl, call, asleep, life, rude, calls, asked>>

\* Ready to draw: a context if there is none (start: eglInitialize, a config, a
\* context), a surface if there is none or the size has changed.
PassDraw(v) ==
  \E s \in {Updated(v)} :
    LET makes == ~s.t.haveEglSurface \/ s.t.sizeChanged \/ s.t.createEglSurface IN
    /\ Runs(v, "pass") /\ ~gl[v].shouldExit /\ gl[v].events = 0 /\ ReadyToDraw(s.t)
    /\ s.t.haveEglContext \/ ~s.t.collected
    /\ Becomes(v, [s.t EXCEPT !.pc = IF makes THEN "create" ELSE "draw", !.createEglSurface = makes,
                     !.haveEglContext = TRUE, !.haveEglSurface = TRUE, !.sizeChanged = FALSE,
                     !.wantNotification = @ \/ s.t.sizeChanged,
                     !.notify = @ \/ s.t.wantNotification \/ s.t.sizeChanged,
                     !.requestRender = FALSE],
               IF s.t.haveEglContext THEN s.e
               ELSE [s.e EXCEPT !.initialized = TRUE, !.contexts = @ \cup {v}], TRUE, FALSE)
    /\ UNCHANGED <<call, life, rude, calls, asked>>

\* start throws: EGL gives no context, above all for a configuration that is not
\* valid any more, or there is no view to make it for.
PassThrows(v) ==
  \E s \in {Updated(v)} :
    /\ Runs(v, "pass") /\ ~gl[v].shouldExit /\ gl[v].events = 0 /\ ReadyToDraw(s.t)
    /\ ~s.t.haveEglContext
    /\ Becomes(v, [s.t EXCEPT !.pc = "exit"], s.e, TRUE, FALSE)
    /\ UNCHANGED <<call, life, rude, calls, asked>>

PassWaits(v) ==
  \E s \in {Updated(v)} :
    /\ Runs(v, "pass") /\ ~gl[v].shouldExit /\ gl[v].events = 0 /\ ~ReadyToDraw(s.t)
    /\ Becomes(v, s.t, s.e, s.n, TRUE)
    /\ UNCHANGED <<call, life, rude, calls, asked>>

\* An event may throw, like a callback of the renderer: guardedRun is left.
RunEvent(v) ==
  /\ Runs(v, "event") /\ \E pc \in {"pass", "exit"} : gl' = [gl EXCEPT ![v].pc = pc]
  /\ UNCHANGED <<egl, call, asleep, life, rude, calls, asked>>

Others(v) == egl.surfaces \ (IF gl[v].collected THEN {} ELSE {v})

\* What EGL needs of the display besides a configuration: no surface of another
\* view on the window, and the view's own objects not terminated.
MayCreate(v) == egl.initialized /\ v \in egl.contexts /\ Others(v) = {}
MaySwap(v) == egl.initialized /\ v \in egl.contexts \cap egl.surfaces

\* createSurface: the old surface goes, a new one is made and the context made
\* current on it, which may fail, with a stale configuration too.  Its outcome is published; after a refusal the
\* loop starts again and would try again, were the surface not bad.
CreateSurface(v) ==
  /\ Runs(v, "create")
  /\ \E surface, works \in BOOLEAN :
       /\ surface => egl.initialized /\ Others(v) = {} /\ ~gl[v].collected
       /\ works => surface /\ MayCreate(v)
       /\ Becomes(v, [gl[v] EXCEPT !.finishedCreating = TRUE, !.surfaceIsBad = @ \/ ~works,
                        !.createEglSurface = ~works, !.pc = IF works THEN "draw" ELSE "pass"],
                  [egl EXCEPT !.surfaces = IF surface THEN {v} ELSE Others(v)], TRUE, FALSE)
  /\ UNCHANGED <<call, life, rude, calls, asked>>

\* The renderer's callbacks; the frame answers the requests made before it.
Draw(v) ==
  /\ Runs(v, "draw") /\ \E pc \in {"swap", "exit"} : gl' = [gl EXCEPT ![v].pc = pc]
  /\ asked' = asked \ {v} /\ UNCHANGED <<egl, call, asleep, life, rude, calls>>

Swapped(t) == [t EXCEPT !.pc = "pass", !.doNotification = @ \/ t.notify, !.notify = FALSE]

\* Mutant: the request is cleared once the frame is out.
MutantSwap(v) ==
  /\ Runs(v, "swap")
  /\ LET t == [Swapped(gl[v]) EXCEPT !.requestRender = FALSE] IN
     \/ MaySwap(v) /\ Becomes(v, t, egl, FALSE, FALSE)
     \/ MaySwap(v) /\ Becomes(v, [t EXCEPT !.lostEglContext = TRUE], egl, FALSE, FALSE)
     \/ Becomes(v, [t EXCEPT !.surfaceIsBad = TRUE], egl, TRUE, FALSE)
  /\ UNCHANGED <<call, life, rude, calls, asked>>

\* eglSwapBuffers and what its error says; a bad surface is published.
Swap(v) ==
  /\ Runs(v, "swap")
  /\ LET t == Swapped(gl[v]) IN
     \/ MaySwap(v) /\ Becomes(v, t, egl, FALSE, FALSE)
     \/ MaySwap(v) /\ Becomes(v, [t EXCEPT !.lostEglContext = TRUE], egl, FALSE, FALSE)
     \/ Becomes(v, [t EXCEPT !.surfaceIsBad = TRUE], egl, TRUE, FALSE)
  /\ UNCHANGED <<call, life, rude, calls, asked>>

\* The finally of guardedRun ...
CleanUp(v) ==
  /\ Runs(v, "exit")
  /\ Becomes(v, [gl[v] EXCEPT !.pc = "exiting", !.haveEglContext = FALSE, !.haveEglSurface = FALSE],
             Released(v, TRUE, TRUE), gl[v].haveEglContext, FALSE)
  /\ UNCHANGED <<call, life, rude, calls, asked>>

\* Mutant: the thread's end is not announced.
MutantThreadExiting(v) ==
  /\ Runs(v, "exiting") /\ Becomes(v, [gl[v] EXCEPT !.pc = "dead", !.exited = TRUE], egl, FALSE, FALSE)
  /\ UNCHANGED <<call, life, rude, calls, asked>>

\* ... and of run: threadExiting.
ThreadExiting(v) ==
  /\ Runs(v, "exiting") /\ Becomes(v, [gl[v] EXCEPT !.pc = "dead", !.exited = TRUE], egl, TRUE, FALSE)
  /\ UNCHANGED <<call, life, rude, calls, asked>>

ThreadStep(v) ==
  \/ PassExit(v) \/ PassEvent(v) \/ PassDraw(v) \/ PassThrows(v) \/ PassWaits(v) \/ RunEvent(v)
  \/ CreateSurface(v) \/ Draw(v) \/ Swap(v) \/ CleanUp(v) \/ ThreadExiting(v)

-----------------------------------------------------------------------------
(* Calls that wait.                                                         *)

\* A call sets fields, notifies, and waits while its condition holds.
Begin(c, op, v, t) ==
  /\ call[c] = Idle /\ call' = [call EXCEPT ![c] = [op |-> op, view |-> v]]
  /\ gl' = [gl EXCEPT ![v] = t] /\ asleep' = {} /\ UNCHANGED <<egl, asked>>

Acts == calls < MaxCalls /\ calls' = calls + 1
Started(v) == life[v] \notin {"none", "made"}
\* v is put to work: is another view that was at work in its way?
Disturbs(v) ==
  \E u \in Views \ {v} :
    Started(u) /\ ~gl[u].exited /\ ~(life[u] = "paused" /\ u \notin Preserving)

\* setRenderer; setRenderMode follows it.
SetRenderer(v) ==
  /\ call["main"] = Idle /\ life[v] = "none" /\ life' = [life EXCEPT ![v] = "made"]
  /\ gl' = [gl EXCEPT ![v].pc = "pass", ![v].continuous = v \notin WhenDirty]
  /\ UNCHANGED <<egl, call, asleep, rude, calls, asked>>

\* novaSimulateSurfaceLifecycle: surfaceCreated, then surfaceChanged.
SurfaceCreated(v) ==
  /\ Acts /\ life[v] = "made" /\ life' = [life EXCEPT ![v] = "shown"] /\ rude' = (rude \/ Disturbs(v))
  /\ Begin("main", "surfaceCreated", v, [gl[v] EXCEPT !.hasSurface = TRUE, !.finishedCreating = FALSE])

OnPause(v) ==
  /\ Acts /\ life[v] = "running"
  /\ Begin("main", "onPause", v, [gl[v] EXCEPT !.requestPaused = TRUE]) /\ UNCHANGED <<life, rude>>

OnResume(v) ==
  /\ Acts /\ life[v] \in {"running", "paused"} /\ life' = [life EXCEPT ![v] = "running"]
  /\ rude' = (rude \/ Disturbs(v))
  /\ Begin("main", "onResume", v, [gl[v] EXCEPT !.requestPaused = FALSE, !.requestRender = TRUE,
                                                !.renderComplete = FALSE])

\* Mutant: onPause does not wait for the thread.
MutantMustWait(op, t) ==
  ~t.exited /\
  \/ op = "surfaceCreated" /\ t.waitingForSurface /\ ~t.finishedCreating
  \/ op = "onWindowResize" /\ ~t.paused /\ ~t.renderComplete /\ AbleToDraw(t)
  \/ op = "onResume" /\ t.paused /\ ~t.renderComplete
  \/ op = "requestExitAndWait"

\* The conditions of the wait loops.
MustWait(op, t) ==
  ~t.exited /\
  \/ op = "surfaceCreated" /\ t.waitingForSurface /\ ~t.finishedCreating
  \/ op = "onWindowResize" /\ ~t.paused /\ ~t.renderComplete /\ AbleToDraw(t)
  \/ op = "onPause" /\ ~t.paused
  \/ op = "onResume" /\ t.paused /\ ~t.renderComplete
  \/ op = "requestExitAndWait"

Waits(c) ==
  /\ call[c] # Idle /\ c \notin asleep /\ MustWait(call[c].op, gl[call[c].view])
  /\ asleep' = asleep \cup {c} /\ UNCHANGED <<gl, egl, call, life, rude, calls, asked>>

\* The call returns; after surfaceCreated the holder calls surfaceChanged.
Returns(c) ==
  LET v == call[c].view IN
  /\ call[c] # Idle /\ c \notin asleep /\ ~MustWait(call[c].op, gl[v])
  /\ IF call[c].op = "surfaceCreated"
     THEN /\ call' = [call EXCEPT ![c].op = "onWindowResize"] /\ asleep' = {}
          /\ gl' = [gl EXCEPT ![v] = [@ EXCEPT !.sized = TRUE, !.sizeChanged = TRUE,
                                               !.requestRender = TRUE, !.renderComplete = FALSE]]
          /\ UNCHANGED life
     ELSE /\ call' = [call EXCEPT ![c] = Idle] /\ UNCHANGED <<gl, asleep>>
          /\ life' = IF call[c].op = "onWindowResize" THEN [life EXCEPT ![v] = "running"]
                     ELSE IF call[c].op = "onPause" THEN [life EXCEPT ![v] = "paused"] ELSE life
  /\ UNCHANGED <<egl, rude, calls, asked>>

CallStep(c) == Waits(c) \/ Returns(c)

-----------------------------------------------------------------------------
(* Calls that do not wait, of any thread, and the garbage collector.        *)

RequestRender(v) ==
  /\ Acts /\ v \in WhenDirty /\ Started(v) /\ life[v] # "gone"
  /\ asked' = asked \cup {v} /\ gl' = [gl EXCEPT ![v].requestRender = TRUE] /\ asleep' = {}
  /\ UNCHANGED <<egl, call, life, rude>>

QueueEvent(v) ==
  /\ Acts /\ Started(v) /\ life[v] # "gone"
  /\ gl' = [gl EXCEPT ![v].events = @ + 1] /\ asleep' = {}
  /\ UNCHANGED <<egl, call, life, rude, asked>>

\* Nothing refers to the view any more: the activity was finished.
Forget(v) ==
  /\ Acts /\ call["main"] = Idle /\ life[v] \in {"running", "paused"}
  /\ life' = [life EXCEPT ![v] = "gone"] /\ UNCHANGED <<gl, egl, call, asleep, rude, asked>>

\* Its weak reference is cleared ...
Collect(v) ==
  /\ life[v] = "gone" /\ ~gl[v].collected /\ gl' = [gl EXCEPT ![v].collected = TRUE]
  /\ UNCHANGED <<egl, call, asleep, life, rude, calls, asked>>

\* ... and then its finalize runs.
Finalize(v) ==
  /\ gl[v].collected /\ ~gl[v].shouldExit
  /\ Begin("finalizer", "requestExitAndWait", v, [gl[v] EXCEPT !.shouldExit = TRUE])
  /\ UNCHANGED <<life, rude, calls>>

Next ==
  \/ \E v \in Views :
       \/ ThreadStep(v) \/ SetRenderer(v) \/ SurfaceCreated(v) \/ OnPause(v) \/ OnResume(v)
       \/ RequestRender(v) \/ QueueEvent(v) \/ Forget(v) \/ Collect(v) \/ Finalize(v)
  \/ \E c \in Callers : CallStep(c)

Spec == Init /\ [][Next]_vars

\* Every thread is scheduled; whether the application or the collector acts, and
\* how EGL answers, is theirs.
Fairness == /\ \A v \in Views : WF_vars(ThreadStep(v))
            /\ \A c \in Callers : WF_vars(CallStep(c))
FairSpec == Spec /\ Fairness

-----------------------------------------------------------------------------
(* Properties.                                                              *)

\* When onPause has returned the thread neither draws nor holds a surface, until
\* the view is resumed.
PausedIsReleased ==
  \A v \in Views :
    life[v] = "paused" => ~gl[v].haveEglSurface /\ gl[v].pc \notin {"create", "draw", "swap"}

\* In an application that pauses each view before the next gets to work, and lets
\* none keep its context, a view that asks for a surface finds the window free and
\* its context alive, and one that draws or swaps its context and its surface,
\* though all share a window and each one's finish terminates the display.  That
\* is all it is promised: the first finish of any view, its own included, leaves
\* the configuration stale (egl.config), and EGL may refuse every context and
\* surface asked for with it, however the application pauses its views.
PoliteViewsDoNotClash ==
  \A v \in Views :
    /\ ~rude /\ gl[v].pc = "create" /\ ~gl[v].collected => MayCreate(v)
    /\ ~rude /\ gl[v].pc \in {"draw", "swap"} /\ ~gl[v].collected => MaySwap(v)

\* Every call into a view returns, whatever EGL answers and however the thread
\* ends: no wait of the monitor is without its notifyAll.
CallsReturn == \A c \in Callers : call[c] # Idle ~> call[c] = Idle

\* A requestRender is followed by a frame, unless the view is paused or gone, its
\* surface is bad or its thread has ended: one that comes while a frame is drawn is not lost.
RequestIsDrawn ==
  \A v \in WhenDirty :
    v \in asked ~> \/ v \notin asked \/ life[v] # "running" \/ gl[v].requestPaused
                   \/ gl[v].surfaceIsBad \/ gl[v].exited
=============================================================================

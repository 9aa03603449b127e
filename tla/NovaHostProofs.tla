--------------------------- MODULE NovaHostProofs ---------------------------
(***************************************************************************)
(* Proofs about NovaHost, for every set of renderers an activity may choose  *)
(* from and whether connections may break or not.                           *)
(***************************************************************************)
EXTENDS NovaHost, TLAPS

Live == {"waiting", "open"}
Pcs == {"daemon", "state", "window", "configure", "art", "egl", "launch",
        "canvasState", "canvasWindow", "canvasConfigure", "startThread",
        "setState", "setWindow", "loop", "dispatch", "wait", "eglDestroy",
        "artShutdown", "windowDestroy", "stateDestroy", "disconnect", "exit"}

\* Where the main thread is tells what it holds of its own connection: each
\* object is there from the stage that makes it to the stage that releases it.
HasState == Pcs \ {"daemon", "state", "disconnect", "exit"}
HasWindow == HasState \ {"window", "stateDestroy"}
HasVm == HasWindow \ {"configure", "art", "windowDestroy"}
HasEgl == HasVm \ {"egl", "artShutdown"}
StagesHold ==
  /\ (disp["main"] = "open") <=> pc \in HasState
  /\ (win["main"] \in Live) <=> pc \in HasWindow
  /\ jvm <=> pc \in HasVm
  /\ libart <=> (pc \in HasVm \/ failed = "options")
  /\ failed = "options" => pc \in {"windowDestroy", "stateDestroy", "disconnect", "exit"}
  /\ egl <=> pc \in HasEgl
  /\ pc \in {"daemon", "exit"} => ~daemon

\* The second connection is made by a launch and never released again, but for
\* the state whose window could not be made: it is there while main makes it, for
\* a render thread, or after the start of that thread has failed.
BeforeCanvas == {"daemon", "state", "window", "configure", "art", "egl", "launch", "canvasState"}
MakesCanvas == {"canvasWindow", "canvasConfigure", "startThread"}
CanvasHolds ==
  /\ win["canvas"] \in Live => disp["canvas"] = "open"
  /\ win["canvas"] # "freed"
  /\ pc \in BeforeCanvas => disp["canvas"] = "none" /\ gState = Nil
  /\ pc \in BeforeCanvas \cup {"canvasWindow"} => win["canvas"] = "none"
  /\ pc = "canvasWindow" => disp["canvas"] = "open" /\ gState = "canvas"
  /\ pc = "canvasConfigure" => win["canvas"] \in Live
  /\ disp["canvas"] = "open" =>
       pc \in MakesCanvas \/ rt # "unborn" \/ failed = "startThread"

\* What the globals of nova_canvas_render.c and the render thread refer to.
AfterRedirect == {"setWindow", "loop", "dispatch", "wait", "eglDestroy", "artShutdown"}
RedirectHolds ==
  /\ \A d \in {gState, rtOn, canvas} : d = "canvas" => disp["canvas"] = "open"
  /\ gWindow = "canvas" => win["canvas"] \in Live
  /\ pc \in BeforeCanvas \cup {"canvasWindow", "canvasConfigure"} => gWindow = Nil
  /\ rt = "unborn" => rtOn = Nil /\ canvas = Nil
  /\ rt # "unborn" => pc \in AfterRedirect \cup {"setState"}
  /\ rt = "submit" => canvas # Nil /\ gWindow # Nil

HostInv == TypeOK /\ StagesHold /\ CanvasHolds /\ RedirectHolds

USE HostAssumption DEF Displays, Nil, Events, Live, Pcs, HasState, HasWindow, HasVm, HasEgl,
  BeforeCanvas, MakesCanvas, AfterRedirect

\* The process starts with nothing.
LEMMA InitHost == Init => HostInv
<1> SUFFICES ASSUME Init PROVE HostInv  OBVIOUS
<1>1. TypeOK  BY DEF Init, TypeOK
<1>2. StagesHold  BY DEF Init, StagesHold
<1>3. CanvasHolds  BY DEF Init, CanvasHolds
<1>4. RedirectHolds  BY DEF Init, RedirectHolds
<1> QED  BY <1>1, <1>2, <1>3, <1>4 DEF HostInv

\* Every step of either thread, of the compositor and of its user keeps it.
LEMMA NextHost == HostInv /\ [Next]_vars => HostInv'
<1> SUFFICES ASSUME HostInv, [Next]_vars PROVE HostInv'  OBVIOUS
<1> USE DEF HostInv, TypeOK, StagesHold, CanvasHolds, RedirectHolds, hostVars, wlVars, renderVars, Fails
<1>0. /\ queued \in SUBSET Events /\ \A d \in Displays : events[d] \in SUBSET Events
      /\ \A d \in Displays : Pending(d) \in SUBSET Events /\ Arrived(d) \in SUBSET Events
  BY DEF Pending, Arrived
<1>1. CASE DaemonConnect  BY <1>1 DEF DaemonConnect
<1>2. CASE MainState  BY <1>2 DEF MainState, StateCreate
<1>3. CASE MainWindow  BY <1>3 DEF MainWindow, WindowCreate
<1>4. CASE MainConfigure  BY <1>4 DEF MainConfigure, CanReturn, Arrived, Pending, Deliver, Handle, Configured
<1>5. CASE ArtInit
  <2>1. /\ TypeOK' /\ CanvasHolds' /\ RedirectHolds'
        /\ (disp["main"] = "open" <=> pc \in HasState)' /\ (win["main"] \in Live <=> pc \in HasWindow)'
    BY ZenonT(60), <1>5 DEF ArtInit
  <2>2. StagesHold'  BY <1>5, <2>1 DEF ArtInit
  <2> QED  BY <2>1, <2>2
<1>6. CASE EglCreate
  <2>1. TypeOK'
    <3>1. queued' \in SUBSET Events /\ events' \in [Displays -> SUBSET Events]
      BY <1>0, <1>6 DEF EglCreate, EglMayRead
    <3>2. pc' \in Pcs /\ failed' \in {"none", "egl"} \cup {failed} /\ egl' \in BOOLEAN
      BY <1>6 DEF EglCreate
    <3>3. UNCHANGED <<daemon, libart, jvm, renderer, disp, link, win, closed, owed, renderVars>>
      BY <1>6 DEF EglCreate
    <3> QED  BY <3>1, <3>2, <3>3
  <2>2. StagesHold'  BY <1>6 DEF EglCreate, EglMayRead, Arrived, Pending
  <2>3. CanvasHolds'  BY <1>6 DEF EglCreate, EglMayRead, Arrived, Pending
  <2>4. RedirectHolds'  BY <1>6 DEF EglCreate, EglMayRead, Arrived, Pending
  <2> QED  BY <2>1, <2>2, <2>3, <2>4
<1>7. CASE Launch  BY ZenonT(60), <1>7 DEF Launch
<1>8. CASE CanvasState  BY <1>8 DEF CanvasState, StateCreate
<1>9. CASE CanvasWindow  BY <1>9 DEF CanvasWindow, WindowCreate
<1>10. CASE CanvasConfigure  BY <1>10 DEF CanvasConfigure, CanReturn, Arrived, Pending, Deliver, Handle, Configured
<1>11. CASE StartThread  BY <1>11 DEF StartThread
<1>12. CASE SetRenderState  BY <1>12 DEF SetRenderState
<1>13. CASE SetRenderWindow  BY <1>13 DEF SetRenderWindow
<1>14. CASE LoopCheck  BY <1>14 DEF LoopCheck
<1>30. CASE LoopPending  BY <1>30 DEF LoopPending, DeliverPending, Pending, Handle
<1>15. CASE LoopDispatch  BY <1>15 DEF LoopDispatch, CanReturn, Arrived, Pending, Deliver, Handle
<1>16. CASE EglDestroy
  <2>1. TypeOK'  BY ZenonT(60), <1>16 DEF EglDestroy
  <2>2. CanvasHolds'  BY <1>16 DEF EglDestroy
  <2>3. RedirectHolds'  BY <1>16 DEF EglDestroy
  <2>4. StagesHold'  BY <1>16 DEF EglDestroy
  <2> QED  BY <2>1, <2>2, <2>3, <2>4
<1>17. CASE ArtShutdown
  <2>1. TypeOK'  BY <1>17 DEF ArtShutdown, JavaThreadRuns
  <2>2. CanvasHolds'  BY <1>17 DEF ArtShutdown, JavaThreadRuns
  <2>3. RedirectHolds'  BY <1>17 DEF ArtShutdown, JavaThreadRuns
  <2>4. StagesHold'  BY <1>17 DEF ArtShutdown, JavaThreadRuns
  <2> QED  BY <2>1, <2>2, <2>3, <2>4
<1>18. CASE WindowDestroy  BY <1>18 DEF WindowDestroy
<1>19. CASE StateDestroy  BY <1>19 DEF StateDestroy
<1>20. CASE Disconnect
  <2>1. TypeOK'  BY <1>20 DEF Disconnect
  <2>2. StagesHold'  BY <1>20 DEF Disconnect
  <2>3. CanvasHolds'  BY <1>20 DEF Disconnect
  <2>4. RedirectHolds'  BY <1>20 DEF Disconnect
  <2> QED  BY <2>1, <2>2, <2>3, <2>4
<1>21. CASE RtDispatch
  <2>1. TypeOK'
    <3>1. CASE gState = Nil
      <4>1. UNCHANGED <<pc, hostVars, wlVars, gState, gWindow, canvas, rtOn, attached>> /\ rt' = "frame"
        BY Zenon, <1>21, <3>1 DEF RtDispatch
      <4> QED  BY <4>1
    <3>2. CASE gState # Nil
      <4>0. gState \in Displays /\ DeliverPending(gState)  BY Zenon, <1>21, <3>2 DEF RtDispatch
      <4>1. /\ win' \in [Displays -> {"none", "waiting", "open", "freed"}]
            /\ closed' \in [Displays -> BOOLEAN] /\ queued' \in SUBSET Events
        BY <1>0, <4>0 DEF DeliverPending, Handle
      <4>2. /\ UNCHANGED <<pc, hostVars, disp, link, events, owed, gState, gWindow, canvas, attached>>
            /\ rt' \in {"wait", "frame"} /\ rtOn' \in Displays
        BY <1>21, <3>2 DEF RtDispatch, DeliverPending
      <4> QED  BY <4>1, <4>2
    <3> QED  BY <3>1, <3>2
  <2>2. StagesHold'  BY <1>21 DEF RtDispatch, DeliverPending, Pending, Handle
  <2>3. CanvasHolds'  BY <1>21 DEF RtDispatch, DeliverPending, Pending, Handle
  <2>4. RedirectHolds'  BY <1>21 DEF RtDispatch, DeliverPending, Pending, Handle
  <2> QED  BY <2>1, <2>2, <2>3, <2>4
<1>22. CASE RtReturn
  <2>1. TypeOK'
    <3>1. /\ win' \in [Displays -> {"none", "waiting", "open", "freed"}]
          /\ closed' \in [Displays -> BOOLEAN] /\ queued' \in SUBSET Events
          /\ events' \in [Displays -> SUBSET Events]
      BY <1>0, <1>22 DEF RtReturn, Deliver, Handle
    <3>2. /\ UNCHANGED <<hostVars, disp, link, owed, gState, gWindow, canvas, rtOn, attached>>
          /\ rt' = "frame" /\ pc' \in Pcs
      BY <1>22 DEF RtReturn, Deliver
    <3> QED  BY <3>1, <3>2
  <2>2. StagesHold'  BY <1>22 DEF RtReturn, CanReturn, Arrived, Pending, Deliver, Handle
  <2>3. CanvasHolds'  BY <1>22 DEF RtReturn, CanReturn, Arrived, Pending, Deliver, Handle
  <2>4. RedirectHolds'  BY <1>22 DEF RtReturn, CanReturn, Arrived, Pending, Deliver, Handle
  <2> QED  BY <2>1, <2>2, <2>3, <2>4
<1>23. CASE RtFrame  BY <1>23 DEF RtFrame
<1>24. CASE RtSubmit  BY <1>24 DEF RtSubmit
<1>25. ASSUME NEW d \in Displays, SendConfigure(d) PROVE HostInv'  BY <1>25 DEF SendConfigure, Send
<1>26. ASSUME NEW d \in Displays, UserCloses(d) PROVE HostInv'  BY <1>26 DEF UserCloses, Send
<1>27. ASSUME NEW d \in Displays, SendRelease(d) PROVE HostInv'  BY <1>27 DEF SendRelease, Send
<1>28. ASSUME NEW d \in Displays, LinkLost(d) PROVE HostInv'  BY <1>28 DEF LinkLost
<1>31. CASE EglReads
  <2>1. TypeOK'
    <3>1. queued' \in SUBSET Events /\ events' \in [Displays -> SUBSET Events]
      BY <1>0, <1>31 DEF EglReads
    <3> QED  BY <1>31, <3>1 DEF EglReads
  <2>2. StagesHold'  BY <1>31 DEF EglReads, Arrived, Pending
  <2>3. CanvasHolds'  BY <1>31 DEF EglReads, Arrived, Pending
  <2>4. RedirectHolds'  BY <1>31 DEF EglReads, Arrived, Pending
  <2> QED  BY <2>1, <2>2, <2>3, <2>4
<1>29. CASE UNCHANGED vars  BY <1>29 DEF vars
<1> QED  BY <1>1, <1>2, <1>3, <1>4, <1>5, <1>6, <1>7, <1>8, <1>9, <1>10, <1>11, <1>12, <1>13, <1>14, <1>15, <1>16, <1>17, <1>18, <1>19, <1>20, <1>21, <1>22, <1>23, <1>24, <1>25, <1>26, <1>27, <1>28, <1>29, <1>30, <1>31
      DEF Next, MainStep, RtStep, Compositor, Exited

LEMMA HostInvariant == Spec => []HostInv
BY InitHost, NextHost, PTL DEF Spec

-----------------------------------------------------------------------------
\* Every variable keeps its type; the render thread dispatches and submits only
\* through pointers it has tested, although main redirects the globals between
\* the test and the use.
THEOREM HostTypes == Spec => []TypeOK
<1>1. HostInv => TypeOK  BY DEF HostInv
<1> QED  BY <1>1, HostInvariant, PTL

\* While the render thread lives nothing it refers to is freed, on any path of
\* main.c: main waits for the thread in nova_art_shutdown before it destroys the
\* window and the connection, and a failed nativeInitDisplay is over before it starts.
THEOREM RenderThreadIsSafe == Spec => []RenderTouchesLiveObjects
<1>1. HostInv => RenderTouchesLiveObjects
  BY DEF HostInv, TypeOK, StagesHold, CanvasHolds, RedirectHolds, RenderTouchesLiveObjects
<1> QED  BY <1>1, HostInvariant, PTL

\* The labels of main.c's failure paths release in the reverse of the order in
\* which the stages acquire; when main returns, all it made itself is released,
\* whichever stage failed, and the connection of nativeInitDisplay and libart.so
\* stay behind only after the one failure ReleasedInOrder names for each.
THEOREM ReleaseOrder == Spec => []ReleasedInOrder
<1>1. HostInv => ReleasedInOrder
  BY DEF HostInv, TypeOK, StagesHold, CanvasHolds, RedirectHolds, ReleasedInOrder
<1> QED  BY <1>1, HostInvariant, PTL
=============================================================================

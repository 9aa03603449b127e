---------------------------- MODULE NovaLauncher ----------------------------
(***************************************************************************)
(* Launching activities: nova.internal.Launcher with the main looper's      *)
(* queue, its two dispatchers and the lifecycle of the activities.          *)
(*                                                                          *)
(* The main thread drains the queue only inside launchActivityImpl; once a  *)
(* Canvas activity is bound, NovaRenderThread drains it every frame, holding *)
(* RenderCoordinator.mLock.  Either drain may run a launch, so launches nest *)
(* on a thread's call stack and run on both threads.                        *)
(*                                                                          *)
(* The hundred 50 ms rounds of a drain are "any number of rounds".  Tasks of *)
(* the application are left out of the queue but for their effect on a drain, *)
(* which ends at a delayed one, whatever is behind it, and after 128 messages. *)
(* Every instance of an activity class is a value of its own.               *)
(***************************************************************************)
EXTENDS Naturals, Sequences, FiniteSets, SequencesExt

CONSTANTS
  Activities,  \* activity instances
  First,       \* the one Launcher.launch starts
  Apps         \* applications: the activities RenderCoordinator draws (a GL thread
               \* draws the rest), those that call finish, whether callbacks may throw
               \* and whether they may start activities when nothing defers that
Nil == "nil"
ASSUME LauncherAssumption ==
  /\ First \in Activities /\ Nil \notin Activities
  /\ Apps \subseteq [canvas : SUBSET Activities, finishing : SUBSET Activities,
            throws : BOOLEAN, direct : BOOLEAN]

Threads == {"main", "render"}
Callbacks == {"pause", "stop", "create", "start", "resume"}
Stages == Callbacks \cup {"load", "push", "drain", "bind", "return"}
Frame(a, g) == [act |-> a, pc |-> "load", guard |-> g]
Message(k, a) == [kind |-> k, act |-> a]

VARIABLES
  app,        \* the application that runs
  queue,      \* main looper: startActivity lambdas ("launch"), deferred ones ("impl")
  stack,      \* launchActivityImpl calls of each thread, innermost last
  rpc,        \* render thread: off, events (in nativeDispatchEvents), idle (out of
              \* it), dispatch (mLock held)
  sLaunching, \* Launcher.sLaunching
  current,    \* Launcher.sCurrentActivity
  backStack,  \* Launcher.sActivityStack
  life,       \* the last lifecycle callback of an activity
  finished,   \* activities whose finish was called
  requested,  \* activities somebody has asked to start
  root        \* RenderCoordinator.mRootView: the activity it belongs to

vars == <<app, queue, stack, rpc, sLaunching, current, backStack, life, finished, requested, root>>

\* Launcher.launch reaches launchActivity(activityClass, null, true).
Init ==
  /\ app \in Apps /\ queue = <<>> /\ rpc = "off" /\ sLaunching = TRUE
  /\ stack = [main |-> <<Frame(First, TRUE)>>, render |-> <<>>]
  /\ current = Nil /\ backStack = <<>> /\ life = [a \in Activities |-> "none"]
  /\ finished = {} /\ requested = {First} /\ root = Nil

-----------------------------------------------------------------------------
(* Call stacks.                                                             *)

In(t, pc) == stack[t] # <<>> /\ Last(stack[t]).pc = pc
Act(t) == Last(stack[t]).act
Goto(t, pc) == stack' = [stack EXCEPT ![t][Len(stack[t])].pc = pc]

\* launchActivity: deferred when a launch is on the way, else guarded.
LaunchActivity(t, a, rest) ==
  IF sLaunching
  THEN queue' = Append(rest, Message("impl", a)) /\ UNCHANGED <<stack, sLaunching>>
  ELSE /\ queue' = rest /\ sLaunching' = TRUE
       /\ stack' = [stack EXCEPT ![t] = Append(@, Frame(a, TRUE))]

\* Return of launchActivityImpl, normally or not; launchActivity's finally.
Return(t) ==
  /\ stack' = [stack EXCEPT ![t] = Front(@)]
  /\ sLaunching' = (sLaunching /\ ~Last(stack[t]).guard)

-----------------------------------------------------------------------------
(* launchActivityImpl.                                                      *)

\* The class is loaded and its constructor runs.
Load(t) ==
  /\ In(t, "load")
  /\ Goto(t, IF Act(t) = First \/ current = Nil THEN "create" ELSE "push")
  /\ UNCHANGED <<app, queue, rpc, sLaunching, current, backStack, life, finished, requested, root>>

LoadFails(t) ==
  /\ In(t, "load") /\ Return(t)
  /\ UNCHANGED <<app, queue, rpc, current, backStack, life, finished, requested, root>>

\* Mutant: the current activity is stacked but not paused and stopped.
MutantUnpaused(t) ==
  /\ In(t, "push") /\ current # Nil /\ Goto(t, "create")
  /\ backStack' = Append(backStack, current)
  /\ UNCHANGED <<app, queue, rpc, sLaunching, current, life, finished, requested, root>>

\* Mutant: the new activity is stacked instead of the one that is left.
MutantStacked(t) ==
  /\ In(t, "push") /\ current # Nil /\ Goto(t, "pause")
  /\ backStack' = Append(backStack, Act(t))
  /\ UNCHANGED <<app, queue, rpc, sLaunching, current, life, finished, requested, root>>

\* The current activity goes on the back stack ...
Push(t) ==
  /\ In(t, "push") /\ current # Nil /\ Goto(t, "pause")
  /\ backStack' = Append(backStack, current)
  /\ UNCHANGED <<app, queue, rpc, sLaunching, current, life, finished, requested, root>>

\* Mutant: the current activity is stacked and stopped without onPause.
MutantNoPause(t) ==
  /\ In(t, "pause") /\ current # Nil /\ Goto(t, "stop")
  /\ UNCHANGED <<app, queue, rpc, sLaunching, current, backStack, life, finished, requested, root>>

\* ... is paused ...
Pause(t) ==
  /\ In(t, "pause") /\ current # Nil /\ Goto(t, "stop")
  /\ life' = [life EXCEPT ![current] = "paused"]
  /\ UNCHANGED <<app, queue, rpc, sLaunching, current, backStack, finished, requested, root>>

\* ... and stopped.
Stop(t) ==
  /\ In(t, "stop") /\ current # Nil /\ Goto(t, "create")
  /\ life' = [life EXCEPT ![current] = "stopped"]
  /\ UNCHANGED <<app, queue, rpc, sLaunching, current, backStack, finished, requested, root>>

\* finish has cleared sCurrentActivity since it was tested: a null pointer.
NullCurrent(t) ==
  /\ In(t, "push") \/ In(t, "pause") \/ In(t, "stop")
  /\ current = Nil /\ Return(t)
  /\ UNCHANGED <<app, queue, rpc, current, backStack, life, finished, requested, root>>

Create(t) ==
  /\ In(t, "create") /\ Goto(t, "start")
  /\ life' = [life EXCEPT ![Act(t)] = "created"]
  /\ UNCHANGED <<app, queue, rpc, sLaunching, current, backStack, finished, requested, root>>

Start(t) ==
  /\ In(t, "start") /\ Goto(t, "resume")
  /\ life' = [life EXCEPT ![Act(t)] = "started"]
  /\ UNCHANGED <<app, queue, rpc, sLaunching, current, backStack, finished, requested, root>>

\* onResume, and sCurrentActivity is set.
Resume(t) ==
  /\ In(t, "resume") /\ Goto(t, "drain")
  /\ life' = [life EXCEPT ![Act(t)] = "resumed"] /\ current' = Act(t)
  /\ UNCHANGED <<app, queue, rpc, sLaunching, backStack, finished, requested, root>>

\* Mutant: no finally around launchActivityImpl.
MutantThrows(t) ==
  /\ app.throws /\ \E pc \in Callbacks : In(t, pc)
  /\ current = Nil => ~In(t, "pause") /\ ~In(t, "stop")
  /\ stack' = [stack EXCEPT ![t] = Front(@)]
  /\ UNCHANGED <<app, queue, rpc, sLaunching, current, backStack, life, finished, requested, root>>

\* A callback throws; it is not counted as run.  A throw of onPause leaves the
\* activity on the back stack.
Throws(t) ==
  /\ app.throws /\ \E pc \in Callbacks : In(t, pc)
  /\ current = Nil => ~In(t, "pause") /\ ~In(t, "stop")
  /\ Return(t)
  /\ UNCHANGED <<app, queue, rpc, current, backStack, life, finished, requested, root>>

-----------------------------------------------------------------------------
(* The main looper's queue.                                                 *)

\* Mutant: the render thread dispatches outside mLock too.
MutantDispatching(t) ==
  In(t, "drain") \/ (t = "render" /\ rpc # "off" /\ stack[t] = <<>>)

\* The thread is in dispatchPendingMain and not inside a message.
Dispatching(t) == In(t, "drain") \/ (t = "render" /\ rpc = "dispatch" /\ stack[t] = <<>>)

\* Mutant: a deferred launch is posted as launchActivity, not as the Impl.
MutantTake(t) ==
  /\ Dispatching(t) /\ queue # <<>>
  /\ LaunchActivity(t, Head(queue).act, Tail(queue))
  /\ UNCHANGED <<app, rpc, current, backStack, life, finished, requested, root>>

\* The first message is taken and run.
Take(t) ==
  /\ Dispatching(t) /\ queue # <<>>
  /\ LET m == Head(queue) IN
       IF m.kind = "launch" THEN LaunchActivity(t, m.act, Tail(queue))
       ELSE /\ queue' = Tail(queue) /\ UNCHANGED sLaunching
            /\ stack' = [stack EXCEPT ![t] = Append(@, Frame(m.act, FALSE))]
  /\ UNCHANGED <<app, rpc, current, backStack, life, finished, requested, root>>

\* Mutant: the drain does not look whether another activity has taken over.
MutantDrained(t) ==
  /\ In(t, "drain") /\ Goto(t, "bind")
  /\ UNCHANGED <<app, queue, rpc, sLaunching, current, backStack, life, finished, requested, root>>

\* dispatchPendingMain has returned, because the queue is empty or a delayed task
\* is at its head: the drain stops when another activity has taken over, and goes
\* on to the renderer when its rounds are over.
Drained(t) ==
  /\ In(t, "drain") /\ Goto(t, IF current # Act(t) THEN "return" ELSE "bind")
  /\ UNCHANGED <<app, queue, rpc, sLaunching, current, backStack, life, finished, requested, root>>

\* Mutant: mLock is not reentrant.
MutantBind(t) ==
  /\ In(t, "bind") /\ Goto(t, "return")
  /\ IF Act(t) \in app.canvas
     THEN /\ rpc # "dispatch"
          /\ root' = Act(t) /\ rpc' = IF rpc = "off" THEN "events" ELSE rpc
     ELSE UNCHANGED <<root, rpc>>
  /\ UNCHANGED <<app, queue, sLaunching, current, backStack, life, finished, requested>>

\* bindRenderer: setRootView and start take mLock, which is reentrant; the first
\* start makes the render thread, which runs while this launch is still guarded.
Bind(t) ==
  /\ In(t, "bind") /\ Goto(t, "return")
  /\ IF Act(t) \in app.canvas
     THEN /\ t = "render" \/ rpc # "dispatch"
          /\ root' = Act(t) /\ rpc' = IF rpc = "off" THEN "events" ELSE rpc
     ELSE UNCHANGED <<root, rpc>>
  /\ UNCHANGED <<app, queue, sLaunching, current, backStack, life, finished, requested>>

\* launchActivityImpl returns, to the finally of launchActivity if it is guarded.
Leave(t) ==
  /\ In(t, "return") /\ Return(t)
  /\ UNCHANGED <<app, queue, rpc, current, backStack, life, finished, requested, root>>

LaunchStep(t) ==
  \/ Load(t) \/ LoadFails(t) \/ Push(t) \/ Pause(t) \/ Stop(t) \/ NullCurrent(t)
  \/ Create(t) \/ Start(t) \/ Resume(t) \/ Throws(t) \/ Take(t) \/ Drained(t) \/ Bind(t)
  \/ Leave(t)

\* renderLoop: nativeDispatchEvents waits for an event of the compositor, with no
\* limit ...
EventsDispatched ==
  /\ rpc = "events" /\ rpc' = "idle"
  /\ UNCHANGED <<app, queue, stack, sLaunching, current, backStack, life, finished, requested, root>>

\* ... then the body under mLock begins with dispatchPendingMain ...
RenderBegin ==
  /\ rpc = "idle" /\ rpc' = "dispatch"
  /\ UNCHANGED <<app, queue, stack, sLaunching, current, backStack, life, finished, requested, root>>

\* ... which ends like that of a drain, draws, and the loop starts again.
RenderEnd ==
  /\ rpc = "dispatch" /\ stack["render"] = <<>> /\ rpc' = "events"
  /\ UNCHANGED <<app, queue, stack, sLaunching, current, backStack, life, finished, requested, root>>

-----------------------------------------------------------------------------
(* The application (external), and what its calls do.                       *)

\* startActivity of a thread that does not dispatch, or while sLaunching: posted.
StartPosted(a) ==
  /\ a \notin requested /\ requested' = requested \cup {a}
  /\ queue' = Append(queue, Message("launch", a))
  /\ UNCHANGED <<app, stack, rpc, sLaunching, current, backStack, life, finished, root>>

\* startActivity from a lifecycle callback when sLaunching is false: called.
StartDirect(t, a) ==
  /\ app.direct /\ \E pc \in Callbacks : In(t, pc)
  /\ current = Nil => ~In(t, "pause") /\ ~In(t, "stop")
  /\ ~sLaunching /\ a \notin requested /\ requested' = requested \cup {a}
  /\ LaunchActivity(t, a, queue)
  /\ UNCHANGED <<app, rpc, current, backStack, life, finished, root>>

\* Activity.finish, Launcher.finishActivity: acts on the top of the back stack
\* only, which holds the activities that were left, not the current one.
Finish(a) ==
  /\ a \in app.finishing \ finished /\ life[a] # "none"
  /\ finished' = finished \cup {a}
  /\ IF backStack # <<>> /\ Last(backStack) = a
     THEN LET prev == IF Len(backStack) > 1 THEN backStack[Len(backStack) - 1] ELSE Nil IN
            /\ backStack' = Front(backStack) /\ current' = prev
            /\ life' = [b \in Activities |-> IF b = prev THEN "resumed"
                                             ELSE IF b = a THEN "destroyed" ELSE life[b]]
     ELSE UNCHANGED <<backStack, current, life>>
  /\ UNCHANGED <<app, queue, stack, rpc, sLaunching, requested, root>>

Next ==
  \/ \E t \in Threads : LaunchStep(t)
  \/ EventsDispatched \/ RenderBegin \/ RenderEnd
  \/ \E a \in Activities : StartPosted(a) \/ Finish(a) \/ \E t \in Threads : StartDirect(t, a)

Spec == Init /\ [][Next]_vars

\* Both threads are scheduled; no fairness of EventsDispatched, for the compositor
\* owes no event.  The render thread leaves mLock free while it sleeps 16 ms and
\* waits for events, so a main thread that wants it gets it.  A delayed task gets
\* ready in time and nothing is put in front of it, so frame after frame the
\* render thread comes to take what is behind it.
Fairness ==
  /\ \A t \in Threads : WF_vars(LaunchStep(t)) /\ SF_vars(Bind(t))
  /\ SF_vars(Take("render"))
  /\ WF_vars(RenderBegin) /\ WF_vars(RenderEnd)
FairSpec == Spec /\ Fairness

-----------------------------------------------------------------------------
(* Properties.                                                              *)

\* Types of all variables; only a thread that has been started has frames.
TypeOK ==
  /\ app \in Apps
  /\ queue \in Seq([kind : {"launch", "impl"}, act : Activities])
  /\ stack \in [Threads -> Seq([act : Activities, pc : Stages, guard : BOOLEAN])]
  /\ rpc \in {"off", "events", "idle", "dispatch"} /\ sLaunching \in BOOLEAN
  /\ rpc # "dispatch" => stack["render"] = <<>>
  /\ current \in Activities \cup {Nil} /\ root \in app.canvas \cup {Nil}
  /\ backStack \in Seq(Activities) /\ finished \subseteq Activities
  /\ requested \subseteq Activities
  /\ life \in [Activities -> {"none", "created", "started", "resumed", "paused", "stopped", "destroyed"}]

\* The guard is up exactly while one launchActivity call is on some thread's
\* stack, however launches nest, fail or run on the other thread: it is never
\* left up, which would defer every later launch, nor cleared under a launch.
GuardedFrames ==
  {f \in UNION {{t} \X DOMAIN stack[t] : t \in Threads} : stack[f[1]][f[2]].guard}
GuardExact == Cardinality(GuardedFrames) = IF sLaunching THEN 1 ELSE 0

\* The resumed activity is the current one, so there is at most one.
ResumedIsCurrent == \A a \in Activities : life[a] = "resumed" => a = current

\* One thread at a time dispatches the queue of an application whose first
\* activity alone is drawn on a Canvas.  If it does not call finish, its callbacks
\* return and start no activity that the guard does not defer, its launches are
\* those of NovaTask, however they nest in each other's drain and whether the guard
\* is up or not: the life cycle goes in Android's order, the back stack is the
\* history, and a launch that comes back from others does not show its view over
\* theirs.  Other applications are mapped to a task that stays empty.  (A deferred
\* launch runs without the guard when the launch it waited for is over, because a
\* drain ended early or the render thread deferred it while main was returning;
\* startActivity of its onCreate is then not deferred.)
Promised ==
  app.canvas \subseteq {First} /\ app.finishing = {} /\ ~app.throws /\ ~app.direct
History(b, c) == IF c = Nil \/ (b # <<>> /\ Last(b) = c) THEN b ELSE Append(b, c)
TaskNow == IF Promised THEN History(backStack, current) ELSE <<>>
LifeNow == IF Promised THEN life ELSE [a \in Activities |-> "none"]
ShownNow == IF Promised THEN root ELSE Nil
Task == INSTANCE NovaTask WITH task <- TaskNow, life <- LifeNow, shown <- ShownNow
LaunchesMakeATask == Task!Spec

\* nova_art_launch_apk returns: the main thread comes out of all nested launches.
LaunchReturns == <>(stack["main"] = <<>>)

\* A posted launch is taken out of the queue, also when it was deferred, unless
\* nobody is left to dispatch it (the initial launch is over and no activity with
\* a Canvas has been shown) or the render thread waits for ever for an event.
Queued(a) == \E i \in DOMAIN queue : queue[i].act = a
NoDispatcher == rpc = "off" /\ stack["main"] = <<>>
Waiting == rpc = "events"
StartIsServed == \A a \in Activities : Queued(a) ~> (~Queued(a) \/ NoDispatcher \/ []Waiting)
=============================================================================

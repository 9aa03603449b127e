----------------------------- MODULE NovaLooper -----------------------------
(* The main looper: android.os.Handler, Message, MessageQueue and Looper,   *)
(* and the frame loop that drives it and android.view.Choreographer.        *)
(*                                                                          *)
(* One queue serves the process.  Any thread posts to it; it is drained by  *)
(* Looper.dispatchPendingMain, which the main thread runs while it launches *)
(* activities, the render thread once a frame, and a callback that launches *)
(* an activity runs again inside a drain.  Message objects are recycled     *)
(* through a bounded pool shared by all threads.                            *)
(*                                                                          *)
(* mMessages and sPool are locked, so each locked block is one step; the    *)
(* fields of a message in nobody else's hands are set in the same step.     *)
(* Handler.remove* walks mMessages without the lock: the model assumes no   *)
(* other thread uses the queue during that walk.                            *)
EXTENDS Integers, Sequences, FiniteSets, Functions

CONSTANTS
    Main, Render,   \* the two threads that dispatch
    Workers,        \* threads that only post
    Callbacks,      \* Runnables posted through a Handler
    Tasks,          \* FrameCallbacks and Runnables posted to Choreographer
    Delays,         \* what postDelayed may be given
    MaxPool,        \* Message.MAX_POOL_SIZE
    DrainLimit,     \* messages one dispatchPendingMain takes at most
    MaxPosts,       \* bound: messages ever posted
    MaxTime,        \* bound: the clock
    MaxTasks,       \* bound: entries of a Choreographer list
    MaxDepth        \* bound: drains nested on one thread

Dispatchers == {Main, Render}
Threads == Dispatchers \cup Workers

ASSUME LooperAssumption ==
    /\ Main # Render /\ Dispatchers \cap Workers = {}
    /\ Delays \subseteq Nat
    /\ MaxPool \in Nat /\ DrainLimit \in Nat \ {0}
    /\ MaxPosts \in Nat /\ MaxTime \in Nat /\ MaxTasks \in Nat /\ MaxDepth \in Nat \ {0}

VARIABLES
    now,        \* SystemClock.uptimeMillis
    msgs,       \* the Message objects ever allocated
    pool,       \* sPool: numbers of recycled objects, the next to reuse first
    queue,      \* mMessages
    quitting,   \* mQuitting
    calls,      \* [Dispatchers -> nested dispatchPendingMain calls, innermost last]
    local,      \* [Dispatchers -> sThreadLocal]: is it the main looper
    rpc,        \* where renderLoop is
    lists,      \* ["frame" -> mFrameCallbacks, "commit" -> mCommitCallbacks]
    phase,      \* the list notifyFrameTime is at
    snapshot,   \* the copy of it that is being gone through
    owed,       \* history: tasks posted and neither run nor removed since
    due         \* history: the time each post was for

looperVars == <<now, msgs, pool, queue, quitting, calls, local, due>>
frameVars == <<rpc, lists, phase, snapshot, owed>>
vars == <<looperVars, frameVars>>

Lists == {"frame", "commit"}
Depth(t) == Len(calls[t])
Call(t) == calls[t][Depth(t)]
NoMessage == 0
Cleared == [callback |-> "null", when |-> 0, post |-> 0]

(* What those that post see of all this: the messages that wait and those   *)
(* in the hands of a dispatch, without objects, pool and nested calls.       *)
Held == {m \in DOMAIN msgs : \E t \in Dispatchers : \E i \in DOMAIN calls[t] : calls[t][i].msg = m}
TimedQueue == INSTANCE NovaTimedQueue WITH
    Times <- 0..MaxTime, posts <- Len(due), closed <- quitting,
    pending <- [i \in DOMAIN queue |->
                   [id |-> msgs[queue[i]].post, due |-> due[msgs[queue[i]].post]]],
    running <- {msgs[m].post : m \in Held}

(* Thread t is running application code: a posted callback, a frame         *)
(* callback, the launch the main thread is in, or a worker.                 *)
InCallback(t) ==
    \/ t \in Workers
    \/ t \in Dispatchers /\ Depth(t) > 0 /\ Call(t).msg # NoMessage
    \/ t = Main /\ Depth(t) = 0
    \/ t = Render /\ rpc = "callback"

Init ==
    /\ now = 0 /\ msgs = <<>> /\ pool = <<>> /\ queue = <<>> /\ quitting = FALSE
    /\ calls = [t \in Dispatchers |-> <<>>]
    /\ local = [t \in Dispatchers |-> t = Main]
    /\ rpc = "events" /\ lists = [l \in Lists |-> <<>>] /\ phase = "frame"
    /\ snapshot = <<>> /\ owed = {} /\ due = <<>>
-----------------------------------------------------------------------------
(* Message.obtain: the head of the pool, or a new object.                   *)
Obtained == IF pool = <<>> THEN Len(msgs) + 1 ELSE Head(pool)
PoolAfterObtain == IF pool = <<>> THEN pool ELSE Tail(pool)

(* Mutant: a message to run at once is put in front of the others.          *)
EnqueueFront(m, when) == IF when <= now THEN <<m>> \o queue ELSE Append(queue, m)
Enqueue(m, when) == Append(queue, m)

(* Handler.post, postDelayed, postAtFrontOfQueue (time 0): always at the    *)
(* end of the list.  After quit() the message is dropped, not recycled.     *)
Post(t, c, when) ==
    /\ InCallback(t) /\ Len(due) < MaxPosts
    /\ LET m == Obtained
           content == [callback |-> c, when |-> when, post |-> Len(due) + 1]
       IN  /\ msgs' = IF pool = <<>> THEN Append(msgs, content) ELSE [msgs EXCEPT ![m] = content]
           /\ pool' = PoolAfterObtain
           /\ queue' = IF quitting THEN queue ELSE Enqueue(m, when)
           /\ due' = Append(due, when)
    /\ UNCHANGED <<now, quitting, calls, local, frameVars>>

(* Handler.removeCallbacks: what is removed is not recycled either.         *)
RemoveCallbacks(t, c) ==
    LET kept == {i \in DOMAIN queue : msgs[queue[i]].callback # c} IN
    /\ InCallback(t) /\ kept # DOMAIN queue
    /\ \E place \in TimedQueue!InOrder(kept) : queue' = [k \in DOMAIN place |-> queue[place[k]]]
    /\ UNCHANGED <<now, msgs, pool, quitting, calls, local, due, frameVars>>

Quit(t) ==
    /\ InCallback(t) /\ ~quitting
    /\ quitting' = TRUE
    /\ UNCHANGED <<now, msgs, pool, queue, calls, local, due, frameVars>>
-----------------------------------------------------------------------------
(* dispatchPendingMain starts: at the top of a frame, or in the launch of   *)
(* an activity, which is made at once where the looper is the main one.     *)
DrainBegin(t) ==
    /\ Depth(t) < MaxDepth
    /\ \/ InCallback(t) /\ local[t] /\ rpc' = rpc
       \/ t = Render /\ rpc = "dispatch" /\ rpc' = "draw"
    /\ calls' = [calls EXCEPT ![t] =
                    Append(@, [msg |-> NoMessage, left |-> DrainLimit, prev |-> local[t]])]
    /\ local' = [local EXCEPT ![t] = TRUE]
    /\ UNCHANGED <<now, msgs, pool, queue, quitting, due, lists, phase, snapshot, owed>>

(* MessageQueue.nextIfReady looks at the head only.                         *)
(* Mutants: the time is not compared; a queue that quits hands nothing out. *)
ReadyAnyTime == queue # <<>>
ReadyUnlessQuitting == queue # <<>> /\ msgs[Head(queue)].when <= now /\ ~quitting
Ready == queue # <<>> /\ msgs[Head(queue)].when <= now

(* Mutant: the message goes back to the pool before it is dispatched.       *)
TakeRecycled(t) ==
    /\ Depth(t) > 0 /\ Call(t).msg = NoMessage /\ Call(t).left > 0
    /\ Ready
    /\ calls' = [calls EXCEPT ![t][Depth(t)].msg = Head(queue)]
    /\ queue' = Tail(queue)
    /\ pool' = <<Head(queue)>> \o pool
    /\ UNCHANGED <<now, msgs, quitting, local, due, frameVars>>
Take(t) ==
    /\ Depth(t) > 0 /\ Call(t).msg = NoMessage /\ Call(t).left > 0
    /\ Ready
    /\ calls' = [calls EXCEPT ![t][Depth(t)].msg = Head(queue)]
    /\ queue' = Tail(queue)
    /\ UNCHANGED <<now, msgs, pool, quitting, local, due, frameVars>>

(* The callback returned or threw (both are caught): recycleUnchecked.      *)
(* Mutant: the pool has no limit.                                           *)
RecycledUnbounded(m) == <<m>> \o pool
Recycled(m) == IF Len(pool) < MaxPool THEN <<m>> \o pool ELSE pool
Recycle(t) ==
    /\ Depth(t) > 0 /\ Call(t).msg # NoMessage
    /\ msgs' = [msgs EXCEPT ![Call(t).msg] = Cleared]
    /\ pool' = Recycled(Call(t).msg)
    /\ calls' = [calls EXCEPT ![t][Depth(t)].msg = NoMessage, ![t][Depth(t)].left = @ - 1]
    /\ UNCHANGED <<now, queue, quitting, local, due, frameVars>>

(* Nothing is ready or the limit is reached; finally: sThreadLocal.set(prev) *)
(* Mutant: sThreadLocal.remove() instead.                                   *)
Forgotten(t) == FALSE
Restored(t) == Call(t).prev
DrainEnd(t) ==
    /\ Depth(t) > 0 /\ Call(t).msg = NoMessage
    /\ Call(t).left = 0 \/ ~Ready
    /\ local' = [local EXCEPT ![t] = Restored(t)]
    /\ calls' = [calls EXCEPT ![t] = SubSeq(@, 1, Len(@) - 1)]
    /\ UNCHANGED <<now, msgs, pool, queue, quitting, due, frameVars>>
-----------------------------------------------------------------------------
(* A turn of renderLoop starts with nativeDispatchEvents, which waits in     *)
(* wl_display_dispatch, with no limit, until the compositor sends something. *)
EventsDispatched ==
    /\ rpc = "events" /\ rpc' = "dispatch"
    /\ UNCHANGED <<looperVars, lists, phase, snapshot, owed>>

(* measure, layout, draw and submitFrame, after the drain.  When one of     *)
(* them throws, the rest of the frame is skipped.                           *)
Drawing == rpc = "draw" /\ calls[Render] = <<>>
Drawn ==
    /\ Drawing /\ rpc' = "notify"
    /\ UNCHANGED <<looperVars, lists, phase, snapshot, owed>>
DrawThrows ==
    /\ Drawing /\ rpc' = "events"
    /\ UNCHANGED <<looperVars, lists, phase, snapshot, owed>>

(* Choreographer.notifyFrameTime goes through the frame callbacks, then     *)
(* the commit callbacks: the list is copied and cleared under its lock, and *)
(* the copy is run without it.                                              *)
(* Mutant: the list is cleared first.                                       *)
CopyAfterClear == <<>>
Copy == lists[phase]
NotifyBegin ==
    /\ rpc = "notify" /\ rpc' = "run"
    /\ snapshot' = Copy
    /\ lists' = [lists EXCEPT ![phase] = <<>>]
    /\ UNCHANGED <<looperVars, phase, owed>>

RunTask ==
    /\ rpc = "run" /\ snapshot # <<>>
    /\ rpc' = "callback"
    /\ snapshot' = Tail(snapshot)
    /\ owed' = owed \ {Head(snapshot)}
    /\ UNCHANGED <<looperVars, lists, phase>>

(* The task returned or threw; either way the next one runs.                *)
TaskEnd ==
    /\ rpc = "callback" /\ calls[Render] = <<>>
    /\ rpc' = "run"
    /\ UNCHANGED <<looperVars, lists, phase, snapshot, owed>>

NotifyEnd ==
    /\ rpc = "run" /\ snapshot = <<>>
    /\ \/ phase = "frame" /\ phase' = "commit" /\ rpc' = "notify"
       \/ phase = "commit" /\ phase' = "frame" /\ rpc' = "events"
    /\ UNCHANGED <<looperVars, lists, snapshot, owed>>

(* postFrameCallback (postFrameCallbackDelayed ignores the delay) and       *)
(* postRunnable.                                                            *)
(* Mutant: notifyFrameTime goes through the list itself, so that what a     *)
(* task posts joins the frame that is running.                              *)
PostJoining(t, l, c) ==
    /\ InCallback(t) /\ Len(lists[l]) + Len(snapshot) < MaxTasks
    /\ IF rpc = "callback" /\ phase = l
       THEN snapshot' = Append(snapshot, c) /\ lists' = lists
       ELSE lists' = [lists EXCEPT ![l] = Append(@, c)] /\ snapshot' = snapshot
    /\ owed' = owed \cup {c}
    /\ UNCHANGED <<looperVars, rpc, phase>>
PostTask(t, l, c) ==
    /\ InCallback(t) /\ Len(lists[l]) < MaxTasks
    /\ lists' = [lists EXCEPT ![l] = Append(@, c)]
    /\ owed' = owed \cup {c}
    /\ UNCHANGED <<looperVars, rpc, phase, snapshot>>

(* removeFrameCallback: the first occurrence, and never one in the copy.    *)
RemoveFrameCallback(t, c) ==
    /\ InCallback(t)
    /\ \E i \in DOMAIN lists["frame"] :
          /\ lists["frame"][i] = c /\ \A j \in 1..(i - 1) : lists["frame"][j] # c
          /\ lists' = [lists EXCEPT !["frame"] = SubSeq(@, 1, i - 1) \o SubSeq(@, i + 1, Len(@))]
    /\ owed' = owed \ {c}
    /\ UNCHANGED <<looperVars, rpc, phase, snapshot>>

Tick ==
    /\ now < MaxTime /\ now' = now + 1
    /\ UNCHANGED <<msgs, pool, queue, quitting, calls, local, due, frameVars>>
-----------------------------------------------------------------------------
Times == {0} \cup {now + d : d \in Delays}

RenderStep ==
    \/ rpc = "dispatch" /\ DrainBegin(Render)
    \/ Take(Render) \/ DrainEnd(Render)
    \/ NotifyBegin \/ RunTask \/ NotifyEnd

Next ==
    \/ \E t \in Threads, c \in Callbacks, when \in Times \cap 0..MaxTime : Post(t, c, when)
    \/ \E t \in Threads, c \in Callbacks : RemoveCallbacks(t, c)
    \/ \E t \in Threads : Quit(t)
    \/ \E t \in Dispatchers : DrainBegin(t)
    \/ \E t \in Dispatchers : Take(t)
    \/ \E t \in Dispatchers : Recycle(t)
    \/ \E t \in Dispatchers : DrainEnd(t)
    \/ EventsDispatched \/ Drawn \/ DrawThrows
    \/ NotifyBegin \/ RunTask \/ TaskEnd \/ NotifyEnd
    \/ \E t \in Threads, l \in Lists, c \in Tasks : PostTask(t, l, c)
    \/ \E t \in Threads, c \in Tasks : RemoveFrameCallback(t, c)
    \/ Tick

Spec == Init /\ [][Next]_vars

(* A frame that has begun runs and time passes; application callbacks on    *)
(* the render thread return, and drawing does not throw in every frame.     *)
(* Whether another frame begins is the compositor's: EventsDispatched has no *)
(* fairness, and the loop may be Waiting for ever.                           *)
Fairness ==
    /\ WF_vars(Tick) /\ WF_vars(RenderStep)
    /\ SF_vars(Recycle(Render)) /\ SF_vars(TaskEnd) /\ SF_vars(Drawn)
FairSpec == Spec /\ Fairness
Waiting == rpc = "events"
-----------------------------------------------------------------------------
Messages == [callback : Callbacks \cup {"null"}, when : 0..MaxTime, post : 0..Len(due)]
Frames == [msg : {NoMessage} \cup DOMAIN msgs, left : 0..DrainLimit, prev : BOOLEAN]

TypeOK ==
    /\ now \in 0..MaxTime /\ msgs \in Seq(Messages) /\ due \in Seq(0..MaxTime)
    /\ pool \in Seq(DOMAIN msgs) /\ Len(pool) <= MaxPool
    /\ queue \in Seq(DOMAIN msgs) /\ quitting \in BOOLEAN
    /\ calls \in [Dispatchers -> Seq(Frames)] /\ \A t \in Dispatchers : Depth(t) <= MaxDepth
    /\ local \in [Dispatchers -> BOOLEAN]
    /\ rpc \in {"events", "dispatch", "draw", "notify", "run", "callback"}
    /\ lists \in [Lists -> Seq(Tasks)] /\ phase \in Lists
    /\ snapshot \in Seq(Tasks) /\ owed \subseteq Tasks

(* A Message object is in one place only: once in the queue, once in the    *)
(* pool, or in the hands of one dispatch.  Two dispatchers, drains nested   *)
(* in callbacks and reuse through the pool never lead to a message that is  *)
(* rewritten by a post while it waits or runs.                              *)
Distinct(s) == \A i, j \in DOMAIN s : s[i] = s[j] => i = j
OwnedOnce ==
    /\ Distinct(queue) /\ Distinct(pool) /\ Range(queue) \cap Range(pool) = {}
    /\ \A t \in Dispatchers : \A i \in DOMAIN calls[t] :
          calls[t][i].msg # NoMessage =>
              /\ calls[t][i].msg \notin Range(queue) \cup Range(pool)
              /\ \A u \in Dispatchers : \A j \in DOMAIN calls[u] :
                    calls[t][i].msg = calls[u][j].msg => t = u /\ i = j

(* Looper.myLooper() is the main looper on the render thread exactly while  *)
(* it dispatches, and always on the main thread, however drains are nested. *)
LooperRestored ==
    /\ local[Main]
    /\ local[Render] = (calls[Render] # <<>>)

(* The queue is NovaTimedQueue, whichever threads post, drain, nest, remove *)
(* or quit: in the order of the posts, none twice and none before the time   *)
(* it was posted for, although objects that carry times are reused.          *)
QueueIsTimed == TimedQueue!Spec

(* The message at the head whose time has come is handed over or removed,   *)
(* by the frame loop alone if need be, unless the loop comes to wait for a   *)
(* compositor that never speaks again.                                       *)
HeadIsHanded == <>[]Waiting \/ TimedQueue!HeadIsHanded

(* A task that posts itself again on every frame does not keep the frame    *)
(* from ending.                                                             *)
FrameEnds == (rpc = "run") ~> Waiting

(* Every task posted to Choreographer is run, or removed, unless the loop    *)
(* waits for ever for the compositor.                                        *)
EveryTaskRuns == \A c \in Tasks : (c \in owed) ~> (c \notin owed \/ []Waiting)
=============================================================================

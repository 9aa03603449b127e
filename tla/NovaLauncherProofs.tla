------------------------- MODULE NovaLauncherProofs -------------------------
(***************************************************************************)
(* Proofs about NovaLauncher, for any activities and applications: the       *)
(* guard of launchActivity, and that the nested launches of an application    *)
(* whose first activity alone is drawn on a Canvas make the task of NovaTask. *)
(***************************************************************************)
EXTENDS NovaLauncher, SequenceTheorems, FiniteSetTheorems, TLAPS

\* The call of launchActivityImpl at depth i of thread t is inside a launchActivity.
Guarded(t, i) == i \in DOMAIN stack[t] /\ stack[t][i].guard
GuardInv ==
  /\ sLaunching <=> \E t \in Threads : \E i \in Nat : Guarded(t, i)
  /\ \A t, u \in Threads : \A i, j \in Nat : Guarded(t, i) /\ Guarded(u, j) => t = u /\ i = j

-----------------------------------------------------------------------------
(* The invariant of an application whose launches make a task.              *)

\* Nobody but the initial launch dispatches until the first activity is shown,
\* and only the render thread does after that, while the initial launch returns.
OneThread ==
  /\ rpc # "off" => \A i \in DOMAIN stack["main"] : stack["main"][i].pc = "return"
  /\ rpc = "off" => stack["render"] = <<>>

\* The thread has launches that do more than return from the first activity's.
Active(t) == stack[t] # <<>> /\ (t = "main" => rpc = "off")

\* Launches nest in drains; the first activity is launched by the outermost call
\* of the main thread only.
Nesting ==
  \A t \in Threads :
    \A i \in DOMAIN stack[t] :
      /\ i < Len(stack[t]) => stack[t][i].pc = "drain"
      /\ stack[t][i].pc = "drain" => current # Nil
      /\ stack[t][i].act = First => t = "main" /\ i = 1
      /\ stack[t][i].act \in requested

\* Each activity is launched once.
Early == {"load", "push", "pause", "stop", "create"}
Launching(t, a) == stack[t] # <<>> /\ Act(t) = a /\ Last(stack[t]).pc \in Early
LaunchedOnce ==
  /\ \A i \in DOMAIN queue :
       /\ queue[i].act \in requested \ {First} /\ life[queue[i].act] = "none"
       /\ \A j \in DOMAIN queue : queue[i].act = queue[j].act => i = j
       /\ \A t \in Threads : ~Launching(t, queue[i].act)
  /\ \A t \in Threads : \A a \in Activities : Launching(t, a) => life[a] = "none"
  /\ First \in requested /\ \A a \in Activities \ requested : life[a] = "none"

\* Only the innermost launch has an activity half way up.
ComingUp ==
  \A a \in Activities :
    /\ life[a] = "created" => \E t \in Threads : In(t, "start") /\ Act(t) = a
    /\ life[a] = "started" => \E t \in Threads : In(t, "resume") /\ Act(t) = a

\* The back stack is what has been left.
InFront == current # Nil /\ life[current] = "resumed" /\ ~(backStack # <<>> /\ Last(backStack) = current)
Leaving(l) == current # Nil /\ backStack # <<>> /\ Last(backStack) = current /\ life[current] = l
Nobody == current = Nil /\ backStack = <<>>
TaskShape ==
  /\ \A i \in DOMAIN backStack : life[backStack[i]] \in {"resumed", "paused", "stopped"}
  /\ (\A t \in Threads : ~Active(t)) => Nobody \/ InFront
  /\ \A t \in Threads : Active(t) =>
       /\ Last(stack[t]).pc = "load" => Nobody \/ InFront
       /\ Last(stack[t]).pc \in {"push", "drain", "return"} => InFront
       /\ Last(stack[t]).pc = "bind" => InFront /\ current = Act(t)
       /\ Last(stack[t]).pc = "pause" => Leaving("resumed")
       /\ Last(stack[t]).pc = "stop" => Leaving("paused")
       /\ Last(stack[t]).pc \in {"create", "start", "resume"} => Nobody \/ Leaving("stopped")
       /\ Last(stack[t]).pc = "start" => life[Act(t)] = "created"
       /\ Last(stack[t]).pc = "resume" => life[Act(t)] = "started"
       /\ Act(t) = First /\ Last(stack[t]).pc \in Early => Nobody

TaskInv ==
  /\ OneThread /\ Nesting /\ LaunchedOnce /\ ComingUp /\ TaskShape
PromisedInv == Promised => TaskInv

USE LauncherAssumption DEF Threads

-----------------------------------------------------------------------------
(* Lemmas about the operators on queues and call stacks.                     *)

Frames == [act : Activities, pc : Stages, guard : BOOLEAN]
Messages == [kind : {"launch", "impl"}, act : Activities]
Types ==
  /\ app \in Apps /\ queue \in Seq(Messages) /\ stack \in [Threads -> Seq(Frames)]

\* The first message leaves, the others move up.
LEMMA TailOf ==
  ASSUME NEW S, NEW q \in Seq(S), q # <<>>
  PROVE  /\ Tail(q) \in Seq(S) /\ Len(q) \in Nat \ {0} /\ Len(Tail(q)) = Len(q) - 1
         /\ Head(q) = q[1] /\ q[1] \in S
         /\ \A i \in DOMAIN Tail(q) : Tail(q)[i] = q[i + 1] /\ i + 1 \in DOMAIN q
         /\ DOMAIN Tail(q) = 1 .. Len(q) - 1
OBVIOUS

\* The innermost element leaves, the others stay.
LEMMA FrontOf ==
  ASSUME NEW S, NEW s \in Seq(S), s # <<>>
  PROVE  /\ Front(s) \in Seq(S) /\ Len(s) \in Nat \ {0} /\ Len(Front(s)) = Len(s) - 1
         /\ \A i \in 1 .. Len(s) - 1 : Front(s)[i] = s[i]
         /\ DOMAIN Front(s) = 1 .. Len(s) - 1
         /\ Last(s) = s[Len(s)] /\ Len(s) \in DOMAIN s /\ Last(s) \in S
<1>1. Len(s) \in Nat \ {0} /\ DOMAIN s = 1 .. Len(s) /\ \A i \in 1 .. Len(s) - 1 : s[i] \in S
  BY EmptySeq, LenProperties
<1>2. /\ SubSeq(s, 1, Len(s) - 1) \in Seq(S)
      /\ Len(SubSeq(s, 1, Len(s) - 1)) = Len(s) - 1
      /\ \A i \in 1 .. Len(s) - 1 : SubSeq(s, 1, Len(s) - 1)[i] = s[i]
  BY <1>1, SubSeqProperties, Len(s) - 1 \in Int
<1>3. DOMAIN Front(s) = 1 .. Len(s) - 1
  BY <1>2, LenProperties DEF Front
<1> QED  BY <1>1, <1>2, <1>3 DEF Front, Last

\* A launch goes on to another stage: only the innermost frame changes.
LEMMA GotoStack ==
  ASSUME Types, NEW t \in Threads, stack[t] # <<>>, NEW pc \in Stages, Goto(t, pc)
  PROVE  /\ stack' \in [Threads -> Seq(Frames)]
         /\ Len(stack[t]) \in Nat \ {0}
         /\ \A u \in Threads \ {t} : stack'[u] = stack[u]
         /\ stack'[t] # <<>> /\ Len(stack'[t]) = Len(stack[t]) /\ DOMAIN stack'[t] = DOMAIN stack[t]
         /\ \A i \in DOMAIN stack[t] : i < Len(stack[t]) => stack'[t][i] = stack[t][i]
         /\ \A i \in DOMAIN stack[t] :
              stack'[t][i].act = stack[t][i].act /\ stack'[t][i].guard = stack[t][i].guard
         /\ Last(stack'[t]) = [Last(stack[t]) EXCEPT !.pc = pc]
<1> DEFINE n == Len(stack[t])
           f == [Last(stack[t]) EXCEPT !.pc = pc]
<1>1. n \in Nat \ {0} /\ n \in DOMAIN stack[t] /\ Last(stack[t]) \in Frames /\ Last(stack[t]) = stack[t][n]
  BY FrontOf DEF Types
<1>2. f \in Frames /\ f.act = stack[t][n].act /\ f.guard = stack[t][n].guard /\ f.pc = pc
  BY <1>1 DEF Frames
<1>3. stack' = [stack EXCEPT ![t] = [@ EXCEPT ![n] = f]]
  BY <1>1 DEF Goto, Types
<1>4. stack'[t] = [stack[t] EXCEPT ![n] = f]
  BY <1>3 DEF Types
<1> HIDE DEF f, n
<1>5. stack'[t] \in Seq(Frames) /\ Len(stack'[t]) = Len(stack[t])
  BY <1>1, <1>2, <1>4 DEF Types, n
<1>6. /\ stack' \in [Threads -> Seq(Frames)]
      /\ \A u \in Threads \ {t} : stack'[u] = stack[u]
  BY <1>3, <1>4, <1>5 DEF Types
<1>7. DOMAIN stack'[t] = DOMAIN stack[t] /\ stack'[t][n] = f
  BY <1>4, <1>1
<1>8. \A i \in DOMAIN stack[t] : i # n => stack'[t][i] = stack[t][i]
  BY <1>4
<1>9. stack'[t] # <<>> /\ Last(stack'[t]) = f
  BY <1>1, <1>5, <1>7 DEF Last, n
<1>10. \A i \in DOMAIN stack[t] : i < Len(stack[t]) => i # n
  BY <1>1 DEF n, Types
<1> QED  BY <1>1, <1>2, <1>5, <1>6, <1>7, <1>8, <1>9, <1>10 DEF f, n

\* A launch is over.
LEMMA ReturnStack ==
  ASSUME Types, NEW t \in Threads, stack[t] # <<>>, stack' = [stack EXCEPT ![t] = Front(@)]
  PROVE  /\ stack' \in [Threads -> Seq(Frames)]
         /\ \A u \in Threads \ {t} : stack'[u] = stack[u]
         /\ Len(stack[t]) \in Nat \ {0} /\ Len(stack'[t]) = Len(stack[t]) - 1
         /\ DOMAIN stack'[t] = 1 .. Len(stack[t]) - 1
         /\ \A i \in 1 .. Len(stack[t]) - 1 : stack'[t][i] = stack[t][i] /\ i \in DOMAIN stack[t]
         /\ Last(stack[t]) = stack[t][Len(stack[t])] /\ Len(stack[t]) \in DOMAIN stack[t]
         /\ stack'[t] # <<>> => Last(stack'[t]) = stack[t][Len(stack[t]) - 1]
                                /\ Len(stack[t]) - 1 \in 1 .. Len(stack[t]) - 1
<1>1. stack'[t] = Front(stack[t]) /\ \A u \in Threads \ {t} : stack'[u] = stack[u]
  BY DEF Types
<1>2. stack[t] \in Seq(Frames) BY DEF Types
<1>3. stack' \in [Threads -> Seq(Frames)]
  BY <1>1, <1>2, FrontOf DEF Types
<1>4. stack'[t] # <<>> => Len(stack[t]) - 1 \in 1 .. Len(stack[t]) - 1
  BY <1>1, <1>2, FrontOf DEF Front
<1>5. stack'[t] # <<>> => Last(stack'[t]) = stack'[t][Len(stack[t]) - 1]
  BY <1>1, <1>2, FrontOf DEF Last
<1>6. /\ Len(stack[t]) \in Nat \ {0} /\ Len(stack'[t]) = Len(stack[t]) - 1
      /\ DOMAIN stack'[t] = 1 .. Len(stack[t]) - 1 /\ DOMAIN stack[t] = 1 .. Len(stack[t])
      /\ \A i \in 1 .. Len(stack[t]) - 1 : stack'[t][i] = stack[t][i]
      /\ Last(stack[t]) = stack[t][Len(stack[t])]
  BY <1>1, <1>2, FrontOf, LenProperties
<1> QED  BY <1>1, <1>3, <1>4, <1>5, <1>6

\* A launch begins inside the others.
LEMMA CallStack ==
  ASSUME Types, NEW t \in Threads, NEW f \in Frames, stack' = [stack EXCEPT ![t] = Append(@, f)]
  PROVE  /\ stack' \in [Threads -> Seq(Frames)]
         /\ \A u \in Threads \ {t} : stack'[u] = stack[u]
         /\ Len(stack[t]) \in Nat /\ Len(stack'[t]) = Len(stack[t]) + 1 /\ stack'[t] # <<>>
         /\ DOMAIN stack[t] = 1 .. Len(stack[t]) /\ DOMAIN stack'[t] = 1 .. Len(stack[t]) + 1
         /\ \A i \in DOMAIN stack[t] : stack'[t][i] = stack[t][i] /\ i \in DOMAIN stack'[t]
         /\ stack'[t][Len(stack[t]) + 1] = f /\ Last(stack'[t]) = f
<1>1. stack'[t] = Append(stack[t], f) /\ \A u \in Threads \ {t} : stack'[u] = stack[u]
  BY DEF Types
<1>2. stack[t] \in Seq(Frames) /\ Len(stack[t]) \in Nat /\ DOMAIN stack[t] = 1 .. Len(stack[t])
  BY LenProperties DEF Types
<1>3. /\ stack'[t] \in Seq(Frames) /\ stack'[t] # <<>> /\ Len(stack'[t]) = Len(stack[t]) + 1
      /\ \A i \in 1 .. Len(stack[t]) : stack'[t][i] = stack[t][i]
      /\ stack'[t][Len(stack[t]) + 1] = f
  BY <1>1, <1>2, AppendProperties
<1>4. DOMAIN stack'[t] = 1 .. Len(stack[t]) + 1  BY <1>3, LenProperties
<1>5. stack' \in [Threads -> Seq(Frames)]  BY <1>1, <1>3 DEF Types
<1> QED  BY <1>1, <1>2, <1>3, <1>4, <1>5 DEF Last

-----------------------------------------------------------------------------
(* Types.                                                                   *)

LifeStages == {"none", "created", "started", "resumed", "paused", "stopped", "destroyed"}

LEMMA TypesOf == TypeOK => Types
BY DEF TypeOK, Types, Frames, Messages

\* What is on top of a call stack, and what its stages hold of the types.
LEMMA TopTypes ==
  ASSUME Types, NEW t \in Threads, stack[t] # <<>>
  PROVE  Act(t) \in Activities /\ Last(stack[t]) \in Frames /\ Last(stack[t]).pc \in Stages
         /\ Last(stack[t]).guard \in BOOLEAN
<1>1. Last(stack[t]) \in Frames  BY FrontOf DEF Types
<1> QED  BY <1>1 DEF Act, Frames

\* Calling launchActivity keeps the types of the queue and of the call stacks.
LEMMA LaunchTypes ==
  ASSUME Types, sLaunching \in BOOLEAN, NEW t \in Threads, NEW a \in Activities,
         NEW rest \in Seq(Messages), LaunchActivity(t, a, rest)
  PROVE  /\ queue' \in Seq(Messages) /\ stack' \in [Threads -> Seq(Frames)] /\ sLaunching' \in BOOLEAN
         /\ \A u \in Threads \ {t} : stack'[u] = stack[u]
<1>1. CASE sLaunching
  <2>1. Message("impl", a) \in Messages  BY DEF Message, Messages
  <2>2. queue' = Append(rest, Message("impl", a)) /\ UNCHANGED <<stack, sLaunching>>
    BY <1>1 DEF LaunchActivity
  <2>3. queue' \in Seq(Messages)  BY <2>1, <2>2, AppendProperties
  <2> QED  BY <2>2, <2>3 DEF Types
<1>2. CASE ~sLaunching
  <2>1. Frame(a, TRUE) \in Frames  BY DEF Frame, Frames, Stages
  <2>2. stack' = [stack EXCEPT ![t] = Append(@, Frame(a, TRUE))] /\ queue' = rest /\ sLaunching' = TRUE
    BY <1>2 DEF LaunchActivity
  <2> QED  BY <2>1, <2>2, CallStack
<1> QED  BY <1>1, <1>2

LEMMA InitTypes == Init => TypeOK
<1> SUFFICES ASSUME Init PROVE TypeOK  OBVIOUS
<1>1. Frame(First, TRUE) \in [act : Activities, pc : Stages, guard : BOOLEAN]
  BY DEF Frame, Stages
<1>2. stack \in [Threads -> Seq([act : Activities, pc : Stages, guard : BOOLEAN])]
  <2> DEFINE S == [act : Activities, pc : Stages, guard : BOOLEAN]
             f == Frame(First, TRUE)
  <2>1. stack["main"] = <<f>> /\ stack["render"] = <<>>  BY DEF Init
  <2>2. DOMAIN stack = Threads /\ stack = [t \in Threads |-> stack[t]]  BY DEF Init
  <2>a. f \in S  BY <1>1
  <2> HIDE DEF f, S
  <2>3. <<f>> \in Seq(S) /\ <<>> \in Seq(S)  BY <2>a
  <2>4. \A t \in Threads : stack[t] \in Seq(S)  BY <2>1, <2>3
  <2> QED  BY <2>2, <2>4 DEF S
<1>3. stack["render"] = <<>>  BY DEF Init
<1> QED  BY <1>2, <1>3 DEF Init, TypeOK

LEMMA NextTypes == TypeOK /\ [Next]_vars => TypeOK'
<1> SUFFICES ASSUME TypeOK, [Next]_vars PROVE TypeOK'  OBVIOUS
<1> USE DEF Callbacks
<1>0. Types  BY TypesOf
<1>1. ASSUME NEW t \in Threads, LaunchStep(t) PROVE TypeOK'
  <2>0. \A pc : In(t, pc) => stack[t] # <<>>  BY DEF In
  <2>1. ASSUME stack[t] # <<>>, NEW pc \in Stages, Goto(t, pc)
        PROVE  /\ stack' \in [Threads -> Seq(Frames)]
               /\ rpc' = rpc => (rpc' # "dispatch" => stack'["render"] = <<>>)
    BY <1>0, <2>1, GotoStack DEF TypeOK
  <2>2. ASSUME stack[t] # <<>>, Return(t)
        PROVE  /\ stack' \in [Threads -> Seq(Frames)] /\ sLaunching' \in BOOLEAN
               /\ rpc' = rpc => (rpc' # "dispatch" => stack'["render"] = <<>>)
    <3>1. stack' = [stack EXCEPT ![t] = Front(@)]  BY <2>2 DEF Return
    <3>2. sLaunching' \in BOOLEAN  BY <2>2, TopTypes, <1>0 DEF Return, TypeOK
    <3> QED  BY <1>0, <2>2, <3>1, <3>2, ReturnStack DEF TypeOK
  <2>3. CASE Load(t)
    <3>1. PICK pc \in {"create", "push"} : Goto(t, pc)  BY <2>3 DEF Load
    <3> QED  BY <2>0, <2>1, <2>3, <3>1 DEF Load, TypeOK, Frames, Stages
  <2>4. CASE LoadFails(t)  BY <2>0, <2>2, <2>4 DEF LoadFails, TypeOK, Frames
  <2>5. CASE Push(t)  BY <2>0, <2>1, <2>5, AppendProperties DEF Push, TypeOK, Frames, Stages
  <2>6. CASE Pause(t)  BY <2>0, <2>1, <2>6 DEF Pause, TypeOK, Frames, Stages
  <2>7. CASE Stop(t)  BY <2>0, <2>1, <2>7 DEF Stop, TypeOK, Frames, Stages
  <2>8. CASE NullCurrent(t)  BY <2>0, <2>2, <2>8 DEF NullCurrent, TypeOK, Frames
  <2>9. CASE Create(t)  BY <1>0, <2>0, <2>1, <2>9, TopTypes DEF Create, TypeOK, Frames, Stages
  <2>10. CASE Start(t)  BY <1>0, <2>0, <2>1, <2>10, TopTypes DEF Start, TypeOK, Frames, Stages
  <2>11. CASE Resume(t)  BY <1>0, <2>0, <2>1, <2>11, TopTypes DEF Resume, TypeOK, Frames, Stages
  <2>12. CASE Throws(t)  BY <2>0, <2>2, <2>12 DEF Throws, TypeOK, Frames
  <2>13. CASE Take(t)
    <3>1. /\ Tail(queue) \in Seq(Messages) /\ queue[1] \in Messages /\ Head(queue) = queue[1]
      BY <1>0, <2>13, TailOf DEF Take, Types
    <3>2. Head(queue).act \in Activities /\ Head(queue).kind \in {"launch", "impl"}
      BY <3>1 DEF Messages
    <3>3. /\ queue' \in Seq(Messages) /\ stack' \in [Threads -> Seq(Frames)]
          /\ sLaunching' \in BOOLEAN /\ \A u \in Threads \ {t} : stack'[u] = stack[u]
      <4>1. CASE Head(queue).kind = "launch"
        <5>1. LaunchActivity(t, Head(queue).act, Tail(queue))  BY <2>13, <4>1 DEF Take
        <5> QED  BY <1>0, <3>1, <3>2, <5>1, LaunchTypes DEF TypeOK
      <4>2. CASE Head(queue).kind = "impl"
        <5>1. /\ queue' = Tail(queue) /\ sLaunching' = sLaunching
              /\ stack' = [stack EXCEPT ![t] = Append(@, Frame(Head(queue).act, FALSE))]
          BY <2>13, <4>2 DEF Take
        <5>2. Frame(Head(queue).act, FALSE) \in Frames  BY <3>2 DEF Frame, Frames, Stages
        <5> QED  BY <1>0, <3>1, <5>1, <5>2, CallStack DEF TypeOK
      <4> QED  BY <3>2, <4>1, <4>2
    <3>4. rpc # "dispatch" => t # "render"
      BY <2>0, <2>13 DEF Take, Dispatching, TypeOK
    <3> QED  BY <2>13, <3>3, <3>4 DEF Take, TypeOK, Frames, Messages
  <2>14. CASE Drained(t)
    <3>1. PICK pc \in {"return", "bind"} : Goto(t, pc)  BY <2>14 DEF Drained
    <3> QED  BY <2>0, <2>1, <2>14, <3>1 DEF Drained, TypeOK, Frames, Stages
  <2>15. CASE Bind(t)
    <3>1. stack[t] # <<>> /\ Goto(t, "return") /\ "return" \in Stages
      BY <2>0, <2>15 DEF Bind, Stages
    <3>2. /\ rpc' \in {"off", "events", "idle", "dispatch"}
          /\ rpc' = rpc \/ rpc = "off"
          /\ root' \in app.canvas \cup {Nil} /\ app' = app
      BY <2>15 DEF Bind, TypeOK
    <3>3. rpc' # "dispatch" => stack'["render"] = <<>>
      <4>1. CASE rpc' = rpc  BY <2>1, <3>1, <4>1
      <4>2. CASE rpc = "off"
        <5>1. t # "render" /\ stack["render"] = <<>>  BY <3>1, <4>2 DEF TypeOK
        <5> QED  BY <1>0, <3>1, <5>1, GotoStack
      <4> QED  BY <3>2, <4>1, <4>2
    <3> QED  BY <2>1, <2>15, <3>1, <3>2, <3>3 DEF Bind, TypeOK, Frames
  <2>16. CASE Leave(t)  BY <2>0, <2>2, <2>16 DEF Leave, TypeOK, Frames
  <2> QED  BY <1>1, <2>3, <2>4, <2>5, <2>6, <2>7, <2>8, <2>9, <2>10, <2>11, <2>12, <2>13, <2>14, <2>15, <2>16
        DEF LaunchStep
<1>2. CASE EventsDispatched \/ RenderBegin  BY <1>2 DEF EventsDispatched, RenderBegin, TypeOK
<1>3. CASE RenderEnd  BY <1>3 DEF RenderEnd, TypeOK
<1>4. ASSUME NEW a \in Activities, StartPosted(a) PROVE TypeOK'
  <2>1. Message("launch", a) \in Messages  BY DEF Message, Messages
  <2>2. queue' \in Seq(Messages)  BY <1>0, <1>4, <2>1, AppendProperties DEF StartPosted, Types
  <2> QED  BY <1>4, <2>2 DEF StartPosted, TypeOK, Messages
<1>5. ASSUME NEW a \in Activities, Finish(a) PROVE TypeOK'
  <2>1. a \in app.finishing /\ app.finishing \subseteq Activities  BY <1>5 DEF Finish, TypeOK
  <2>2. CASE backStack # <<>> /\ Last(backStack) = a
    <3> DEFINE prev == IF Len(backStack) > 1 THEN backStack[Len(backStack) - 1] ELSE Nil
    <3>1. /\ backStack' = Front(backStack) /\ current' = prev
          /\ life' = [b \in Activities |-> IF b = prev THEN "resumed"
                                           ELSE IF b = a THEN "destroyed" ELSE life[b]]
      BY <1>5, <2>2 DEF Finish
    <3>2. backStack' \in Seq(Activities)  BY <2>2, <3>1, FrontOf DEF TypeOK
    <3>3. prev \in Activities \cup {Nil}
      BY <2>2 DEF TypeOK
    <3>4. life' \in [Activities -> LifeStages]
      <4> HIDE DEF prev
      <4> QED  BY <3>1 DEF TypeOK, LifeStages
    <3> QED  BY <1>5, <2>1, <3>1, <3>2, <3>3, <3>4 DEF Finish, TypeOK, LifeStages
  <2>3. CASE ~(backStack # <<>> /\ Last(backStack) = a)
    BY <1>5, <2>1, <2>3 DEF Finish, TypeOK
  <2> QED  BY <2>2, <2>3
<1>6. ASSUME NEW t \in Threads, NEW a \in Activities, StartDirect(t, a) PROVE TypeOK'
  <2>1. LaunchActivity(t, a, queue) /\ stack[t] # <<>>  BY <1>6 DEF StartDirect, In
  <2>2. queue \in Seq(Messages)  BY <1>0 DEF Types
  <2>3. /\ queue' \in Seq(Messages) /\ stack' \in [Threads -> Seq(Frames)]
        /\ sLaunching' \in BOOLEAN /\ \A u \in Threads \ {t} : stack'[u] = stack[u]
    BY <1>0, <2>1, <2>2, LaunchTypes DEF TypeOK
  <2>4. rpc # "dispatch" => t # "render"  BY <2>1 DEF TypeOK
  <2> QED  BY <1>6, <2>3, <2>4 DEF StartDirect, TypeOK, Frames, Messages
<1>7. CASE UNCHANGED vars  BY <1>7 DEF vars, TypeOK
<1> QED  BY <1>1, <1>2, <1>3, <1>4, <1>5, <1>6, <1>7 DEF Next
-----------------------------------------------------------------------------
(* The guard.                                                               *)

\* Neither the call stacks nor the guard change.
LEMMA GuardIdle ==
  ASSUME GuardInv, UNCHANGED <<stack, sLaunching>>
  PROVE  GuardInv'
BY DEF GuardInv, Guarded

LEMMA GuardGoto ==
  ASSUME Types, GuardInv, NEW t \in Threads, stack[t] # <<>>, NEW pc \in Stages, Goto(t, pc),
         sLaunching' = sLaunching
  PROVE  GuardInv'
<1>1. \A u \in Threads : \A i : Guarded(u, i)' <=> Guarded(u, i)
  <2> SUFFICES ASSUME NEW u \in Threads, NEW i PROVE Guarded(u, i)' <=> Guarded(u, i)  OBVIOUS
  <2>1. CASE u = t  BY <2>1, GotoStack DEF Guarded
  <2>2. CASE u # t  BY <2>2, GotoStack DEF Guarded
  <2> QED  BY <2>1, <2>2
<1> QED  BY <1>1 DEF GuardInv

\* A return takes the guard down exactly when its own call had put it up.
LEMMA GuardReturn ==
  ASSUME Types, GuardInv, NEW t \in Threads, stack[t] # <<>>, Return(t)
  PROVE  GuardInv'
<1> DEFINE n == Len(stack[t])
<1>0. stack' = [stack EXCEPT ![t] = Front(@)] /\ (sLaunching' <=> sLaunching /\ ~Last(stack[t]).guard)
  BY DEF Return
<1>1. n \in Nat \ {0} /\ n \in DOMAIN stack[t] /\ Last(stack[t]) = stack[t][n]
  BY <1>0, ReturnStack
<1>2. \A u \in Threads : \A i \in Nat : Guarded(u, i)' <=> Guarded(u, i) /\ ~(u = t /\ i = n)
  <2> SUFFICES ASSUME NEW u \in Threads, NEW i \in Nat
               PROVE  Guarded(u, i)' <=> Guarded(u, i) /\ ~(u = t /\ i = n)
    OBVIOUS
  <2>1. CASE u = t
    <3>1. DOMAIN stack[t] = 1 .. n /\ DOMAIN stack'[t] = 1 .. n - 1
          /\ \A j \in 1 .. n - 1 : stack'[t][j] = stack[t][j]
      <4>1. DOMAIN stack[t] = 1 .. n  BY LenProperties DEF Types
      <4> QED  BY <1>0, <4>1, ReturnStack
    <3>2. i \in DOMAIN stack'[t] <=> i \in DOMAIN stack[t] /\ i # n
      <4> HIDE DEF n
      <4> QED  BY <1>1, <3>1
    <3>3. i \in DOMAIN stack'[t] => stack'[t][i] = stack[t][i]
      BY <3>1
    <3> QED  BY <2>1, <3>2, <3>3 DEF Guarded
  <2>2. CASE u # t  BY <1>0, <2>2, ReturnStack DEF Guarded
  <2> QED  BY <2>1, <2>2
<1>3. Last(stack[t]).guard <=> Guarded(t, n)
  BY <1>1 DEF Guarded
<1> HIDE DEF n
<1>4. n \in Nat  BY <1>1
<1>5. CASE Guarded(t, n)
  <2>1. \A u \in Threads : \A i \in Nat : ~Guarded(u, i)'
    BY <1>2, <1>4, <1>5 DEF GuardInv
  <2> QED  BY <1>0, <1>3, <1>5, <2>1 DEF GuardInv
<1>6. CASE ~Guarded(t, n)
  <2>1. \A u \in Threads : \A i \in Nat : Guarded(u, i)' <=> Guarded(u, i)
    BY <1>2, <1>6
  <2> QED  BY <1>0, <1>3, <1>6, <2>1 DEF GuardInv
<1> QED  BY <1>5, <1>6

\* A call puts the guard up only when it was down.
LEMMA GuardCall ==
  ASSUME Types, GuardInv, NEW t \in Threads, NEW a \in Activities, NEW g \in BOOLEAN,
         stack' = [stack EXCEPT ![t] = Append(@, Frame(a, g))],
         sLaunching' <=> sLaunching \/ g, g => ~sLaunching
  PROVE  GuardInv'
<1> DEFINE n == Len(stack[t]) + 1
<1>1. Frame(a, g) \in Frames /\ (Frame(a, g).guard <=> g)  BY DEF Frame, Frames, Stages
<1>2. n \in Nat \ {0} /\ DOMAIN stack[t] = 1 .. n - 1 /\ DOMAIN stack'[t] = 1 .. n
      /\ stack'[t][n] = Frame(a, g)
  <2> DEFINE f == Frame(a, g)
  <2>1. f \in Frames /\ stack' = [stack EXCEPT ![t] = Append(@, f)]  BY <1>1
  <2> HIDE DEF f
  <2>2. /\ Len(stack[t]) \in Nat /\ DOMAIN stack[t] = 1 .. Len(stack[t])
        /\ DOMAIN stack'[t] = 1 .. Len(stack[t]) + 1 /\ stack'[t][Len(stack[t]) + 1] = f
    BY <2>1, CallStack
  <2> QED  BY <2>2 DEF f
<1>3. \A u \in Threads : \A i \in Nat : Guarded(u, i)' <=> Guarded(u, i) \/ (u = t /\ i = n /\ g)
  <2> SUFFICES ASSUME NEW u \in Threads, NEW i \in Nat
               PROVE  Guarded(u, i)' <=> Guarded(u, i) \/ (u = t /\ i = n /\ g)
    OBVIOUS
  <2>1. CASE u = t
    <3>1. CASE i = n  BY <1>1, <1>2, <2>1, <3>1 DEF Guarded
    <3>2. CASE i # n
      <4>1. i \in DOMAIN stack'[t] <=> i \in DOMAIN stack[t]
        <5> HIDE DEF n
        <5> QED  BY <1>2, <3>2
      <4>2. i \in DOMAIN stack[t] => stack'[t][i] = stack[t][i]
        BY <1>1, CallStack
      <4> QED  BY <2>1, <3>2, <4>1, <4>2 DEF Guarded
    <3> QED  BY <3>1, <3>2
  <2>2. CASE u # t  BY <1>1, <2>2, CallStack DEF Guarded
  <2> QED  BY <2>1, <2>2
<1> HIDE DEF n
<1>4. CASE g
  <2>1. \A u \in Threads : \A i \in Nat : Guarded(u, i)' <=> u = t /\ i = n
    BY <1>3, <1>4 DEF GuardInv
  <2> QED  BY <1>2, <1>4, <2>1 DEF GuardInv
<1>5. CASE ~g
  <2>1. \A u \in Threads : \A i \in Nat : Guarded(u, i)' <=> Guarded(u, i)
    BY <1>3, <1>5
  <2> QED  BY <1>5, <2>1 DEF GuardInv
<1> QED  BY <1>4, <1>5

LEMMA GuardLaunch ==
  ASSUME Types, GuardInv, NEW t \in Threads, NEW a \in Activities, NEW rest, LaunchActivity(t, a, rest)
  PROVE  GuardInv'
<1>1. CASE sLaunching  BY <1>1, GuardIdle DEF LaunchActivity
<1>2. CASE ~sLaunching
  <2>1. stack' = [stack EXCEPT ![t] = Append(@, Frame(a, TRUE))] /\ sLaunching' = TRUE
    BY <1>2 DEF LaunchActivity
  <2> QED  BY <1>2, <2>1, GuardCall
<1> QED  BY <1>1, <1>2

LEMMA InitGuard == Init => GuardInv
<1> SUFFICES ASSUME Init PROVE GuardInv  OBVIOUS
<1>1. stack["main"] = <<Frame(First, TRUE)>> /\ stack["render"] = <<>> /\ sLaunching = TRUE
  BY DEF Init
<1>2. Frame(First, TRUE).guard = TRUE  BY DEF Frame
<1>3. \A t \in Threads : \A i \in Nat : Guarded(t, i) <=> t = "main" /\ i = 1
  <2>1. DOMAIN stack["main"] = {1} /\ stack["main"][1] = Frame(First, TRUE)
    <3> HIDE DEF Frame
    <3> QED  BY <1>1
  <2>2. DOMAIN stack["render"] = {}  BY <1>1
  <2> QED  BY <1>2, <2>1, <2>2 DEF Guarded
<1> QED  BY <1>1, <1>3 DEF GuardInv

LEMMA NextGuard == TypeOK /\ GuardInv /\ [Next]_vars => GuardInv'
<1> SUFFICES ASSUME TypeOK, GuardInv, [Next]_vars PROVE GuardInv'  OBVIOUS
<1> USE DEF Callbacks
<1>0. Types  BY TypesOf
<1>1. ASSUME NEW t \in Threads, LaunchStep(t) PROVE GuardInv'
  <2>0. \A pc : In(t, pc) => stack[t] # <<>>  BY DEF In
  <2>1. ASSUME NEW pc, stack[t] # <<>>, Goto(t, pc), pc \in Stages, UNCHANGED sLaunching PROVE GuardInv'
    BY <1>0, <2>1, GuardGoto
  <2>2. ASSUME stack[t] # <<>>, Return(t) PROVE GuardInv'
    BY <1>0, <2>2, GuardReturn
  <2>3. CASE Load(t)
    <3>1. PICK pc \in {"create", "push"} : Goto(t, pc)  BY <2>3 DEF Load
    <3> QED  BY <2>0, <2>1, <2>3, <3>1 DEF Load, Stages
  <2>4. CASE LoadFails(t)  BY <2>0, <2>2, <2>4 DEF LoadFails
  <2>5. CASE Push(t)  BY <2>0, <2>1, <2>5 DEF Push, Stages
  <2>6. CASE Pause(t)  BY <2>0, <2>1, <2>6 DEF Pause, Stages
  <2>7. CASE Stop(t)  BY <2>0, <2>1, <2>7 DEF Stop, Stages
  <2>8. CASE NullCurrent(t)  BY <2>0, <2>2, <2>8 DEF NullCurrent
  <2>9. CASE Create(t)  BY <2>0, <2>1, <2>9 DEF Create, Stages
  <2>10. CASE Start(t)  BY <2>0, <2>1, <2>10 DEF Start, Stages
  <2>11. CASE Resume(t)  BY <2>0, <2>1, <2>11 DEF Resume, Stages
  <2>12. CASE Throws(t)  BY <2>0, <2>2, <2>12 DEF Throws
  <2>13. CASE Take(t)
    <3>1. Head(queue) \in Messages  BY <1>0, <2>13, TailOf DEF Take, Types
    <3>2. Head(queue).act \in Activities  BY <3>1 DEF Messages
    <3>3. CASE Head(queue).kind = "launch"
      <4>1. LaunchActivity(t, Head(queue).act, Tail(queue))  BY <2>13, <3>3 DEF Take
      <4> QED  BY <1>0, <3>2, <4>1, GuardLaunch
    <3>4. CASE Head(queue).kind # "launch"
      <4>1. /\ stack' = [stack EXCEPT ![t] = Append(@, Frame(Head(queue).act, FALSE))]
            /\ UNCHANGED sLaunching
        BY <2>13, <3>4 DEF Take
      <4> QED  BY <1>0, <3>2, <4>1, GuardCall
    <3> QED  BY <3>3, <3>4
  <2>14. CASE Drained(t)
    <3>1. PICK pc \in {"return", "bind"} : Goto(t, pc)  BY <2>14 DEF Drained
    <3> QED  BY <2>0, <2>1, <2>14, <3>1 DEF Drained, Stages
  <2>15. CASE Bind(t)  BY <2>0, <2>1, <2>15 DEF Bind, Stages
  <2>16. CASE Leave(t)  BY <2>0, <2>2, <2>16 DEF Leave
  <2> QED  BY <1>1, <2>3, <2>4, <2>5, <2>6, <2>7, <2>8, <2>9, <2>10, <2>11, <2>12, <2>13, <2>14, <2>15, <2>16
        DEF LaunchStep
<1>2. CASE EventsDispatched \/ RenderBegin  BY <1>2, GuardIdle DEF EventsDispatched, RenderBegin
<1>3. CASE RenderEnd  BY <1>3, GuardIdle DEF RenderEnd
<1>4. ASSUME NEW a \in Activities, StartPosted(a) PROVE GuardInv'  BY <1>4, GuardIdle DEF StartPosted
<1>5. ASSUME NEW a \in Activities, Finish(a) PROVE GuardInv'  BY <1>5, GuardIdle DEF Finish
<1>6. ASSUME NEW t \in Threads, NEW a \in Activities, StartDirect(t, a) PROVE GuardInv'
  BY <1>0, <1>6, GuardLaunch DEF StartDirect
<1>7. CASE UNCHANGED vars  BY <1>7, GuardIdle DEF vars
<1> QED  BY <1>1, <1>2, <1>3, <1>4, <1>5, <1>6, <1>7 DEF Next

LEMMA LaunchesGuarded == Spec => [](TypeOK /\ GuardInv)
BY InitTypes, NextTypes, InitGuard, NextGuard, PTL DEF Spec

\* Every variable keeps its type; only a render thread that holds mLock has launches.
THEOREM LauncherTypes == Spec => []TypeOK
BY LaunchesGuarded, PTL

\* sLaunching is up exactly while one guarded launchActivity call is on some
\* thread's stack, however launches nest, fail, throw or run on two threads.
THEOREM GuardIsExact == Spec => []GuardExact
<1>1. TypeOK /\ GuardInv => GuardExact
  <2> SUFFICES ASSUME TypeOK, GuardInv PROVE GuardExact  OBVIOUS
  <2>0. Types  BY TypesOf
  <2>1. \A f : f \in GuardedFrames <=> \E t \in Threads : \E i \in Nat : f = <<t, i>> /\ Guarded(t, i)
    <3>1. \A t \in Threads : DOMAIN stack[t] \subseteq Nat
      <4> SUFFICES ASSUME NEW t \in Threads PROVE DOMAIN stack[t] \subseteq Nat  OBVIOUS
      <4>1. stack[t] \in Seq(Frames)  BY <2>0 DEF Types
      <4> QED  BY <4>1
    <3> QED  BY <3>1 DEF GuardedFrames, Guarded
  <2>2. CASE sLaunching
    <3>1. PICK t \in Threads, i \in Nat : Guarded(t, i)  BY <2>2 DEF GuardInv
    <3>2. GuardedFrames = {<<t, i>>}  BY <2>1, <3>1 DEF GuardInv
    <3> QED  BY <2>2, <3>2, FS_Singleton DEF GuardExact
  <2>3. CASE ~sLaunching
    <3>1. GuardedFrames = {}  BY <2>1, <2>3 DEF GuardInv
    <3> QED  BY <2>3, <3>1, FS_EmptySet DEF GuardExact
  <2> QED  BY <2>2, <2>3
<1> QED  BY <1>1, LaunchesGuarded, PTL
-----------------------------------------------------------------------------
(* Launches that make a task.                                               *)

LEMMA LastOf ==
  ASSUME NEW S, NEW s \in Seq(S), NEW e \in S
  PROVE  /\ Append(s, e) # <<>> /\ Last(Append(s, e)) = e
         /\ \A i \in DOMAIN Append(s, e) : Append(s, e)[i] = e \/ (i \in DOMAIN s /\ Append(s, e)[i] = s[i])
         /\ s # <<>> => Len(s) \in DOMAIN s /\ Last(s) = s[Len(s)] /\ Last(s) \in S
<1>1. /\ Append(s, e) # <<>> /\ Last(Append(s, e)) = e
      /\ \A i \in DOMAIN Append(s, e) : Append(s, e)[i] = e \/ (i \in DOMAIN s /\ Append(s, e)[i] = s[i])
  BY AppendProperties, LenProperties DEF Last
<1> QED  BY <1>1, FrontOf

\* What is on top of a call stack.
LEMMA TopOf ==
  ASSUME Types, Nesting, NEW t \in Threads, stack[t] # <<>>
  PROVE  /\ Len(stack[t]) \in Nat \ {0} /\ DOMAIN stack[t] = 1 .. Len(stack[t])
         /\ Last(stack[t]) = stack[t][Len(stack[t])] /\ Last(stack[t]) \in Frames
         /\ Len(stack[t]) \in DOMAIN stack[t]
         /\ Act(t) \in Activities \cap requested /\ Last(stack[t]).pc \in Stages
<1>1. /\ Len(stack[t]) \in Nat \ {0} /\ DOMAIN stack[t] = 1 .. Len(stack[t])
      /\ Last(stack[t]) = stack[t][Len(stack[t])] /\ Last(stack[t]) \in Frames
      /\ Len(stack[t]) \in DOMAIN stack[t]
  BY FrontOf, LenProperties DEF Types
<1>2. Act(t) \in requested  BY <1>1 DEF Nesting, Act
<1> QED  BY <1>1, <1>2 DEF Frames, Act

\* While one thread has launches the other has none, or is returning.
Quiet(u) == ~Active(u) /\ (stack[u] # <<>> => Last(stack[u]).pc = "return")

LEMMA QuietMain ==
  ASSUME Types, OneThread, Nesting, rpc # "off"
  PROVE  Quiet("main")
<1>1. stack["main"] # <<>> => Last(stack["main"]).pc = "return"
  BY TopOf DEF OneThread
<1> QED  BY <1>1 DEF Quiet, Active

LEMMA OneStack ==
  ASSUME Types, OneThread, Nesting, NEW t \in Threads, Active(t)
  PROVE  \A u \in Threads \ {t} : Quiet(u)
<1>1. CASE t = "main"  BY <1>1 DEF OneThread, Active, Quiet
<1>2. CASE t = "render"
  <2>1. rpc # "off"  BY <1>2 DEF OneThread, Active
  <2> QED  BY <1>2, <2>1, QuietMain
<1> QED  BY <1>1, <1>2

\* A thread that is at another stage than the return has launches.
LEMMA ActiveIn ==
  ASSUME Types, OneThread, Nesting, NEW t \in Threads, stack[t] # <<>>,
         Last(stack[t]).pc # "return"
  PROVE  Active(t)
<1>1. t = "main" => rpc = "off"  BY QuietMain DEF Quiet
<1> QED  BY <1>1 DEF Active

\* The innermost launch goes on to another stage.
LEMMA TaskGoto ==
  ASSUME Types, OneThread, Nesting,
         NEW t \in Threads, Active(t), NEW pc \in Stages, Goto(t, pc), UNCHANGED requested,
         current' = current \/ current' # Nil, pc = "drain" => current' # Nil
  PROVE  /\ Nesting' /\ stack'[t] # <<>> /\ Last(stack'[t]).pc = pc /\ Act(t)' = Act(t)
         /\ \A u \in Threads \ {t} : stack'[u] = stack[u]
         /\ rpc' = rpc => OneThread' /\ \A u \in Threads : Active(u)' <=> Active(u)
         /\ Act(t) = First => t = "main" /\ \A i \in DOMAIN stack'[t] : stack'[t][i].pc = pc
<1> DEFINE n == Len(stack[t])
<1>0. stack[t] # <<>>  BY DEF Active
<1>1. /\ n \in Nat \ {0} /\ DOMAIN stack[t] = 1 .. n
      /\ Last(stack[t]) = stack[t][n] /\ Last(stack[t]) \in Frames
  BY <1>0, TopOf
<1>2. /\ \A u \in Threads \ {t} : stack'[u] = stack[u]
      /\ stack'[t] # <<>> /\ Len(stack'[t]) = n /\ DOMAIN stack'[t] = 1 .. n
      /\ \A i \in 1 .. n : i < n => stack'[t][i] = stack[t][i]
      /\ \A i \in 1 .. n : stack'[t][i].act = stack[t][i].act
      /\ Last(stack'[t]) = [Last(stack[t]) EXCEPT !.pc = pc]
  BY <1>0, <1>1, GotoStack
<1>3. Last(stack'[t]) = stack'[t][n] /\ stack'[t][n].pc = pc /\ Act(t)' = Act(t)
  BY <1>1, <1>2 DEF Last, Act, Frames
<1>4. n = Len(stack[t])  OBVIOUS
<1> HIDE DEF n
<1>5. rpc' = rpc => OneThread' /\ \A u \in Threads : Active(u)' <=> Active(u)
  <2>1. \A u \in Threads : stack'[u] = <<>> <=> stack[u] = <<>>  BY <1>0, <1>2
  <2>2. t = "main" => rpc = "off"  BY DEF Active
  <2> QED  BY <1>2, <2>1, <2>2 DEF OneThread, Active
<1>6. Nesting'
  <2> SUFFICES ASSUME NEW u \in Threads
               PROVE  \A i \in DOMAIN stack'[u] :
                        /\ i < Len(stack'[u]) => stack'[u][i].pc = "drain"
                        /\ stack'[u][i].pc = "drain" => current' # Nil
                        /\ stack'[u][i].act = First => u = "main" /\ i = 1
                        /\ stack'[u][i].act \in requested'
    BY DEF Nesting
  <2>1. CASE u = t
    <3>1. \A i \in 1 .. n : i < n \/ i = n  BY <1>1
    <3> QED  BY <1>1, <1>2, <1>3, <1>4, <2>1, <3>1 DEF Nesting
  <2>2. CASE u # t  BY <1>2, <2>2 DEF Nesting
  <2> QED  BY <2>1, <2>2
<1>7. Act(t) = First => t = "main" /\ \A i \in DOMAIN stack'[t] : stack'[t][i].pc = pc
  <2> SUFFICES ASSUME Act(t) = First PROVE t = "main" /\ n = 1
    BY <1>2, <1>3
  <2>1. n \in DOMAIN stack[t] /\ stack[t][n].act = First  BY <1>1 DEF Act
  <2> QED  BY <2>1 DEF Nesting
<1> QED  BY <1>2, <1>3, <1>5, <1>6, <1>7

\* The innermost launch returns to the drain it was taken in, if any.
LEMMA TaskReturn ==
  ASSUME Types, OneThread, Nesting, NEW t \in Threads, stack[t] # <<>>, Return(t),
         UNCHANGED <<rpc, requested, current>>
  PROVE  /\ Nesting' /\ OneThread'
         /\ stack'[t] # <<>> => Last(stack'[t]).pc = "drain" /\ current # Nil
         /\ \A u \in Threads \ {t} : stack'[u] = stack[u] /\ (Active(u)' <=> Active(u))
         /\ Active(t)' => Active(t) /\ stack'[t] # <<>>
<1> DEFINE n == Len(stack[t])
<1>1. /\ n \in Nat \ {0} /\ DOMAIN stack[t] = 1 .. n
      /\ Last(stack[t]) = stack[t][n] /\ Last(stack[t]) \in Frames
  BY TopOf
<1>2. /\ \A u \in Threads \ {t} : stack'[u] = stack[u]
      /\ Len(stack'[t]) = n - 1 /\ DOMAIN stack'[t] = 1 .. n - 1
      /\ \A i \in 1 .. n - 1 : stack'[t][i] = stack[t][i]
      /\ stack'[t] # <<>> => Last(stack'[t]) = stack[t][n - 1] /\ n - 1 \in 1 .. n - 1
      /\ stack' \in [Threads -> Seq(Frames)]
  BY <1>1, ReturnStack DEF Return
<1>3. n = Len(stack[t])  OBVIOUS
<1> HIDE DEF n
<1>4. \A i \in 1 .. n - 1 : stack'[t][i].pc = "drain" /\ i \in DOMAIN stack[t]
  <2>1. \A i \in 1 .. n - 1 : i < Len(stack[t]) /\ i \in DOMAIN stack[t]  BY <1>1, <1>3
  <2> QED  BY <1>2, <2>1 DEF Nesting
<1>5. OneThread'
  <2>1. \A u \in Threads : stack[u] = <<>> => stack'[u] = <<>>  BY <1>2
  <2>2. \A u \in Threads : \A i \in DOMAIN stack'[u] : i \in DOMAIN stack[u] /\ stack'[u][i] = stack[u][i]
    BY <1>2, <1>4
  <2> QED  BY <2>1, <2>2 DEF OneThread
<1>6. Nesting'
  <2> SUFFICES ASSUME NEW u \in Threads
               PROVE  \A i \in DOMAIN stack'[u] :
                        /\ i < Len(stack'[u]) => stack'[u][i].pc = "drain"
                        /\ stack'[u][i].pc = "drain" => current' # Nil
                        /\ stack'[u][i].act = First => u = "main" /\ i = 1
                        /\ stack'[u][i].act \in requested'
    BY DEF Nesting
  <2>1. CASE u = t  BY <1>2, <1>4, <2>1 DEF Nesting
  <2>2. CASE u # t  BY <1>2, <2>2 DEF Nesting
  <2> QED  BY <2>1, <2>2
<1>7. stack'[t] # <<>> => Last(stack'[t]).pc = "drain" /\ current # Nil
  <2> SUFFICES ASSUME stack'[t] # <<>> PROVE Last(stack'[t]).pc = "drain" /\ current # Nil  OBVIOUS
  <2>1. n - 1 \in 1 .. n - 1 /\ Last(stack'[t]) = stack'[t][n - 1]  BY <1>2
  <2>2. n - 1 \in DOMAIN stack[t] /\ stack[t][n - 1].pc = "drain"  BY <1>2, <1>4, <2>1
  <2> QED  BY <1>2, <2>1, <2>2 DEF Nesting
<1>8. /\ \A u \in Threads \ {t} : Active(u)' <=> Active(u)
      /\ Active(t)' => Active(t) /\ stack'[t] # <<>>
  BY <1>2 DEF Active
<1> QED  BY <1>2, <1>5, <1>6, <1>7, <1>8

\* A launch is taken in a drain, or begins with nothing on the way.
LEMMA TaskCall ==
  ASSUME Types, OneThread, Nesting, NEW t \in Threads,
         NEW a \in Activities, a \in requested \ {First}, NEW g \in BOOLEAN,
         stack' = [stack EXCEPT ![t] = Append(@, Frame(a, g))],
         UNCHANGED <<rpc, requested, current>>,
         \/ Active(t) /\ Last(stack[t]).pc = "drain"
         \/ rpc # "off" /\ t = "render" /\ stack[t] = <<>>
  PROVE  /\ OneThread' /\ Nesting'
         /\ stack'[t] # <<>> /\ Last(stack'[t]).pc = "load" /\ Act(t)' = a
         /\ \A u \in Threads \ {t} : stack'[u] = stack[u] /\ (Active(u)' <=> Active(u))
         /\ Active(t)'
<1> DEFINE n == Len(stack[t])
           f == Frame(a, g)
<1>1. f \in Frames /\ f.act = a /\ f.pc = "load"  BY DEF Frame, Frames, Stages
<1> HIDE DEF f
<1>2. /\ \A u \in Threads \ {t} : stack'[u] = stack[u]
      /\ n \in Nat /\ Len(stack'[t]) = n + 1 /\ stack'[t] # <<>>
      /\ DOMAIN stack[t] = 1 .. n /\ DOMAIN stack'[t] = 1 .. n + 1
      /\ \A i \in 1 .. n : stack'[t][i] = stack[t][i]
      /\ stack'[t][n + 1] = f /\ Last(stack'[t]) = f
  <2>1. stack' = [stack EXCEPT ![t] = Append(@, f)]  BY DEF f
  <2> HIDE DEF n
  <2>2. /\ \A u \in Threads \ {t} : stack'[u] = stack[u]
        /\ Len(stack[t]) \in Nat /\ Len(stack'[t]) = Len(stack[t]) + 1 /\ stack'[t] # <<>>
        /\ DOMAIN stack[t] = 1 .. Len(stack[t]) /\ DOMAIN stack'[t] = 1 .. Len(stack[t]) + 1
        /\ \A i \in DOMAIN stack[t] : stack'[t][i] = stack[t][i]
        /\ stack'[t][Len(stack[t]) + 1] = f /\ Last(stack'[t]) = f
    BY ZenonT(60), <1>1, <2>1, CallStack
  <2> QED  BY <2>2 DEF n
<1>3. \A i \in 1 .. n : stack[t][i].pc = "drain"
  <2>1. CASE stack[t] = <<>>  BY <2>1
  <2>2. CASE stack[t] # <<>> /\ Last(stack[t]).pc = "drain"
    <3>1. Last(stack[t]) = stack[t][n]  BY <2>2, TopOf
    <3>2. n = Len(stack[t])  OBVIOUS
    <3> HIDE DEF n
    <3>3. \A i \in 1 .. n : i < n \/ i = n  BY <1>2
    <3> QED  BY <1>2, <2>2, <3>1, <3>2, <3>3 DEF Nesting
  <2> QED  BY <2>1, <2>2 DEF Active
<1> HIDE DEF n
<1>4. (t = "main" => rpc = "off") /\ (t = "render" => rpc # "off")
  BY DEF Active, OneThread
<1>5. OneThread'  BY <1>2, <1>4 DEF OneThread
<1>6. Nesting'
  <2> SUFFICES ASSUME NEW u \in Threads
               PROVE  \A i \in DOMAIN stack'[u] :
                        /\ i < Len(stack'[u]) => stack'[u][i].pc = "drain"
                        /\ stack'[u][i].pc = "drain" => current' # Nil
                        /\ stack'[u][i].act = First => u = "main" /\ i = 1
                        /\ stack'[u][i].act \in requested'
    BY DEF Nesting
  <2>1. CASE u = t
    <3>1. \A i \in 1 .. n + 1 : i = n + 1 \/ (i \in 1 .. n /\ i # n + 1)  BY <1>2
    <3>2. ~(n + 1 < n + 1)  BY <1>2
    <3> QED  BY <1>1, <1>2, <1>3, <2>1, <3>1, <3>2 DEF Nesting
  <2>2. CASE u # t  BY <1>2, <2>2 DEF Nesting
  <2> QED  BY <2>1, <2>2
<1>7. /\ \A u \in Threads \ {t} : Active(u)' <=> Active(u)
      /\ Active(t)'
  BY <1>2, <1>4 DEF Active
<1> QED  BY <1>1, <1>2, <1>5, <1>6, <1>7 DEF Act

\* A thread has launches, and so nobody else does.
Context(t) ==
  /\ TypeOK /\ Types /\ Promised /\ TaskInv /\ Active(t) /\ stack[t] # <<>>
  /\ Act(t) \in Activities \cap requested
  /\ \A u \in Threads \ {t} : Quiet(u)

TaskStep == TaskInv' /\ [Task!Next]_(Task!vars)

\* What the mapping makes of the back stack and the current activity.
LEMMA HistoryOf ==
  ASSUME NEW b \in Seq(Activities), NEW c \in Activities
  PROVE  /\ b # <<>> /\ Last(b) = c => History(b, c) = b /\ b[Len(b)] = c
         /\ ~(b # <<>> /\ Last(b) = c) => /\ History(b, c) = Append(b, c) /\ Append(b, c) # <<>>
                                          /\ Append(b, c)[Len(Append(b, c))] = c
<1>1. c # Nil  OBVIOUS
<1>2. b # <<>> => Last(b) = b[Len(b)]  BY LastOf
<1>3. Append(b, c) # <<>> /\ Append(b, c)[Len(Append(b, c))] = c  BY AppendProperties
<1> QED  BY <1>1, <1>2, <1>3 DEF History

\* The messages name activities.
LEMMA QueueActs ==
  ASSUME Types
  PROVE  \A i \in DOMAIN queue : queue[i].act \in Activities /\ queue[i].kind \in {"launch", "impl"}
<1>1. \A i \in DOMAIN queue : queue[i] \in Messages  BY DEF Types
<1> QED  BY <1>1 DEF Messages

\* The mapping does not see the rest of the state.
LEMMA TaskStutters ==
  ASSUME UNCHANGED <<app, backStack, current, life, root>>
  PROVE  UNCHANGED Task!vars
BY DEF Task!vars, TaskNow, LifeNow, ShownNow, Promised

LEMMA TaskLoad ==
  ASSUME NEW t \in Threads, Context(t), Load(t)
  PROVE  TaskStep
<1>1. PICK pc \in {"create", "push"} :
        Goto(t, pc) /\ (pc = "create" <=> Act(t) = First \/ current = Nil)
  BY DEF Load
<1>2. Last(stack[t]).pc = "load"  BY DEF Load, In
<1>3. /\ OneThread' /\ Nesting' /\ Active(t)'
      /\ stack'[t] # <<>> /\ Last(stack'[t]).pc = pc /\ Act(t)' = Act(t)
      /\ \A u \in Threads \ {t} : /\ stack'[u] = stack[u] /\ ~Active(u) /\ ~Active(u)'
                                  /\ stack[u] # <<>> => Last(stack[u]).pc = "return"
  BY <1>1, <1>2, TaskGoto DEF Load, Context, TaskInv, Quiet, Stages, Callbacks
<1>4. LaunchedOnce'
  BY <1>1, <1>2, <1>3 DEF Load, Context, TaskInv, LaunchedOnce, Launching, Early
<1>5. ComingUp'
  BY <1>2, <1>3 DEF Load, Context, TaskInv, ComingUp, In
<1>6. TaskShape'
  BY <1>1, <1>2, <1>3 DEF Load, Context, TaskInv, TaskShape, InFront, Nobody, Leaving, Early
<1> QED  BY <1>3, <1>4, <1>5, <1>6, TaskStutters DEF Load, TaskStep, TaskInv

LEMMA TaskPush ==
  ASSUME NEW t \in Threads, Context(t), Push(t)
  PROVE  TaskStep
<1>1. /\ Last(stack[t]).pc = "push" /\ current \in Activities /\ Goto(t, "pause")
      /\ backStack \in Seq(Activities) /\ backStack' = Append(backStack, current)
  BY DEF Push, In, Context, TypeOK
<1>2. /\ OneThread' /\ Nesting' /\ Active(t)'
      /\ stack'[t] # <<>> /\ Last(stack'[t]).pc = "pause" /\ Act(t)' = Act(t)
      /\ \A u \in Threads \ {t} : /\ stack'[u] = stack[u] /\ ~Active(u) /\ ~Active(u)'
                                  /\ stack[u] # <<>> => Last(stack[u]).pc = "return"
  BY <1>1, TaskGoto DEF Push, Context, TaskInv, Quiet, Stages, Callbacks
<1>3. LaunchedOnce'
  BY <1>1, <1>2 DEF Push, Context, TaskInv, LaunchedOnce, Launching, Early
<1>4. ComingUp'
  BY <1>1, <1>2 DEF Push, Context, TaskInv, ComingUp, In
<1>5. InFront /\ Act(t) # First
  BY <1>1 DEF Context, TaskInv, TaskShape, Early, Nobody, InFront
<1>6. /\ backStack' # <<>> /\ Last(backStack') = current
      /\ \A i \in DOMAIN backStack' :
           backStack'[i] = current \/ (i \in DOMAIN backStack /\ backStack'[i] = backStack[i])
  BY <1>1, LastOf
<1>7. TaskShape'
  <2>1. \A i \in DOMAIN backStack' : life'[backStack'[i]] \in {"resumed", "paused", "stopped"}
    BY <1>5, <1>6 DEF Push, Context, TaskInv, TaskShape, InFront
  <2>2. Leaving("resumed")'  BY <1>1, <1>5, <1>6 DEF Push, Leaving, InFront
  <2> QED  BY <1>2, <1>5, <2>1, <2>2 DEF Context, TaskShape, Early
<1>8. UNCHANGED Task!vars
  <2>1. History(backStack, current) = Append(backStack, current)
    BY <1>1, <1>5, HistoryOf DEF InFront
  <2>2. History(backStack', current) = backStack'  BY <1>6 DEF History
  <2> QED  BY <1>1, <2>1, <2>2 DEF Push, Task!vars, TaskNow, LifeNow, ShownNow, Promised
<1> QED  BY <1>2, <1>3, <1>4, <1>7, <1>8 DEF TaskStep, TaskInv

\* The activity that is left goes through its last callbacks.
LEMMA TaskLeave ==
  ASSUME NEW t \in Threads, Context(t),
         NEW from \in {"pause", "stop"}, Last(stack[t]).pc = from,
         Goto(t, IF from = "pause" THEN "stop" ELSE "create"),
         life' = [life EXCEPT ![current] = IF from = "pause" THEN "paused" ELSE "stopped"],
         UNCHANGED <<app, queue, rpc, sLaunching, current, backStack, finished, requested, root>>
  PROVE  TaskStep
<1> DEFINE pc == IF from = "pause" THEN "stop" ELSE "create"
           old == IF from = "pause" THEN "resumed" ELSE "paused"
           new == IF from = "pause" THEN "paused" ELSE "stopped"
<1>1. /\ OneThread' /\ Nesting' /\ Active(t)'
      /\ stack'[t] # <<>> /\ Last(stack'[t]).pc = pc /\ Act(t)' = Act(t)
      /\ \A u \in Threads \ {t} : /\ stack'[u] = stack[u] /\ ~Active(u) /\ ~Active(u)'
                                  /\ stack[u] # <<>> => Last(stack[u]).pc = "return"
  <2>1. Goto(t, pc) /\ pc \in Stages /\ pc # "drain"  BY DEF Stages, Callbacks
  <2> HIDE DEF pc
  <2> QED  BY <2>1, TaskGoto DEF Context, TaskInv, Quiet
<1>2. Leaving(old) /\ Act(t) # First
  BY DEF Context, TaskInv, TaskShape, Early, Leaving, Nobody
<1>3. /\ current \in Activities /\ backStack \in Seq(Activities)
      /\ life \in [Activities -> LifeStages] /\ life[current] = old
      /\ backStack # <<>> /\ Last(backStack) = current
  BY <1>2 DEF Leaving, Context, TypeOK, LifeStages
<1>4. /\ life'[current] = new /\ \A a \in Activities : a # current => life'[a] = life[a]
  BY <1>3
<1>5. Act(t) # current /\ life[Act(t)] = "none"
  BY <1>3 DEF Context, TaskInv, LaunchedOnce, Launching, Early
<1>6. LaunchedOnce'
  <2>1. \A i \in DOMAIN queue : queue[i].act # current /\ life'[queue[i].act] = "none"
    BY <1>3, <1>4 DEF Context, TaskInv, LaunchedOnce, TypeOK
  <2>2. \A u \in Threads : \A a : Launching(u, a)' => u = t /\ a = Act(t) /\ Launching(t, a)
    BY <1>1 DEF Context, Launching, Early
  <2>3. life'[Act(t)] = "none" BY <1>4, <1>5 DEF Context
  <2>4. \A a \in Activities \ requested : life'[a] = "none"
    BY <1>3, <1>4 DEF Context, TaskInv, LaunchedOnce
  <2> QED  BY <2>1, <2>2, <2>3, <2>4 DEF Context, TaskInv, LaunchedOnce
<1>7. ComingUp'
  BY <1>3, <1>4 DEF Context, TaskInv, ComingUp, In, Quiet
<1>8. TaskShape'
  <2>1. \A i \in DOMAIN backStack : backStack[i] \in Activities  BY <1>3
  <2>2. \A i \in DOMAIN backStack : life'[backStack[i]] \in {"resumed", "paused", "stopped"}
    BY <1>4, <2>1 DEF Context, TaskInv, TaskShape
  <2>3. Leaving(new)'  BY <1>2, <1>4 DEF Leaving
  <2> QED  BY <1>1, <1>2, <2>2, <2>3 DEF Context, TaskShape, Early
<1>9. Task!Pause \/ Task!Stop
  <2>1. /\ TaskNow = backStack /\ TaskNow' = backStack /\ LifeNow = life /\ LifeNow' = life'
        /\ ShownNow' = ShownNow
    BY <1>3, HistoryOf DEF Context, TaskNow, LifeNow, ShownNow, Promised
  <2>2. Task!Front = current  BY <1>3, <2>1, HistoryOf DEF Task!Front
  <2>3. Task!Moves(Task!Front, old, new)  BY <1>3, <2>1, <2>2 DEF Task!Moves
  <2> QED  BY <1>3, <2>1, <2>3 DEF Task!Pause, Task!Stop
<1> QED  BY <1>1, <1>6, <1>7, <1>8, <1>9 DEF TaskStep, TaskInv, Task!Next

LEMMA TaskPause == ASSUME NEW t \in Threads, Context(t), Pause(t) PROVE TaskStep
BY TaskLeave DEF Pause, In

LEMMA TaskStop == ASSUME NEW t \in Threads, Context(t), Stop(t) PROVE TaskStep
BY TaskLeave DEF Stop, In

LEMMA TaskCreate ==
  ASSUME NEW t \in Threads, Context(t), Create(t)
  PROVE  TaskStep
<1> DEFINE A == Act(t)
<1>1. Last(stack[t]).pc = "create" /\ Goto(t, "start") /\ A \in Activities \cap requested
  BY DEF Create, In, Context
<1>2. /\ OneThread' /\ Nesting' /\ Active(t)'
      /\ stack'[t] # <<>> /\ Last(stack'[t]).pc = "start" /\ Act(t)' = A
      /\ \A u \in Threads \ {t} : /\ stack'[u] = stack[u] /\ ~Active(u) /\ ~Active(u)'
                                  /\ stack[u] # <<>> => Last(stack[u]).pc = "return"
  BY <1>1, TaskGoto DEF Create, Context, TaskInv, Quiet, Stages, Callbacks
<1>3. /\ life \in [Activities -> LifeStages] /\ life[A] = "none"
      /\ life' = [life EXCEPT ![A] = "created"] /\ backStack \in Seq(Activities)
  BY <1>1 DEF Create, Context, TypeOK, LifeStages, TaskInv, LaunchedOnce, Launching, Early
<1>4. Nobody \/ Leaving("stopped")
  BY <1>1 DEF Context, TaskInv, TaskShape
<1> HIDE DEF A
<1>5. life'[A] = "created" /\ \A a \in Activities : a # A => life'[a] = life[a]
  BY <1>1, <1>3
<1>6. LaunchedOnce'
  <2>1. \A i \in DOMAIN queue : queue[i].act \in Activities
    BY QueueActs DEF Context
  <2>2. \A i \in DOMAIN queue : queue[i].act # A
    BY <1>1 DEF Context, TaskInv, LaunchedOnce, Launching, Early, A
  <2>3. \A u \in Threads : \A a : ~Launching(u, a)'
    BY <1>2 DEF Context, Launching, Early
  <2> QED  BY <1>1, <1>5, <2>1, <2>2, <2>3 DEF Create, Context, TaskInv, LaunchedOnce
<1>7. ComingUp'
  BY <1>1, <1>2, <1>5 DEF Create, Context, TaskInv, ComingUp, In
<1>8. current # Nil => current \in Activities /\ current # A
  BY <1>3, <1>4 DEF Context, TypeOK, Leaving, Nobody
<1>9. \A i \in DOMAIN backStack : backStack[i] \in Activities /\ backStack[i] # A
  BY <1>3 DEF Context, TaskInv, TaskShape
<1>10. TaskShape'
  <2>1. \A i \in DOMAIN backStack : life'[backStack[i]] \in {"resumed", "paused", "stopped"}
    BY <1>5, <1>9 DEF Context, TaskInv, TaskShape
  <2>2. Nobody' \/ Leaving("stopped")'
    BY <1>4, <1>5, <1>8 DEF Create, Nobody, Leaving
  <2> QED  BY <1>2, <1>5, <2>1, <2>2 DEF Create, Context, TaskShape, Early
<1>11. Task!Create(A)
  <2>1. /\ TaskNow = backStack /\ TaskNow' = backStack /\ LifeNow = life /\ LifeNow' = life'
        /\ ShownNow' = ShownNow
    BY <1>4 DEF Create, Context, TaskNow, LifeNow, ShownNow, Promised, Nobody, Leaving, History
  <2>2. TaskNow # <<>> => LifeNow[Task!Front] = "stopped"
    BY <1>3, <1>4, <1>8, <2>1, HistoryOf DEF Task!Front, Nobody, Leaving
  <2>3. Task!Coming = {}
    BY <1>1, <2>1 DEF Task!Coming, Context, TaskInv, ComingUp, In, Quiet
  <2> QED  BY <1>3, <2>1, <2>2, <2>3 DEF Task!Create, Task!Moves
<1> QED  BY <1>1, <1>2, <1>6, <1>7, <1>10, <1>11 DEF TaskStep, TaskInv, Task!Next

LEMMA TaskStart ==
  ASSUME NEW t \in Threads, Context(t), Start(t)
  PROVE  TaskStep
<1> DEFINE A == Act(t)
<1>1. Last(stack[t]).pc = "start" /\ Goto(t, "resume") /\ A \in Activities \cap requested
  BY DEF Start, In, Context
<1>2. /\ OneThread' /\ Nesting' /\ Active(t)'
      /\ stack'[t] # <<>> /\ Last(stack'[t]).pc = "resume" /\ Act(t)' = A
      /\ \A u \in Threads \ {t} : /\ stack'[u] = stack[u] /\ ~Active(u) /\ ~Active(u)'
                                  /\ stack[u] # <<>> => Last(stack[u]).pc = "return"
  BY <1>1, TaskGoto DEF Start, Context, TaskInv, Quiet, Stages, Callbacks
<1>3. /\ life \in [Activities -> LifeStages] /\ life[A] = "created"
      /\ life' = [life EXCEPT ![A] = "started"] /\ backStack \in Seq(Activities)
  BY <1>1 DEF Start, Context, TypeOK, LifeStages, TaskInv, TaskShape
<1>4. Nobody \/ Leaving("stopped")
  BY <1>1 DEF Context, TaskInv, TaskShape
<1> HIDE DEF A
<1>5. life'[A] = "started" /\ \A a \in Activities : a # A => life'[a] = life[a]
  BY <1>1, <1>3
<1>6. LaunchedOnce'
  <2>1. \A i \in DOMAIN queue : queue[i].act \in Activities
    BY QueueActs DEF Context
  <2>2. \A i \in DOMAIN queue : queue[i].act # A
    BY <1>3 DEF Context, TaskInv, LaunchedOnce
  <2>3. \A u \in Threads : \A a : ~Launching(u, a)'
    BY <1>2 DEF Context, Launching, Early
  <2> QED  BY <1>1, <1>5, <2>1, <2>2, <2>3 DEF Start, Context, TaskInv, LaunchedOnce
<1>7. ComingUp'
  BY <1>1, <1>2, <1>5 DEF Start, Context, TaskInv, ComingUp, In, A
<1>8. current # Nil => current \in Activities /\ current # A
  BY <1>3, <1>4 DEF Context, TypeOK, Leaving, Nobody
<1>9. \A i \in DOMAIN backStack : backStack[i] \in Activities /\ backStack[i] # A
  BY <1>3 DEF Context, TaskInv, TaskShape
<1>10. TaskShape'
  <2>1. \A i \in DOMAIN backStack : life'[backStack[i]] \in {"resumed", "paused", "stopped"}
    BY <1>5, <1>9 DEF Context, TaskInv, TaskShape
  <2>2. Nobody' \/ Leaving("stopped")'
    BY <1>4, <1>5, <1>8 DEF Start, Nobody, Leaving
  <2> QED  BY <1>2, <1>5, <2>1, <2>2 DEF Start, Context, TaskShape, Early
<1>11. Task!Start(A)
  <2>1. TaskNow' = TaskNow /\ LifeNow = life /\ LifeNow' = life' /\ ShownNow' = ShownNow
    BY DEF Start, Context, TaskNow, LifeNow, ShownNow, Promised
  <2> QED  BY <1>3, <2>1 DEF Task!Start, Task!Moves
<1> QED  BY <1>1, <1>2, <1>6, <1>7, <1>10, <1>11 DEF TaskStep, TaskInv, Task!Next

LEMMA TaskResume ==
  ASSUME NEW t \in Threads, Context(t), Resume(t)
  PROVE  TaskStep
<1> DEFINE A == Act(t)
<1>1. /\ Last(stack[t]).pc = "resume" /\ Goto(t, "drain") /\ A \in Activities \cap requested
      /\ current' = A /\ A # Nil
  BY DEF Resume, In, Context
<1>2. /\ OneThread' /\ Nesting' /\ Active(t)'
      /\ stack'[t] # <<>> /\ Last(stack'[t]).pc = "drain" /\ Act(t)' = A
      /\ \A u \in Threads \ {t} : /\ stack'[u] = stack[u] /\ ~Active(u) /\ ~Active(u)'
                                  /\ stack[u] # <<>> => Last(stack[u]).pc = "return"
  BY <1>1, TaskGoto DEF Resume, Context, TaskInv, Quiet, Stages, Callbacks
<1>3. /\ life \in [Activities -> LifeStages] /\ life[A] = "started"
      /\ life' = [life EXCEPT ![A] = "resumed"] /\ backStack \in Seq(Activities)
  BY <1>1 DEF Resume, Context, TypeOK, LifeStages, TaskInv, TaskShape
<1>4. Nobody \/ Leaving("stopped")
  BY <1>1 DEF Context, TaskInv, TaskShape
<1> HIDE DEF A
<1>5. life'[A] = "resumed" /\ \A a \in Activities : a # A => life'[a] = life[a]
  BY <1>1, <1>3
<1>6. LaunchedOnce'
  <2>1. \A i \in DOMAIN queue : queue[i].act \in Activities
    BY QueueActs DEF Context
  <2>2. \A i \in DOMAIN queue : queue[i].act # A
    BY <1>3 DEF Context, TaskInv, LaunchedOnce
  <2>3. \A u \in Threads : \A a : ~Launching(u, a)'
    BY <1>2 DEF Context, Launching, Early
  <2> QED  BY <1>1, <1>5, <2>1, <2>2, <2>3 DEF Resume, Context, TaskInv, LaunchedOnce
<1>7. ComingUp'
  BY <1>1, <1>2, <1>5 DEF Resume, Context, TaskInv, ComingUp, In, A
<1>8. \A i \in DOMAIN backStack : backStack[i] \in Activities /\ backStack[i] # A
  BY <1>3 DEF Context, TaskInv, TaskShape
<1>9. ~(backStack # <<>> /\ Last(backStack) = A)
  <2>1. backStack # <<>> => Len(backStack) \in DOMAIN backStack /\ Last(backStack) = backStack[Len(backStack)]
    BY <1>3, LastOf
  <2> QED  BY <1>8, <2>1
<1>10. TaskShape'
  <2>1. \A i \in DOMAIN backStack : life'[backStack[i]] \in {"resumed", "paused", "stopped"}
    BY <1>5, <1>8 DEF Context, TaskInv, TaskShape
  <2>2. InFront'
    BY <1>1, <1>5, <1>9 DEF Resume, InFront
  <2> QED  BY <1>2, <2>1, <2>2 DEF Resume, Context, TaskShape, Early
<1>11. Task!Resume(A)
  <2>1. /\ TaskNow = backStack /\ LifeNow = life /\ LifeNow' = life' /\ ShownNow' = ShownNow
    BY <1>4 DEF Resume, Context, TaskNow, LifeNow, ShownNow, Promised, Nobody, Leaving, History
  <2>2. TaskNow' = Append(backStack, A)
    BY <1>1, <1>3, <1>9, HistoryOf DEF Resume, Context, TaskNow, Promised
  <2> QED  BY <1>3, <2>1, <2>2 DEF Task!Resume, Task!Moves
<1> QED  BY <1>1, <1>2, <1>6, <1>7, <1>10, <1>11 DEF TaskStep, TaskInv, Task!Next

\* A drain ends, for another activity or for the renderer.
LEMMA TaskDrained ==
  ASSUME NEW t \in Threads, Context(t), Drained(t)
  PROVE  TaskStep
<1>1. PICK pc \in {"return", "bind"} : Goto(t, pc) /\ (pc = "bind" => current = Act(t))
  BY DEF Drained
<1>2. Last(stack[t]).pc = "drain"  BY DEF Drained, In
<1>3. InFront  BY <1>2 DEF Context, TaskInv, TaskShape
<1>4. /\ OneThread' /\ Nesting' /\ Active(t)'
      /\ stack'[t] # <<>> /\ Last(stack'[t]).pc = pc /\ Act(t)' = Act(t)
      /\ \A u \in Threads \ {t} : /\ stack'[u] = stack[u] /\ ~Active(u) /\ ~Active(u)'
                                  /\ stack[u] # <<>> => Last(stack[u]).pc = "return"
  BY <1>1, TaskGoto DEF Drained, Context, TaskInv, Quiet, Stages, Callbacks
<1>5. LaunchedOnce'
  BY <1>2, <1>4 DEF Drained, Context, TaskInv, LaunchedOnce, Launching, Early
<1>6. ComingUp'
  BY <1>2, <1>4 DEF Drained, Context, TaskInv, ComingUp, In
<1>7. TaskShape'
  BY <1>1, <1>3, <1>4 DEF Drained, Context, TaskInv, TaskShape, InFront, Early
<1> QED  BY <1>4, <1>5, <1>6, <1>7, TaskStutters DEF Drained, TaskStep, TaskInv

\* The innermost launch is over, and nothing has come of it or all of it.
LEMMA TaskOver ==
  ASSUME NEW t \in Threads, Context(t), Last(stack[t]).pc \in {"load", "return"}, Return(t),
         UNCHANGED <<app, queue, rpc, current, backStack, life, finished, requested, root>>
  PROVE  TaskStep
<1>1. Nobody \/ InFront  BY DEF Context, TaskInv, TaskShape
<1>2. /\ OneThread' /\ Nesting'
      /\ stack'[t] # <<>> => Last(stack'[t]).pc = "drain" /\ current # Nil
      /\ \A u \in Threads \ {t} : /\ stack'[u] = stack[u] /\ ~Active(u) /\ ~Active(u)'
                                  /\ stack[u] # <<>> => Last(stack[u]).pc = "return"
      /\ Active(t)' => stack'[t] # <<>>
  BY TaskReturn DEF Context, TaskInv, Quiet
<1>3. LaunchedOnce'
  BY <1>2 DEF Context, TaskInv, LaunchedOnce, Launching, Early
<1>4. ComingUp'
  BY <1>2 DEF Context, TaskInv, ComingUp, In
<1>5. TaskShape'
  BY <1>1, <1>2 DEF Context, TaskInv, TaskShape, InFront, Nobody, Early
<1> QED  BY <1>2, <1>3, <1>4, <1>5, TaskStutters DEF TaskStep, TaskInv

LEMMA TaskLoadFails == ASSUME NEW t \in Threads, Context(t), LoadFails(t) PROVE TaskStep
BY TaskOver DEF LoadFails, In

\* The launch of the first activity returns while the render thread may launch.
LEMMA TaskFirstOver ==
  ASSUME Types, TaskInv, rpc # "off", Leave("main")
  PROVE  TaskStep
<1>1. stack["main"] # <<>> /\ Last(stack["main"]).pc = "return" /\ Return("main")
  BY DEF Leave, In
<1>2. UNCHANGED <<app, queue, rpc, current, backStack, life, finished, requested, root>>
  BY DEF Leave
<1>3. /\ OneThread' /\ Nesting' /\ stack'["render"] = stack["render"]
      /\ stack'["main"] # <<>> => Last(stack'["main"]).pc = "drain"
  BY <1>1, <1>2, TaskReturn DEF TaskInv
<1>4. \A u \in Threads : Active(u)' <=> Active(u)
  BY <1>2, <1>3 DEF Active
<1>5. LaunchedOnce'
  <2>1. \A u \in Threads : \A b : Launching(u, b)' <=> Launching(u, b)
    BY <1>1, <1>3 DEF Launching, Early, Act
  <2> QED  BY <1>2, <2>1 DEF TaskInv, LaunchedOnce
<1>6. ComingUp'
  <2>1. \A u \in Threads : \A p \in {"start", "resume"} : In(u, p) => In(u, p)' /\ Act(u)' = Act(u)
    BY <1>1, <1>3 DEF In, Act
  <2> QED  BY <1>2, <2>1 DEF TaskInv, ComingUp
<1>7. ~Active("main") /\ Act("render")' = Act("render")  BY <1>3 DEF Active, Act
<1>8. TaskShape'
  BY <1>2, <1>3, <1>4, <1>7 DEF TaskInv, TaskShape, InFront, Leaving, Nobody
<1> QED  BY <1>2, <1>3, <1>5, <1>6, <1>8, TaskStutters DEF TaskStep, TaskInv

\* The activity in front is bound to the renderer, if it has a Canvas.
LEMMA TaskBind ==
  ASSUME NEW t \in Threads, Context(t), Bind(t)
  PROVE  TaskStep
<1>1. Last(stack[t]).pc = "bind" /\ Goto(t, "return")  BY DEF Bind, In
<1>2. InFront /\ current = Act(t) /\ current \in Activities
  BY <1>1 DEF Context, TaskInv, TaskShape
<1>3. /\ Nesting' /\ stack'[t] # <<>> /\ Last(stack'[t]).pc = "return" /\ Act(t)' = Act(t)
      /\ \A u \in Threads \ {t} : /\ stack'[u] = stack[u] /\ ~Active(u)
                                  /\ stack[u] # <<>> => Last(stack[u]).pc = "return"
      /\ rpc' = rpc => OneThread' /\ \A u \in Threads : Active(u)' <=> Active(u)
      /\ Act(t) = First => t = "main" /\ \A i \in DOMAIN stack'[t] : stack'[t][i].pc = "return"
  BY <1>1, TaskGoto DEF Bind, Context, TaskInv, Quiet, Stages
<1>4. LaunchedOnce'
  BY <1>1, <1>3 DEF Bind, Context, TaskInv, LaunchedOnce, Launching, Early
<1>5. ComingUp'
  BY <1>1, <1>3 DEF Bind, Context, TaskInv, ComingUp, In
<1>6. CASE Act(t) \notin app.canvas
  <2>1. rpc' = rpc /\ root' = root  BY <1>6 DEF Bind
  <2>2. TaskShape'
    BY <1>2, <1>3, <2>1 DEF Bind, Context, TaskInv, TaskShape, InFront, Early
  <2> QED  BY <1>3, <1>4, <1>5, <2>1, <2>2, TaskStutters DEF Bind, TaskStep, TaskInv
<1>7. CASE Act(t) \in app.canvas
  <2>1. Act(t) = First /\ t = "main"
    BY <1>3, <1>7 DEF Context, Promised
  <2>2. rpc = "off" /\ rpc' = "events" /\ root' = Act(t)
    BY <1>7, <2>1 DEF Bind, Context, Active
  <2>3. stack'["render"] = <<>>
    BY <1>3, <2>1, <2>2 DEF Context, TaskInv, OneThread
  <2>4. OneThread' /\ \A u \in Threads : ~Active(u)'
    BY <1>3, <2>1, <2>2, <2>3 DEF OneThread, Active
  <2>5. TaskShape'
    BY <1>2, <2>4 DEF Bind, Context, TaskInv, TaskShape, InFront
  <2>6. Task!Show
    <3>1. /\ TaskNow' = TaskNow /\ LifeNow = life /\ LifeNow' = life' /\ ShownNow' = root' /\ life' = life
          /\ TaskNow = History(backStack, current) /\ backStack \in Seq(Activities)
      BY DEF Bind, Context, TaskNow, LifeNow, ShownNow, Promised, TypeOK
    <3>2. TaskNow # <<>> /\ Task!Front = current
      BY <1>2, <3>1, HistoryOf DEF Task!Front, InFront
    <3> QED  BY <1>2, <2>2, <3>1, <3>2 DEF Task!Show, InFront
  <2> QED  BY <1>3, <1>4, <1>5, <2>4, <2>5, <2>6 DEF TaskStep, TaskInv, Task!Next
<1> QED  BY <1>6, <1>7

\* What a thread that dispatches takes: the first message, of an activity that
\* was not launched yet, while nothing else comes up.
LEMMA TakeFacts ==
  ASSUME TypeOK, Types, TaskInv, NEW t \in Threads, Take(t)
  PROVE  /\ queue # <<>> /\ Len(queue) \in Nat \ {0} /\ Head(queue) = queue[1] /\ 1 \in DOMAIN queue
         /\ Head(queue).act \in Activities /\ Head(queue).act \in requested \ {First}
         /\ life[Head(queue).act] = "none" /\ Head(queue).kind \in {"launch", "impl"}
         /\ Tail(queue) \in Seq(Messages)
         /\ \A i \in DOMAIN Tail(queue) :
              /\ Tail(queue)[i] = queue[i + 1] /\ i + 1 \in DOMAIN queue /\ i + 1 # 1
              /\ queue[i + 1].act # Head(queue).act
         /\ DOMAIN Tail(queue) \subseteq Nat
         /\ stack[t] # <<>> => Active(t) /\ Last(stack[t]).pc = "drain"
         /\ stack[t] = <<>> => t = "render" /\ rpc = "dispatch"
         /\ \A u \in Threads \ {t} : Quiet(u)
<1>1. /\ queue # <<>> /\ queue \in Seq(Messages) /\ Dispatching(t)  BY DEF Take, Types
<1>2. /\ Tail(queue) \in Seq(Messages) /\ Len(queue) \in Nat \ {0} /\ Head(queue) = queue[1]
      /\ \A i \in DOMAIN Tail(queue) : Tail(queue)[i] = queue[i + 1] /\ i + 1 \in DOMAIN queue
      /\ DOMAIN Tail(queue) = 1 .. Len(queue) - 1
  BY <1>1, TailOf
<1>3. DOMAIN queue = 1 .. Len(queue)  BY <1>1, LenProperties
<1>4. 1 \in DOMAIN queue /\ \A i \in DOMAIN Tail(queue) : i \in Nat /\ i + 1 # 1
  BY <1>2, <1>3
<1>5. Head(queue).act \in Activities /\ Head(queue).kind \in {"launch", "impl"}
  BY <1>2, <1>4, QueueActs
<1>6. /\ Head(queue).act \in requested \ {First} /\ life[Head(queue).act] = "none"
      /\ \A i \in DOMAIN Tail(queue) : queue[i + 1].act # Head(queue).act
  BY <1>2, <1>4 DEF TaskInv, LaunchedOnce
<1>7. /\ stack[t] # <<>> => Active(t) /\ Last(stack[t]).pc = "drain"
      /\ stack[t] = <<>> => t = "render" /\ rpc = "dispatch"
  BY <1>1, ActiveIn DEF Dispatching, In, TaskInv
<1>8. \A u \in Threads \ {t} : Quiet(u)
  <2>1. CASE stack[t] # <<>>  BY <1>7, <2>1, OneStack DEF TaskInv
  <2>2. CASE stack[t] = <<>>  BY <1>7, <2>2, QuietMain DEF TaskInv
  <2> QED  BY <2>1, <2>2
<1> QED  BY <1>1, <1>2, <1>4, <1>5, <1>6, <1>7, <1>8

\* The message's launch begins.
LEMMA TaskBegin ==
  ASSUME TypeOK, Types, Promised, TaskInv, NEW t \in Threads, Take(t),
         NEW g \in BOOLEAN, queue' = Tail(queue),
         stack' = [stack EXCEPT ![t] = Append(@, Frame(Head(queue).act, g))]
  PROVE  TaskStep
<1> DEFINE a == Head(queue).act
<1>0. UNCHANGED <<app, rpc, current, backStack, life, finished, requested, root>>
  BY DEF Take
<1>1. /\ a \in Activities /\ a \in requested \ {First} /\ life[a] = "none"
      /\ \A i \in DOMAIN queue' : /\ queue'[i] = queue[i + 1] /\ i + 1 \in DOMAIN queue
                                  /\ i \in Nat /\ queue'[i].act # a
      /\ stack[t] # <<>> => Active(t) /\ Last(stack[t]).pc = "drain"
      /\ stack[t] = <<>> => t = "render" /\ rpc = "dispatch"
      /\ \A u \in Threads \ {t} : ~Active(u) /\ (stack[u] # <<>> => Last(stack[u]).pc = "return")
  BY TakeFacts DEF Quiet
<1> HIDE DEF a
<1>2. /\ OneThread' /\ Nesting' /\ Active(t)'
      /\ stack'[t] # <<>> /\ Last(stack'[t]).pc = "load" /\ Act(t)' = a
      /\ \A u \in Threads \ {t} : stack'[u] = stack[u] /\ ~Active(u)'
  <2>1. stack' = [stack EXCEPT ![t] = Append(@, Frame(a, g))]  BY DEF a
  <2>2. \/ Active(t) /\ Last(stack[t]).pc = "drain"
        \/ rpc # "off" /\ t = "render" /\ stack[t] = <<>>
    BY <1>1
  <2> QED  BY ZenonT(60), <1>0, <1>1, <2>1, <2>2, TaskCall DEF TaskInv
<1>3. LaunchedOnce'
  <2>1. \A i, j \in DOMAIN queue' : queue'[i].act = queue'[j].act => i = j
    <3> SUFFICES ASSUME NEW i \in DOMAIN queue', NEW j \in DOMAIN queue', queue'[i].act = queue'[j].act
                 PROVE  i = j
      OBVIOUS
    <3>1. i + 1 = j + 1  BY <1>1 DEF TaskInv, LaunchedOnce
    <3> QED  BY <1>1, <3>1
  <2>2. \A u \in Threads : \A b : Launching(u, b)' => b = a
    BY <1>1, <1>2 DEF Launching, Early
  <2>3. \A i \in DOMAIN queue' : /\ queue'[i].act \in requested' \ {First}
                                 /\ life'[queue'[i].act] = "none"
    BY <1>0, <1>1 DEF TaskInv, LaunchedOnce
  <2>4. First \in requested' /\ \A b \in Activities \ requested' : life'[b] = "none"
    BY <1>0 DEF TaskInv, LaunchedOnce
  <2>5. life'[a] = "none"  BY <1>0, <1>1
  <2> QED  BY <1>1, <2>1, <2>2, <2>3, <2>4, <2>5 DEF LaunchedOnce
<1>4. ComingUp'
  <2>1. \A u \in Threads : ~In(u, "start") /\ ~In(u, "resume")  BY <1>1 DEF In
  <2> QED  BY <1>0, <2>1 DEF TaskInv, ComingUp
<1>5. TaskShape'
  <2>1. Nobody \/ InFront
    <3>1. CASE stack[t] # <<>>  BY <1>1, <3>1 DEF TaskInv, TaskShape
    <3>2. CASE stack[t] = <<>>
      <4>1. \A u \in Threads : ~Active(u)  BY <1>1, <3>2 DEF Active
      <4> QED  BY <4>1 DEF TaskInv, TaskShape
    <3> QED  BY <3>1, <3>2
  <2> QED  BY <1>0, <1>1, <1>2, <2>1 DEF TaskInv, TaskShape, Nobody, InFront
<1> QED  BY <1>0, <1>2, <1>3, <1>4, <1>5, TaskStutters DEF TaskStep, TaskInv

\* A message is taken out of the queue.
LEMMA TaskTake ==
  ASSUME TypeOK, Types, Promised, TaskInv, NEW t \in Threads, Take(t)
  PROVE  TaskStep
<1> DEFINE a == Head(queue).act
<1>1. /\ a \in Activities /\ Head(queue).kind \in {"launch", "impl"}
      /\ Head(queue) = queue[1] /\ 1 \in DOMAIN queue
  BY TakeFacts
<1>2. CASE Head(queue).kind = "impl"
  <2>1. /\ queue' = Tail(queue)
        /\ stack' = [stack EXCEPT ![t] = Append(@, Frame(a, FALSE))]
    BY <1>2 DEF Take
  <2> QED  BY <2>1, TaskBegin
<1>3. CASE Head(queue).kind = "launch" /\ ~sLaunching
  <2>1. /\ queue' = Tail(queue)
        /\ stack' = [stack EXCEPT ![t] = Append(@, Frame(a, TRUE))]
    BY <1>3 DEF Take, LaunchActivity
  <2> QED  BY <2>1, TaskBegin
<1>4. CASE Head(queue).kind = "launch" /\ sLaunching
  <2> DEFINE m == Message("impl", a)
             rest == Tail(queue)
  <2>1. /\ queue' = Append(rest, m) /\ m.act = a /\ m \in Messages
        /\ UNCHANGED <<stack, sLaunching, app, rpc, current, backStack, life, finished, requested, root>>
    BY <1>1, <1>4 DEF Take, LaunchActivity, Message, Messages
  <2>2. /\ rest \in Seq(Messages) /\ DOMAIN rest \subseteq Nat
        /\ \A i \in DOMAIN rest : /\ rest[i] = queue[i + 1] /\ i + 1 \in DOMAIN queue
                                  /\ queue[i + 1].act # a
    BY TakeFacts
  <2>3. a \in requested \ {First} /\ life[a] = "none"  BY TakeFacts
  <2> HIDE DEF m, rest, a
  <2> DEFINE n == Len(rest)
  <2>4. /\ n \in Nat /\ DOMAIN rest = 1 .. n /\ DOMAIN queue' = 1 .. n + 1
        /\ queue'[n + 1] = m /\ \A i \in 1 .. n : queue'[i] = rest[i]
    BY <2>1, <2>2, AppendProperties, LenProperties
  <2> HIDE DEF n
  <2>5. \A i \in DOMAIN queue' : i = n + 1 \/ (i \in DOMAIN rest /\ i # n + 1)
    BY <2>4
  <2>6. LaunchedOnce'
    <3>1. \A i \in DOMAIN queue' : /\ queue'[i].act \in requested \ {First}
                                   /\ life[queue'[i].act] = "none"
                                   /\ \A u \in Threads : ~Launching(u, queue'[i].act)
      <4> SUFFICES ASSUME NEW i \in DOMAIN queue'
                   PROVE  /\ queue'[i].act \in requested \ {First} /\ life[queue'[i].act] = "none"
                          /\ \A u \in Threads : ~Launching(u, queue'[i].act)
        OBVIOUS
      <4>1. CASE i = n + 1
        <5>1. queue'[i].act = a /\ queue[1].act = a  BY <1>1, <2>1, <2>4, <4>1 DEF a
        <5> QED  BY <1>1, <2>3, <5>1 DEF TaskInv, LaunchedOnce
      <4>2. CASE i # n + 1
        <5>1. queue'[i] = queue[i + 1] /\ i + 1 \in DOMAIN queue  BY <2>2, <2>4, <2>5, <4>2
        <5> QED  BY <5>1 DEF TaskInv, LaunchedOnce
      <4> QED  BY <4>1, <4>2
    <3>2. \A i, j \in DOMAIN queue' : queue'[i].act = queue'[j].act => i = j
      <4> SUFFICES ASSUME NEW i \in DOMAIN queue', NEW j \in DOMAIN queue',
                          queue'[i].act = queue'[j].act
                   PROVE  i = j
        OBVIOUS
      <4>1. CASE i = n + 1 \/ j = n + 1
        BY <2>1, <2>2, <2>4, <2>5, <4>1
      <4>2. CASE i # n + 1 /\ j # n + 1
        <5>1. /\ queue'[i] = queue[i + 1] /\ i + 1 \in DOMAIN queue /\ i \in Nat
              /\ queue'[j] = queue[j + 1] /\ j + 1 \in DOMAIN queue /\ j \in Nat
          BY <2>2, <2>4, <2>5, <4>2
        <5>2. i + 1 = j + 1  BY <5>1 DEF TaskInv, LaunchedOnce
        <5> QED  BY <5>1, <5>2
      <4> QED  BY <4>1, <4>2
    <3>3. \A u \in Threads : \A b : Launching(u, b)' <=> Launching(u, b)
      BY <2>1 DEF Launching, Act
    <3> QED  BY <2>1, <3>1, <3>2, <3>3 DEF TaskInv, LaunchedOnce
  <2>7. OneThread' /\ Nesting' /\ ComingUp' /\ TaskShape'
    <3>1. \A u \in Threads : Act(u)' = Act(u) /\ \A p : In(u, p)' <=> In(u, p)
      BY <2>1 DEF Act, In
    <3>2. ComingUp'  BY <2>1, <3>1 DEF TaskInv, ComingUp
    <3>3. TaskShape'  BY <2>1, <3>1 DEF TaskInv, TaskShape, Active, InFront, Leaving, Nobody
    <3>4. OneThread' /\ Nesting'  BY <2>1 DEF TaskInv, OneThread, Nesting
    <3> QED  BY <3>2, <3>3, <3>4
  <2> QED  BY <2>1, <2>6, <2>7, TaskStutters DEF TaskStep, TaskInv
<1> QED  BY <1>1, <1>2, <1>3, <1>4

\* Another thread posts the start of an activity.
LEMMA TaskPosted ==
  ASSUME TypeOK, Types, Promised, TaskInv, NEW a \in Activities, StartPosted(a)
  PROVE  TaskStep
<1> DEFINE m == Message("launch", a)
           n == Len(queue)
<1>1. /\ queue' = Append(queue, m) /\ m.act = a /\ m.kind = "launch" /\ m \in Messages
      /\ a \notin requested /\ requested' = requested \cup {a} /\ queue \in Seq(Messages)
      /\ UNCHANGED <<app, stack, rpc, sLaunching, current, backStack, life, finished, root>>
  BY DEF StartPosted, Message, Messages, Types
<1> HIDE DEF m
<1>2. /\ n \in Nat /\ DOMAIN queue = 1 .. n /\ DOMAIN queue' = 1 .. n + 1
      /\ queue'[n + 1] = m /\ \A i \in 1 .. n : queue'[i] = queue[i]
  BY <1>1, AppendProperties, LenProperties
<1> HIDE DEF n
<1>3. \A i \in DOMAIN queue' : i = n + 1 \/ (i \in DOMAIN queue /\ i # n + 1)
  BY <1>2
<1>4. a # First /\ life[a] = "none" /\ \A u \in Threads : ~Launching(u, a)
  <2>1. life[a] = "none"  BY <1>1 DEF TaskInv, LaunchedOnce
  <2>2. \A u \in Threads : ~Launching(u, a)
    BY <1>1, TopOf DEF TaskInv, Launching
  <2>3. a # First  BY <1>1 DEF TaskInv, LaunchedOnce
  <2> QED  BY <2>1, <2>2, <2>3
<1>5. LaunchedOnce'
  <2>1. \A i \in DOMAIN queue' : /\ queue'[i].act \in requested' \ {First}
                                 /\ life[queue'[i].act] = "none"
                                 /\ \A u \in Threads : ~Launching(u, queue'[i].act)
    BY <1>1, <1>2, <1>3, <1>4 DEF TaskInv, LaunchedOnce
  <2>2. \A i, j \in DOMAIN queue' : queue'[i].act = queue'[j].act => i = j
    BY <1>1, <1>2, <1>3 DEF TaskInv, LaunchedOnce
  <2>3. \A u \in Threads : \A b : Launching(u, b)' <=> Launching(u, b)
    BY <1>1 DEF Launching, Act
  <2> QED  BY <1>1, <2>1, <2>2, <2>3 DEF TaskInv, LaunchedOnce
<1>6. OneThread' /\ Nesting' /\ ComingUp' /\ TaskShape'
  <2>1. \A u \in Threads : Act(u)' = Act(u) /\ \A p : In(u, p)' <=> In(u, p)
    BY <1>1 DEF Act, In
  <2>2. ComingUp'  BY <1>1, <2>1 DEF TaskInv, ComingUp
  <2>3. TaskShape'  BY <1>1, <2>1 DEF TaskInv, TaskShape, Active, InFront, Leaving, Nobody
  <2>4. OneThread' /\ Nesting'  BY <1>1 DEF TaskInv, OneThread, Nesting
  <2> QED  BY <2>2, <2>3, <2>4
<1> QED  BY <1>1, <1>5, <1>6, TaskStutters DEF TaskStep, TaskInv

\* The render thread goes round its loop, or nothing happens.
LEMMA TaskFrame ==
  ASSUME TaskInv, rpc' = "off" <=> rpc = "off",
         UNCHANGED <<app, queue, stack, current, backStack, life, requested, root>>
  PROVE  TaskStep
<1>1. \A u \in Threads : /\ Act(u)' = Act(u) /\ \A p : In(u, p)' <=> In(u, p)
                         /\ \A b : Launching(u, b)' <=> Launching(u, b)
                         /\ Active(u)' <=> Active(u)
  BY DEF Act, In, Launching, Active
<1>2. ComingUp' /\ LaunchedOnce'
  BY <1>1 DEF TaskInv, ComingUp, LaunchedOnce
<1>3. TaskShape'  BY <1>1 DEF TaskInv, TaskShape, InFront, Leaving, Nobody
<1>4. OneThread' /\ Nesting'  BY DEF TaskInv, OneThread, Nesting
<1> QED  BY <1>2, <1>3, <1>4, TaskStutters DEF TaskStep, TaskInv

\* The initial launch, when nothing has been shown yet.
LEMMA TaskInit == Init => PromisedInv /\ Task!Init
<1> SUFFICES ASSUME Init PROVE PromisedInv /\ Task!Init  OBVIOUS
<1> DEFINE f == Frame(First, TRUE)
<1>1. f.act = First /\ f.pc = "load" /\ f.guard = TRUE  BY DEF Frame
<1>2. stack["main"] = <<f>> /\ stack["render"] = <<>>  BY DEF Init
<1> HIDE DEF f
<1>3. /\ stack["main"] # <<>> /\ Len(stack["main"]) = 1 /\ DOMAIN stack["main"] = {1}
      /\ stack["main"][1] = f /\ Last(stack["main"]) = f
  BY <1>2 DEF Last
<1>4. /\ queue = <<>> /\ rpc = "off" /\ current = Nil /\ backStack = <<>> /\ root = Nil
      /\ life = [a \in Activities |-> "none"] /\ requested = {First}
  BY DEF Init
<1>5. OneThread /\ Nesting
  <2>1. OneThread  BY <1>2, <1>4 DEF OneThread
  <2>2. DOMAIN stack["render"] = {}  BY <1>2
  <2>3. \A i \in DOMAIN stack["main"] :
          i = 1 /\ ~(i < Len(stack["main"])) /\ stack["main"][i] = f
    BY <1>3
  <2> QED  BY <1>1, <1>2, <1>3, <1>4, <2>1, <2>2, <2>3 DEF Nesting
<1>6. ComingUp  BY <1>4 DEF ComingUp
<1>7. LaunchedOnce
  BY <1>4 DEF LaunchedOnce
<1>8. TaskShape
  BY <1>1, <1>2, <1>3, <1>4 DEF TaskShape, Active, Nobody, Act, Early
<1>9. Task!Init
  BY <1>4 DEF Task!Init, TaskNow, LifeNow, ShownNow, History
<1> QED  BY <1>5, <1>6, <1>7, <1>8, <1>9 DEF PromisedInv, TaskInv

\* Every step of an application that keeps to the conditions is one of the task.
LEMMA TaskNext ==
  ASSUME TypeOK, Promised, TaskInv, [Next]_vars
  PROVE  TaskStep
<1>0. Types  BY TypesOf
<1> USE DEF Callbacks
<1>1. \A t \in Threads : Active(t) => Context(t)
  <2> SUFFICES ASSUME NEW t \in Threads, Active(t) PROVE Context(t)  OBVIOUS
  <2>1. stack[t] # <<>>  BY DEF Active
  <2> QED  BY <1>0, <2>1, OneStack, TopOf DEF Context, TaskInv
<1>2. \A t \in Threads : \A pc : In(t, pc) /\ pc # "return" => Context(t) /\ Last(stack[t]).pc = pc
  BY <1>0, <1>1, ActiveIn DEF In, TaskInv
<1>3. ASSUME NEW t \in Threads, LaunchStep(t) PROVE TaskStep
  <2>1. CASE Load(t)  BY <1>2, <2>1, TaskLoad DEF Load
  <2>2. CASE LoadFails(t)  BY <1>2, <2>2, TaskLoadFails DEF LoadFails
  <2>3. CASE Push(t)  BY <1>2, <2>3, TaskPush DEF Push
  <2>4. CASE Pause(t)  BY <1>2, <2>4, TaskPause DEF Pause
  <2>5. CASE Stop(t)  BY <1>2, <2>5, TaskStop DEF Stop
  <2>6. CASE NullCurrent(t)
    \* Without finish there is somebody to leave.
    <3>1. Context(t) /\ Last(stack[t]).pc \in {"push", "pause", "stop"} /\ current = Nil
      BY <1>2, <2>6 DEF NullCurrent
    <3> QED  BY <3>1 DEF Context, TaskInv, TaskShape, InFront, Leaving
  <2>7. CASE Create(t)  BY <1>2, <2>7, TaskCreate DEF Create
  <2>8. CASE Start(t)  BY <1>2, <2>8, TaskStart DEF Start
  <2>9. CASE Resume(t)  BY <1>2, <2>9, TaskResume DEF Resume
  <2>10. CASE Throws(t)  BY <2>10 DEF Throws, Promised
  <2>11. CASE Take(t)  BY <1>0, <2>11, TaskTake
  <2>12. CASE Drained(t)  BY <1>2, <2>12, TaskDrained DEF Drained
  <2>13. CASE Bind(t)  BY <1>2, <2>13, TaskBind DEF Bind
  <2>14. CASE Leave(t)
    <3>1. CASE Active(t)  BY <1>1, <2>14, <3>1, TaskOver DEF Leave, In
    <3>2. CASE ~Active(t)
      <4>1. t = "main" /\ rpc # "off"  BY <2>14, <3>2 DEF Leave, In, Active
      <4> QED  BY <1>0, <2>14, <4>1, TaskFirstOver
    <3> QED  BY <3>1, <3>2
  <2> QED  BY <1>3, <2>1, <2>2, <2>3, <2>4, <2>5, <2>6, <2>7, <2>8, <2>9, <2>10, <2>11, <2>12, <2>13, <2>14
        DEF LaunchStep
<1>4. CASE EventsDispatched \/ RenderBegin \/ RenderEnd
  BY <1>4, TaskFrame DEF EventsDispatched, RenderBegin, RenderEnd
<1>5. ASSUME NEW a \in Activities, StartPosted(a) PROVE TaskStep  BY <1>0, <1>5, TaskPosted
<1>6. ASSUME NEW a \in Activities, Finish(a) PROVE TaskStep  BY <1>6 DEF Finish, Promised
<1>7. ASSUME NEW t \in Threads, NEW a \in Activities, StartDirect(t, a) PROVE TaskStep
  BY <1>7 DEF StartDirect, Promised
<1>8. CASE UNCHANGED vars  BY <1>8, TaskFrame DEF vars
<1> QED  BY <1>3, <1>4, <1>5, <1>6, <1>7, <1>8 DEF Next

\* An application stays what it is; one that does not keep to the conditions is
\* mapped to a task that stays empty.
LEMMA PromisedNext ==
  ASSUME TypeOK, PromisedInv, [Next]_vars
  PROVE  PromisedInv' /\ [Task!Next]_(Task!vars)
<1>1. app' = app
  BY DEF Next, LaunchStep, Load, LoadFails, Push, Pause, Stop, NullCurrent, Create, Start, Resume,
         Throws, Take, Drained, Bind, Leave, EventsDispatched, RenderBegin, RenderEnd, StartPosted, StartDirect, Finish, vars
<1>2. Promised' <=> Promised  BY <1>1 DEF Promised
<1>3. CASE Promised  BY <1>3, TaskNext DEF PromisedInv, TaskStep
<1>4. CASE ~Promised
  BY <1>2, <1>4 DEF PromisedInv, Task!vars, TaskNow, LifeNow, ShownNow
<1> QED  BY <1>3, <1>4

\* The nested launches of an application whose first activity alone is drawn on a
\* Canvas, that does not call finish, does not throw and starts no activity while
\* the guard is down, make Android's task: for any number of activities, at any
\* depth, whichever classes do not load, wherever a drain ends, and whether or not
\* the render thread comes to launch before the first launch has lowered the guard.
THEOREM LaunchesImplementTask == Spec => LaunchesMakeATask
<1>1. Init => PromisedInv /\ Task!Init  BY TaskInit
<1>2. TypeOK /\ PromisedInv /\ [Next]_vars => PromisedInv' /\ [Task!Next]_(Task!vars)
  BY PromisedNext
<1> QED  BY <1>1, <1>2, LaunchesGuarded, PTL DEF Spec, LaunchesMakeATask, Task!Spec

-----------------------------------------------------------------------------
(* What follows from the task.                                               *)

\* An activity is up from its creation until it is stopped.
Up == {"created", "started", "resumed", "paused"}
OneIsUp == \A a, b \in Activities : life[a] \in Up /\ life[b] \in Up => a = b

\* In the task: whoever is resumed or paused is in front, and an activity comes
\* alone and only when nobody is.
OneInFront ==
  /\ \A a \in Activities : LifeNow[a] \in {"resumed", "paused"} => TaskNow # <<>> /\ a = Task!Front
  /\ \A a \in Task!Coming, b \in Activities : LifeNow[b] \in Up => a = b

\* The types of what an application's launches are mapped to.
LEMMA TaskTypes ==
  ASSUME TypeOK
  PROVE  TaskNow \in Seq(Activities) /\ LifeNow = [a \in Activities |-> LifeNow[a]]
<1>1. backStack \in Seq(Activities) /\ current \in Activities \cup {Nil}  BY DEF TypeOK
<1>2. History(backStack, current) \in Seq(Activities)  BY <1>1 DEF History
<1>3. life = [a \in Activities |-> life[a]]  BY DEF TypeOK
<1> QED  BY <1>2, <1>3 DEF TaskNow, LifeNow

\* A step of the task leaves one in front.
LEMMA FrontNext ==
  ASSUME TypeOK, OneInFront, [Task!Next]_(Task!vars)
  PROVE  OneInFront'
<1> DEFINE T == TaskNow
           L == LifeNow
<1>0. T \in Seq(Activities) /\ L = [a \in Activities |-> L[a]]
  BY TaskTypes
<1>1. \A a \in Activities : \A from, to : Task!Moves(a, from, to) =>
        L[a] = from /\ \A b \in Activities : L'[b] = IF b = a THEN to ELSE L[b]
  <2> SUFFICES ASSUME NEW a \in Activities, NEW from, NEW to, Task!Moves(a, from, to), NEW b \in Activities
               PROVE  L[a] = from /\ L'[b] = IF b = a THEN to ELSE L[b]
    OBVIOUS
  <2>1. L[a] = from /\ L' = [L EXCEPT ![a] = to]  BY DEF Task!Moves
  <2> QED  BY <1>0, <2>1
<1>2. /\ \A a \in Activities : L[a] \in {"resumed", "paused"} => T # <<>> /\ a = T[Len(T)]
      /\ \A a, b \in Activities : L[a] \in {"created", "started"} /\ L[b] \in Up => a = b
  BY DEF OneInFront, Task!Coming, Task!Front
<1>3. OneInFront' <=>
               /\ \A a \in Activities : L'[a] \in {"resumed", "paused"} => T' # <<>> /\ a = T'[Len(T')]
               /\ \A a, b \in Activities : L'[a] \in {"created", "started"} /\ L'[b] \in Up => a = b
  BY DEF OneInFront, Task!Coming, Task!Front
<1>4. T # <<>> => T[Len(T)] \in Activities  BY <1>0
<1>5. CASE Task!Pause \/ Task!Stop
  <2>1. T' = T /\ T # <<>> /\ (Task!Moves(T[Len(T)], "resumed", "paused") \/ Task!Moves(T[Len(T)], "paused", "stopped"))
    BY <1>5 DEF Task!Pause, Task!Stop, Task!Front
  <2> HIDE DEF T, L
  <2> QED  BY <1>1, <1>2, <1>3, <1>4, <2>1 DEF Up
<1>6. ASSUME NEW a \in Activities, Task!Create(a) PROVE OneInFront'
  <2>1. T' = T /\ Task!Moves(a, "none", "created")  BY <1>6 DEF Task!Create
  <2>2. /\ \A b \in Activities : L[b] \notin {"created", "started"}
        /\ T # <<>> => L[T[Len(T)]] = "stopped"
    BY <1>6 DEF Task!Create, Task!Coming, Task!Front
  <2> HIDE DEF T, L
  <2>3. \A b \in Activities : L[b] \notin Up  BY <1>2, <2>2 DEF Up
  <2> QED  BY <1>1, <1>3, <2>1, <2>3 DEF Up
<1>7. ASSUME NEW a \in Activities, Task!Start(a) PROVE OneInFront'
  <2>1. T' = T /\ Task!Moves(a, "created", "started")  BY <1>7 DEF Task!Start
  <2> HIDE DEF T, L
  <2> QED  BY <1>1, <1>2, <1>3, <2>1 DEF Up
<1>8. ASSUME NEW a \in Activities, Task!Resume(a) PROVE OneInFront'
  <2>1. T' = Append(T, a) /\ Task!Moves(a, "started", "resumed")  BY <1>8 DEF Task!Resume
  <2> HIDE DEF T, L
  <2>2. T' # <<>> /\ T'[Len(T')] = a  BY <1>0, <2>1
  <2> QED  BY <1>1, <1>2, <1>3, <2>1, <2>2 DEF Up
<1>9. CASE Task!Show \/ UNCHANGED Task!vars
  BY <1>2, <1>3, <1>9 DEF Task!Show, Task!vars
<1> QED  BY <1>5, <1>6, <1>7, <1>8, <1>9 DEF Task!Next

\* Who is in front of the task is the current activity.
LEMMA FrontIsCurrent ==
  ASSUME TypeOK, Promised, TaskInv, OneInFront
  PROVE  ResumedIsCurrent /\ OneIsUp
<1>0. stack["main"] # <<>> => Last(stack["main"]).pc \in Stages
  BY TypesOf, TopTypes
<1>1. stack["render"] # <<>> => Last(stack["render"]).pc \in Stages
  BY TypesOf, TopTypes
<1>2. current # Nil \/ Nobody
  BY <1>0, <1>1 DEF TaskInv, TaskShape, Active, InFront, Leaving, Stages, Callbacks
<1>3. TaskNow = History(backStack, current) /\ LifeNow = life  BY DEF TaskNow, LifeNow
<1>4. backStack \in Seq(Activities) /\ current \in Activities \cup {Nil}  BY DEF TypeOK
<1>5. TaskNow # <<>> => Task!Front = current
  <2>1. CASE Nobody  BY <1>3, <2>1 DEF Nobody, History
  <2>2. CASE current # Nil /\ backStack # <<>> /\ Last(backStack) = current
    BY <1>3, <2>2 DEF History, Task!Front, Last
  <2>3. CASE current # Nil /\ ~(backStack # <<>> /\ Last(backStack) = current)
    <3>1. TaskNow = Append(backStack, current)  BY <1>3, <2>3 DEF History
    <3> QED  BY <1>4, <3>1 DEF Task!Front
  <2> QED  BY <1>2, <2>1, <2>2, <2>3
<1>6. \A a \in Activities : life[a] \in {"resumed", "paused"} => a = current
  BY <1>3, <1>5 DEF OneInFront
<1>7. \A a, b \in Activities : life[a] \in {"created", "started"} /\ life[b] \in Up => a = b
  BY <1>3 DEF OneInFront, Task!Coming
<1> QED  BY <1>6, <1>7 DEF ResumedIsCurrent, OneIsUp, Up

\* In such an application no two activities are up at once, whatever launches
\* from whose callbacks, and the one that is resumed is the current one: what
\* fails when two threads dispatch.
THEOREM OneActivityIsUp == Spec => [](Promised => ResumedIsCurrent /\ OneIsUp)
<1>1. Init => OneInFront
  BY DEF Init, OneInFront, LifeNow, Task!Coming
<1>2. TypeOK /\ OneInFront /\ [Task!Next]_(Task!vars) => OneInFront'
  BY FrontNext
<1>3. TypeOK /\ PromisedInv /\ OneInFront => (Promised => ResumedIsCurrent /\ OneIsUp)
  BY FrontIsCurrent DEF PromisedInv
<1>4. Init => PromisedInv  BY TaskInit
<1>5. TypeOK /\ PromisedInv /\ [Next]_vars => PromisedInv' /\ [Task!Next]_(Task!vars)
  BY PromisedNext
<1> QED  BY <1>1, <1>2, <1>3, <1>4, <1>5, LaunchesGuarded, PTL DEF Spec
=============================================================================

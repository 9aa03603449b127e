------------------------------ MODULE NovaTask ------------------------------
(***************************************************************************)
(* What launching activities promises an application: Android's task, a      *)
(* stack of activities of which the last is in front.  One activity comes at  *)
(* a time; the one in front is paused and stopped before it, and it joins the  *)
(* task when it is resumed.                                                  *)
(***************************************************************************)
EXTENDS Sequences

CONSTANTS Activities, Nil

VARIABLES
  task,  \* the activities in the order they came
  life,  \* the last lifecycle callback of each
  shown  \* whose views are drawn

vars == <<task, life, shown>>

Init == task = <<>> /\ life = [a \in Activities |-> "none"] /\ shown = Nil

Front == task[Len(task)]
Moves(a, from, to) == life[a] = from /\ life' = [life EXCEPT ![a] = to]
Coming == {a \in Activities : life[a] \in {"created", "started"}}

\* The activity in front leaves ...
Pause == task # <<>> /\ Moves(Front, "resumed", "paused") /\ UNCHANGED <<task, shown>>
Stop == task # <<>> /\ Moves(Front, "paused", "stopped") /\ UNCHANGED <<task, shown>>

\* ... and then another comes.
Create(a) ==
  /\ Coming = {} /\ (task # <<>> => life[Front] = "stopped")
  /\ Moves(a, "none", "created") /\ UNCHANGED <<task, shown>>
Start(a) == Moves(a, "created", "started") /\ UNCHANGED <<task, shown>>
Resume(a) == Moves(a, "started", "resumed") /\ task' = Append(task, a) /\ UNCHANGED shown

\* The renderer shows the activity in front, while it is resumed.
Show == task # <<>> /\ life[Front] = "resumed" /\ shown' = Front /\ UNCHANGED <<task, life>>

Next == Pause \/ Stop \/ Show \/ \E a \in Activities : Create(a) \/ Start(a) \/ Resume(a)

Spec == Init /\ [][Next]_vars
=============================================================================

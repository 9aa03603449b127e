--------------------------- MODULE NovaTimedQueue ---------------------------
(***************************************************************************)
(* What the main looper promises those that post to it: messages are handed *)
(* to a dispatcher in the order they were posted, each once and as it was     *)
(* posted, none before its time (Spec), and the next one whose time has come  *)
(* is handed over or removed (HeadIsHanded).  After a quit posts are dropped. *)
(***************************************************************************)
EXTENDS Naturals, Sequences, FiniteSets

CONSTANT Times  \* times a message may be posted for

VARIABLES
  now,      \* the clock
  posts,    \* how many messages were ever posted
  pending,  \* those that wait: number and time
  running,  \* numbers of those that dispatchers have in hand
  closed    \* quit was called

vars == <<now, posts, pending, running, closed>>

Init == now = 0 /\ posts = 0 /\ pending = <<>> /\ running = {} /\ closed = FALSE

Post(due) ==
  /\ posts' = posts + 1
  /\ pending' = IF closed THEN pending ELSE Append(pending, [id |-> posts', due |-> due])
  /\ UNCHANGED <<now, running, closed>>

\* The numbers in S, ascending.
InOrder(S) ==
  {f \in [1..Cardinality(S) -> S] :
     {f[k] : k \in DOMAIN f} = S /\ \A j, k \in DOMAIN f : j < k => f[j] < f[k]}

\* Any of the messages that wait are withdrawn.
Remove ==
  /\ \E kept \in SUBSET DOMAIN pending : \E place \in InOrder(kept) :
       pending' = [k \in DOMAIN place |-> pending[place[k]]]
  /\ UNCHANGED <<now, posts, running, closed>>

Hand ==
  /\ pending # <<>> /\ Head(pending).due <= now
  /\ pending' = Tail(pending) /\ running' = running \cup {Head(pending).id}
  /\ UNCHANGED <<now, posts, closed>>

Done == \E m \in running : running' = running \ {m} /\ UNCHANGED <<now, posts, pending, closed>>

Close == closed' = TRUE /\ UNCHANGED <<now, posts, pending, running>>
Tick == now' = now + 1 /\ UNCHANGED <<posts, pending, running, closed>>

Next == (\E due \in Times : Post(due)) \/ Remove \/ Hand \/ Done \/ Close \/ Tick

Spec == Init /\ [][Next]_vars
HeadIsHanded == WF_vars(Hand)
=============================================================================

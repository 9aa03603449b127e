-------------------------- MODULE NovaLooperProofs --------------------------
(***************************************************************************)
(* Proofs about NovaLooper, for any threads that post, any callbacks, delays *)
(* and sizes of pool and drain: message objects have one owner, the looper   *)
(* lent to a dispatcher is given back, and the queue is NovaTimedQueue.      *)
(***************************************************************************)
EXTENDS NovaLooper, SequenceTheorems, FiniteSetTheorems, TLAPS

\* Messages that wait or are in hand; the others are in the pool or garbage.
InUse == Range(queue) \cup Held

\* Their objects carry what was posted, each another post.
Carried ==
  \A m \in InUse : msgs[m].post \in DOMAIN due /\ due[msgs[m].post] = msgs[m].when
CarriedOnce == \A m, n \in InUse : msgs[m].post = msgs[n].post => m = n

\* What a nested drain gives back is the main looper; so is what a drain of the
\* main thread gives back.
Lent ==
  \A t \in Dispatchers : \A i \in DOMAIN calls[t] : calls[t][i].prev = (t = Main \/ i > 1)

\* The type of the looper's state, and of what the frame loop adds.
LooperTypes ==
  /\ now \in 0..MaxTime /\ msgs \in Seq(Messages) /\ due \in Seq(0..MaxTime)
  /\ pool \in Seq(DOMAIN msgs) /\ Len(pool) <= MaxPool
  /\ queue \in Seq(DOMAIN msgs) /\ quitting \in BOOLEAN
  /\ calls \in [Dispatchers -> Seq(Frames)] /\ \A t \in Dispatchers : Depth(t) <= MaxDepth
  /\ local \in [Dispatchers -> BOOLEAN]
FrameTypes ==
  /\ rpc \in {"events", "dispatch", "draw", "notify", "run", "callback"}
  /\ lists \in [Lists -> Seq(Tasks)] /\ phase \in Lists
  /\ snapshot \in Seq(Tasks) /\ owed \subseteq Tasks

\* OwnedOnce by parts: no object is in two hands, and none in hand is elsewhere.
HeldOnce ==
  \A t, u \in Dispatchers : \A i \in DOMAIN calls[t], j \in DOMAIN calls[u] :
    calls[t][i].msg # NoMessage /\ calls[t][i].msg = calls[u][j].msg => t = u /\ i = j
Placed ==
  /\ Distinct(queue) /\ Distinct(pool) /\ Range(queue) \cap Range(pool) = {}
  /\ Held \cap (Range(queue) \cup Range(pool)) = {} /\ HeldOnce

\* A message is only taken while there is one left to take.
Limited ==
  \A t \in Dispatchers : \A i \in DOMAIN calls[t] : calls[t][i].msg # NoMessage => calls[t][i].left > 0

LooperInv ==
  LooperTypes /\ Placed /\ LooperRestored /\ Lent /\ Limited /\ Carried /\ CarriedOnce

-----------------------------------------------------------------------------
(* Sequences.                                                               *)

LEMMA TailOf ==
  ASSUME NEW S, NEW s \in Seq(S), s # <<>>
  PROVE  /\ Len(s) \in Nat \ {0} /\ Head(s) = s[1] /\ Head(s) \in S
         /\ Tail(s) \in Seq(S) /\ Len(Tail(s)) = Len(s) - 1
         /\ \A i \in 1..(Len(s) - 1) : i + 1 \in 1..Len(s) /\ Tail(s)[i] = s[i + 1]
         /\ \A x \in Range(s) : x = Head(s) \/ x \in Range(Tail(s))
         /\ Range(Tail(s)) \subseteq Range(s) /\ Head(s) \in Range(s)
<1>1. /\ Len(s) \in Nat \ {0} /\ Head(s) = s[1] /\ Head(s) \in S
      /\ Tail(s) \in Seq(S) /\ Len(Tail(s)) = Len(s) - 1
      /\ \A i \in 1..(Len(s) - 1) : i + 1 \in 1..Len(s) /\ Tail(s)[i] = s[i + 1]
  BY HeadTailProperties
<1>2. DOMAIN s = 1..Len(s) /\ DOMAIN Tail(s) = 1..(Len(s) - 1)  BY <1>1, LenProperties
<1>3. ASSUME NEW i \in 1..Len(s), i # 1 PROVE i - 1 \in DOMAIN Tail(s) /\ Tail(s)[i - 1] = s[i]
  <2>1. i - 1 \in 1..(Len(s) - 1) /\ (i - 1) + 1 = i  BY <1>1, <1>3
  <2> QED  BY <1>1, <1>2, <2>1
<1>4. ASSUME NEW x \in Range(s), x # Head(s) PROVE x \in Range(Tail(s))
  <2>1. PICK i \in DOMAIN s : x = s[i]  BY <1>4 DEF Range
  <2>2. i \in 1..Len(s) /\ i # 1  BY <1>1, <1>2, <1>4, <2>1
  <2> QED  BY <1>3, <2>1, <2>2 DEF Range
<1>5. Range(Tail(s)) \subseteq Range(s)
  BY <1>1, <1>2 DEF Range
<1>6. Head(s) \in Range(s)  BY <1>1, <1>2 DEF Range
<1> QED  BY <1>1, <1>4, <1>5, <1>6

LEMMA TailDistinct ==
  ASSUME NEW S, NEW s \in Seq(S), s # <<>>, Distinct(s)
  PROVE  Distinct(Tail(s)) /\ Head(s) \notin Range(Tail(s))
<1>1. DOMAIN s = 1..Len(s) /\ DOMAIN Tail(s) = 1..(Len(s) - 1) /\ Len(s) \in Nat \ {0}
  BY TailOf, LenProperties
<1>2. \A i \in DOMAIN Tail(s) : i + 1 \in DOMAIN s /\ i + 1 # 1 /\ Tail(s)[i] = s[i + 1]
  BY <1>1, TailOf
<1>3. 1 \in DOMAIN s /\ Head(s) = s[1]  BY <1>1, TailOf
<1>4. ASSUME NEW i \in DOMAIN Tail(s), NEW j \in DOMAIN Tail(s), Tail(s)[i] = Tail(s)[j] PROVE i = j
  <2>1. i + 1 = j + 1  BY <1>2, <1>4 DEF Distinct
  <2> QED  BY <2>1, <1>1
<1>5. Head(s) \notin Range(Tail(s))  BY <1>2, <1>3 DEF Distinct, Range
<1> QED  BY <1>4, <1>5 DEF Distinct

LEMMA AsFunction ==
  ASSUME NEW S, NEW s \in Seq(S)
  PROVE  s = [i \in DOMAIN s |-> s[i]]
BY LenProperties

LEMMA AppendOf ==
  ASSUME NEW S, NEW s \in Seq(S), NEW x
  PROVE  /\ Len(Append(s, x)) = Len(s) + 1 /\ DOMAIN Append(s, x) = 1..(Len(s) + 1) /\ Len(s) \in Nat
         /\ DOMAIN s = 1..Len(s)
         /\ \A i \in DOMAIN s : Append(s, x)[i] = s[i]
         /\ Append(s, x)[Len(s) + 1] = x /\ Range(Append(s, x)) = Range(s) \cup {x}
<1>1. s \in Seq(S \cup {x}) /\ x \in S \cup {x}  BY SeqMonotonic
<1>2. /\ Append(s, x) \in Seq(S \cup {x}) /\ Len(Append(s, x)) = Len(s) + 1 /\ Len(s) \in Nat
      /\ \A i \in 1..Len(s) : Append(s, x)[i] = s[i]
      /\ Append(s, x)[Len(s) + 1] = x
  BY <1>1, AppendProperties, LenProperties
<1>3. DOMAIN Append(s, x) = 1..(Len(s) + 1) /\ DOMAIN s = 1..Len(s)  BY <1>2, LenProperties
<1>4. Range(Append(s, x)) = Range(s) \cup {x}
  BY <1>2, <1>3 DEF Range
<1> QED  BY <1>2, <1>3, <1>4

LEMMA AppendDistinct ==
  ASSUME NEW S, NEW s \in Seq(S), NEW x, x \notin Range(s), Distinct(s)
  PROVE  Distinct(Append(s, x))
BY AppendOf DEF Distinct, Range

LEMMA PushOf ==
  ASSUME NEW S, NEW s \in Seq(S), NEW x \in S
  PROVE  /\ <<x>> \o s \in Seq(S) /\ Len(<<x>> \o s) = Len(s) + 1
         /\ Range(<<x>> \o s) = Range(s) \cup {x}
         /\ Distinct(s) /\ x \notin Range(s) => Distinct(<<x>> \o s)
<1>0. <<x>> \in Seq(S) /\ Len(<<x>>) = 1 /\ <<x>>[1] = x  OBVIOUS
<1>1. /\ <<x>> \o s \in Seq(S) /\ Len(<<x>> \o s) = 1 + Len(s) /\ Len(s) \in Nat
      /\ \A i \in 1..(1 + Len(s)) : (<<x>> \o s)[i] = IF i <= 1 THEN <<x>>[i] ELSE s[i - 1]
  BY <1>0, ConcatProperties, LenProperties
<1>2. DOMAIN (<<x>> \o s) = 1..(1 + Len(s)) /\ DOMAIN s = 1..Len(s)  BY <1>1, LenProperties
<1>3. 1 \in DOMAIN (<<x>> \o s) /\ (<<x>> \o s)[1] = x  BY <1>0, <1>1, <1>2
<1>4. \A i \in DOMAIN (<<x>> \o s) : i # 1 => i - 1 \in DOMAIN s /\ (<<x>> \o s)[i] = s[i - 1]
  BY <1>1, <1>2
<1>5. \A i \in DOMAIN s : i + 1 \in DOMAIN (<<x>> \o s) /\ (<<x>> \o s)[i + 1] = s[i]
  <2> TAKE i \in DOMAIN s
  <2> DEFINE j == i + 1
  <2>1. j \in DOMAIN (<<x>> \o s) /\ j # 1 /\ j - 1 = i  BY <1>1, <1>2
  <2>2. (<<x>> \o s)[j] = s[j - 1]  BY <1>4, <2>1
  <2> QED  BY <2>1, <2>2
<1>6. Range(<<x>> \o s) = Range(s) \cup {x}
  <2>1. \A i \in DOMAIN (<<x>> \o s) : (<<x>> \o s)[i] \in Range(s) \cup {x}  BY <1>3, <1>4 DEF Range
  <2>2. \A i \in DOMAIN s : s[i] \in Range(<<x>> \o s)  BY <1>5 DEF Range
  <2>3. x \in Range(<<x>> \o s)  BY <1>3 DEF Range
  <2> QED  BY <2>1, <2>2, <2>3 DEF Range
<1>7. ASSUME Distinct(s), x \notin Range(s), NEW i \in DOMAIN (<<x>> \o s), NEW j \in DOMAIN (<<x>> \o s),
             (<<x>> \o s)[i] = (<<x>> \o s)[j]
      PROVE  i = j
  <2>1. CASE i = 1 \/ j = 1  BY <1>3, <1>4, <1>7, <2>1 DEF Range
  <2>2. CASE i # 1 /\ j # 1
    <3>1. i - 1 = j - 1  BY <1>4, <1>7, <2>2 DEF Distinct
    <3> QED  BY <3>1, <1>2, <1>1
  <2> QED  BY <2>1, <2>2
<1>8. Distinct(s) /\ x \notin Range(s) => Distinct(<<x>> \o s)  BY <1>7 DEF Distinct
<1> QED  BY <1>1, <1>6, <1>8

-----------------------------------------------------------------------------
(* What is in hand.                                                         *)

LEMMA Objects ==
  ASSUME LooperTypes
  PROVE  /\ Len(msgs) \in Nat /\ DOMAIN msgs = 1..Len(msgs) /\ NoMessage \notin DOMAIN msgs
         /\ Len(due) \in Nat /\ DOMAIN due = 1..Len(due)
         /\ Range(queue) \subseteq DOMAIN msgs /\ Range(pool) \subseteq DOMAIN msgs
         /\ DOMAIN queue = 1..Len(queue) /\ Len(queue) \in Nat
         /\ \A t \in Dispatchers : /\ calls[t] \in Seq(Frames) /\ Len(calls[t]) \in Nat
                                   /\ DOMAIN calls[t] = 1..Len(calls[t])
                                   /\ \A i \in DOMAIN calls[t] : calls[t][i] \in Frames
<1>1. /\ Len(msgs) \in Nat /\ DOMAIN msgs = 1..Len(msgs)
      /\ Len(due) \in Nat /\ DOMAIN due = 1..Len(due)
      /\ DOMAIN queue = 1..Len(queue) /\ Len(queue) \in Nat
  BY LenProperties DEF LooperTypes
<1>2. Range(queue) \subseteq DOMAIN msgs /\ Range(pool) \subseteq DOMAIN msgs
  <2>1. \A i \in DOMAIN queue : queue[i] \in DOMAIN msgs  BY ElementOfSeq, LenProperties DEF LooperTypes
  <2>2. \A i \in DOMAIN pool : pool[i] \in DOMAIN msgs  BY ElementOfSeq, LenProperties DEF LooperTypes
  <2> QED  BY <2>1, <2>2 DEF Range
<1>3. ASSUME NEW t \in Dispatchers
      PROVE  /\ calls[t] \in Seq(Frames) /\ Len(calls[t]) \in Nat
             /\ DOMAIN calls[t] = 1..Len(calls[t])
             /\ \A i \in DOMAIN calls[t] : calls[t][i] \in Frames
  <2>1. calls[t] \in Seq(Frames)  BY DEF LooperTypes
  <2> QED  BY <2>1, LenProperties, ElementOfSeq
<1> QED  BY <1>1, <1>2, <1>3 DEF NoMessage

\* A message is in hand where a call says so.
LEMMA HeldWhere ==
  ASSUME LooperTypes
  PROVE  /\ \A t \in Dispatchers : \A i \in DOMAIN calls[t] :
              calls[t][i].msg # NoMessage => calls[t][i].msg \in Held
         /\ NoMessage \notin Held /\ Held \subseteq DOMAIN msgs
<1>1. \A t \in Dispatchers : \A i \in DOMAIN calls[t] : calls[t][i].msg \in {NoMessage} \cup DOMAIN msgs
  BY Objects DEF Frames
<1> QED  BY <1>1, Objects DEF Held

LEMMA OwnedParts == LooperTypes => (OwnedOnce <=> Placed)
<1> SUFFICES ASSUME LooperTypes PROVE OwnedOnce <=> Placed  OBVIOUS
<1>1. ASSUME OwnedOnce PROVE Placed
  <2>1. HeldOnce  BY <1>1 DEF OwnedOnce, HeldOnce
  <2>2. \A m \in Held : m \notin Range(queue) \cup Range(pool)
    BY <1>1, Objects DEF OwnedOnce, Held
  <2> QED  BY <1>1, <2>1, <2>2 DEF OwnedOnce, Placed
<1>2. ASSUME Placed PROVE OwnedOnce
  <2>1. ASSUME NEW t \in Dispatchers, NEW i \in DOMAIN calls[t], calls[t][i].msg # NoMessage
        PROVE  /\ calls[t][i].msg \notin Range(queue) \cup Range(pool)
               /\ \A u \in Dispatchers : \A j \in DOMAIN calls[u] :
                    calls[t][i].msg = calls[u][j].msg => t = u /\ i = j
    BY <1>2, <2>1, HeldWhere DEF Placed, HeldOnce
  <2> QED  BY <1>2, <2>1 DEF OwnedOnce, Placed
<1> QED  BY <1>1, <1>2

\* The innermost call of a thread.
LEMMA TopCall ==
  ASSUME LooperTypes, NEW t \in Dispatchers, Depth(t) > 0
  PROVE  /\ Depth(t) = Len(calls[t]) /\ Depth(t) \in DOMAIN calls[t] /\ Depth(t) \in Nat \ {0}
         /\ Call(t) = calls[t][Depth(t)] /\ Call(t) \in Frames /\ calls[t] # <<>>
BY Objects DEF Depth, Call

\* Take and recycleUnchecked change the innermost call only.
LEMMA CallSet ==
  ASSUME LooperTypes, NEW t \in Dispatchers, Depth(t) > 0, NEW f \in Frames', msgs' \in Seq(Messages'), Len(msgs') = Len(msgs),
         calls' = [calls EXCEPT ![t] = [calls[t] EXCEPT ![Depth(t)] = f]]
  PROVE  /\ calls' \in [Dispatchers -> Seq(Frames')]
         /\ \A u \in Dispatchers : Depth(u)' = Depth(u) /\ DOMAIN calls'[u] = DOMAIN calls[u]
         /\ \A u \in Dispatchers : \A i \in DOMAIN calls[u] :
              calls'[u][i] = IF u = t /\ i = Depth(t) THEN f ELSE calls[u][i]
<1>1. DOMAIN msgs' = DOMAIN msgs  BY Objects, LenProperties
<1>2. Frames' = Frames  BY <1>1 DEF Frames
<1>3. [calls[t] EXCEPT ![Depth(t)] = f] \in Seq(Frames)
  BY <1>2, Objects, TopCall, ExceptSeq
<1>4. calls' \in [Dispatchers -> Seq(Frames)] /\ calls \in [Dispatchers -> Seq(Frames)]
  BY <1>3 DEF LooperTypes
<1>5. \A u \in Dispatchers : calls'[u] = IF u = t THEN [calls[t] EXCEPT ![Depth(t)] = f] ELSE calls[u]
  BY <1>4
<1>6. Len([calls[t] EXCEPT ![Depth(t)] = f]) = Len(calls[t])
      /\ DOMAIN [calls[t] EXCEPT ![Depth(t)] = f] = DOMAIN calls[t]
  BY Objects, TopCall, ExceptSeq, <1>2
<1> QED  BY <1>2, <1>4, <1>5, <1>6, TopCall DEF Depth

-----------------------------------------------------------------------------
(* Steps of the queue.                                                      *)

\* Message.obtain gives an object that nobody uses, from the pool or a new one.
LEMMA ObtainedFacts ==
  ASSUME LooperInv
  PROVE  /\ Obtained \notin InUse /\ Obtained # NoMessage
         /\ Obtained \in DOMAIN msgs \/ (pool = <<>> /\ Obtained = Len(msgs) + 1)
         /\ pool # <<>> => Obtained \in DOMAIN msgs
         /\ PoolAfterObtain \in Seq(DOMAIN msgs) /\ Len(PoolAfterObtain) <= MaxPool
         /\ Distinct(PoolAfterObtain) /\ Range(PoolAfterObtain) \subseteq Range(pool) \ {Obtained}
<1>1. LooperTypes /\ Placed /\ pool \in Seq(DOMAIN msgs) /\ MaxPool \in Nat /\ Len(pool) <= MaxPool
  BY LooperAssumption DEF LooperInv, LooperTypes
<1>2. InUse \subseteq DOMAIN msgs  BY <1>1, Objects, HeldWhere DEF InUse
<1>3. CASE pool = <<>>
  <2>1. Obtained = Len(msgs) + 1 /\ PoolAfterObtain = <<>>  BY <1>3 DEF Obtained, PoolAfterObtain
  <2>2. Len(msgs) + 1 \notin DOMAIN msgs /\ Len(msgs) + 1 # NoMessage  BY <1>1, Objects DEF NoMessage
  <2>3. Range(PoolAfterObtain) = {}  BY <2>1 DEF Range
  <2> QED  BY <1>1, <1>2, <1>3, <2>1, <2>2, <2>3 DEF Distinct
<1>4. CASE pool # <<>>
  <2>1. Obtained = Head(pool) /\ PoolAfterObtain = Tail(pool)  BY <1>4 DEF Obtained, PoolAfterObtain
  <2>2. /\ Head(pool) \in DOMAIN msgs /\ Head(pool) \in Range(pool) /\ Range(Tail(pool)) \subseteq Range(pool)
        /\ Tail(pool) \in Seq(DOMAIN msgs) /\ Len(Tail(pool)) = Len(pool) - 1 /\ Len(pool) \in Nat
    BY <1>1, <1>4, TailOf
  <2>3. Distinct(Tail(pool)) /\ Head(pool) \notin Range(Tail(pool))
    BY <1>1, <1>4, TailDistinct DEF Placed
  <2>4. Head(pool) \notin InUse  BY <1>1, <2>2 DEF Placed, InUse
  <2>5. Head(pool) # NoMessage  BY <1>1, <2>2, Objects
  <2> QED  BY <1>1, <2>1, <2>2, <2>3, <2>4, <2>5
<1> QED  BY <1>3, <1>4

LEMMA PostFacts ==
  ASSUME LooperInv, NEW t \in Threads, NEW c \in Callbacks, NEW when \in 0..MaxTime, Post(t, c, when)
  PROVE  /\ due' \in Seq(0..MaxTime) /\ DOMAIN due' = 1..(Len(due) + 1) /\ Len(due') = Len(due) + 1
         /\ due'[Len(due) + 1] = when /\ \A p \in DOMAIN due : due'[p] = due[p]
         /\ msgs' \in Seq(Messages') /\ DOMAIN msgs' = DOMAIN msgs \cup {Obtained}
         /\ msgs'[Obtained] = [callback |-> c, when |-> when, post |-> Len(due) + 1]
         /\ \A i \in DOMAIN msgs : i # Obtained => msgs'[i] = msgs[i]
<1>0. LooperTypes  BY DEF LooperInv
<1>1. due' = Append(due, when)  BY DEF Post
<1>2. /\ due' \in Seq(0..MaxTime) /\ DOMAIN due' = 1..(Len(due) + 1) /\ Len(due') = Len(due) + 1
      /\ due'[Len(due) + 1] = when /\ \A p \in DOMAIN due : due'[p] = due[p]
  <2>1. due \in Seq(0..MaxTime)  BY <1>0 DEF LooperTypes
  <2>2. due' \in Seq(0..MaxTime)  BY <1>1, <2>1, AppendProperties
  <2> QED  BY <1>1, <2>1, <2>2, AppendOf
<1> DEFINE content == [callback |-> c, when |-> when, post |-> Len(due) + 1]
<1>3. Messages \subseteq Messages' /\ content \in Messages'
  <2>1. Len(due) \in Nat  BY <1>0, Objects
  <2> QED  BY <1>2, <2>1 DEF Messages
<1>4. msgs \in Seq(Messages')  BY <1>0, <1>3, SeqMonotonic DEF LooperTypes
<1>5. msgs' = IF pool = <<>> THEN Append(msgs, content) ELSE [msgs EXCEPT ![Obtained] = content]
  BY DEF Post
<1> HIDE DEF content
<1>6. CASE pool = <<>>
  <2>1. Obtained = Len(msgs) + 1 /\ msgs' = Append(msgs, content)  BY <1>5, <1>6 DEF Obtained
  <2>2. msgs' \in Seq(Messages')  BY <1>3, <1>4, <2>1, AppendProperties
  <2>3. /\ DOMAIN msgs' = 1..(Len(msgs) + 1) /\ Len(msgs) \in Nat /\ DOMAIN msgs = 1..Len(msgs)
        /\ \A i \in DOMAIN msgs : msgs'[i] = msgs[i]
        /\ msgs'[Len(msgs) + 1] = content
    BY <1>4, <2>1, AppendOf
  <2> QED  BY <1>2, <2>1, <2>2, <2>3 DEF content
<1>7. CASE pool # <<>>
  <2>1. msgs' = [msgs EXCEPT ![Obtained] = content] /\ Obtained \in DOMAIN msgs  BY <1>5, <1>7, ObtainedFacts
  <2>2. Obtained \in 1..Len(msgs)  BY <1>0, <2>1, Objects
  <2>3. msgs' \in Seq(Messages')  BY <1>3, <1>4, <2>1, <2>2, ExceptSeq
  <2> QED  BY <1>2, <2>1, <2>3 DEF content
<1> QED  BY <1>6, <1>7

LEMMA PostKeeps ==
  ASSUME LooperInv, NEW t \in Threads, NEW c \in Callbacks, NEW when \in 0..MaxTime, Post(t, c, when)
  PROVE  LooperInv'
<1>0. LooperTypes /\ Placed  BY DEF LooperInv
<1> DEFINE m == Obtained
<1>1. /\ m \notin InUse /\ m # NoMessage /\ PoolAfterObtain \in Seq(DOMAIN msgs) /\ Len(PoolAfterObtain) <= MaxPool
      /\ Distinct(PoolAfterObtain) /\ Range(PoolAfterObtain) \subseteq Range(pool) \ {m}
  BY ObtainedFacts
<1>2. /\ due' \in Seq(0..MaxTime) /\ DOMAIN due' = 1..(Len(due) + 1) /\ Len(due') = Len(due) + 1
      /\ due'[Len(due) + 1] = when /\ \A p \in DOMAIN due : due'[p] = due[p]
      /\ msgs' \in Seq(Messages') /\ DOMAIN msgs' = DOMAIN msgs \cup {m}
      /\ msgs'[m] = [callback |-> c, when |-> when, post |-> Len(due) + 1]
      /\ \A i \in DOMAIN msgs : i # m => msgs'[i] = msgs[i]
  BY PostFacts
<1>3. /\ pool' = PoolAfterObtain
      /\ \/ quitting /\ queue' = queue
         \/ ~quitting /\ queue' = Append(queue, m)
      /\ now' = now /\ quitting' = quitting /\ calls' = calls /\ local' = local
  BY DEF Post, Enqueue
<1> HIDE DEF m
<1>4. /\ queue' \in Seq(DOMAIN msgs') /\ Distinct(queue')
      /\ Range(queue') \subseteq Range(queue) \cup {m} /\ Range(queue) \subseteq Range(queue')
  <2>1. queue \in Seq(DOMAIN msgs') /\ m \in DOMAIN msgs' /\ Distinct(queue) /\ m \notin Range(queue)
    <3>1. queue \in Seq(DOMAIN msgs)  BY <1>0 DEF LooperTypes
    <3> QED  BY <1>0, <1>1, <1>2, <3>1, SeqMonotonic DEF Placed, InUse
  <2>2. CASE quitting /\ queue' = queue  BY <2>1, <2>2
  <2>3. CASE queue' = Append(queue, m)
    BY <2>1, <2>3, AppendOf, AppendDistinct, AppendProperties
  <2> QED  BY <1>3, <2>2, <2>3
<1>5. Held' = Held
  <2>1. \A u \in Dispatchers : \A i \in DOMAIN calls[u] : calls[u][i].msg \in {NoMessage} \cup DOMAIN msgs
    BY <1>0, Objects DEF Frames
  <2> QED  BY <1>1, <1>2, <1>3, <2>1 DEF Held
<1>6. LooperTypes'
  <2>1. pool' \in Seq(DOMAIN msgs') /\ Len(pool') <= MaxPool  BY <1>1, <1>2, <1>3, SeqMonotonic
  <2>2. Frames \subseteq Frames'  BY <1>2 DEF Frames
  <2>3. calls' \in [Dispatchers -> Seq(Frames')]
    <3>1. \A u \in Dispatchers : calls[u] \in Seq(Frames')  BY <1>0, <2>2, SeqMonotonic DEF LooperTypes
    <3> QED  BY <1>0, <1>3, <3>1 DEF LooperTypes
  <2> QED  BY <1>0, <1>2, <1>3, <1>4, <2>1, <2>3 DEF LooperTypes, Depth
<1>7. Placed'
  <2>1. HeldOnce'  BY <1>0, <1>3 DEF Placed, HeldOnce
  <2>2. Held' \cap (Range(queue') \cup Range(pool')) = {} /\ Range(queue') \cap Range(pool') = {}
    BY <1>0, <1>1, <1>3, <1>4, <1>5 DEF Placed, InUse
  <2> QED  BY <1>1, <1>3, <1>4, <2>1, <2>2 DEF Placed
<1>8. InUse' \subseteq InUse \cup {m} /\ InUse \subseteq DOMAIN msgs
  BY <1>0, <1>4, <1>5, Objects, HeldWhere DEF InUse
<1>9. \A n \in InUse : n # m /\ msgs'[n] = msgs[n] /\ msgs[n].post \in 1..Len(due) /\ due[msgs[n].post] = msgs[n].when
  BY <1>0, <1>1, <1>2, <1>8, Objects DEF LooperInv, Carried
<1>10. Carried'
  <2>1. ASSUME NEW n \in InUse' PROVE msgs'[n].post \in DOMAIN due' /\ due'[msgs'[n].post] = msgs'[n].when
    <3>1. CASE n = m  BY <1>0, <1>2, <3>1, Objects
    <3>2. CASE n \in InUse  BY <1>0, <1>2, <1>9, <3>2, Objects
    <3> QED  BY <1>8, <3>1, <3>2
  <2> QED  BY <2>1 DEF Carried
<1>11. CarriedOnce'
  <2>1. Len(due) \in Nat  BY <1>0, Objects
  <2>2. ASSUME NEW k \in InUse', NEW n \in InUse', msgs'[k].post = msgs'[n].post PROVE k = n
    <3>1. CASE k \in InUse /\ n \in InUse  BY <1>9, <2>2, <3>1 DEF LooperInv, CarriedOnce
    <3>2. CASE k = m \/ n = m  BY <1>2, <1>8, <1>9, <2>1, <2>2, <3>2
    <3> QED  BY <1>8, <3>1, <3>2
  <2> QED  BY <2>2 DEF CarriedOnce
<1>12. LooperRestored' /\ Lent' /\ Limited'  BY <1>3 DEF LooperInv, LooperRestored, Lent, Limited
<1> QED  BY <1>6, <1>7, <1>10, <1>11, <1>12 DEF LooperInv

\* What is left of a sequence from which some are taken out.
LEMMA Thinned ==
  ASSUME NEW S, NEW s \in Seq(S), NEW kept \in SUBSET DOMAIN s, NEW place \in TimedQueue!InOrder(kept),
         NEW r, r = [k \in DOMAIN place |-> s[place[k]]]
  PROVE  /\ DOMAIN r = DOMAIN place /\ \A k \in DOMAIN place : place[k] \in DOMAIN s /\ r[k] = s[place[k]]
         /\ r \in Seq(S) /\ Range(r) \subseteq Range(s)
         /\ Distinct(s) => Distinct(r)
<1>1. /\ place \in [1..Cardinality(kept) -> kept] /\ DOMAIN place = 1..Cardinality(kept)
      /\ \A j, k \in DOMAIN place : j < k => place[j] < place[k]
  <2>1. TimedQueue!Cardinality(kept) = Cardinality(kept)
    BY DEF TimedQueue!Cardinality, Cardinality, TimedQueue!IsFiniteSet, IsFiniteSet
  <2> QED  BY <2>1 DEF TimedQueue!InOrder
<1>2. Cardinality(kept) \in Nat /\ DOMAIN s \subseteq Nat
  <2>1. DOMAIN s = 1..Len(s) /\ Len(s) \in Nat  BY LenProperties
  <2>2. IsFiniteSet(DOMAIN s)  BY <2>1, FS_Interval
  <2> QED  BY <2>1, <2>2, FS_Subset, FS_CardinalityType
<1>3. DOMAIN r = DOMAIN place /\ \A k \in DOMAIN place : place[k] \in DOMAIN s /\ r[k] = s[place[k]]
  BY <1>1
<1>4. \A i \in DOMAIN s : s[i] \in S  BY ElementOfSeq, LenProperties
<1>5. r \in [1..Cardinality(kept) -> S]
  BY <1>1, <1>3, <1>4
<1>6. r \in Seq(S)  BY <1>2, <1>5, IsASeq
<1>7. Range(r) \subseteq Range(s)  BY <1>3 DEF Range
<1>8. ASSUME Distinct(s), NEW j \in DOMAIN r, NEW k \in DOMAIN r, r[j] = r[k] PROVE j = k
  <2>1. place[j] = place[k]  BY <1>3, <1>8 DEF Distinct
  <2>2. ~(place[j] < place[k]) /\ ~(place[k] < place[j])  BY <1>2, <1>3, <2>1
  <2>3. ~(j < k) /\ ~(k < j)  BY <1>1, <1>3, <2>2
  <2> QED  BY <1>1, <1>2, <1>3, <2>3
<1> QED  BY <1>3, <1>6, <1>7, <1>8 DEF Distinct

\* Steps that leave the objects and the calls alone, and put nothing new in the queue.
LEMMA QueueShrinks ==
  ASSUME LooperInv, UNCHANGED <<msgs, pool, calls, local, due>>, now' \in 0..MaxTime, quitting' \in BOOLEAN,
         queue' \in Seq(DOMAIN msgs), Distinct(queue'), Range(queue') \subseteq Range(queue)
  PROVE  LooperInv'
<1>1. Held' = Held  BY DEF Held
<1>2. InUse' \subseteq InUse  BY <1>1 DEF InUse
<1>3. LooperTypes'
  <2>1. Messages' = Messages /\ Frames' = Frames  BY DEF Messages, Frames
  <2> QED  BY <2>1 DEF LooperInv, LooperTypes, Depth
<1>4. Placed'
  <2>1. HeldOnce'  BY DEF LooperInv, Placed, HeldOnce
  <2> QED  BY <1>1, <2>1 DEF LooperInv, Placed
<1>5. Carried' /\ CarriedOnce'  BY <1>2 DEF LooperInv, Carried, CarriedOnce
<1>6. LooperRestored' /\ Lent' /\ Limited'  BY DEF LooperInv, LooperRestored, Lent, Limited
<1> QED  BY <1>3, <1>4, <1>5, <1>6 DEF LooperInv

LEMMA RemoveKeeps ==
  ASSUME LooperInv, NEW t \in Threads, NEW c \in Callbacks, RemoveCallbacks(t, c)
  PROVE  LooperInv'
<1> DEFINE kept == {i \in DOMAIN queue : msgs[queue[i]].callback # c}
<1>1. PICK place \in TimedQueue!InOrder(kept) : queue' = [k \in DOMAIN place |-> queue[place[k]]]
  BY DEF RemoveCallbacks
<1>2. queue \in Seq(DOMAIN msgs) /\ Distinct(queue) /\ now \in 0..MaxTime /\ quitting \in BOOLEAN
  BY DEF LooperInv, LooperTypes, Placed
<1>3. kept \in SUBSET DOMAIN queue  OBVIOUS
<1> HIDE DEF kept
<1>4. queue' \in Seq(DOMAIN msgs) /\ Range(queue') \subseteq Range(queue) /\ Distinct(queue')
  BY <1>1, <1>2, <1>3, Thinned
<1>5. UNCHANGED <<msgs, pool, calls, local, due>> /\ now' = now /\ quitting' = quitting
  BY DEF RemoveCallbacks
<1> QED  BY <1>2, <1>4, <1>5, QueueShrinks

LEMMA QuitKeeps ==
  ASSUME LooperInv, NEW t \in Threads, Quit(t)
  PROVE  LooperInv'
<1>1. queue \in Seq(DOMAIN msgs) /\ Distinct(queue) /\ now \in 0..MaxTime
  BY DEF LooperInv, LooperTypes, Placed
<1> QED  BY <1>1, QueueShrinks DEF Quit

LEMMA TickKeeps ==
  ASSUME LooperInv, Tick
  PROVE  LooperInv'
<1>1. queue \in Seq(DOMAIN msgs) /\ Distinct(queue) /\ quitting \in BOOLEAN /\ now' \in 0..MaxTime
  BY LooperAssumption DEF LooperInv, LooperTypes, Placed, Tick
<1> QED  BY <1>1, QueueShrinks DEF Tick

-----------------------------------------------------------------------------
(* Steps of dispatchPendingMain.                                            *)

LEMMA TakeFacts ==
  ASSUME LooperInv, NEW t \in Dispatchers, Take(t)
  PROVE  /\ queue # <<>> /\ Depth(t) > 0 /\ Call(t).msg = NoMessage
         /\ Head(queue) \in Range(queue) /\ Head(queue) \in DOMAIN msgs /\ Head(queue) \notin Held
         /\ calls' \in [Dispatchers -> Seq(Frames')]
         /\ \A u \in Dispatchers : Depth(u)' = Depth(u) /\ DOMAIN calls'[u] = DOMAIN calls[u]
         /\ \A u \in Dispatchers : \A i \in DOMAIN calls[u] :
              calls'[u][i] = IF u = t /\ i = Depth(t) THEN [Call(t) EXCEPT !.msg = Head(queue)] ELSE calls[u][i]
         /\ Held' = Held \cup {Head(queue)}
<1>0. LooperTypes /\ Placed  BY DEF LooperInv
<1>1. /\ queue # <<>> /\ Depth(t) > 0 /\ Call(t).msg = NoMessage /\ msgs' = msgs
      /\ calls' = [calls EXCEPT ![t][Depth(t)].msg = Head(queue)]
  BY DEF Take, Ready
<1>2. Head(queue) \in Range(queue) /\ Head(queue) \in DOMAIN msgs /\ Head(queue) \notin Held
  <2>1. queue \in Seq(DOMAIN msgs)  BY <1>0 DEF LooperTypes
  <2> QED  BY <1>0, <1>1, <2>1, TailOf DEF Placed
<1>3. /\ Depth(t) \in DOMAIN calls[t] /\ Call(t) = calls[t][Depth(t)] /\ Call(t) \in Frames
  BY <1>0, <1>1, TopCall
<1> DEFINE f == [Call(t) EXCEPT !.msg = Head(queue)]
<1>4. f \in Frames'  BY <1>1, <1>2, <1>3 DEF Frames
<1>5. calls' = [calls EXCEPT ![t] = [calls[t] EXCEPT ![Depth(t)] = f]]
  BY <1>1, <1>3
<1>6. msgs' \in Seq(Messages')
  <2>1. Messages' = Messages  BY DEF Messages, Take
  <2> QED  BY <1>0, <1>1, <2>1 DEF LooperTypes
<1>f. f.msg = Head(queue)  BY <1>3 DEF Frames
<1> HIDE DEF f
<1>7. /\ calls' \in [Dispatchers -> Seq(Frames')]
      /\ \A u \in Dispatchers : Depth(u)' = Depth(u) /\ DOMAIN calls'[u] = DOMAIN calls[u]
      /\ \A u \in Dispatchers : \A i \in DOMAIN calls[u] :
           calls'[u][i] = IF u = t /\ i = Depth(t) THEN f ELSE calls[u][i]
  BY ZenonT(60), <1>0, <1>1, <1>4, <1>5, <1>6, CallSet
<1>8. Held' = Held \cup {Head(queue)}
  <2>1. ASSUME NEW n \in Held' PROVE n \in Held \cup {Head(queue)}
    <3>1. PICK u \in Dispatchers : \E i \in DOMAIN calls[u] : calls'[u][i].msg = n /\ n \in DOMAIN msgs
      BY <1>1, <1>7, <2>1 DEF Held
    <3> QED  BY <1>7, <1>f, <3>1 DEF Held
  <2>2. ASSUME NEW n \in Held PROVE n \in Held'
    <3>0. PICK u \in Dispatchers : \E i \in DOMAIN calls[u] : calls[u][i].msg = n /\ n \in DOMAIN msgs
      BY <2>2 DEF Held
    <3>1. PICK i \in DOMAIN calls[u] : calls[u][i].msg = n /\ n \in DOMAIN msgs  BY <3>0
    <3>2. n # NoMessage  BY <1>0, <3>1, Objects
    <3>3. calls'[u][i] = calls[u][i]  BY <1>1, <1>3, <1>7, <3>1, <3>2
    <3> QED  BY <1>1, <1>7, <3>1, <3>3 DEF Held
  <2>3. Head(queue) \in Held'  BY <1>1, <1>2, <1>3, <1>7, <1>f DEF Held
  <2> QED  BY <2>1, <2>2, <2>3
<1> QED  BY <1>1, <1>2, <1>7, <1>8 DEF f

LEMMA TakeKeeps ==
  ASSUME LooperInv, NEW t \in Dispatchers, Take(t)
  PROVE  LooperInv'
<1>0. LooperTypes /\ Placed  BY DEF LooperInv
<1> DEFINE f == [Call(t) EXCEPT !.msg = Head(queue)]
<1>1. /\ queue # <<>> /\ Depth(t) > 0 /\ Call(t).msg = NoMessage
      /\ Head(queue) \in Range(queue) /\ Head(queue) \in DOMAIN msgs /\ Head(queue) \notin Held
      /\ calls' \in [Dispatchers -> Seq(Frames')]
      /\ \A u \in Dispatchers : Depth(u)' = Depth(u) /\ DOMAIN calls'[u] = DOMAIN calls[u]
      /\ \A u \in Dispatchers : \A i \in DOMAIN calls[u] :
           calls'[u][i] = IF u = t /\ i = Depth(t) THEN f ELSE calls[u][i]
      /\ Held' = Held \cup {Head(queue)}
  BY TakeFacts
<1>2. queue' = Tail(queue) /\ UNCHANGED <<now, msgs, pool, quitting, local, due>>
  BY DEF Take
<1>3. Call(t) \in Frames /\ Call(t) = calls[t][Depth(t)]  BY <1>0, <1>1, TopCall
<1>4. f.msg = Head(queue) /\ f.prev = Call(t).prev /\ f.left = Call(t).left  BY <1>3 DEF Frames
<1> HIDE DEF f
<1>5. /\ queue' \in Seq(DOMAIN msgs) /\ Distinct(queue') /\ Range(queue') \subseteq Range(queue)
      /\ Head(queue) \notin Range(queue')
  <2>1. queue \in Seq(DOMAIN msgs) /\ Distinct(queue)  BY <1>0 DEF LooperTypes, Placed
  <2> QED  BY <1>1, <1>2, <2>1, TailOf, TailDistinct
<1>6. InUse' \subseteq InUse  BY <1>1, <1>5 DEF InUse
<1>7. LooperTypes'
  <2>1. Messages' = Messages  BY <1>2 DEF Messages
  <2> QED  BY <1>0, <1>1, <1>2, <1>5, <2>1 DEF LooperTypes
<1>8. Placed'
  <2>1. ASSUME NEW u \in Dispatchers, NEW v \in Dispatchers, NEW i \in DOMAIN calls'[u], NEW j \in DOMAIN calls'[v],
               calls'[u][i].msg # NoMessage, calls'[u][i].msg = calls'[v][j].msg
        PROVE  u = v /\ i = j
    <3>0. i \in DOMAIN calls[u] /\ j \in DOMAIN calls[v]  BY <1>1
    <3>1. \A w \in Dispatchers : \A k \in DOMAIN calls[w] : calls[w][k].msg # Head(queue)
      BY <1>0, <1>1, HeldWhere DEF Held
    <3>2. CASE (u = t /\ i = Depth(t)) \/ (v = t /\ j = Depth(t))
      BY <1>1, <1>4, <2>1, <3>0, <3>1, <3>2
    <3>3. CASE ~(u = t /\ i = Depth(t)) /\ ~(v = t /\ j = Depth(t))
      BY <1>0, <1>1, <2>1, <3>0, <3>3 DEF Placed, HeldOnce
    <3> QED  BY <3>2, <3>3
  <2>2. HeldOnce'  BY <2>1 DEF HeldOnce
  <2>3. Held' \cap (Range(queue') \cup Range(pool')) = {}
    BY <1>0, <1>1, <1>2, <1>5 DEF Placed
  <2> QED  BY <1>0, <1>2, <1>5, <2>2, <2>3 DEF Placed
<1>9. Carried' /\ CarriedOnce'  BY <1>2, <1>6 DEF LooperInv, Carried, CarriedOnce
<1>10. LooperRestored'
  <2>1. \A u \in Dispatchers : calls[u] \in Seq(Frames) /\ calls'[u] \in Seq(Frames') /\ Len(calls'[u]) = Len(calls[u])
    BY <1>0, <1>1 DEF LooperTypes, Depth
  <2>2. \A u \in Dispatchers : calls'[u] = <<>> <=> calls[u] = <<>>  BY <2>1, EmptySeq
  <2> QED  BY <1>2, <2>2 DEF LooperInv, LooperRestored, Dispatchers
<1>11. Lent' /\ Limited'
  BY <1>1, <1>3, <1>4 DEF LooperInv, Lent, Limited, Take
<1> QED  BY <1>7, <1>8, <1>9, <1>10, <1>11 DEF LooperInv

LEMMA RecycleFacts ==
  ASSUME LooperInv, NEW t \in Dispatchers, Recycle(t)
  PROVE  /\ Depth(t) > 0 /\ Depth(t) \in DOMAIN calls[t] /\ Call(t) = calls[t][Depth(t)]
         /\ Call(t).msg # NoMessage /\ Call(t).msg \in Held /\ Call(t).msg \in DOMAIN msgs
         /\ msgs' \in Seq(Messages') /\ DOMAIN msgs' = DOMAIN msgs /\ Len(msgs') = Len(msgs)
         /\ \A m \in DOMAIN msgs : m # Call(t).msg => msgs'[m] = msgs[m]
         /\ calls' \in [Dispatchers -> Seq(Frames')]
         /\ \A u \in Dispatchers : Depth(u)' = Depth(u) /\ DOMAIN calls'[u] = DOMAIN calls[u]
         /\ \A u \in Dispatchers : \A i \in DOMAIN calls[u] : (u # t \/ i # Depth(t)) => calls'[u][i] = calls[u][i]
         /\ calls'[t][Depth(t)].msg = NoMessage /\ calls'[t][Depth(t)].prev = Call(t).prev
         /\ Held' = Held \ {Call(t).msg}
<1>0. LooperTypes /\ Placed  BY DEF LooperInv
<1>1. /\ Depth(t) > 0 /\ Call(t).msg # NoMessage /\ msgs' = [msgs EXCEPT ![Call(t).msg] = Cleared] /\ due' = due
      /\ calls' = [calls EXCEPT ![t][Depth(t)].msg = NoMessage, ![t][Depth(t)].left = @ - 1]
  BY DEF Recycle
<1>2. /\ Depth(t) \in DOMAIN calls[t] /\ Call(t) = calls[t][Depth(t)] /\ Call(t) \in Frames
  BY <1>0, <1>1, TopCall
<1>3. Call(t).msg \in Held /\ Call(t).msg \in DOMAIN msgs
  BY <1>0, <1>1, <1>2, HeldWhere
<1>4. /\ msgs' \in Seq(Messages) /\ Len(msgs') = Len(msgs) /\ DOMAIN msgs' = DOMAIN msgs
      /\ \A m \in DOMAIN msgs : m # Call(t).msg => msgs'[m] = msgs[m]
  <2>1. Len(due) \in Nat /\ MaxTime \in Nat  BY <1>0, Objects, LooperAssumption
  <2>2. Cleared \in Messages  BY <2>1 DEF Cleared, Messages
  <2>3. msgs \in Seq(Messages) /\ Call(t).msg \in 1..Len(msgs)  BY <1>0, <1>3, Objects DEF LooperTypes
  <2>4. msgs' \in Seq(Messages) /\ Len(msgs') = Len(msgs)  BY <1>1, <2>2, <2>3, ExceptSeq
  <2> QED  BY <1>1, <2>4
<1>5. Messages' = Messages  BY <1>1 DEF Messages
<1> DEFINE f == [Call(t) EXCEPT !.msg = NoMessage, !.left = Call(t).left - 1]
<1>6. f \in Frames'
  <2>1. Call(t).left \in 1..DrainLimit /\ DrainLimit \in Nat
    BY <1>1, <1>2, LooperAssumption DEF LooperInv, Limited, Frames
  <2>2. Call(t).left - 1 \in 0..DrainLimit  BY <2>1
  <2> QED  BY <1>2, <1>4, <2>2 DEF Frames
<1>7. calls' = [calls EXCEPT ![t] = [calls[t] EXCEPT ![Depth(t)] = f]]
  <2>1. calls \in [Dispatchers -> Seq(Frames)]  BY <1>0 DEF LooperTypes
  <2> QED  BY <1>1, <1>2, <2>1
<1>f. f.msg = NoMessage /\ f.prev = Call(t).prev  BY <1>2 DEF Frames
<1> HIDE DEF f
<1>8. /\ calls' \in [Dispatchers -> Seq(Frames')]
      /\ \A u \in Dispatchers : Depth(u)' = Depth(u) /\ DOMAIN calls'[u] = DOMAIN calls[u]
      /\ \A u \in Dispatchers : \A i \in DOMAIN calls[u] :
           calls'[u][i] = IF u = t /\ i = Depth(t) THEN f ELSE calls[u][i]
  <2>1. msgs' \in Seq(Messages') /\ Len(msgs') = Len(msgs) /\ Depth(t) > 0  BY <1>1, <1>4, <1>5
  <2> QED  BY <1>0, <1>6, <1>7, <2>1, CallSet
<1>9. Held' = Held \ {Call(t).msg}
  <2>1. ASSUME NEW n \in Held' PROVE n \in Held \ {Call(t).msg}
    <3>1. PICK u \in Dispatchers : \E i \in DOMAIN calls[u] : calls'[u][i].msg = n /\ n \in DOMAIN msgs
      BY <1>4, <1>8, <2>1 DEF Held
    <3>2. PICK i \in DOMAIN calls[u] : calls'[u][i].msg = n /\ n \in DOMAIN msgs  BY <3>1
    <3>3. n # NoMessage  BY <1>0, <3>2, Objects
    <3>4. ~(u = t /\ i = Depth(t))  BY <1>8, <1>f, <3>2, <3>3
    <3>5. calls[u][i].msg = n  BY <1>8, <3>2, <3>4
    <3>6. n # Call(t).msg  BY <1>0, <1>2, <3>3, <3>4, <3>5 DEF Placed, HeldOnce
    <3> QED  BY <3>2, <3>5, <3>6 DEF Held
  <2>2. ASSUME NEW n \in Held, n # Call(t).msg PROVE n \in Held'
    <3>1. PICK u \in Dispatchers : \E i \in DOMAIN calls[u] : calls[u][i].msg = n /\ n \in DOMAIN msgs
      BY <2>2 DEF Held
    <3>2. PICK i \in DOMAIN calls[u] : calls[u][i].msg = n /\ n \in DOMAIN msgs  BY <3>1
    <3>3. calls'[u][i] = calls[u][i]  BY <1>2, <1>8, <2>2, <3>2
    <3> QED  BY <1>4, <1>8, <3>2, <3>3 DEF Held
  <2> QED  BY <2>1, <2>2
<1> QED  BY <1>1, <1>2, <1>3, <1>4, <1>5, <1>8, <1>f, <1>9

LEMMA RecycleKeeps ==
  ASSUME LooperInv, NEW t \in Dispatchers, Recycle(t)
  PROVE  LooperInv'
<1>0. LooperTypes /\ Placed  BY DEF LooperInv
<1> DEFINE m == Call(t).msg
<1>1. /\ Depth(t) > 0 /\ Depth(t) \in DOMAIN calls[t] /\ Call(t) = calls[t][Depth(t)]
      /\ m # NoMessage /\ m \in Held /\ m \in DOMAIN msgs
      /\ msgs' \in Seq(Messages') /\ DOMAIN msgs' = DOMAIN msgs
      /\ \A n \in DOMAIN msgs : n # m => msgs'[n] = msgs[n]
      /\ calls' \in [Dispatchers -> Seq(Frames')]
      /\ \A u \in Dispatchers : Depth(u)' = Depth(u) /\ DOMAIN calls'[u] = DOMAIN calls[u]
      /\ \A u \in Dispatchers : \A i \in DOMAIN calls[u] : (u # t \/ i # Depth(t)) => calls'[u][i] = calls[u][i]
      /\ calls'[t][Depth(t)].msg = NoMessage /\ calls'[t][Depth(t)].prev = Call(t).prev
      /\ Held' = Held \ {m}
  BY RecycleFacts
<1>2. pool' = Recycled(m) /\ UNCHANGED <<now, queue, quitting, local, due>>
  BY DEF Recycle
<1> HIDE DEF m
<1>3. m \notin Range(queue) /\ m \notin Range(pool)  BY <1>0, <1>1 DEF Placed
<1>4. /\ pool' \in Seq(DOMAIN msgs) /\ Len(pool') <= MaxPool /\ Distinct(pool')
      /\ Range(pool') \subseteq Range(pool) \cup {m}
  <2>1. pool \in Seq(DOMAIN msgs) /\ Len(pool) <= MaxPool /\ Distinct(pool) /\ Len(pool) \in Nat /\ MaxPool \in Nat
    BY <1>0, LooperAssumption, LenProperties DEF LooperTypes, Placed
  <2>2. /\ <<m>> \o pool \in Seq(DOMAIN msgs) /\ Len(<<m>> \o pool) = Len(pool) + 1
        /\ Range(<<m>> \o pool) = Range(pool) \cup {m} /\ Distinct(<<m>> \o pool)
    BY <1>1, <1>3, <2>1, PushOf
  <2>3. CASE Len(pool) < MaxPool
    <3>1. pool' = <<m>> \o pool  BY <1>2, <2>3 DEF Recycled
    <3> QED  BY <2>1, <2>2, <2>3, <3>1
  <2>4. CASE ~(Len(pool) < MaxPool)  BY <1>2, <2>1, <2>4 DEF Recycled
  <2> QED  BY <2>3, <2>4
<1>5. LooperTypes'
  BY <1>0, <1>1, <1>2, <1>4 DEF LooperTypes
<1>6. Placed'
  <2>1. ASSUME NEW u \in Dispatchers, NEW v \in Dispatchers, NEW i \in DOMAIN calls'[u], NEW j \in DOMAIN calls'[v],
               calls'[u][i].msg # NoMessage, calls'[u][i].msg = calls'[v][j].msg
        PROVE  u = v /\ i = j
    <3>1. (u # t \/ i # Depth(t)) /\ (v # t \/ j # Depth(t))  BY <1>1, <2>1
    <3>2. calls[u][i].msg # NoMessage /\ calls[u][i].msg = calls[v][j].msg /\ i \in DOMAIN calls[u] /\ j \in DOMAIN calls[v]
      BY <1>1, <2>1, <3>1
    <3> QED  BY <1>0, <3>2 DEF Placed, HeldOnce
  <2>2. HeldOnce'  BY <2>1 DEF HeldOnce
  <2>3. Held' \cap (Range(queue') \cup Range(pool')) = {} /\ Range(queue') \cap Range(pool') = {}
    BY <1>0, <1>1, <1>2, <1>3, <1>4 DEF Placed
  <2> QED  BY <1>0, <1>2, <1>4, <2>2, <2>3 DEF Placed
<1>7. InUse' \subseteq InUse \ {m} /\ InUse \subseteq DOMAIN msgs
  BY <1>0, <1>1, <1>2, <1>3, Objects, HeldWhere DEF InUse
<1>8. Carried' /\ CarriedOnce'
  BY <1>1, <1>2, <1>7 DEF LooperInv, Carried, CarriedOnce
<1>9. LooperRestored'
  <2>1. \A u \in Dispatchers : calls[u] \in Seq(Frames) /\ calls'[u] \in Seq(Frames') /\ Len(calls'[u]) = Len(calls[u])
    BY <1>0, <1>1 DEF LooperTypes, Depth
  <2>2. \A u \in Dispatchers : calls'[u] = <<>> <=> calls[u] = <<>>  BY <2>1, EmptySeq
  <2> QED  BY <1>2, <2>2 DEF LooperInv, LooperRestored, Dispatchers
<1>10. Lent'
  <2>1. ASSUME NEW u \in Dispatchers, NEW i \in DOMAIN calls[u] PROVE calls'[u][i].prev = calls[u][i].prev
    BY <1>1
  <2> QED  BY <1>1, <2>1 DEF LooperInv, Lent
<1>11. Limited'
  BY <1>1 DEF LooperInv, Limited
<1> QED  BY <1>5, <1>6, <1>8, <1>9, <1>10, <1>11 DEF LooperInv

\* A call that has nothing in hand comes or goes.
LEMMA HandsSame ==
  ASSUME LooperInv, NEW t \in Dispatchers, UNCHANGED <<now, msgs, pool, queue, quitting, due>>,
         calls' \in [Dispatchers -> Seq(Frames)], Depth(t)' <= MaxDepth, local' \in [Dispatchers -> BOOLEAN],
         \A u \in Dispatchers \ {t} : calls'[u] = calls[u] /\ local'[u] = local[u],
         \A i \in DOMAIN calls[t] : calls[t][i].msg # NoMessage => i \in DOMAIN calls'[t],
         \A i \in DOMAIN calls'[t] : IF i \in DOMAIN calls[t] THEN calls'[t][i] = calls[t][i] ELSE calls'[t][i].msg = NoMessage
  PROVE  /\ LooperTypes' /\ Placed' /\ Limited' /\ Carried' /\ CarriedOnce'
         /\ Held' = Held
<1>0. LooperTypes /\ Placed  BY DEF LooperInv
<1>1. Messages' = Messages /\ Frames' = Frames  BY DEF Messages, Frames
<1>2. LooperTypes'  BY <1>0, <1>1 DEF LooperTypes, Depth
<1>3. \A u \in Dispatchers : \A i \in DOMAIN calls'[u] :
        calls'[u][i].msg # NoMessage => i \in DOMAIN calls[u] /\ calls'[u][i] = calls[u][i]
  OBVIOUS
<1>4. \A u \in Dispatchers : \A i \in DOMAIN calls[u] :
        calls[u][i].msg # NoMessage => i \in DOMAIN calls'[u] /\ calls'[u][i] = calls[u][i]
  OBVIOUS
<1>5. Held' = Held
  <2>1. ASSUME NEW n \in Held PROVE n \in Held'
    <3>1. PICK u \in Dispatchers : \E i \in DOMAIN calls[u] : calls[u][i].msg = n /\ n \in DOMAIN msgs
      BY <2>1 DEF Held
    <3>2. n # NoMessage  BY <1>0, <3>1, Objects
    <3> QED  BY <1>4, <3>1, <3>2 DEF Held
  <2>2. ASSUME NEW n \in Held' PROVE n \in Held
    <3>1. PICK u \in Dispatchers : \E i \in DOMAIN calls'[u] : calls'[u][i].msg = n /\ n \in DOMAIN msgs
      BY <2>2 DEF Held
    <3>2. n # NoMessage  BY <1>0, <3>1, Objects
    <3> QED  BY <1>3, <3>1, <3>2 DEF Held
  <2> QED  BY <2>1, <2>2
<1>6. HeldOnce'  BY <1>0, <1>3 DEF Placed, HeldOnce
<1>7. Placed'  BY <1>0, <1>5, <1>6 DEF Placed
<1>8. Carried' /\ CarriedOnce'  BY <1>5 DEF LooperInv, Carried, CarriedOnce, InUse
<1>9. Limited'  BY <1>3 DEF LooperInv, Limited
<1> QED  BY <1>2, <1>5, <1>7, <1>8, <1>9

LEMMA BeginKeeps ==
  ASSUME LooperInv, NEW t \in Dispatchers, DrainBegin(t)
  PROVE  LooperInv' /\ Held' = Held
<1>0. LooperTypes /\ Placed  BY DEF LooperInv
<1> DEFINE f == [msg |-> NoMessage, left |-> DrainLimit, prev |-> local[t]]
<1>1. /\ Depth(t) < MaxDepth /\ calls' = [calls EXCEPT ![t] = Append(calls[t], f)]
      /\ local' = [local EXCEPT ![t] = TRUE] /\ UNCHANGED <<now, msgs, pool, queue, quitting, due>>
  BY DEF DrainBegin
<1>2. calls \in [Dispatchers -> Seq(Frames)] /\ local \in [Dispatchers -> BOOLEAN] /\ calls[t] \in Seq(Frames)
  BY <1>0 DEF LooperTypes
<1>3. f \in Frames  BY <1>2, LooperAssumption DEF Frames
<1>f. f.msg = NoMessage /\ f.prev = local[t]  OBVIOUS
<1> HIDE DEF f
<1>4. Append(calls[t], f) \in Seq(Frames)  BY <1>2, <1>3, AppendProperties
<1>5. /\ DOMAIN Append(calls[t], f) = 1..(Len(calls[t]) + 1) /\ Len(calls[t]) \in Nat
      /\ DOMAIN calls[t] = 1..Len(calls[t]) /\ Len(Append(calls[t], f)) = Len(calls[t]) + 1
      /\ \A i \in DOMAIN calls[t] : Append(calls[t], f)[i] = calls[t][i]
      /\ Append(calls[t], f)[Len(calls[t]) + 1] = f
  BY <1>2, AppendOf
<1>6. /\ calls' \in [Dispatchers -> Seq(Frames)] /\ local' \in [Dispatchers -> BOOLEAN]
      /\ calls'[t] = Append(calls[t], f) /\ local'[t] = TRUE
      /\ \A u \in Dispatchers \ {t} : calls'[u] = calls[u] /\ local'[u] = local[u]
  BY <1>1, <1>2, <1>4
<1>7. Depth(t)' <= MaxDepth  BY <1>1, <1>5, <1>6, LooperAssumption DEF Depth
<1>8. LooperTypes' /\ Placed' /\ Limited' /\ Carried' /\ CarriedOnce' /\ Held' = Held
  <2>1. \A i \in DOMAIN calls[t] : i \in DOMAIN calls'[t] /\ calls'[t][i] = calls[t][i]  BY <1>5, <1>6
  <2>2. ASSUME NEW i \in DOMAIN calls'[t], i \notin DOMAIN calls[t] PROVE calls'[t][i].msg = NoMessage
    <3>1. i = Len(calls[t]) + 1  BY <1>5, <1>6, <2>2
    <3> QED  BY <1>5, <1>6, <1>f, <3>1
  <2>3. \A i \in DOMAIN calls'[t] : IF i \in DOMAIN calls[t] THEN calls'[t][i] = calls[t][i] ELSE calls'[t][i].msg = NoMessage
    BY <2>1, <2>2
  <2> QED  BY <1>1, <1>6, <1>7, <2>1, <2>3, HandsSame
<1>9. calls'[t] # <<>>  BY <1>5, <1>6, EmptySeq
<1>10. Main # Render /\ Main \in Dispatchers /\ Render \in Dispatchers  BY LooperAssumption DEF Dispatchers
<1>11. LooperRestored'  BY <1>6, <1>9, <1>10 DEF LooperInv, LooperRestored
<1>12. local[t] = (t = Main \/ Len(calls[t]) + 1 > 1)
  <2>1. calls[t] = <<>> <=> Len(calls[t]) = 0  BY <1>2, EmptySeq
  <2>2. CASE t = Main  BY <1>2, <2>2 DEF LooperInv, LooperRestored
  <2>3. CASE t = Render  BY <1>2, <1>5, <1>10, <2>1, <2>3 DEF LooperInv, LooperRestored
  <2> QED  BY <2>2, <2>3 DEF Dispatchers
<1>13. Lent'
  <2>1. ASSUME NEW u \in Dispatchers, NEW i \in DOMAIN calls'[u] PROVE calls'[u][i].prev = (u = Main \/ i > 1)
    <3>1. CASE i \in DOMAIN calls[u] /\ calls'[u][i] = calls[u][i]  BY <3>1 DEF LooperInv, Lent
    <3>2. CASE u = t /\ i = Len(calls[t]) + 1  BY <1>5, <1>6, <1>f, <1>12, <3>2
    <3> QED  BY <1>5, <1>6, <3>1, <3>2
  <2> QED  BY <2>1 DEF Lent
<1> QED  BY <1>8, <1>11, <1>13 DEF LooperInv

LEMMA EndKeeps ==
  ASSUME LooperInv, NEW t \in Dispatchers, DrainEnd(t)
  PROVE  LooperInv' /\ Held' = Held
<1>0. LooperTypes /\ Placed  BY DEF LooperInv
<1>1. /\ Depth(t) > 0 /\ Call(t).msg = NoMessage
      /\ calls' = [calls EXCEPT ![t] = SubSeq(calls[t], 1, Len(calls[t]) - 1)]
      /\ local' = [local EXCEPT ![t] = Call(t).prev] /\ UNCHANGED <<now, msgs, pool, queue, quitting, due>>
  BY DEF DrainEnd, Restored
<1>2. calls \in [Dispatchers -> Seq(Frames)] /\ local \in [Dispatchers -> BOOLEAN] /\ calls[t] \in Seq(Frames)
  BY <1>0 DEF LooperTypes
<1>3. /\ Depth(t) = Len(calls[t]) /\ Depth(t) \in Nat \ {0} /\ Call(t) = calls[t][Depth(t)] /\ Call(t) \in Frames
      /\ DOMAIN calls[t] = 1..Len(calls[t]) /\ Depth(t) \in DOMAIN calls[t]
  BY <1>0, <1>1, TopCall, Objects
<1> DEFINE s == SubSeq(calls[t], 1, Len(calls[t]) - 1)
<1>4. s \in Seq(Frames) /\ Len(s) = Len(calls[t]) - 1 /\ \A i \in 1..(Len(calls[t]) - 1) : s[i] = calls[t][i]
  BY <1>2, <1>3, SubSeqProperties
<1>5. DOMAIN s = 1..(Len(calls[t]) - 1)  BY <1>4, LenProperties
<1> HIDE DEF s
<1>6. Call(t).prev \in BOOLEAN /\ Call(t).prev = (t = Main \/ Depth(t) > 1)
  BY <1>3 DEF Frames, LooperInv, Lent
<1>7. /\ calls' \in [Dispatchers -> Seq(Frames)] /\ local' \in [Dispatchers -> BOOLEAN]
      /\ calls'[t] = s /\ local'[t] = Call(t).prev
      /\ \A u \in Dispatchers \ {t} : calls'[u] = calls[u] /\ local'[u] = local[u]
  BY <1>1, <1>2, <1>4, <1>6 DEF s
<1>8. Depth(t)' <= MaxDepth
  <2>1. Depth(t) <= MaxDepth /\ MaxDepth \in Nat  BY <1>0, LooperAssumption DEF LooperTypes
  <2>2. Depth(t)' = Depth(t) - 1  BY <1>3, <1>4, <1>7 DEF Depth
  <2> QED  BY <1>3, <2>1, <2>2
<1>9. /\ \A i \in DOMAIN calls[t] : calls[t][i].msg # NoMessage => i \in DOMAIN calls'[t]
      /\ \A i \in DOMAIN calls'[t] : i \in DOMAIN calls[t] /\ calls'[t][i] = calls[t][i]
  BY <1>1, <1>3, <1>4, <1>5, <1>7
<1>10. LooperTypes' /\ Placed' /\ Limited' /\ Carried' /\ CarriedOnce' /\ Held' = Held
  BY <1>1, <1>7, <1>8, <1>9, HandsSame
<1>11. Main # Render /\ Main \in Dispatchers /\ Render \in Dispatchers  BY LooperAssumption DEF Dispatchers
<1>12. LooperRestored'
  <2>1. s = <<>> <=> Len(s) = 0  BY <1>4, EmptySeq
  <2>2. s # <<>> <=> Depth(t) > 1  BY <1>3, <1>4, <2>1
  <2>3. CASE t = Main  BY <1>6, <1>7, <1>11, <2>3 DEF LooperInv, LooperRestored
  <2>4. CASE t = Render
    <3>1. local'[Render] = (calls'[Render] # <<>>)  BY <1>6, <1>7, <1>11, <2>2, <2>4
    <3> QED  BY <1>7, <1>11, <2>4, <3>1 DEF LooperInv, LooperRestored
  <2> QED  BY <2>3, <2>4 DEF Dispatchers
<1>13. Lent'  BY <1>7, <1>9 DEF LooperInv, Lent
<1> QED  BY <1>10, <1>12, <1>13 DEF LooperInv

-----------------------------------------------------------------------------
(* The invariant.                                                           *)

LEMMA InitLooper == Init => LooperInv /\ FrameTypes
<1> SUFFICES ASSUME Init PROVE LooperInv /\ FrameTypes  OBVIOUS
<1>1. /\ now = 0 /\ msgs = <<>> /\ pool = <<>> /\ queue = <<>> /\ quitting = FALSE /\ due = <<>>
      /\ calls = [t \in Dispatchers |-> <<>>] /\ local = [t \in Dispatchers |-> t = Main]
  BY DEF Init
<1>2. /\ MaxTime \in Nat /\ MaxPool \in Nat /\ MaxDepth \in Nat /\ Main # Render
      /\ Main \in Dispatchers /\ Render \in Dispatchers
  BY LooperAssumption DEF Dispatchers
<1>3. \A S : <<>> \in Seq(S)  OBVIOUS
<1>4. \A t \in Dispatchers : calls[t] = <<>> /\ DOMAIN calls[t] = {} /\ Len(calls[t]) = 0
  BY <1>1
<1>5. Held = {} /\ Range(queue) = {} /\ Range(pool) = {}  BY <1>1, <1>4 DEF Held, Range
<1>6. LooperTypes
  <2>1. calls \in [Dispatchers -> Seq(Frames)]  BY <1>1, <1>3
  <2>2. local \in [Dispatchers -> BOOLEAN]  BY <1>1
  <2>3. \A t \in Dispatchers : Depth(t) <= MaxDepth  BY <1>2, <1>4 DEF Depth
  <2>4. msgs \in Seq(Messages) /\ due \in Seq(0..MaxTime) /\ pool \in Seq(DOMAIN msgs) /\ queue \in Seq(DOMAIN msgs)
    BY <1>1, <1>3
  <2>5. now \in 0..MaxTime
    <3>1. now = 0  BY <1>1
    <3> QED  BY <1>2, <3>1
  <2>7. quitting \in BOOLEAN
    <3>1. quitting = FALSE  BY <1>1
    <3> QED  BY <3>1
  <2>6. Len(pool) = 0  BY <1>1
  <2> QED  BY <1>2, <2>1, <2>2, <2>3, <2>4, <2>5, <2>6, <2>7 DEF LooperTypes
<1>7. Placed  BY <1>1, <1>4, <1>5 DEF Placed, Distinct, HeldOnce
<1>8. LooperRestored  BY <1>1, <1>2, <1>4 DEF LooperRestored
<1>9. Lent /\ Limited  BY <1>4 DEF Lent, Limited
<1>10. Carried /\ CarriedOnce  BY <1>5 DEF Carried, CarriedOnce, InUse
<1>11. FrameTypes  BY <1>3 DEF Init, FrameTypes, Lists
<1> QED  BY <1>6, <1>7, <1>8, <1>9, <1>10, <1>11 DEF LooperInv

LEMMA LooperSame ==
  ASSUME LooperInv, UNCHANGED looperVars
  PROVE  LooperInv'
<1>1. Held' = Held /\ InUse' = InUse  BY DEF looperVars, Held, InUse
<1>2. LooperTypes'  BY DEF looperVars, LooperInv, LooperTypes, Depth, Frames, Messages
<1>3. Placed'  BY <1>1 DEF looperVars, LooperInv, Placed, HeldOnce
<1>4. Carried' /\ CarriedOnce'  BY <1>1 DEF looperVars, LooperInv, Carried, CarriedOnce
<1>5. LooperRestored' /\ Lent' /\ Limited'  BY DEF looperVars, LooperInv, LooperRestored, Lent, Limited
<1> QED  BY <1>2, <1>3, <1>4, <1>5 DEF LooperInv

LEMMA FramesSame ==
  ASSUME FrameTypes, rpc' \in {"events", "dispatch", "draw", "notify", "run", "callback"},
         UNCHANGED <<lists, phase, snapshot, owed>>
  PROVE  FrameTypes'
BY DEF FrameTypes

LEMMA FrameStepKeeps ==
  ASSUME FrameTypes,
         \/ EventsDispatched \/ Drawn \/ DrawThrows \/ NotifyBegin \/ RunTask \/ TaskEnd \/ NotifyEnd
         \/ \E t \in Threads, l \in Lists, c \in Tasks : PostTask(t, l, c)
         \/ \E t \in Threads, c \in Tasks : RemoveFrameCallback(t, c)
  PROVE  FrameTypes' /\ UNCHANGED looperVars
<1>0. /\ rpc \in {"events", "dispatch", "draw", "notify", "run", "callback"} /\ lists \in [Lists -> Seq(Tasks)]
      /\ phase \in Lists /\ snapshot \in Seq(Tasks) /\ owed \subseteq Tasks /\ "frame" \in Lists /\ "commit" \in Lists
      /\ \A l \in Lists : lists[l] \in Seq(Tasks)
  BY DEF FrameTypes, Lists
<1>9. CASE EventsDispatched  BY <1>9, FramesSame DEF EventsDispatched
<1>1. CASE Drawn  BY <1>1, FramesSame DEF Drawn
<1>2. CASE DrawThrows  BY <1>2, FramesSame DEF DrawThrows
<1>3. CASE NotifyBegin
  <2>1. snapshot' = lists[phase] /\ lists' = [lists EXCEPT ![phase] = <<>>] /\ rpc' = "run"
        /\ phase' = phase /\ owed' = owed /\ UNCHANGED looperVars
    BY <1>3 DEF NotifyBegin, Copy
  <2>2. <<>> \in Seq(Tasks)  OBVIOUS
  <2> QED  BY <1>0, <2>1, <2>2 DEF FrameTypes
<1>4. CASE RunTask
  <2>1. snapshot # <<>> /\ snapshot' = Tail(snapshot) /\ owed' \subseteq owed /\ rpc' = "callback"
        /\ phase' = phase /\ lists' = lists /\ UNCHANGED looperVars
    BY <1>4 DEF RunTask
  <2>2. Tail(snapshot) \in Seq(Tasks)  BY <1>0, <2>1, HeadTailProperties
  <2> QED  BY <1>0, <2>1, <2>2 DEF FrameTypes
<1>5. CASE TaskEnd  BY <1>5, FramesSame DEF TaskEnd
<1>6. CASE NotifyEnd
  <2>1. rpc' \in {"notify", "events"} /\ phase' \in {"frame", "commit"}
        /\ UNCHANGED <<looperVars, lists, snapshot, owed>>
    BY <1>6 DEF NotifyEnd
  <2> QED  BY <1>0, <2>1 DEF FrameTypes
<1>7. ASSUME NEW t \in Threads, NEW l \in Lists, NEW c \in Tasks, PostTask(t, l, c)
      PROVE  FrameTypes' /\ UNCHANGED looperVars
  <2>1. lists' = [lists EXCEPT ![l] = Append(lists[l], c)] /\ owed' = owed \cup {c}
        /\ UNCHANGED <<looperVars, rpc, phase, snapshot>>
    BY <1>7 DEF PostTask
  <2>2. Append(lists[l], c) \in Seq(Tasks)  BY <1>0, AppendProperties
  <2> QED  BY <1>0, <2>1, <2>2 DEF FrameTypes
<1>8. ASSUME NEW t \in Threads, NEW c \in Tasks, RemoveFrameCallback(t, c)
      PROVE  FrameTypes' /\ UNCHANGED looperVars
  <2> DEFINE s == lists["frame"]
  <2>1. PICK i \in DOMAIN s :
          lists' = [lists EXCEPT !["frame"] = SubSeq(s, 1, i - 1) \o SubSeq(s, i + 1, Len(s))]
    BY <1>8 DEF RemoveFrameCallback
  <2>2. owed' = owed \ {c} /\ UNCHANGED <<looperVars, rpc, phase, snapshot>>
    BY <1>8 DEF RemoveFrameCallback
  <2>3. s \in Seq(Tasks) /\ i \in 1..Len(s) /\ Len(s) \in Nat  BY <1>0, LenProperties
  <2>4. SubSeq(s, 1, i - 1) \in Seq(Tasks) /\ SubSeq(s, i + 1, Len(s)) \in Seq(Tasks)
    BY <2>3, SubSeqProperties
  <2>5. SubSeq(s, 1, i - 1) \o SubSeq(s, i + 1, Len(s)) \in Seq(Tasks)  BY <2>4, ConcatProperties
  <2> HIDE DEF s
  <2> QED  BY <1>0, <2>1, <2>2, <2>5 DEF FrameTypes
<1> QED  BY <1>9, <1>1, <1>2, <1>3, <1>4, <1>5, <1>6, <1>7, <1>8

LEMMA NextLooper == LooperInv /\ FrameTypes /\ [Next]_vars => LooperInv' /\ FrameTypes'
<1> SUFFICES ASSUME LooperInv, FrameTypes, [Next]_vars PROVE LooperInv' /\ FrameTypes'  OBVIOUS
<1>0. UNCHANGED frameVars => FrameTypes'  BY DEF frameVars, FrameTypes
<1>1. ASSUME NEW t \in Threads, NEW c \in Callbacks, NEW when \in Times \cap 0..MaxTime, Post(t, c, when)
      PROVE  LooperInv' /\ FrameTypes'
  <2>1. when \in 0..MaxTime  OBVIOUS
  <2> QED  BY <1>0, <1>1, <2>1, PostKeeps DEF Post
<1>2. ASSUME NEW t \in Threads, NEW c \in Callbacks, RemoveCallbacks(t, c) PROVE LooperInv' /\ FrameTypes'
  BY <1>0, <1>2, RemoveKeeps DEF RemoveCallbacks
<1>3. ASSUME NEW t \in Threads, Quit(t) PROVE LooperInv' /\ FrameTypes'
  BY <1>0, <1>3, QuitKeeps DEF Quit
<1>4. ASSUME NEW t \in Dispatchers, DrainBegin(t) PROVE LooperInv' /\ FrameTypes'
  <2>1. rpc' = rpc \/ rpc' = "draw"  BY <1>4 DEF DrainBegin
  <2>2. UNCHANGED <<lists, phase, snapshot, owed>>  BY <1>4 DEF DrainBegin
  <2>3. FrameTypes'  BY <2>1, <2>2 DEF FrameTypes
  <2> QED  BY <1>4, <2>3, BeginKeeps
<1>5. ASSUME NEW t \in Dispatchers, Take(t) PROVE LooperInv' /\ FrameTypes'
  BY <1>0, <1>5, TakeKeeps DEF Take
<1>6. ASSUME NEW t \in Dispatchers, Recycle(t) PROVE LooperInv' /\ FrameTypes'
  BY <1>0, <1>6, RecycleKeeps DEF Recycle
<1>7. ASSUME NEW t \in Dispatchers, DrainEnd(t) PROVE LooperInv' /\ FrameTypes'
  BY <1>0, <1>7, EndKeeps DEF DrainEnd
<1>8. CASE \/ EventsDispatched \/ Drawn \/ DrawThrows \/ NotifyBegin \/ RunTask \/ TaskEnd \/ NotifyEnd
           \/ \E t \in Threads, l \in Lists, c \in Tasks : PostTask(t, l, c)
           \/ \E t \in Threads, c \in Tasks : RemoveFrameCallback(t, c)
  BY <1>8, FrameStepKeeps, LooperSame
<1>9. CASE Tick  BY <1>0, <1>9, TickKeeps DEF Tick
<1>10. CASE UNCHANGED vars  BY <1>0, <1>10, LooperSame DEF vars
<1> QED  BY <1>1, <1>2, <1>3, <1>4, <1>5, <1>6, <1>7, <1>8, <1>9, <1>10 DEF Next

LEMMA LooperInvariant == Spec => [](LooperInv /\ FrameTypes)
BY InitLooper, NextLooper, PTL DEF Spec

\* Every variable keeps its type; the pool never grows beyond MAX_POOL_SIZE.
THEOREM LooperTypesKept == Spec => []TypeOK
<1>1. LooperInv /\ FrameTypes => TypeOK  BY DEF LooperInv, LooperTypes, FrameTypes, TypeOK
<1> QED  BY <1>1, LooperInvariant, PTL

\* For any number of threads, posts, nested drains and places in the pool, no
\* Message object is in two places, so obtain never rewrites one that is in use.
THEOREM MessagesHaveOneOwner == Spec => []OwnedOnce
<1>1. LooperInv => OwnedOnce  BY OwnedParts DEF LooperInv
<1> QED  BY <1>1, LooperInvariant, PTL

\* dispatchPendingMain gives back the looper it found, at any depth.
THEOREM LooperIsGivenBack == Spec => []LooperRestored
<1>1. LooperInv => LooperRestored  BY DEF LooperInv
<1> QED  BY <1>1, LooperInvariant, PTL

-----------------------------------------------------------------------------
(* The queue as those that post see it.                                     *)

Pending ==
  [i \in DOMAIN queue |-> [id |-> msgs[queue[i]].post, due |-> due[msgs[queue[i]].post]]]
Running == {msgs[m].post : m \in Held}
Entries == [id : Nat, due : 0..MaxTime]
TimedStep == [TimedQueue!Next]_(TimedQueue!vars)

LEMMA PendingFacts ==
  ASSUME LooperInv
  PROVE  /\ Pending \in Seq(Entries) /\ Len(Pending) = Len(queue) /\ DOMAIN Pending = DOMAIN queue
         /\ \A i \in DOMAIN queue : queue[i] \in InUse /\ queue[i] \in DOMAIN msgs
         /\ \A m \in InUse : m \in DOMAIN msgs /\ msgs[m].post \in 1..Len(due) /\ due[msgs[m].post] = msgs[m].when
<1>0. LooperTypes  BY DEF LooperInv
<1>1. /\ DOMAIN queue = 1..Len(queue) /\ Len(queue) \in Nat /\ DOMAIN due = 1..Len(due) /\ Len(due) \in Nat
      /\ \A p \in DOMAIN due : due[p] \in 0..MaxTime
  BY <1>0, Objects, ElementOfSeq DEF LooperTypes
<1>2. \A m \in InUse : m \in DOMAIN msgs /\ msgs[m].post \in 1..Len(due) /\ due[msgs[m].post] = msgs[m].when
  BY <1>0, <1>1, Objects, HeldWhere DEF LooperInv, Carried, InUse
<1>3. \A i \in DOMAIN queue : queue[i] \in InUse  BY DEF InUse, Range
<1>4. ASSUME NEW i \in DOMAIN queue
      PROVE  [id |-> msgs[queue[i]].post, due |-> due[msgs[queue[i]].post]] \in Entries
  BY <1>1, <1>2, <1>3 DEF Entries
<1>5. Pending \in [1..Len(queue) -> Entries]  BY <1>1, <1>4 DEF Pending
<1>6. Pending \in Seq(Entries) /\ DOMAIN Pending = 1..Len(queue)  BY <1>1, <1>5, IsASeq
<1>7. Len(Pending) = Len(queue)  BY <1>1, <1>6, LenProperties
<1> QED  BY <1>1, <1>2, <1>3, <1>6, <1>7

\* The objects that are in use keep what they carry.
LEMMA CarryOn ==
  ASSUME LooperInv, NEW U, U \subseteq InUse,
         \A m \in U : m \in DOMAIN msgs => msgs'[m] = msgs[m], \A p \in DOMAIN due : due'[p] = due[p]
  PROVE  \A m \in U : msgs'[m].post = msgs[m].post /\ due'[msgs'[m].post] = due[msgs[m].post]
<1>1. DOMAIN due = 1..Len(due)  BY Objects DEF LooperInv
<1> QED  BY <1>1, PendingFacts

LEMMA TimedPost ==
  ASSUME LooperInv, NEW t \in Threads, NEW c \in Callbacks, NEW when \in 0..MaxTime, Post(t, c, when)
  PROVE  TimedQueue!Post(when)
<1>0. LooperTypes  BY DEF LooperInv
<1>1. /\ due' \in Seq(0..MaxTime) /\ DOMAIN due' = 1..(Len(due) + 1) /\ Len(due') = Len(due) + 1
      /\ due'[Len(due) + 1] = when /\ \A p \in DOMAIN due : due'[p] = due[p]
      /\ msgs'[Obtained] = [callback |-> c, when |-> when, post |-> Len(due) + 1]
      /\ \A i \in DOMAIN msgs : i # Obtained => msgs'[i] = msgs[i]
  BY PostFacts
<1>2. /\ \/ quitting /\ queue' = queue
         \/ ~quitting /\ queue' = Append(queue, Obtained)
      /\ now' = now /\ quitting' = quitting /\ calls' = calls
  BY DEF Post, Enqueue
<1>3. \A m \in InUse : msgs'[m].post = msgs[m].post /\ due'[msgs'[m].post] = due[msgs[m].post]
  BY <1>1, ObtainedFacts, CarryOn
<1>4. Held' = Held
  <2>1. DOMAIN msgs' = DOMAIN msgs \cup {Obtained}  BY PostFacts
  <2>2. \A u \in Dispatchers : \A i \in DOMAIN calls[u] : calls[u][i].msg \in {NoMessage} \cup DOMAIN msgs
    BY <1>0, Objects DEF Frames
  <2> QED  BY <1>2, <2>1, <2>2, ObtainedFacts DEF Held
<1>5. Running' = Running  BY <1>3, <1>4 DEF Running, InUse
<1>6. Pending \in Seq(Entries) /\ Len(Pending) = Len(queue) /\ DOMAIN Pending = DOMAIN queue
      /\ \A i \in DOMAIN queue : queue[i] \in InUse
  BY PendingFacts
<1> DEFINE e == [id |-> Len(due)', due |-> when]
<1>7. CASE quitting
  <2>1. Pending' = Pending  BY <1>2, <1>3, <1>6, <1>7 DEF Pending
  <2> QED  BY <1>1, <1>2, <1>5, <1>7, <2>1 DEF TimedQueue!Post, Pending, Running
<1>8. CASE ~quitting
  <2>1. queue' = Append(queue, Obtained) /\ queue \in Seq(DOMAIN msgs)  BY <1>0, <1>2, <1>8 DEF LooperTypes
  <2>2. /\ DOMAIN queue' = 1..(Len(queue) + 1) /\ Len(queue) \in Nat /\ DOMAIN queue = 1..Len(queue)
        /\ \A i \in DOMAIN queue : queue'[i] = queue[i]
        /\ queue'[Len(queue) + 1] = Obtained
    BY <2>1, AppendOf
  <2>3. /\ DOMAIN Append(Pending, e) = 1..(Len(queue) + 1)
        /\ \A i \in DOMAIN queue : Append(Pending, e)[i] = Pending[i]
        /\ Append(Pending, e)[Len(queue) + 1] = e
    <3> HIDE DEF e
    <3> QED  BY <1>6, AppendOf
  <2>4. ASSUME NEW i \in DOMAIN queue'
        PROVE  [id |-> msgs'[queue'[i]].post, due |-> due'[msgs'[queue'[i]].post]] = Append(Pending, e)[i]
    <3>1. CASE i \in DOMAIN queue
      <4>1. Append(Pending, e)[i] = [id |-> msgs[queue[i]].post, due |-> due[msgs[queue[i]].post]]
        BY <2>3, <3>1 DEF Pending
      <4>2. queue'[i] = queue[i] /\ queue[i] \in InUse  BY <1>6, <2>2, <3>1
      <4> QED  BY <1>3, <4>1, <4>2
    <3>2. CASE i = Len(queue) + 1
      <4>1. queue'[i] = Obtained /\ msgs'[queue'[i]].post = Len(due) + 1  BY <1>1, <2>2, <3>2
      <4> QED  BY <1>1, <2>3, <3>2, <4>1
    <3>3. i \in DOMAIN queue \/ i = Len(queue) + 1  BY <2>2, <2>4
    <3> HIDE DEF e
    <3> QED  BY <3>1, <3>2, <3>3
  <2>5. Pending' = Append(Pending, e)
    <3>1. Append(Pending, e) = [i \in 1..(Len(queue) + 1) |-> Append(Pending, e)[i]]
      <4> HIDE DEF e
      <4>1. Append(Pending, e) \in Seq(Entries \cup {e})
        <5>1. Pending \in Seq(Entries \cup {e}) /\ e \in Entries \cup {e}  BY <1>6, SeqMonotonic
        <5> QED  BY <5>1, AppendProperties
      <4> QED  BY <2>3, <4>1, AsFunction, Zenon
    <3> HIDE DEF e
    <3> QED  BY <2>2, <2>4, <3>1 DEF Pending
  <2> QED  BY <1>1, <1>2, <1>5, <1>8, <2>5 DEF TimedQueue!Post, Pending, Running
<1> QED  BY <1>7, <1>8

LEMMA TimedRemove ==
  ASSUME LooperInv, NEW t \in Threads, NEW c \in Callbacks, RemoveCallbacks(t, c)
  PROVE  TimedQueue!Remove
<1> DEFINE kept == {i \in DOMAIN queue : msgs[queue[i]].callback # c}
<1>1. PICK place \in TimedQueue!InOrder(kept) : queue' = [k \in DOMAIN place |-> queue[place[k]]]
  BY DEF RemoveCallbacks
<1>2. UNCHANGED <<now, msgs, quitting, calls, due>>  BY DEF RemoveCallbacks
<1>3. kept \in SUBSET DOMAIN queue /\ queue \in Seq(DOMAIN msgs)  BY DEF LooperInv, LooperTypes
<1> HIDE DEF kept
<1>4. DOMAIN queue' = DOMAIN place /\ \A k \in DOMAIN place : place[k] \in DOMAIN queue /\ queue'[k] = queue[place[k]]
  BY <1>1, <1>3, Thinned
<1>5. Pending' = [k \in DOMAIN place |-> Pending[place[k]]]  BY <1>2, <1>4 DEF Pending
<1>6. Running' = Running  BY <1>2 DEF Running, Held
<1>7. kept \in SUBSET DOMAIN Pending  BY <1>3, PendingFacts
<1> QED  BY <1>1, <1>2, <1>5, <1>6, <1>7 DEF TimedQueue!Remove, Pending, Running

LEMMA TimedHand ==
  ASSUME LooperInv, NEW t \in Dispatchers, Take(t)
  PROVE  TimedQueue!Hand
<1>0. LooperTypes  BY DEF LooperInv
<1>1. /\ queue # <<>> /\ msgs[Head(queue)].when <= now /\ queue' = Tail(queue)
      /\ UNCHANGED <<now, msgs, quitting, due>>
  BY DEF Take, Ready
<1>2. Held' = Held \cup {Head(queue)}  BY TakeFacts
<1>3. /\ Pending \in Seq(Entries) /\ Len(Pending) = Len(queue) /\ DOMAIN Pending = DOMAIN queue
      /\ \A m \in InUse : due[msgs[m].post] = msgs[m].when
  BY PendingFacts
<1>4. queue \in Seq(DOMAIN msgs)  BY <1>0 DEF LooperTypes
<1>5. /\ Len(queue) \in Nat \ {0} /\ Head(queue) = queue[1] /\ Head(queue) \in Range(queue)
      /\ Tail(queue) \in Seq(DOMAIN msgs) /\ Len(Tail(queue)) = Len(queue) - 1
      /\ \A i \in 1..(Len(queue) - 1) : i + 1 \in 1..Len(queue) /\ Tail(queue)[i] = queue[i + 1]
  BY <1>1, <1>4, TailOf
<1>6. DOMAIN queue = 1..Len(queue) /\ DOMAIN Tail(queue) = 1..(Len(queue) - 1)
  BY <1>4, <1>5, LenProperties
<1>7. Pending # <<>>  BY <1>3, <1>5, EmptySeq
<1>8. /\ Head(Pending) = Pending[1] /\ Tail(Pending) \in Seq(Entries) /\ Len(Tail(Pending)) = Len(queue) - 1
      /\ \A i \in 1..(Len(queue) - 1) : Tail(Pending)[i] = Pending[i + 1]
  BY <1>3, <1>7, TailOf
<1>9. Pending[1] = [id |-> msgs[Head(queue)].post, due |-> due[msgs[Head(queue)].post]]
  BY <1>5, <1>6 DEF Pending
<1>10. Head(Pending).id = msgs[Head(queue)].post /\ Head(Pending).due <= now
  BY <1>1, <1>3, <1>5, <1>8, <1>9 DEF InUse
<1>11. Pending' = Tail(Pending)
  <2>1. Tail(Pending) = [i \in 1..(Len(queue) - 1) |-> Tail(Pending)[i]]
    BY <1>8, LenProperties
  <2>2. \A i \in 1..(Len(queue) - 1) : Tail(Pending)[i] = [id |-> msgs[queue[i + 1]].post, due |-> due[msgs[queue[i + 1]].post]]
    BY <1>5, <1>6, <1>8 DEF Pending
  <2>3. Pending' = [i \in 1..(Len(queue) - 1) |-> [id |-> msgs[queue[i + 1]].post, due |-> due[msgs[queue[i + 1]].post]]]
    BY <1>1, <1>5, <1>6 DEF Pending
  <2> QED  BY <2>1, <2>2, <2>3
<1>12. Running' = Running \cup {Head(Pending).id}
  BY <1>1, <1>2, <1>10 DEF Running
<1> QED  BY <1>1, <1>7, <1>10, <1>11, <1>12 DEF TimedQueue!Hand, Pending, Running

LEMMA TimedDone ==
  ASSUME LooperInv, NEW t \in Dispatchers, Recycle(t)
  PROVE  TimedQueue!Done
<1> DEFINE m == Call(t).msg
<1>1. /\ m \in Held /\ m \in DOMAIN msgs /\ Held' = Held \ {m}
      /\ \A n \in DOMAIN msgs : n # m => msgs'[n] = msgs[n]
  BY RecycleFacts
<1>2. UNCHANGED <<now, queue, quitting, due>>  BY DEF Recycle
<1> HIDE DEF m
<1>3. /\ \A i \in DOMAIN queue : queue[i] \in InUse /\ queue[i] # m /\ queue[i] \in DOMAIN msgs
      /\ \A n \in InUse : n \in DOMAIN msgs
  BY <1>1, PendingFacts DEF LooperInv, Placed, Range
<1>4. Pending' = Pending  BY <1>1, <1>2, <1>3 DEF Pending
<1>5. Running' = Running \ {msgs[m].post}
  <2>1. ASSUME NEW n \in Held, n # m PROVE msgs'[n].post = msgs[n].post /\ msgs[n].post # msgs[m].post
    BY <1>1, <1>3, <2>1 DEF LooperInv, CarriedOnce, InUse
  <2> QED  BY <1>1, <2>1 DEF Running
<1>6. msgs[m].post \in Running  BY <1>1 DEF Running
<1> QED  BY <1>2, <1>4, <1>5, <1>6 DEF TimedQueue!Done, Pending, Running

\* The steps that neither post, take, finish nor remove a message.
LEMMA TimedUnseen ==
  ASSUME Held' = Held, UNCHANGED <<msgs, queue, due>>
  PROVE  Len(due)' = Len(due) /\ Pending' = Pending /\ Running' = Running
BY DEF Pending, Running

LEMMA TimedSame ==
  ASSUME Held' = Held, UNCHANGED <<now, msgs, queue, quitting, due>>
  PROVE  UNCHANGED TimedQueue!vars
BY TimedUnseen DEF TimedQueue!vars, Pending, Running

LEMMA TimedFrame ==
  ASSUME UNCHANGED looperVars
  PROVE  UNCHANGED TimedQueue!vars
<1>1. UNCHANGED <<now, msgs, queue, quitting, due, calls>>  BY DEF looperVars
<1>2. Held' = Held  BY <1>1 DEF Held
<1> QED  BY <1>1, <1>2, TimedSame

LEMMA TimedInit == Init => TimedQueue!Init
<1> SUFFICES ASSUME Init PROVE TimedQueue!Init  OBVIOUS
<1>1. /\ now = 0 /\ queue = <<>> /\ quitting = FALSE /\ due = <<>> /\ msgs = <<>>
  BY DEF Init
<1>2. Len(due) = 0 /\ Pending = <<>>  BY <1>1 DEF Pending
<1>3. Running = {}  BY <1>1 DEF Running, Held
<1> QED  BY <1>1, <1>2, <1>3 DEF TimedQueue!Init, Pending, Running

LEMMA TimedNext == LooperInv /\ [Next]_vars => TimedStep
<1> SUFFICES ASSUME LooperInv, [Next]_vars PROVE TimedStep  OBVIOUS
<1> USE DEF TimedStep, TimedQueue!Next
<1>1. ASSUME NEW t \in Threads, NEW c \in Callbacks, NEW when \in Times \cap 0..MaxTime, Post(t, c, when)
      PROVE  TimedStep
  <2>1. when \in 0..MaxTime  OBVIOUS
  <2> QED  BY <1>1, <2>1, TimedPost
<1>2. ASSUME NEW t \in Threads, NEW c \in Callbacks, RemoveCallbacks(t, c) PROVE TimedStep
  BY <1>2, TimedRemove
<1>3. ASSUME NEW t \in Threads, Quit(t) PROVE TimedStep
  <2>1. UNCHANGED <<now, msgs, queue, calls, due>> /\ quitting' = TRUE  BY <1>3 DEF Quit
  <2>2. Held' = Held  BY <2>1 DEF Held
  <2>3. Len(due)' = Len(due) /\ Pending' = Pending /\ Running' = Running  BY <2>1, <2>2, TimedUnseen
  <2>4. TimedQueue!Close  BY <2>1, <2>3 DEF TimedQueue!Close, Pending, Running
  <2> QED  BY <2>4
<1>4. ASSUME NEW t \in Dispatchers, DrainBegin(t) PROVE TimedStep
  BY <1>4, BeginKeeps, TimedSame DEF DrainBegin
<1>5. ASSUME NEW t \in Dispatchers, Take(t) PROVE TimedStep
  BY <1>5, TimedHand
<1>6. ASSUME NEW t \in Dispatchers, Recycle(t) PROVE TimedStep
  BY <1>6, TimedDone
<1>7. ASSUME NEW t \in Dispatchers, DrainEnd(t) PROVE TimedStep
  BY <1>7, EndKeeps, TimedSame DEF DrainEnd
<1>8. CASE \/ EventsDispatched \/ Drawn \/ DrawThrows \/ NotifyBegin \/ RunTask \/ TaskEnd \/ NotifyEnd
           \/ \E t \in Threads, l \in Lists, c \in Tasks : PostTask(t, l, c)
           \/ \E t \in Threads, c \in Tasks : RemoveFrameCallback(t, c)
  <2>1. UNCHANGED looperVars
    BY <1>8 DEF EventsDispatched, Drawn, DrawThrows, NotifyBegin, RunTask, TaskEnd, NotifyEnd, PostTask, RemoveFrameCallback
  <2> QED  BY <2>1, TimedFrame
<1>9. CASE Tick
  <2>1. UNCHANGED <<msgs, queue, quitting, calls, due>> /\ now' = now + 1  BY <1>9 DEF Tick
  <2>2. Held' = Held  BY <2>1 DEF Held
  <2>3. Len(due)' = Len(due) /\ Pending' = Pending /\ Running' = Running  BY <2>1, <2>2, TimedUnseen
  <2>4. TimedQueue!Tick  BY <2>1, <2>3 DEF TimedQueue!Tick, Pending, Running
  <2> QED  BY <2>4
<1>10. CASE UNCHANGED vars
  <2>1. UNCHANGED looperVars  BY <1>10 DEF vars
  <2> QED  BY <2>1, TimedFrame
<1> QED  BY <1>1, <1>2, <1>3, <1>4, <1>5, <1>6, <1>7, <1>8, <1>9, <1>10 DEF Next

\* Every step of the looper is a step of the timed queue or none of its own:
\* messages are handed over in the order they were posted, once, as they were
\* posted and not before their time, although Message objects are reused.
THEOREM LooperImplementsQueue == Spec => QueueIsTimed
BY TimedInit, TimedNext, LooperInvariant, PTL DEF Spec, QueueIsTimed, TimedQueue!Spec, TimedStep
=============================================================================

------------------------- MODULE NovaIpcCallProofs -------------------------
(***************************************************************************)
(* Proofs about the conversations NovaIpc carries on: full type             *)
(* correctness, silence between two calls, and that the transport           *)
(* implements NovaRpc, for every value of the constants.                    *)
(***************************************************************************)
EXTENDS NovaIpcProofs

Holding == pc \in {"recvBody", "handle", "replyHdr", "replyBody"}

\* The server has taken the header of c's current request and not yet answered in full.
Holds(c) == Holding /\ Cur = c

\* The rest of TypeOK.
TalkTypes ==
  /\ running \in BOOLEAN /\ stopCalled \in BOOLEAN /\ listenReady \in BOOLEAN
  /\ cur \in Request \cup {NoRequest}
  /\ Holding => cur \in Request
  /\ s2c \in [Conns -> Seq(RepPart)]
  /\ result \in [Conns -> Int] /\ garbled \in [Conns -> BOOLEAN]
  /\ served \in [Conns -> Seq([call : 1 .. MaxCalls, code : Int])]

\* A header that announces data, which are the next part of their stream.
Opens(p) == p.part = "hdr" /\ p.body
ReadingBody(c) == pc = "recvBody" /\ Cur = c

\* The client is to write the data of the header it or the server has come to last.
Owed(c) == IF Len(c2s[c]) > 0 THEN Opens(c2s[c][Len(c2s[c])]) ELSE ReadingBody(c)

\* The requests in the stream are whole, one after the other, however many a
\* client that no longer waits for its replies has sent: the server finds a header
\* where it reads one.  This does not depend on the replies.
Framed(c) ==
  srvEnd[c] # "closed" =>
    /\ Len(c2s[c]) > 0 => (c2s[c][1].part = "body" <=> ReadingBody(c))
    /\ \A i \in 1 .. Len(c2s[c]) - 1 : c2s[c][i + 1].part = "body" <=> Opens(c2s[c][i])
    /\ cli[c] # "gone" => (cli[c] = "sendBody" <=> Owed(c))

\* The handler has run for the current call of c, and with which code.
Executed(c) == Len(served[c]) > 0 /\ served[c][Len(served[c])].call = call[c]
Code(c) == served[c][Len(served[c])].code

\* The history of c has no call of the future, and codes only.
HistoryOf(c) ==
  Len(served[c]) > 0 => /\ served[c][Len(served[c])].call <= call[c]
                        /\ Code(c) \in HandlerRcs \cup {UnknownCode}

\* What lies between the client's writes and the server's reads.
RequestOf(c) ==
  /\ srvEnd[c] # "closed" /\ ~Holds(c) /\ Len(c2s[c]) > 0 =>
       /\ c2s[c][1].part = "hdr" /\ c2s[c][1].call = call[c] /\ call[c] > 0 /\ ~Executed(c)
       /\ Len(c2s[c]) <= (IF c2s[c][1].body THEN 2 ELSE 1)
  /\ Holds(c) =>
       /\ cur.call = call[c]
       /\ pc = "recvBody" => Len(c2s[c]) <= 1 /\ ~Executed(c)
       /\ pc # "recvBody" => Len(c2s[c]) = 0
       /\ pc = "handle" => ~Executed(c)
       /\ pc \in {"replyHdr", "replyBody"} => Executed(c) /\ FromStatus(cur.status) = Code(c)
       /\ pc = "replyBody" => cur.out

\* The first part of the reply announces the code of the execution.
Announced(c) ==
  /\ Len(s2c[c]) > 0 /\ s2c[c][1].part = "hdr"
  /\ Executed(c) /\ FromStatus(s2c[c][1].status) = Code(c)

\* The request is still on its way: all of it is written and none is read.
Sent(c) == ~Holds(c) /\ Len(c2s[c]) > 0 /\ Len(c2s[c]) = (IF c2s[c][1].body THEN 2 ELSE 1)

\* Nothing of the request is left, unless nobody is going to read it.
Consumed(c) == ~Holds(c) /\ (srvEnd[c] # "closed" => Len(c2s[c]) = 0)

\* Where the conversation is, seen from a client that is in it.
CallOf(c) ==
  /\ cli[c] \in {"new", "ready"} => Len(s2c[c]) = 0 /\ Consumed(c)
  /\ cli[c] = "sendBody" =>
       /\ Len(s2c[c]) = 0 /\ call[c] > 0 /\ ~Executed(c)
       /\ \/ srvEnd[c] = "closed"
          \/ ~Holds(c) /\ Len(c2s[c]) = 1 /\ c2s[c][1].body
          \/ Holds(c) /\ pc = "recvBody" /\ Len(c2s[c]) = 0
  /\ cli[c] = "recvHdr" =>
       \/ Len(s2c[c]) = 0 /\ srvEnd[c] = "closed"
       \/ Len(s2c[c]) = 0 /\ Sent(c)
       \/ Len(s2c[c]) = 0 /\ Holds(c) /\ pc = "recvBody" /\ Len(c2s[c]) = 1
       \/ Len(s2c[c]) = 0 /\ Holds(c) /\ pc \in {"handle", "replyHdr"}
       \/ Announced(c) /\ Len(s2c[c]) = 1 /\ s2c[c][1].body /\ Holds(c) /\ pc = "replyBody"
       \/ Announced(c) /\ Consumed(c) /\ Len(s2c[c]) = (IF s2c[c][1].body THEN 2 ELSE 1)
  /\ cli[c] = "recvBody" =>
       /\ Executed(c) /\ result[c] = Code(c)
       /\ \/ Len(s2c[c]) = 0 /\ Holds(c) /\ pc = "replyBody"
          \/ Len(s2c[c]) = 1 /\ Consumed(c)
  /\ cli[c] \in {"sendBody", "recvHdr", "recvBody"} => call[c] > 0

Talk(c) == HistoryOf(c) /\ RequestOf(c) /\ CallOf(c)
\* The conversation of a handle whose replies all found memory.
InStep(c) == garbled[c] \/ Talk(c)
TalkInv == TalkTypes /\ \A c \in Conns : Framed(c) /\ InStep(c)
CallInv == TableInv /\ TalkInv


(* Lengths, first elements and emptiness.                                       *)
LEMMA LenFacts ==
  ASSUME NEW S, NEW s \in Seq(S)
  PROVE  /\ Len(s) \in Nat /\ (s = <<>> <=> Len(s) = 0)
         /\ Len(s) > 0 => s[1] \in S /\ s[Len(s)] \in S
OBVIOUS

(* Arithmetic on lengths, for a first-order prover to instantiate.              *)
LEMMA SmallNumbers ==
  \A n \in Nat : n > 0 => (n <= 1 => n = 1 /\ n - 1 = 0) /\ (n <= 2 => n - 1 <= 1)
OBVIOUS

(* A code crosses the wire as an unsigned word and comes back as itself.        *)
LEMMA StatusFacts ==
  /\ \A rc \in HandlerRcs : rc \in Int /\ ToStatus(rc) \in 0 .. Word - 1 /\ FromStatus(ToStatus(rc)) = rc
  /\ UnknownStatus \in 0 .. Word - 1 /\ FromStatus(UnknownStatus) = UnknownCode
  /\ \A s \in 0 .. Word - 1 : FromStatus(s) \in Int
<1>1. ASSUME NEW rc \in HandlerRcs
      PROVE  rc \in Int /\ ToStatus(rc) = -rc /\ -rc \in 0 .. Word - 1 /\ -rc < Word \div 2
  <2>1. rc \in Int /\ -rc \in Nat /\ -rc < Word \div 2 /\ Word \in Nat \ {0}
    BY WordAssumption
  <2>2. -rc < Word
    BY <2>1
  <2>3. (-rc) % Word = -rc
    BY <2>1, <2>2
  <2> QED
    BY <2>1, <2>2, <2>3 DEF ToStatus
<1>2. \A rc \in HandlerRcs : FromStatus(ToStatus(rc)) = rc
  BY <1>1 DEF FromStatus
<1>3. UnknownStatus \in 0 .. Word - 1 /\ FromStatus(UnknownStatus) = UnknownCode
  BY WordAssumption DEF UnknownStatus, UnknownCode, FromStatus
<1>4. \A s \in 0 .. Word - 1 : FromStatus(s) \in Int
  BY WordAssumption DEF FromStatus
<1> QED
  BY <1>1, <1>2, <1>3, <1>4

(* The server only serves connections whose end it has open.                    *)
LEMMA ServedIsOpen ==
  ASSUME TableInv, Serving
  PROVE  Cur \in Conns /\ srvEnd[Cur] = "open"
<1>1. idx \in 0 .. nClients - 1 /\ clientFds[idx] \in Fds
  BY SizeAssumption DEF Serving, TableInv, TableTypes, TableExact, Slots, Fds
<1> QED
  BY <1>1, ConnAssumption DEF Cur, Serving, InLoop, TableInv, TableTypes, TableExact, OwnersExact

LEMMA HeldIsOpen ==
  ASSUME TableInv, NEW c \in Conns, Holds(c)
  PROVE  srvEnd[c] = "open"
BY ServedIsOpen DEF Holds, Holding, Serving

(* The initial state: nobody has said anything.                                 *)
LEMMA InitTalk == Init => TalkInv
<1> SUFFICES ASSUME Init PROVE TalkInv
  OBVIOUS
<1>1. TalkTypes
  <2>1. cur = NoRequest /\ ~Holding
    BY DEF Init, Holding
  <2>2. \A S : [c \in Conns |-> <<>>] \in [Conns -> Seq(S)]
    OBVIOUS
  <2>3. [c \in Conns |-> 0] \in [Conns -> Int] /\ [c \in Conns |-> FALSE] \in [Conns -> BOOLEAN]
    OBVIOUS
  <2> QED
    BY <2>1, <2>2, <2>3 DEF Init, TalkTypes
<1>2. ASSUME NEW c \in Conns PROVE Framed(c) /\ InStep(c)
  <2>1. /\ Len(c2s[c]) = 0 /\ Len(s2c[c]) = 0 /\ Len(served[c]) = 0
        /\ cli[c] = "new" /\ ~Holds(c) /\ ~ReadingBody(c)
    BY DEF Init, Holds, Holding, ReadingBody
  <2>2. Talk(c)
    BY <2>1 DEF Talk, HistoryOf, RequestOf, CallOf, Consumed
  <2>3. Framed(c)
    BY <2>1 DEF Framed, Owed
  <2> QED
    BY <2>2, <2>3 DEF InStep
<1> QED
  BY <1>1, <1>2 DEF TalkInv

(* A step that leaves a conversation alone, or closes the server's end of it     *)
(* while the server holds no request of it.                                      *)
LEMMA TalkFrame ==
  ASSUME NEW d \in Conns, Talk(d),
         Holds(d)' <=> Holds(d), Holds(d) => pc' = pc /\ cur' = cur,
         cli'[d] = cli[d], call'[d] = call[d], result'[d] = result[d],
         served'[d] = served[d], s2c'[d] = s2c[d],
         c2s'[d] = c2s[d] \/ (srvEnd'[d] = "closed" /\ ~Holds(d)),
         srvEnd[d] = "closed" => srvEnd'[d] = "closed",
         srvEnd'[d] = "closed" /\ srvEnd[d] # "closed" => ~Holds(d)
  PROVE  Talk(d)'
<1>1. (Executed(d)' <=> Executed(d)) /\ Code(d)' = Code(d)
  BY DEF Executed, Code
<1>2. HistoryOf(d)'
  BY <1>1 DEF Talk, HistoryOf
<1>3. RequestOf(d)'
  BY <1>1 DEF Talk, RequestOf
<1>4. CallOf(d)'
  BY <1>1 DEF Talk, CallOf, Announced, Sent, Consumed
<1> QED
  BY <1>2, <1>3, <1>4 DEF Talk

(* A stream that no one writes or reads stays framed.                            *)
LEMMA FramedFrame ==
  ASSUME NEW d \in Conns, Framed(d), c2s'[d] = c2s[d],
         ReadingBody(d)' <=> ReadingBody(d),
         cli'[d] # "gone" => cli[d] # "gone" /\ (cli'[d] = "sendBody" <=> cli[d] = "sendBody"),
         srvEnd[d] = "closed" => srvEnd'[d] = "closed"
  PROVE  Framed(d)'
<1>1. Owed(d)' <=> Owed(d)
  BY DEF Owed
<1> QED
  BY <1>1 DEF Framed

(* So does one to which its client writes what it owes, or a header if nothing.  *)
LEMMA FramedAppend ==
  ASSUME NEW d \in Conns, Framed(d), c2s[d] \in Seq(ReqPart), NEW p \in ReqPart,
         c2s'[d] = Append(c2s[d], p), cli[d] # "gone", srvEnd' = srvEnd,
         p.part = "body" <=> cli[d] = "sendBody",
         cli'[d] = "sendBody" <=> Opens(p),
         ReadingBody(d)' <=> ReadingBody(d)
  PROVE  Framed(d)'
<1> DEFINE n == Len(c2s[d])
<1>1. /\ n \in Nat /\ Len(c2s'[d]) = n + 1 /\ c2s'[d][n + 1] = p
      /\ \A i \in 1 .. n : c2s'[d][i] = c2s[d][i]
  BY AppendFacts
<1> SUFFICES ASSUME srvEnd[d] # "closed" PROVE Framed(d)'
  BY DEF Framed
<1>2. /\ n > 0 => (c2s[d][1].part = "body" <=> ReadingBody(d))
      /\ \A i \in 1 .. n - 1 : c2s[d][i + 1].part = "body" <=> Opens(c2s[d][i])
      /\ p.part = "body" <=> Owed(d)
  BY DEF Framed
<1>3. c2s'[d][1].part = "body" <=> ReadingBody(d)'
  <2>1. CASE n = 0
    BY <1>1, <1>2, <2>1 DEF Owed
  <2>2. CASE n > 0
    BY <1>1, <1>2, <2>2
  <2> QED
    BY <1>1, <2>1, <2>2
<1>4. ASSUME NEW i \in 1 .. n PROVE c2s'[d][i + 1].part = "body" <=> Opens(c2s'[d][i])
  <2>1. CASE i = n
    BY <1>1, <1>2, <2>1 DEF Owed
  <2>2. CASE i < n
    BY <1>1, <1>2, <2>2
  <2> QED
    BY <1>1, <2>1, <2>2
<1>5. Owed(d)' <=> Opens(p)
  BY <1>1 DEF Owed
<1> QED
  BY <1>1, <1>3, <1>4, <1>5 DEF Framed

(* And one from which the server takes a header, then its data, or its data.     *)
LEMMA FramedTail ==
  ASSUME NEW d \in Conns, Framed(d), c2s[d] \in Seq(ReqPart), Len(c2s[d]) > 0,
         c2s'[d] = Tail(c2s[d]), cli' = cli, srvEnd' = srvEnd,
         ReadingBody(d)' <=> Opens(c2s[d][1])
  PROVE  Framed(d)'
<1> DEFINE n == Len(c2s[d])
<1>1. /\ n \in Nat \ {0} /\ Len(c2s'[d]) = n - 1
      /\ \A i \in 1 .. n - 1 : c2s'[d][i] = c2s[d][i + 1]
  BY TailFacts
<1> SUFFICES ASSUME srvEnd[d] # "closed" PROVE Framed(d)'
  BY DEF Framed
<1>2. /\ \A i \in 1 .. n - 1 : c2s[d][i + 1].part = "body" <=> Opens(c2s[d][i])
      /\ cli[d] # "gone" => (cli[d] = "sendBody" <=> Owed(d))
  BY DEF Framed
<1>3. n - 1 > 0 => (c2s'[d][1].part = "body" <=> ReadingBody(d)')
  BY <1>1, <1>2
<1>4. ASSUME NEW i \in 1 .. n - 2 PROVE c2s'[d][i + 1].part = "body" <=> Opens(c2s'[d][i])
  <2>1. i + 1 \in 1 .. n - 1 /\ i \in 1 .. n - 1
    BY <1>1
  <2>2. c2s[d][i + 1 + 1].part = "body" <=> Opens(c2s[d][i + 1])
    BY <1>2, <2>1
  <2> QED
    BY <1>1, <2>1, <2>2
<1>5. Owed(d)' <=> Owed(d)
  <2>1. CASE n = 1
    BY <1>1, <2>1 DEF Owed
  <2>2. CASE n > 1
    <3>1. c2s'[d][n - 1] = c2s[d][n]
      BY <1>1, <2>2
    <3> QED
      BY <1>1, <2>2, <3>1 DEF Owed
  <2>n. \A m \in Nat \ {0} : m = 1 \/ m > 1
    OBVIOUS
  <2>3. n = 1 \/ n > 1
    BY <1>1, <2>n, Zenon
  <2> QED
    BY <2>1, <2>2, <2>3
<1>6. (n - 1) - 1 = n - 2
  BY <1>1
<1> QED
  BY <1>1, <1>2, <1>3, <1>4, <1>5, <1>6 DEF Framed

(* What a client does keeps the requests framed.                                 *)
LEMMA ClientFramed ==
  ASSUME TableInv, TalkInv, NEW c \in Conns, ClientStep(c), NEW d \in Conns
  PROVE  Framed(d)'
<1>t. /\ cli \in [Conns -> ClientStates] /\ call \in [Conns -> 0 .. MaxCalls]
      /\ c2s \in [Conns -> Seq(ReqPart)] /\ MaxCalls \in Nat
  BY SizeAssumption DEF TableInv, TableTypes
<1>k. Framed(d)
  BY DEF TalkInv
<1>s. UNCHANGED <<pc, clientFds, fdTab, idx, srvEnd>>
  BY DEF ClientStep, Connect, ConnectRefused, SendHdr, FinishCall, SendBody, SendFails,
         RecvReplyHdr, ReplyGrowFails, Misread, RecvReplyBody, RecvFails, Leave, serverVars
<1>r. ReadingBody(d)' <=> ReadingBody(d)
  BY <1>s DEF ReadingBody, Cur
<1>1. CASE d = c /\ \E svc \in SvcIds, body \in BOOLEAN : SendHdr(c, svc, body)
  <2>1. PICK svc \in SvcIds, body \in BOOLEAN : SendHdr(c, svc, body)
    BY <1>1
  <2> DEFINE h == [part |-> "hdr", call |-> call[c] + 1, svc |-> svc, body |-> body]
  <2>2. /\ cli[c] = "ready" /\ c2s'[c] = Append(c2s[c], h) /\ h \in ReqPart
        /\ cli'[c] = (IF body THEN "sendBody" ELSE "recvHdr")
    BY <2>1, <1>t DEF SendHdr, ReqPart
  <2>3. (h.part = "body" <=> cli[c] = "sendBody") /\ (cli'[c] = "sendBody" <=> Opens(h))
    BY <2>2 DEF Opens
  <2> QED
    BY <1>1, <2>2, <2>3, <1>t, <1>k, <1>s, <1>r, FramedAppend
<1>2. CASE d = c /\ SendBody(c)
  <2> DEFINE p == [part |-> "body", call |-> call[c]]
  <2>1. /\ cli[c] = "sendBody" /\ cli'[c] = "recvHdr"
        /\ c2s'[c] = Append(c2s[c], p) /\ p \in ReqPart
    BY <1>2, <1>t DEF SendBody, ReqPart
  <2>2. (p.part = "body" <=> cli[c] = "sendBody") /\ (cli'[c] = "sendBody" <=> Opens(p))
    BY <2>1 DEF Opens
  <2> QED
    BY <1>2, <2>1, <2>2, <1>t, <1>k, <1>s, <1>r, FramedAppend
<1>3. CASE d = c /\ (SendFails(c) \/ RecvFails(c))
  BY <1>3, <1>s DEF SendFails, RecvFails, Framed
<1>4. CASE d = c /\ (\/ Connect(c) \/ ConnectRefused(c) \/ RecvReplyHdr(c) \/ ReplyGrowFails(c)
                     \/ Misread(c) \/ RecvReplyBody(c) \/ Leave(c))
  <2>1. c2s' = c2s
    BY <1>4 DEF Connect, ConnectRefused, RecvReplyHdr, ReplyGrowFails, Misread, RecvReplyBody, Leave
  <2>2. cli'[c] # "gone" => cli[c] \notin {"gone", "sendBody"} /\ cli'[c] # "sendBody"
    BY <1>4, <1>t DEF Connect, ConnectRefused, RecvReplyHdr, ReplyGrowFails, Misread, RecvReplyBody, Leave, Quit
  <2> QED
    BY <1>4, <2>1, <2>2, <1>k, <1>s, <1>r, FramedFrame
<1>5. CASE d # c
  <2>1. c2s'[d] = c2s[d] /\ cli'[d] = cli[d]
    BY <1>5, <1>t DEF ClientStep, Connect, ConnectRefused, SendHdr, FinishCall, SendBody, SendFails,
           RecvReplyHdr, ReplyGrowFails, Misread, RecvReplyBody, RecvFails, Leave, Quit
  <2> QED
    BY <2>1, <1>k, <1>s, <1>r, FramedFrame
<1> QED
  BY <1>1, <1>2, <1>3, <1>4, <1>5 DEF ClientStep, FinishCall

(* A client's step does not touch the conversations of the others.               *)
LEMMA ClientOthers ==
  ASSUME TableInv, TalkInv, NEW c \in Conns, ClientStep(c), NEW d \in Conns \ {c}
  PROVE  InStep(d)'
<1>1. UNCHANGED <<pc, cur, clientFds, fdTab, idx>> /\ UNCHANGED <<srvEnd, served>>
  BY DEF ClientStep, Connect, ConnectRefused, SendHdr, FinishCall, SendBody, SendFails,
         RecvReplyHdr, ReplyGrowFails, Misread, RecvReplyBody, RecvFails, Leave, Quit, serverVars
<1>2. /\ cli'[d] = cli[d] /\ call'[d] = call[d] /\ result'[d] = result[d]
      /\ c2s'[d] = c2s[d] /\ s2c'[d] = s2c[d] /\ garbled'[d] = garbled[d]
  <2>1. \A f \in {cli, call, result, c2s, s2c, garbled} : DOMAIN f = Conns
    BY DEF TableInv, TableTypes, TalkInv, TalkTypes
  <2>2. /\ cli' = cli \/ \E x : cli' = [cli EXCEPT ![c] = x]
        /\ call' = call \/ \E x : call' = [call EXCEPT ![c] = x]
        /\ result' = result \/ \E x : result' = [result EXCEPT ![c] = x]
        /\ c2s' = c2s \/ \E x : c2s' = [c2s EXCEPT ![c] = x]
        /\ s2c' = s2c \/ \E x : s2c' = [s2c EXCEPT ![c] = x]
        /\ garbled' = garbled \/ \E x : garbled' = [garbled EXCEPT ![c] = x]
    BY DEF ClientStep, Connect, ConnectRefused, SendHdr, FinishCall, SendBody, SendFails,
           RecvReplyHdr, ReplyGrowFails, Misread, RecvReplyBody, RecvFails, Leave, Quit
  <2> QED
    BY <2>1, <2>2
<1>3. Holds(d)' <=> Holds(d)
  BY <1>1 DEF Holds, Holding, Cur
<1> QED
  BY <1>1, <1>2, <1>3, TalkFrame DEF TalkInv, InStep

(* What a client does keeps the types.                                           *)
LEMMA ClientTypes ==
  ASSUME TableInv, TalkInv, NEW c \in Conns, ClientStep(c)
  PROVE  TalkTypes'
<1>y. TalkTypes
  BY DEF TalkInv
<1>s. /\ UNCHANGED <<pc, running, stopCalled, listenReady, cur>> /\ UNCHANGED served
      /\ Holding' <=> Holding
  BY DEF ClientStep, Connect, ConnectRefused, SendHdr, FinishCall, SendBody, SendFails,
         RecvReplyHdr, ReplyGrowFails, Misread, RecvReplyBody, RecvFails, Leave, serverVars, Holding
<1>g. garbled' \in [Conns -> BOOLEAN]
  BY <1>y DEF TalkTypes, ClientStep, Connect, ConnectRefused, SendHdr, FinishCall, SendBody, SendFails,
         RecvReplyHdr, ReplyGrowFails, Misread, RecvReplyBody, RecvFails, Leave
<1>l. /\ s2c[c] \in Seq(RepPart) /\ <<>> \in Seq(RepPart)
      /\ s2c[c] # <<>> => /\ Len(s2c[c]) > 0 /\ Head(s2c[c]) = s2c[c][1] /\ s2c[c][1] \in RepPart
                           /\ Tail(s2c[c]) \in Seq(RepPart)
  <2>1. s2c[c] \in Seq(RepPart) /\ <<>> \in Seq(RepPart)
    BY <1>y DEF TalkTypes
  <2>2. s2c[c] # <<>> => Len(s2c[c]) \in Nat \ {0}
    BY <2>1, LenFacts
  <2> QED
    BY <2>1, <2>2, TailFacts
<1>1. s2c' \in [Conns -> Seq(RepPart)]
  <2>1. CASE RecvReplyHdr(c) \/ ReplyGrowFails(c) \/ RecvReplyBody(c)
    BY <2>1, <1>y, <1>l DEF TalkTypes, RecvReplyHdr, ReplyGrowFails, RecvReplyBody
  <2>2. CASE Misread(c)
    <3>1. PICK n \in 0 .. Len(s2c[c]) : s2c' = [s2c EXCEPT ![c] = SubSeq(@, n + 1, Len(@))]
      BY <2>2 DEF Misread
    <3>2. SubSeq(s2c[c], n + 1, Len(s2c[c])) \in Seq(RepPart)
      BY <1>l
    <3> QED
      BY <3>1, <3>2, <1>y DEF TalkTypes
  <2>3. CASE SendFails(c) \/ Leave(c)
    BY <2>3, <1>y, <1>l DEF TalkTypes, SendFails, Leave, Quit
  <2>4. CASE \/ Connect(c) \/ ConnectRefused(c) \/ SendBody(c) \/ RecvFails(c)
             \/ \E svc \in SvcIds, body \in BOOLEAN : SendHdr(c, svc, body)
    BY <2>4, <1>y DEF TalkTypes, Connect, ConnectRefused, SendBody, RecvFails, SendHdr
  <2> QED
    BY <2>1, <2>2, <2>3, <2>4 DEF ClientStep, FinishCall
<1>2. result' \in [Conns -> Int]
  <2>1. CASE RecvReplyHdr(c)
    <3>1. Announced(c)
      BY <2>1, <1>l DEF RecvReplyHdr, TalkInv, InStep, Talk, CallOf
    <3>2. s2c[c][1].status \in 0 .. Word - 1 /\ result' = [result EXCEPT ![c] = FromStatus(s2c[c][1].status)]
      BY <2>1, <3>1, <1>l DEF RecvReplyHdr, RepPart, Announced
    <3> QED
      BY <3>2, <1>y, StatusFacts DEF TalkTypes
  <2>2. CASE Misread(c)
    <3>1. \A st \in Garbage : FromStatus(st) \in Int
      BY StatusFacts, WordAssumption
    <3> QED
      BY <2>2, <3>1, <1>y DEF TalkTypes, Misread, ErrRecv
  <2>3. CASE SendFails(c) \/ ReplyGrowFails(c) \/ RecvFails(c) \/ Leave(c)
    BY <2>3, <1>y DEF TalkTypes, ErrSend, ErrRecv, SendFails, ReplyGrowFails, RecvFails, Leave, Quit
  <2>4. CASE \E svc \in SvcIds, body \in BOOLEAN : SendHdr(c, svc, body)
    BY <2>4, <1>y DEF TalkTypes, SendHdr
  <2>5. CASE Connect(c) \/ ConnectRefused(c) \/ SendBody(c) \/ RecvReplyBody(c)
    BY <2>5, <1>y DEF TalkTypes, Connect, ConnectRefused, SendBody, RecvReplyBody
  <2> QED
    BY <2>1, <2>2, <2>3, <2>4, <2>5 DEF ClientStep, FinishCall
<1> QED
  BY <1>y, <1>s, <1>g, <1>1, <1>2 DEF TalkTypes

(* What a client that is in step does keeps its own conversation, or ends it.    *)
LEMMA ClientSpeaks ==
  ASSUME TableInv, TalkInv, NEW c \in Conns, ClientStep(c), ~garbled[c]
  PROVE  InStep(c)'
<1>t. /\ cli \in [Conns -> ClientStates] /\ call \in [Conns -> 0 .. MaxCalls]
      /\ c2s \in [Conns -> Seq(ReqPart)] /\ srvEnd \in [Conns -> {"none", "open", "closed"}]
      /\ MaxCalls \in Nat
  BY SizeAssumption DEF TableInv, TableTypes
<1>y. TalkTypes
  BY DEF TalkInv
<1>k. HistoryOf(c) /\ RequestOf(c) /\ CallOf(c)
  BY DEF TalkInv, InStep, Talk
<1>s. UNCHANGED <<pc, running, stopCalled, listenReady, cur, clientFds, fdTab, idx>> /\ UNCHANGED <<srvEnd, served>>
  BY DEF ClientStep, Connect, ConnectRefused, SendHdr, FinishCall, SendBody, SendFails,
         RecvReplyHdr, ReplyGrowFails, Misread, RecvReplyBody, RecvFails, Leave, serverVars
<1>h. (Holds(c)' <=> Holds(c)) /\ (Holding' <=> Holding)
  BY <1>s DEF Holds, Holding, Cur
<1>l. /\ Len(c2s[c]) \in Nat /\ (c2s[c] = <<>> <=> Len(c2s[c]) = 0)
      /\ Len(s2c[c]) \in Nat /\ (s2c[c] = <<>> <=> Len(s2c[c]) = 0)
      /\ Len(s2c[c]) > 0 => s2c[c][1] \in RepPart
      /\ s2c[c] \in Seq(RepPart) /\ Len(served[c]) \in Nat
      /\ Len(served[c]) > 0 => served[c][Len(served[c])].call \in 1 .. MaxCalls
  <2>1. s2c[c] \in Seq(RepPart) /\ served[c] \in Seq([call : 1 .. MaxCalls, code : Int])
    BY <1>y DEF TalkTypes
  <2>2. Len(served[c]) > 0 => served[c][Len(served[c])] \in [call : 1 .. MaxCalls, code : Int]
    BY <2>1, LenFacts
  <2> QED
    BY <1>t, <2>1, <2>2, LenFacts
<1>e. call'[c] = call[c] => (Executed(c)' <=> Executed(c)) /\ Code(c)' = Code(c)
  BY <1>s DEF Executed, Code
<1>n. call'[c] = call[c] + 1 => HistoryOf(c)' /\ ~Executed(c)'
  BY <1>s, <1>t, <1>k, <1>l DEF HistoryOf, Executed, Code
<1>q. call'[c] = call[c] => HistoryOf(c)'
  BY <1>e, <1>s, <1>k DEF HistoryOf
<1>1. CASE Connect(c)
  <2>1. /\ cli[c] = "new" /\ cli'[c] = "ready" /\ UNCHANGED <<call, result, c2s, s2c>>
    BY <1>1, <1>t DEF Connect
  <2>2. RequestOf(c)'
    BY <2>1, <1>s, <1>h, <1>e, <1>k DEF RequestOf
  <2>3. CallOf(c)'
    BY <2>1, <1>s, <1>h, <1>e, <1>k DEF CallOf, Consumed
  <2> QED
    BY <2>1, <2>2, <2>3, <1>q DEF InStep, Talk
<1>2. CASE ConnectRefused(c)
  <2>1. /\ cli[c] = "new" /\ cli'[c] = "gone" /\ UNCHANGED <<call, result, c2s, s2c>>
    BY <1>2, <1>t DEF ConnectRefused
  <2>2. RequestOf(c)'
    BY <2>1, <1>s, <1>h, <1>e, <1>k DEF RequestOf
  <2>3. CallOf(c)'
    BY <2>1 DEF CallOf
  <2> QED
    BY <2>1, <2>2, <2>3, <1>q DEF InStep, Talk
<1>3. CASE \E svc \in SvcIds, body \in BOOLEAN : SendHdr(c, svc, body)
  <2>1. PICK svc \in SvcIds, body \in BOOLEAN : SendHdr(c, svc, body)
    BY <1>3
  <2> DEFINE h == [part |-> "hdr", call |-> call[c] + 1, svc |-> svc, body |-> body]
  <2>2. /\ cli[c] = "ready" /\ call[c] < MaxCalls /\ srvEnd[c] # "closed"
        /\ call'[c] = call[c] + 1 /\ c2s'[c] = Append(c2s[c], h)
        /\ cli'[c] = (IF body THEN "sendBody" ELSE "recvHdr") /\ UNCHANGED s2c
    BY <2>1, <1>t DEF SendHdr
  <2>3. Len(c2s[c]) = 0 /\ Len(s2c[c]) = 0 /\ ~Holds(c)
    BY <2>2, <1>k DEF CallOf, Consumed
  <2>4. Len(c2s'[c]) = 1 /\ c2s'[c][1] = h
    BY <2>2, <2>3, <1>t
  <2>5. RequestOf(c)'
    BY <2>2, <2>3, <2>4, <1>h, <1>n, <1>t DEF RequestOf
  <2>6. CallOf(c)'
    BY <2>2, <2>3, <2>4, <1>h, <1>n, <1>t DEF CallOf, Sent
  <2> QED
    BY <2>2, <2>5, <2>6, <1>n DEF InStep, Talk
<1>4. CASE SendBody(c)
  <2> DEFINE b == [part |-> "body", call |-> call[c]]
  <2>1. /\ cli[c] = "sendBody" /\ srvEnd[c] # "closed" /\ cli'[c] = "recvHdr"
        /\ c2s'[c] = Append(c2s[c], b) /\ UNCHANGED <<call, result, s2c>>
    BY <1>4, <1>t DEF SendBody
  <2>2. /\ Len(s2c[c]) = 0 /\ call[c] > 0 /\ ~Executed(c)
        /\ \/ ~Holds(c) /\ Len(c2s[c]) = 1 /\ c2s[c][1].body
           \/ Holds(c) /\ pc = "recvBody" /\ Len(c2s[c]) = 0
    BY <2>1, <1>k DEF CallOf
  <2>3. Len(c2s'[c]) = Len(c2s[c]) + 1 /\ (Len(c2s[c]) = 1 => c2s'[c][1] = c2s[c][1])
    BY <2>1, <1>t
  <2>4. RequestOf(c)'
    BY <2>1, <2>2, <2>3, <1>s, <1>h, <1>e, <1>k DEF RequestOf
  <2>5. CallOf(c)'
    <3>1. \/ Sent(c)'
          \/ Holds(c)' /\ pc' = "recvBody" /\ Len(c2s'[c]) = 1
      <4>1. CASE ~Holds(c)
        <5>1. Len(c2s[c]) = 1 /\ c2s[c][1].body /\ ~Holds(c)'
          BY <2>2, <4>1, <1>h
        <5>2. Len(c2s'[c]) = 2 /\ c2s'[c][1].body
          BY <2>3, <5>1
        <5> QED
          BY <5>1, <5>2 DEF Sent
      <4>2. CASE Holds(c)
        BY <2>2, <2>3, <4>2, <1>s, <1>h
      <4> QED
        BY <4>1, <4>2
    <3> QED
      BY <2>1, <2>2, <3>1 DEF CallOf
  <2> QED
    BY <2>1, <2>4, <2>5, <1>q DEF InStep, Talk
<1>5. CASE SendFails(c)
  <2>1. /\ srvEnd[c] = "closed" /\ c2s' = c2s
        /\ \/ cli[c] = "ready" /\ call'[c] = call[c] + 1
           \/ cli[c] = "sendBody" /\ call'[c] = call[c]
        /\ \/ cli'[c] = "ready" /\ s2c' = s2c
           \/ cli'[c] = "gone"
    BY <1>5, <1>t DEF SendFails, Quit
  <2>2. Len(s2c[c]) = 0 /\ ~Holds(c)
    <3>1. Len(s2c[c]) = 0
      BY <2>1, <1>k DEF CallOf
    <3>2. ~Holds(c)
      BY <2>1, HeldIsOpen
    <3> QED
      BY <3>1, <3>2
  <2>3. RequestOf(c)'
    BY <2>1, <2>2, <1>s, <1>h DEF RequestOf
  <2>4. CallOf(c)'
    BY <2>1, <2>2, <1>s, <1>h DEF CallOf, Consumed
  <2> QED
    BY <2>1, <2>3, <2>4, <1>n, <1>q DEF InStep, Talk
<1>6. CASE RecvReplyHdr(c)
  <2>1. /\ cli[c] = "recvHdr" /\ Len(s2c[c]) > 0 /\ UNCHANGED <<call, c2s>>
        /\ result'[c] = FromStatus(s2c[c][1].status)
        /\ cli'[c] = (IF s2c[c][1].body THEN "recvBody" ELSE "ready")
        /\ s2c'[c] = Tail(s2c[c])
    BY <1>6, <1>t, <1>y, <1>l, TailFacts DEF RecvReplyHdr, TalkTypes
  <2>2. /\ Announced(c)
        /\ \/ Len(s2c[c]) = 1 /\ s2c[c][1].body /\ Holds(c) /\ pc = "replyBody"
           \/ Consumed(c) /\ Len(s2c[c]) = (IF s2c[c][1].body THEN 2 ELSE 1)
    BY <2>1, <1>k DEF CallOf
  <2>3. Len(s2c'[c]) = Len(s2c[c]) - 1
    BY <2>1, <1>l, TailFacts
  <2>4. s2c[c][1].status \in 0 .. Word - 1
    BY <2>1, <2>2, <1>l DEF RepPart, Announced
  <2>b. s2c[c][1].body \in BOOLEAN
    BY <2>1, <2>2, <1>l DEF RepPart, Announced
  <2>6. RequestOf(c)'
    BY <2>1, <1>s, <1>h, <1>e, <1>k DEF RequestOf
  <2>7. CallOf(c)'
    <3>1. Executed(c)' /\ result'[c] = Code(c)' /\ call'[c] > 0
      BY <2>1, <2>2, <1>e, <1>k DEF Announced, CallOf
    <3>2. Consumed(c) => Consumed(c)'
      BY <2>1, <1>s, <1>h DEF Consumed
    <3>3. CASE s2c[c][1].body
      BY <2>1, <2>2, <2>3, <3>1, <3>2, <3>3, <1>s, <1>h DEF CallOf
    <3>4. CASE ~s2c[c][1].body
      BY <2>1, <2>2, <2>3, <3>2, <3>4 DEF CallOf
    <3> QED
      BY <3>3, <3>4
  <2> QED
    BY <2>1, <2>6, <2>7, <1>q DEF InStep, Talk
<1>7. CASE RecvReplyBody(c)
  <2>1. /\ cli[c] = "recvBody" /\ Len(s2c[c]) > 0 /\ UNCHANGED <<call, result, c2s>>
        /\ cli'[c] = "ready" /\ s2c'[c] = Tail(s2c[c])
    BY <1>7, <1>t, <1>y, <1>l DEF RecvReplyBody, TalkTypes
  <2>2. Len(s2c[c]) = 1 /\ Consumed(c)
    BY <2>1, <1>k DEF CallOf
  <2>3. Len(s2c'[c]) = 0 /\ s2c'[c] \in Seq(RepPart)
    BY <2>1, <2>2, <1>l, TailFacts
  <2>5. RequestOf(c)'
    BY <2>1, <1>s, <1>h, <1>e, <1>k DEF RequestOf
  <2>6. CallOf(c)'
    BY <2>1, <2>2, <2>3, <1>s, <1>h DEF CallOf, Consumed
  <2> QED
    BY <2>1, <2>5, <2>6, <1>q DEF InStep, Talk
<1>8. CASE RecvFails(c)
  <2>1. /\ cli[c] \in {"recvHdr", "recvBody"} /\ Len(s2c[c]) = 0 /\ srvEnd[c] = "closed"
        /\ UNCHANGED <<call, c2s, s2c>> /\ cli'[c] = "ready"
    BY <1>8, <1>t, <1>l DEF RecvFails
  <2>2. ~Holds(c)
    BY <2>1, HeldIsOpen
  <2>4. RequestOf(c)'
    BY <2>1, <1>s, <1>h, <1>e, <1>k DEF RequestOf
  <2>5. CallOf(c)'
    BY <2>1, <2>2, <1>s, <1>h DEF CallOf, Consumed
  <2> QED
    BY <2>1, <2>4, <2>5, <1>q DEF InStep, Talk
<1>9. CASE Leave(c)
  <2>1. /\ cli'[c] = "gone" /\ UNCHANGED <<call, c2s>>
    BY <1>9, <1>t DEF Leave, Quit
  <2>2. RequestOf(c)'
    BY <2>1, <1>s, <1>h, <1>e, <1>k DEF RequestOf
  <2>3. CallOf(c)'
    BY <2>1 DEF CallOf
  <2> QED
    BY <2>1, <2>2, <2>3, <1>q DEF InStep, Talk
<1>10. CASE ReplyGrowFails(c)
  BY <1>10, <1>y DEF ReplyGrowFails, TalkTypes, InStep
<1>11. CASE Misread(c)
  BY <1>11 DEF Misread
<1> QED
  BY <1>1, <1>2, <1>3, <1>4, <1>5, <1>6, <1>7, <1>8, <1>9, <1>10, <1>11 DEF ClientStep, FinishCall

(* What a client does keeps the types, the framing and every conversation.       *)
LEMMA ClientTalk ==
  ASSUME TableInv, TalkInv, NEW c \in Conns, ClientStep(c)
  PROVE  TalkInv'
<1>1. TalkTypes' /\ \A d \in Conns : Framed(d)'
  BY ClientTypes, ClientFramed
<1>2. InStep(c)'
  <2>1. CASE garbled[c]
    BY <2>1 DEF InStep, ClientStep, Connect, ConnectRefused, SendHdr, FinishCall, SendBody, SendFails,
           RecvReplyHdr, ReplyGrowFails, Misread, RecvReplyBody, RecvFails, Leave
  <2> QED
    BY <2>1, ClientSpeaks
<1>3. \A d \in Conns \ {c} : InStep(d)'
  BY ClientOthers
<1> QED
  BY <1>1, <1>2, <1>3 DEF TalkInv

(* Where the server's thread holds no request, before and after the step, and   *)
(* the clients are left alone, no conversation changes: at most the server's    *)
(* ends are closed.                                                             *)
LEMMA IdleTalk ==
  ASSUME TalkInv, ~Holding, ~Holding',
         running' \in BOOLEAN, listenReady' \in BOOLEAN, cur' \in Request \cup {NoRequest},
         UNCHANGED <<stopCalled, clientVars, s2c, served>>,
         \A d \in Conns : srvEnd[d] = "closed" => srvEnd'[d] = "closed",
         \A d \in Conns : c2s'[d] = c2s[d] \/ srvEnd'[d] = "closed"
  PROVE  TalkInv'
<1>1. TalkTypes'
  BY DEF TalkInv, TalkTypes, clientVars
<1>2. ASSUME NEW d \in Conns PROVE InStep(d)'
  <2>1. ~Holds(d) /\ ~Holds(d)'
    BY DEF Holds
  <2> QED
    BY <2>1, TalkFrame DEF TalkInv, InStep, clientVars
<1>3. ASSUME NEW d \in Conns PROVE Framed(d)'
  <2>1. ~ReadingBody(d) /\ ~ReadingBody(d)'
    BY DEF ReadingBody, Holding
  <2>2. CASE srvEnd'[d] = "closed"
    BY <2>2 DEF Framed
  <2> QED
    BY <2>1, <2>2, FramedFrame DEF TalkInv, clientVars
<1> QED
  BY <1>1, <1>2, <1>3 DEF TalkInv

(* Closing ends leaves the streams of the others alone.                          *)
LEMMA CloseFacts ==
  ASSUME NEW S, CloseEnds(S), NEW d \in Conns
  PROVE  IF d \in S THEN srvEnd'[d] = "closed" ELSE srvEnd'[d] = srvEnd[d] /\ c2s'[d] = c2s[d]
BY DEF CloseEnds

(* A step by which the server goes on with the request it is reading or holds:   *)
(* only the conversation with Cur can change.                                   *)
LEMMA ServingOthers ==
  ASSUME TableInv, TalkInv, ServerStep, Serving, ~ReplyToGonePeer, NEW d \in Conns \ {Cur}
  PROVE  InStep(d)' /\ Framed(d)'
<1>h. Holding' => UNCHANGED <<clientFds, fdTab, idx>>
  BY DEF Holding, ServerStep, Serving, Run, LoopCheck, LoopExit, Select, SelectTimeout,
       NoAccept, Accept, AcceptFull, ScanSkip, ScanRead, ScanEnd, Destroy, RecvHdr, RecvBody,
       RecvEof, RecvGrowFails, RemoveCur, Handle, HandleUnknown, ReplyHdr, ReplyBody, NextClient
<1>u. /\ UNCHANGED clientVars
      /\ s2c' = s2c \/ \E q : s2c' = [s2c EXCEPT ![Cur] = q]
      /\ served' = served \/ \E q : served' = [served EXCEPT ![Cur] = q]
      /\ \/ CloseEnds({Cur})
         \/ srvEnd' = srvEnd /\ (c2s' = c2s \/ \E q : c2s' = [c2s EXCEPT ![Cur] = q])
  BY DEF ServerStep, Serving, Run, LoopCheck, LoopExit, Select, SelectTimeout,
       NoAccept, Accept, AcceptFull, ScanSkip, ScanRead, ScanEnd, Destroy, RecvHdr, RecvBody,
       RecvEof, RecvGrowFails, RemoveCur, Handle, HandleUnknown, ReplyHdr, ReplyBody
<1>1. ~Holds(d) /\ ~Holds(d)' /\ ~ReadingBody(d) /\ ~ReadingBody(d)'
  BY <1>h DEF Holds, Holding, ReadingBody, Cur
<1>2. c2s'[d] = c2s[d] /\ srvEnd'[d] = srvEnd[d]
  BY <1>u, CloseFacts DEF TableInv, TableTypes
<1>3. /\ s2c'[d] = s2c[d] /\ served'[d] = served[d]
      /\ cli'[d] = cli[d] /\ call'[d] = call[d] /\ result'[d] = result[d] /\ garbled'[d] = garbled[d]
  BY <1>u DEF TalkInv, TalkTypes, clientVars
<1>4. InStep(d)'
  BY <1>1, <1>2, <1>3, TalkFrame DEF TalkInv, InStep
<1>5. Framed(d)'
  BY <1>1, <1>2, <1>3, FramedFrame DEF TalkInv
<1> QED
  BY <1>4, <1>5

(* Where the server reads a header there is one, and after it come its data.     *)
LEMMA HeadFacts ==
  ASSUME TableInv, TalkInv, Serving, c2s[Cur] # <<>>
  PROVE  /\ Len(c2s[Cur]) > 0 /\ Head(c2s[Cur]) = c2s[Cur][1] /\ Head(c2s[Cur]) \in ReqPart
         /\ Head(c2s[Cur]).part = "body" <=> pc = "recvBody"
<1>1. Cur \in Conns /\ srvEnd[Cur] = "open"
  BY ServedIsOpen
<1>2. c2s[Cur] \in Seq(ReqPart)
  BY <1>1 DEF TableInv, TableTypes
<1>3. Len(c2s[Cur]) > 0 /\ Head(c2s[Cur]) = c2s[Cur][1] /\ Head(c2s[Cur]) \in ReqPart
  BY <1>2, LenFacts, TailFacts
<1> QED
  BY <1>1, <1>3 DEF TalkInv, Framed, ReadingBody

(* The server reads the requests as they are framed.                             *)
LEMMA ServerFramed ==
  ASSUME TableInv, TalkInv, ServerStep, Serving, ~ReplyToGonePeer, NEW c \in Conns, c = Cur
  PROVE  Framed(c)'
<1>k. Framed(c) /\ c2s \in [Conns -> Seq(ReqPart)]
  BY DEF TalkInv, TableInv, TableTypes
<1>1. CASE RecvHdr \/ RecvBody
  <2>1. /\ c2s[c] # <<>> /\ c2s'[c] = Tail(c2s[c]) /\ UNCHANGED <<cli, srvEnd, clientFds, fdTab, idx>>
        /\ \/ pc = "recvHdr" /\ pc' = (IF Head(c2s[c]).body THEN "recvBody" ELSE "handle")
           \/ pc = "recvBody" /\ pc' = "handle"
    BY <1>1, <1>k DEF RecvHdr, RecvBody, clientVars
  <2>2. /\ Len(c2s[c]) > 0 /\ Head(c2s[c]) = c2s[c][1] /\ Head(c2s[c]) \in ReqPart
        /\ Head(c2s[c]).part = "body" <=> pc = "recvBody"
    BY <2>1, HeadFacts
  <2>3. Cur' = Cur
    BY <2>1 DEF Cur
  <2>4. ReadingBody(c)' <=> Opens(c2s[c][1])
    BY <2>1, <2>2, <2>3 DEF ReadingBody, Opens, ReqPart
  <2> QED
    BY <2>1, <2>2, <2>4, <1>k, FramedTail
<1>2. CASE RecvEof \/ RecvGrowFails
  <2>1. CloseEnds({c})
    BY <1>2 DEF RecvEof, RecvGrowFails, RemoveCur
  <2>2. srvEnd'[c] = "closed"
    BY <2>1, CloseFacts
  <2> QED
    BY <2>2 DEF Framed
<1>3. CASE Handle \/ HandleUnknown \/ ReplyHdr \/ ReplyBody
  <2>1. UNCHANGED <<cli, c2s, srvEnd>> /\ ~ReadingBody(c) /\ ~ReadingBody(c)'
    BY <1>3 DEF Handle, HandleUnknown, ReplyHdr, ReplyBody, NextClient, clientVars, ReadingBody
  <2> QED
    BY <2>1, <1>k, FramedFrame
<1> QED
  BY <1>1, <1>2, <1>3
     DEF ServerStep, Serving, Run, LoopCheck, LoopExit, Select, SelectTimeout,
         NoAccept, Accept, AcceptFull, ScanSkip, ScanRead, ScanEnd, Destroy

(* The steps by which the server serves a request keep the types.                *)
LEMMA ServingTypes ==
  ASSUME TableInv, TalkInv, ServerStep, Serving
  PROVE  TalkTypes'
<1>y. TalkTypes
  BY DEF TalkInv
<1>c. Cur \in Conns
  BY ServedIsOpen
<1>w. MaxCalls \in Nat /\ Word \in Nat \ {0}
  BY SizeAssumption, WordAssumption
<1>1. CASE RecvHdr
  <2> DEFINE h == Head(c2s[Cur])
  <2>1. h \in ReqPart /\ h.part = "hdr"
    BY <1>1, HeadFacts DEF RecvHdr, ReqPart
  <2>2. h.call \in 1 .. MaxCalls /\ h.svc \in SvcIds
    BY <2>1 DEF ReqPart
  <2>3. cur' = [call |-> h.call, svc |-> h.svc, status |-> 0, out |-> FALSE] /\ 0 \in 0 .. Word - 1
    BY <1>1, <1>w DEF RecvHdr
  <2>4. cur' \in Request
    BY <2>2, <2>3 DEF Request
  <2> QED
    BY <1>1, <1>y, <2>4 DEF RecvHdr, TalkTypes, clientVars
<1>2. CASE RecvBody
  BY <1>2, <1>y DEF RecvBody, TalkTypes, Holding, clientVars
<1>3. CASE RecvEof \/ RecvGrowFails
  BY <1>3, <1>y DEF RecvEof, RecvGrowFails, RemoveCur, TalkTypes, Holding, clientVars
<1>4. CASE Handle \/ HandleUnknown
  <2>1. PICK rc \in HandlerRcs \cup {UnknownCode}, status \in 0 .. Word - 1, out \in BOOLEAN :
           /\ rc \in Int
           /\ cur' = [cur EXCEPT !.status = status, !.out = out]
           /\ served' = [served EXCEPT ![Cur] = Append(@, [call |-> cur.call, code |-> rc])]
    BY <1>4, StatusFacts DEF Handle, HandleUnknown, UnknownCode
  <2>2. cur \in Request
    BY <1>4, <1>y DEF Handle, HandleUnknown, TalkTypes, Holding
  <2>3. cur' \in Request
    BY <2>1, <2>2 DEF Request
  <2>4. [call |-> cur.call, code |-> rc] \in [call : 1 .. MaxCalls, code : Int]
    BY <2>1, <2>2 DEF Request
  <2>5. served' \in [Conns -> Seq([call : 1 .. MaxCalls, code : Int])]
    BY <2>1, <2>4, <1>c, <1>y, AppendFacts DEF TalkTypes
  <2> QED
    BY <1>4, <1>y, <2>3, <2>5 DEF Handle, HandleUnknown, TalkTypes, clientVars
<1>5. CASE ReplyHdr \/ ReplyBody
  <2>1. cur \in Request
    BY <1>5, <1>y DEF ReplyHdr, ReplyBody, TalkTypes, Holding
  <2>2. /\ [part |-> "hdr", call |-> cur.call, status |-> cur.status, body |-> cur.out] \in RepPart
        /\ [part |-> "body", call |-> cur.call] \in RepPart
    BY <2>1, <1>w DEF Request, RepPart
  <2>3. s2c' \in [Conns -> Seq(RepPart)]
    <3>1. PICK p \in RepPart : s2c' = [s2c EXCEPT ![Cur] = Append(@, p)]
      BY <1>5, <2>2 DEF ReplyHdr, ReplyBody
    <3>2. s2c \in [Conns -> Seq(RepPart)]
      BY <1>y DEF TalkTypes
    <3>3. Append(s2c[Cur], p) \in Seq(RepPart)
      BY <1>c, <3>2, AppendFacts
    <3> QED
      BY <1>c, <3>1, <3>2, <3>3
  <2>4. cur' \in Request \cup {NoRequest} /\ (Holding' => cur' \in Request)
    BY <1>5, <2>1 DEF ReplyHdr, ReplyBody, NextClient, Holding
  <2> QED
    BY <1>5, <1>y, <2>3, <2>4 DEF ReplyHdr, ReplyBody, TalkTypes, clientVars
<1>6. CASE ReplyToGonePeer
  BY <1>6, <1>y DEF ReplyToGonePeer, TalkTypes, Holding, clientVars
<1> QED
  BY <1>1, <1>2, <1>3, <1>4, <1>5, <1>6
     DEF ServerStep, Serving, Run, LoopCheck, LoopExit, Select, SelectTimeout,
         NoAccept, Accept, AcceptFull, ScanSkip, ScanRead, ScanEnd, Destroy

(* What the server does with the request it is reading or holds keeps the         *)
(* conversation with its client, if that is in step.                            *)
LEMMA ServerSpeaks ==
  ASSUME TableInv, TalkInv, ServerStep, Serving, ~ReplyToGonePeer,
         NEW c \in Conns, c = Cur, ~garbled[c]
  PROVE  Talk(c)'
<1>y. TalkTypes
  BY DEF TalkInv
<1>t. /\ cli \in [Conns -> ClientStates] /\ call \in [Conns -> 0 .. MaxCalls]
      /\ c2s \in [Conns -> Seq(ReqPart)] /\ srvEnd \in [Conns -> {"none", "open", "closed"}]
      /\ MaxCalls \in Nat /\ Word \in Nat \ {0}
  BY SizeAssumption, WordAssumption DEF TableInv, TableTypes
<1>k. HistoryOf(c) /\ RequestOf(c) /\ CallOf(c)
  BY DEF TalkInv, InStep, Talk
<1>c. c = Cur /\ srvEnd[c] = "open"
  BY ServedIsOpen
<1>l. /\ c2s[c] \in Seq(ReqPart) /\ s2c[c] \in Seq(RepPart)
      /\ served[c] \in Seq([call : 1 .. MaxCalls, code : Int])
      /\ Len(c2s[c]) \in Nat /\ Len(s2c[c]) \in Nat /\ Len(served[c]) \in Nat
      /\ (c2s[c] = <<>> <=> Len(c2s[c]) = 0)
  <2>1. c2s[c] \in Seq(ReqPart)
    BY <1>t
  <2>2. s2c[c] \in Seq(RepPart) /\ served[c] \in Seq([call : 1 .. MaxCalls, code : Int])
    BY <1>y DEF TalkTypes
  <2> QED
    BY <2>1, <2>2, LenFacts
<1>e. served' = served /\ call' = call => (Executed(c)' <=> Executed(c)) /\ Code(c)' = Code(c)
  BY DEF Executed, Code
<1>q. served' = served /\ call' = call => HistoryOf(c)'
  BY <1>e, <1>k DEF HistoryOf
<1>1. CASE RecvHdr
  <2> DEFINE h == Head(c2s[c])
  <2>1. /\ pc = "recvHdr" /\ Len(c2s[c]) > 0 /\ c2s'[c] = Tail(c2s[c])
        /\ cur' = [call |-> h.call, svc |-> h.svc, status |-> 0, out |-> FALSE]
        /\ pc' = (IF h.body THEN "recvBody" ELSE "handle")
        /\ UNCHANGED <<running, stopCalled, listenReady, clientFds, fdTab, idx, srvEnd, clientVars, s2c, served>>
    BY <1>1, <1>c, <1>l, <1>t DEF RecvHdr
  <2>2. ~Holds(c) /\ Holds(c)'
    BY <2>1, <1>c DEF Holds, Holding, Cur
  <2>3. h = c2s[c][1] /\ h \in ReqPart /\ Len(c2s'[c]) = Len(c2s[c]) - 1
    BY <2>1, <1>l, TailFacts
  <2>4. h.part = "hdr" /\ h.call = call[c] /\ call[c] > 0 /\ ~Executed(c) /\ Len(c2s[c]) <= (IF h.body THEN 2 ELSE 1)
    BY <2>1, <2>2, <2>3, <1>c, <1>k DEF RequestOf
  <2>5. h.call \in 1 .. MaxCalls /\ h.svc \in SvcIds /\ h.body \in BOOLEAN
    BY <2>3, <2>4, <1>t DEF ReqPart
  <2>6. cur' \in Request
    BY <2>1, <2>5, <1>t DEF Request
  <2>r. /\ ~Executed(c)' /\ cur'.call = call'[c] /\ call'[c] > 0
        /\ IF h.body THEN pc' = "recvBody" /\ Len(c2s'[c]) <= 1 ELSE pc' = "handle" /\ Len(c2s'[c]) = 0
    <3>1. Len(c2s[c]) > 0 /\ Len(c2s[c]) \in Nat
      BY <2>1, <1>l
    <3>a. Len(c2s'[c]) = Len(c2s[c]) - 1
      BY <2>3
    <3>b. (h.body => Len(c2s[c]) <= 2) /\ (~h.body => Len(c2s[c]) <= 1)
      BY <2>4
    <3>2. (h.body => Len(c2s'[c]) <= 1) /\ (~h.body => Len(c2s'[c]) = 0)
      <4>1. (h.body => Len(c2s[c]) - 1 <= 1) /\ (~h.body => Len(c2s[c]) - 1 = 0)
        BY <3>1, <3>b, SmallNumbers, Zenon
      <4> QED
        BY <3>a, <4>1
    <3>3. ~Executed(c)' /\ cur'.call = call'[c] /\ call'[c] > 0
      BY <2>1, <2>4, <2>5, <1>e DEF clientVars
    <3> QED
      BY <3>2, <3>3, <2>1, <2>5
  <2>8. RequestOf(c)'
    BY <2>2, <2>5, <2>r DEF RequestOf
  <2>9. CallOf(c)'
    <3>1. CASE cli[c] \in {"new", "ready", "recvBody"}
      BY <3>1, <2>1, <2>2, <1>c, <1>k DEF CallOf, Consumed
    <3>2. CASE cli[c] = "sendBody"
      BY <3>2, <2>1, <2>2, <2>3, <1>c, <1>k, <1>e DEF CallOf, clientVars
    <3>3. CASE cli[c] = "recvHdr"
      <4>1. Len(s2c[c]) = 0 /\ Sent(c)
        BY <3>3, <2>1, <2>2, <1>c, <1>k DEF CallOf, Consumed
      <4> QED
        <5>1. Len(c2s[c]) = (IF h.body THEN 2 ELSE 1)
          BY <4>1, <2>3 DEF Sent
        <5>2. cli'[c] = "recvHdr" /\ Len(s2c'[c]) = 0
          BY <4>1, <3>3, <2>1 DEF clientVars
        <5>3. \/ pc' = "recvBody" /\ Len(c2s'[c]) = 1
              \/ pc' = "handle"
          <6>1. h.body => Len(c2s'[c]) = 1
            BY <5>1, <2>3
          <6>2. pc' = (IF h.body THEN "recvBody" ELSE "handle")
            BY <2>1
          <6> QED
            BY <6>1, <6>2, <2>5
        <5> QED
          BY <5>2, <5>3, <2>2, <2>r DEF CallOf
    <3>4. CASE cli[c] = "gone"
      BY <3>4, <2>1 DEF CallOf, clientVars
    <3> QED
      BY <3>1, <3>2, <3>3, <3>4, <1>t DEF ClientStates
  <2> QED
    BY <1>1, <2>1, <2>8, <2>9, <1>q DEF Talk, clientVars
<1>2. CASE RecvBody
  <2>1. /\ pc = "recvBody" /\ pc' = "handle" /\ Len(c2s[c]) > 0 /\ c2s'[c] = Tail(c2s[c])
        /\ UNCHANGED <<running, stopCalled, listenReady, clientFds, fdTab, idx, cur, srvEnd, clientVars, s2c, served>>
    BY <1>2, <1>c, <1>l, <1>t DEF RecvBody
  <2>2. Holds(c) /\ Holds(c)'
    BY <2>1, <1>c DEF Holds, Holding, Cur
  <2>3. cur.call = call[c] /\ Len(c2s[c]) <= 1 /\ ~Executed(c)
    BY <2>1, <2>2, <1>k DEF RequestOf
  <2>t. Len(c2s'[c]) = Len(c2s[c]) - 1
    BY <2>1, <1>l, TailFacts
  <2>4. Len(c2s'[c]) = 0
    <3>1. Len(c2s[c]) > 0 /\ Len(c2s[c]) \in Nat
      BY <2>1, <1>l
    <3>2. Len(c2s[c]) <= 1
      BY <2>3
    <3>3. Len(c2s[c]) = 1
      BY <3>1, <3>2, SmallNumbers, Zenon
    <3> QED
      BY <3>3, <2>t
  <2>6. RequestOf(c)'
    BY <2>1, <2>2, <2>3, <2>4, <1>e DEF RequestOf, clientVars
  <2>7. CallOf(c)'
    BY <2>1, <2>2, <2>3, <1>k, <1>c DEF CallOf, Consumed, Sent, clientVars
  <2> QED
    BY <1>2, <2>1, <2>6, <2>7, <1>q DEF Talk, clientVars
<1>3. CASE RecvEof \/ RecvGrowFails
  <2>1. /\ pc' = "scan" /\ cur' = NoRequest /\ srvEnd'[c] = "closed" /\ s2c' = s2c
        /\ UNCHANGED <<clientVars, served>>
        /\ \/ ~CliOpen(c)
           \/ pc = "recvHdr" /\ Len(c2s[c]) > 0
    BY <1>3, <1>c, <1>l, <1>t DEF RecvEof, RecvGrowFails, RemoveCur, CloseEnds
  <2>2. ~Holds(c)' /\ (pc = "recvHdr" => ~Holds(c))
    BY <2>1 DEF Holds, Holding
  <2>3. RequestOf(c)'
    BY <2>1, <2>2 DEF RequestOf
  <2>4. CallOf(c)'
    <3>1. CASE ~CliOpen(c)
      <4>1. cli'[c] = "gone"
        BY <2>1, <3>1, <1>c, <1>t DEF TableInv, BacklogFresh, CliOpen, ClientStates, clientVars
      <4> QED
        BY <4>1 DEF CallOf
    <3>2. CASE pc = "recvHdr" /\ Len(c2s[c]) > 0
      <4>1. cli[c] \in {"sendBody", "recvHdr", "gone"}
        BY <2>2, <3>2, <1>c, <1>k, <1>t DEF CallOf, Consumed, ClientStates
      <4>2. cli[c] \in {"sendBody", "recvHdr"} => Len(s2c[c]) = 0 /\ call[c] > 0
        BY <2>2, <3>2, <1>c, <1>k DEF CallOf, Consumed
      <4>3. cli[c] = "sendBody" => ~Executed(c)'
        BY <2>1, <1>e, <1>k DEF CallOf, clientVars
      <4> QED
        BY <2>1, <2>2, <4>1, <4>2, <4>3 DEF CallOf, Consumed, clientVars
    <3> QED
      BY <2>1, <3>1, <3>2
  <2> QED
    BY <2>1, <2>3, <2>4, <1>q DEF Talk, clientVars
<1>4. CASE Handle \/ HandleUnknown
  <2>1. PICK rc \in HandlerRcs \cup {UnknownCode}, status \in 0 .. Word - 1, out \in BOOLEAN :
           /\ FromStatus(status) = rc /\ rc \in Int
           /\ cur' = [cur EXCEPT !.status = status, !.out = out]
           /\ served' = [served EXCEPT ![c] = Append(@, [call |-> cur.call, code |-> rc])]
    BY <1>4, <1>c, StatusFacts DEF Handle, HandleUnknown, UnknownCode
  <2>2. /\ pc = "handle" /\ pc' = "replyHdr"
        /\ UNCHANGED <<running, stopCalled, listenReady, clientFds, fdTab, idx, srvEnd, clientVars, c2s, s2c>>
    BY <1>4 DEF Handle, HandleUnknown
  <2>3. Holds(c) /\ Holds(c)' /\ Holding
    BY <2>2, <1>c DEF Holds, Holding, Cur
  <2>4. cur \in Request /\ cur' \in Request /\ cur'.status = status /\ cur'.call = cur.call
    BY <2>1, <2>3, <1>y DEF Request, TalkTypes
  <2>5. cur.call = call[c] /\ Len(c2s[c]) = 0
    BY <2>2, <2>3, <1>k DEF RequestOf
  <2>6. /\ served' \in [Conns -> Seq([call : 1 .. MaxCalls, code : Int])]
        /\ Len(served'[c]) > 0
        /\ served'[c][Len(served'[c])] = [call |-> cur.call, code |-> rc]
    <3>1. [call |-> cur.call, code |-> rc] \in [call : 1 .. MaxCalls, code : Int]
      BY <2>1, <2>4 DEF Request
    <3>2. served'[c] = Append(served[c], [call |-> cur.call, code |-> rc])
      BY <2>1, <1>y DEF TalkTypes
    <3>3. /\ served'[c] \in Seq([call : 1 .. MaxCalls, code : Int]) /\ Len(served'[c]) = Len(served[c]) + 1
          /\ served'[c][Len(served[c]) + 1] = [call |-> cur.call, code |-> rc]
      BY <3>1, <3>2, <1>l, AppendFacts
    <3>4. served' = [served EXCEPT ![c] = served'[c]]
      BY <2>1, <3>2
    <3>5. served' \in [Conns -> Seq([call : 1 .. MaxCalls, code : Int])]
      BY <3>3, <3>4, <1>y DEF TalkTypes
    <3> QED
      BY SMTT(30), <3>3, <3>5, <1>l
  <2>7. Executed(c)' /\ Code(c)' = rc
    BY <2>2, <2>5, <2>6 DEF Executed, Code, clientVars
  <2>8. HistoryOf(c)'
    BY <2>1, <2>2, <2>5, <2>6, <2>7, <1>t DEF HistoryOf, clientVars
  <2>9. RequestOf(c)'
    BY <2>1, <2>2, <2>3, <2>4, <2>5, <2>7 DEF RequestOf, clientVars
  <2>10. CallOf(c)'
    BY <2>2, <2>3, <1>k, <1>c DEF CallOf, Consumed, Sent, clientVars
  <2> QED
    BY <1>4, <2>8, <2>9, <2>10 DEF Talk, Handle, HandleUnknown
<1>5. CASE ReplyHdr
  <2> DEFINE p == [part |-> "hdr", call |-> cur.call, status |-> cur.status, body |-> cur.out]
  <2>1. /\ pc = "replyHdr" /\ CliOpen(c) /\ s2c' = [s2c EXCEPT ![c] = Append(@, p)]
        /\ \/ cur.out /\ pc' = "replyBody" /\ UNCHANGED <<idx, cur>>
           \/ ~cur.out /\ pc' = "scan" /\ cur' = NoRequest
        /\ UNCHANGED <<running, stopCalled, listenReady, clientFds, fdTab, srvEnd, clientVars, c2s, served>>
    BY <1>5, <1>c DEF ReplyHdr, NextClient
  <2>2. Holds(c) /\ Holding /\ (cur.out => Holds(c)') /\ (~cur.out => ~Holds(c)' /\ ~Holding')
    BY <2>1, <1>c DEF Holds, Holding, Cur
  <2>3. cur \in Request /\ p \in RepPart
    BY <2>2, <1>y, <1>t DEF TalkTypes, Request, RepPart
  <2>4. cur.call = call[c] /\ Len(c2s[c]) = 0 /\ Executed(c) /\ FromStatus(cur.status) = Code(c)
    BY <2>1, <2>2, <1>k DEF RequestOf
  <2>5. cli[c] = "recvHdr" /\ Len(s2c[c]) = 0 /\ call[c] > 0
    BY <2>1, <2>2, <1>k, <1>c DEF CallOf, Consumed, Sent, CliOpen
  <2>6. s2c' \in [Conns -> Seq(RepPart)] /\ Len(s2c'[c]) = 1 /\ s2c'[c][1] = p
    <3>1. s2c'[c] = Append(s2c[c], p)
      BY <2>1, <1>y DEF TalkTypes
    <3>2. s2c'[c] \in Seq(RepPart) /\ Len(s2c'[c]) = 1 /\ s2c'[c][1] = p
      BY <3>1, <2>3, <2>5, <1>l, AppendFacts
    <3> QED
      BY <3>2, <2>1, <2>3, <1>l, <1>y DEF TalkTypes
  <2>8. RequestOf(c)'
    BY <2>1, <2>2, <2>4, <1>e DEF RequestOf, clientVars
  <2>9. Announced(c)'
    BY <2>1, <2>4, <2>6, <1>e DEF Announced, clientVars
  <2>10. CallOf(c)'
    BY <2>1, <2>2, <2>3, <2>4, <2>5, <2>6, <2>9 DEF CallOf, Consumed, clientVars, Request
  <2> QED
    BY <1>5, <2>1, <2>8, <2>10, <1>q DEF Talk, clientVars
<1>6. CASE ReplyBody
  <2> DEFINE p == [part |-> "body", call |-> cur.call]
  <2>1. /\ pc = "replyBody" /\ CliOpen(c) /\ s2c' = [s2c EXCEPT ![c] = Append(@, p)]
        /\ pc' = "scan" /\ cur' = NoRequest
        /\ UNCHANGED <<running, stopCalled, listenReady, clientFds, fdTab, srvEnd, clientVars, c2s, served>>
    BY <1>6, <1>c DEF ReplyBody, NextClient
  <2>2. Holds(c) /\ Holding /\ ~Holds(c)' /\ ~Holding'
    BY <2>1, <1>c DEF Holds, Holding, Cur
  <2>3. cur \in Request /\ p \in RepPart
    BY <2>2, <1>y, <1>t DEF TalkTypes, Request, RepPart
  <2>4. Len(c2s[c]) = 0
    BY <2>1, <2>2, <1>k DEF RequestOf
  <2>5. /\ \/ cli[c] = "recvHdr" /\ Announced(c) /\ Len(s2c[c]) = 1 /\ s2c[c][1].body
           \/ cli[c] = "recvBody" /\ Executed(c) /\ result[c] = Code(c) /\ Len(s2c[c]) = 0
        /\ call[c] > 0
    BY <2>1, <2>2, <1>k, <1>c DEF CallOf, Consumed, Sent, CliOpen
  <2>6. /\ s2c' \in [Conns -> Seq(RepPart)] /\ Len(s2c'[c]) = Len(s2c[c]) + 1
        /\ Len(s2c[c]) = 1 => s2c'[c][1] = s2c[c][1]
    <3>1. s2c'[c] = Append(s2c[c], p)
      BY <2>1, <1>y DEF TalkTypes
    <3>2. /\ s2c'[c] \in Seq(RepPart) /\ Len(s2c'[c]) = Len(s2c[c]) + 1
          /\ Len(s2c[c]) = 1 => s2c'[c][1] = s2c[c][1]
      BY <3>1, <2>3, <1>l, AppendFacts
    <3> QED
      BY <3>2, <2>1, <2>3, <1>l, <1>y DEF TalkTypes
  <2>8. RequestOf(c)'
    BY <2>1, <2>2, <2>4 DEF RequestOf, clientVars
  <2>9. CASE cli[c] = "recvHdr"
    <3>1. Announced(c)'
      BY <2>1, <2>5, <2>6, <2>9, <1>e DEF Announced, clientVars
    <3>2. CallOf(c)'
      <4>1. Len(s2c'[c]) = 2 /\ s2c'[c][1].body /\ call'[c] > 0 /\ cli'[c] = "recvHdr"
        <5>1. cli'[c] = "recvHdr" /\ call'[c] = call[c]
          BY <2>1, <2>9 DEF clientVars
        <5>2. Len(s2c[c]) = 1 /\ s2c[c][1].body /\ call[c] > 0
          BY <2>5, <2>9
        <5> QED
          BY <5>1, <5>2, <2>6
      <4>2. Consumed(c)'
        BY <2>1, <2>2, <2>4 DEF Consumed
      <4> QED
        BY <3>1, <4>1, <4>2 DEF CallOf
    <3> QED
      BY <1>6, <2>1, <2>8, <3>2, <1>q DEF Talk, clientVars
  <2>10. CASE cli[c] = "recvBody"
    <3>1. CallOf(c)'
      BY <2>1, <2>2, <2>4, <2>5, <2>6, <2>10, <1>e DEF CallOf, Consumed, clientVars
    <3> QED
      BY <1>6, <2>1, <2>8, <3>1, <1>q DEF Talk, clientVars
  <2> QED
    BY <2>5, <2>9, <2>10
<1> QED
  BY <1>1, <1>2, <1>3, <1>4, <1>5, <1>6
     DEF ServerStep, Serving, Run, LoopCheck, LoopExit, Select, SelectTimeout,
         NoAccept, Accept, AcceptFull, ScanSkip, ScanRead, ScanEnd, Destroy

(* The server's steps keep every conversation and the types.                     *)
LEMMA ServerTalk ==
  ASSUME TableInv, TalkInv, ServerStep
  PROVE  TalkInv'
<1>y. TalkTypes
  BY DEF TalkInv
<1>t. /\ cli \in [Conns -> ClientStates] /\ srvEnd \in [Conns -> {"none", "open", "closed"}]
      /\ backlog \in Seq(Conns)
  BY DEF TableInv, TableTypes
<1>1. CASE \/ Run \/ LoopCheck \/ Select \/ SelectTimeout \/ NoAccept \/ ScanSkip \/ ScanRead \/ ScanEnd
  BY <1>1, <1>y, IdleTalk
     DEF Run, LoopCheck, Select, SelectTimeout, NoAccept, ScanSkip, ScanRead, ScanEnd, Holding, TalkTypes
<1>2. CASE LoopExit \/ AcceptFull \/ Destroy
  <2>1. \E S : CloseEnds(S)
    BY <1>2 DEF LoopExit, AcceptFull, Destroy
  <2>2. \A d \in Conns : /\ srvEnd[d] = "closed" => srvEnd'[d] = "closed"
                         /\ c2s'[d] = c2s[d] \/ srvEnd'[d] = "closed"
    BY <2>1, CloseFacts
  <2> QED
    BY <1>2, <1>y, <2>2, IdleTalk DEF LoopExit, AcceptFull, Destroy, Holding, TalkTypes
<1>3. CASE Accept
  <2>1. Head(backlog) \in Conns /\ srvEnd[Head(backlog)] = "none"
    <3>1. backlog # <<>>
      BY <1>3 DEF Accept
    <3>2. Len(backlog) \in Nat \ {0} /\ Head(backlog) = backlog[1] /\ Head(backlog) \in Conns
      BY <1>t, <3>1, TailFacts
    <3> QED
      BY <3>2 DEF TableInv, BacklogFresh
  <2>2. \A d \in Conns : srvEnd[d] = "closed" => srvEnd'[d] = "closed"
    BY <1>3, <1>t, <2>1 DEF Accept
  <2> QED
    BY <1>3, <1>y, <2>2, IdleTalk DEF Accept, Holding, TalkTypes
<1>4. CASE ReplyToGonePeer
  <2>1. /\ pc' = "killed" /\ ~CliOpen(Cur) /\ UNCHANGED <<clientVars, s2c, served>>
        /\ CloseEnds({d \in Conns : cli[d] # "new"}) /\ Serving
    BY <1>4 DEF ReplyToGonePeer, Serving
  <2>2. TalkTypes'
    BY <1>4, <2>1, ServingTypes
  <2>3. ~Holding'
    BY <2>1 DEF Holding
  <2>4. \A d \in Conns : srvEnd'[d] = "closed" \/ (cli[d] = "new" /\ srvEnd'[d] = srvEnd[d] /\ c2s'[d] = c2s[d])
    BY <2>1, CloseFacts
  <2>5. ASSUME NEW d \in Conns PROVE Framed(d)'
    <3>1. CASE srvEnd'[d] = "closed"
      BY <3>1 DEF Framed
    <3>2. CASE cli[d] = "new" /\ srvEnd'[d] = srvEnd[d] /\ c2s'[d] = c2s[d]
      <4>1. srvEnd[d] = "none"
        BY <3>2 DEF TableInv, BacklogFresh
      <4>2. ~ReadingBody(d) /\ ~ReadingBody(d)'
        BY <2>1, <4>1, ServedIsOpen DEF ReadingBody
      <4> QED
        BY <2>1, <3>2, <4>2, FramedFrame DEF TalkInv, clientVars
    <3> QED
      BY <2>4, <3>1, <3>2
  <2>6. ASSUME NEW d \in Conns PROVE InStep(d)'
    <3>1. CASE d = Cur
      <4>1. cli'[d] = "gone" /\ srvEnd'[d] = "closed"
        BY <2>1, <2>4, <3>1, <1>t, ServedIsOpen DEF TableInv, BacklogFresh, CliOpen, ClientStates, clientVars
      <4>2. RequestOf(d)' /\ CallOf(d)'
        BY <2>3, <4>1 DEF RequestOf, CallOf, Holds
      <4>3. HistoryOf(d) => HistoryOf(d)'
        BY <2>1 DEF HistoryOf, Code, clientVars
      <4> QED
        BY <2>1, <4>2, <4>3 DEF TalkInv, InStep, Talk, clientVars
    <3>2. CASE d # Cur
      <4>1. ~Holds(d) /\ ~Holds(d)'
        BY <2>3, <3>2 DEF Holds
      <4> QED
        BY <2>1, <2>4, <4>1, TalkFrame DEF TalkInv, InStep, clientVars
    <3> QED
      BY <3>1, <3>2
  <2> QED
    BY <2>2, <2>5, <2>6 DEF TalkInv
<1>5. CASE Serving /\ ~ReplyToGonePeer
  <2>1. TalkTypes'
    BY <1>5, ServingTypes
  <2>2. Cur \in Conns
    BY <1>5, ServedIsOpen
  <2>3. \A d \in Conns \ {Cur} : InStep(d)' /\ Framed(d)'
    BY <1>5, ServingOthers
  <2>4. ASSUME NEW c \in Conns, c = Cur PROVE InStep(c)' /\ Framed(c)'
    <3>1. garbled' = garbled
      BY DEF ServerStep, Run, LoopCheck, LoopExit, Select, SelectTimeout, NoAccept, Accept,
           AcceptFull, ScanSkip, ScanRead, ScanEnd, Destroy, RecvHdr, RecvBody, RecvEof, RecvGrowFails,
           RemoveCur, Handle, HandleUnknown, ReplyHdr, ReplyBody, ReplyToGonePeer, clientVars
    <3>2. ~garbled[c] => Talk(c)'
      BY <1>5, <2>4, ServerSpeaks
    <3> QED
      BY <1>5, <2>4, <3>1, <3>2, ServerFramed DEF InStep
  <2> QED
    BY <2>1, <2>3, <2>4 DEF TalkInv
<1> QED
  BY <1>1, <1>2, <1>3, <1>4, <1>5
     DEF ServerStep, Serving, RecvHdr, RecvBody, RecvEof, RecvGrowFails, Handle, HandleUnknown, ReplyHdr, ReplyBody

(* CallInv is inductive.                                                         *)
LEMMA NextTalk == CallInv /\ [Next]_vars => CallInv'
<1> SUFFICES ASSUME TableInv, TalkInv, [Next]_vars PROVE TableInv' /\ TalkInv'
  BY DEF CallInv
<1>1. TableInv'
  BY NextTable
<1>2. CASE Stop
  <2>1. TalkTypes'
    BY <1>2 DEF Stop, TalkInv, TalkTypes, Holding, clientVars
  <2>2. ASSUME NEW d \in Conns PROVE InStep(d)' /\ Framed(d)'
    <3>1. (Holds(d)' <=> Holds(d)) /\ (ReadingBody(d)' <=> ReadingBody(d))
      BY <1>2 DEF Stop, Holds, Holding, ReadingBody, Cur
    <3> QED
      BY <1>2, <3>1, TalkFrame, FramedFrame DEF Stop, TalkInv, InStep, clientVars
  <2> QED
    BY <1>1, <2>1, <2>2 DEF TalkInv
<1>3. CASE UNCHANGED vars
  <2>1. TalkTypes'
    BY <1>3 DEF vars, serverVars, TalkInv, TalkTypes, Holding, clientVars
  <2>2. ASSUME NEW d \in Conns PROVE InStep(d)' /\ Framed(d)'
    <3>1. (Holds(d)' <=> Holds(d)) /\ (ReadingBody(d)' <=> ReadingBody(d))
      BY <1>3 DEF vars, serverVars, Holds, Holding, ReadingBody, Cur
    <3> QED
      BY <1>3, <3>1, TalkFrame, FramedFrame DEF vars, serverVars, TalkInv, InStep, clientVars
  <2> QED
    BY <1>1, <2>1, <2>2 DEF TalkInv
<1> QED
  BY <1>1, <1>2, <1>3, ClientTalk, ServerTalk DEF Next, Terminated

(* In every reachable state all variables have their types: in particular each   *)
(* read of a stream finds the part the protocol puts there.  See TypeOK.         *)
THEOREM TypesAreKept == Spec => []TypeOK
<1>1. CallInv => TypeOK
  BY DEF CallInv, TalkInv, TableInv, TableTypes, TalkTypes, TypeOK
<1>2. Init => CallInv
  BY InitTable, InitTalk DEF CallInv
<1> QED
  BY <1>1, <1>2, NextTalk, PTL DEF Spec

(* A handle between two calls has nothing in flight, if memory was found for each *)
(* of its replies: see QuietBetweenCalls.                                        *)
THEOREM CallsLeaveSilence == Spec => []QuietBetweenCalls
<1>1. CallInv => QuietBetweenCalls
  <2> SUFFICES ASSUME CallInv, NEW c \in Conns, cli[c] = "ready", ~garbled[c]
               PROVE  s2c[c] = <<>> /\ (srvEnd[c] # "closed" => c2s[c] = <<>>)
    BY DEF QuietBetweenCalls
  <2>1. s2c[c] \in Seq(RepPart) /\ c2s[c] \in Seq(ReqPart)
    BY DEF CallInv, TableInv, TableTypes, TalkInv, TalkTypes
  <2>2. Len(s2c[c]) = 0 /\ (srvEnd[c] # "closed" => Len(c2s[c]) = 0)
    BY DEF CallInv, TalkInv, InStep, Talk, CallOf, Consumed
  <2> QED
    BY <2>1, <2>2, LenFacts
<1>2. Init => CallInv
  BY InitTable, InitTalk DEF CallInv
<1> QED
  BY <1>1, <1>2, NextTalk, PTL DEF Spec

-----------------------------------------------------------------------------
(* The transport implements NovaRpc.                                            *)

(* A step that concerns one conversation updates the abstract variables at one  *)
(* handle.                                                                      *)
LEMMA RpcUpdate ==
  ASSUME NEW c \in Conns, NEW st, NEW cl, NEW dn, NEW rt,
         RpcStateOf(c)' = st, RpcCallOf(c)' = cl, RpcDoneOf(c)' = dn, RpcRetOf(c)' = rt,
         \A d \in Conns \ {c} : /\ cli'[d] = cli[d] /\ call'[d] = call[d]
                                /\ result'[d] = result[d] /\ served'[d] = served[d]
                                /\ garbled'[d] = garbled[d]
                                /\ InFlight(d)' <=> InFlight(d)
  PROVE  /\ RpcState' = [RpcState EXCEPT ![c] = st]
         /\ RpcCall' = [RpcCall EXCEPT ![c] = cl]
         /\ RpcDone' = [RpcDone EXCEPT ![c] = dn]
         /\ RpcRet' = [RpcRet EXCEPT ![c] = rt]
<1>1. \A d \in Conns \ {c} : /\ RpcStateOf(d)' = RpcStateOf(d) /\ RpcCallOf(d)' = RpcCallOf(d)
                             /\ RpcDoneOf(d)' = RpcDoneOf(d) /\ RpcRetOf(d)' = RpcRetOf(d)
  <2> SUFFICES ASSUME NEW d \in Conns \ {c}
               PROVE  /\ RpcStateOf(d)' = RpcStateOf(d) /\ RpcCallOf(d)' = RpcCallOf(d)
                      /\ RpcDoneOf(d)' = RpcDoneOf(d) /\ RpcRetOf(d)' = RpcRetOf(d)
    OBVIOUS
  <2>1. RpcStateOf(d)' = RpcStateOf(d)
    BY DEF RpcStateOf
  <2>2. RpcDoneOf(d)' = RpcDoneOf(d)
    BY DEF RpcDoneOf, LastServed
  <2>3. RpcCallOf(d)' = RpcCallOf(d) /\ RpcRetOf(d)' = RpcRetOf(d)
    BY DEF RpcCallOf, RpcRetOf
  <2> QED
    BY <2>1, <2>2, <2>3
<1>2. RpcState' = [RpcState EXCEPT ![c] = st]
  BY <1>1 DEF RpcState
<1>3. RpcDone' = [RpcDone EXCEPT ![c] = dn]
  BY <1>1 DEF RpcDone
<1>4. RpcRet' = [RpcRet EXCEPT ![c] = rt]
  BY <1>1 DEF RpcRet
<1>5. RpcCall' = [RpcCall EXCEPT ![c] = cl]
  BY <1>1 DEF RpcCall
<1> QED
  BY <1>2, <1>3, <1>4, <1>5

(* What keeps its value at that handle is unchanged as a whole.                  *)
LEMMA RpcKept ==
  ASSUME NEW c \in Conns,
         \A d \in Conns \ {c} : /\ cli'[d] = cli[d] /\ call'[d] = call[d]
                                /\ result'[d] = result[d] /\ served'[d] = served[d]
                                /\ garbled'[d] = garbled[d]
                                /\ InFlight(d)' <=> InFlight(d)
  PROVE  /\ RpcStateOf(c)' = RpcStateOf(c) => RpcState' = RpcState
         /\ RpcCallOf(c)' = RpcCallOf(c) => RpcCall' = RpcCall
         /\ RpcDoneOf(c)' = RpcDoneOf(c) => RpcDone' = RpcDone
         /\ RpcRetOf(c)' = RpcRetOf(c) => RpcRet' = RpcRet
<1>1. \A d \in Conns \ {c} : /\ RpcStateOf(d)' = RpcStateOf(d) /\ RpcCallOf(d)' = RpcCallOf(d)
                             /\ RpcDoneOf(d)' = RpcDoneOf(d) /\ RpcRetOf(d)' = RpcRetOf(d)
  <2> SUFFICES ASSUME NEW d \in Conns \ {c}
               PROVE  /\ RpcStateOf(d)' = RpcStateOf(d) /\ RpcCallOf(d)' = RpcCallOf(d)
                      /\ RpcDoneOf(d)' = RpcDoneOf(d) /\ RpcRetOf(d)' = RpcRetOf(d)
    OBVIOUS
  <2>1. RpcStateOf(d)' = RpcStateOf(d)
    BY DEF RpcStateOf
  <2>2. RpcDoneOf(d)' = RpcDoneOf(d)
    BY DEF RpcDoneOf, LastServed
  <2>3. RpcCallOf(d)' = RpcCallOf(d) /\ RpcRetOf(d)' = RpcRetOf(d)
    BY DEF RpcCallOf, RpcRetOf
  <2> QED
    BY <2>1, <2>2, <2>3
<1>2. RpcStateOf(c)' = RpcStateOf(c) => RpcState' = RpcState
  BY <1>1 DEF RpcState
<1>3. RpcDoneOf(c)' = RpcDoneOf(c) => RpcDone' = RpcDone
  BY <1>1 DEF RpcDone
<1>4. RpcRetOf(c)' = RpcRetOf(c) => RpcRet' = RpcRet
  BY <1>1 DEF RpcRet
<1>5. RpcCallOf(c)' = RpcCallOf(c) => RpcCall' = RpcCall
  BY <1>1 DEF RpcCall
<1> QED
  BY <1>2, <1>3, <1>4, <1>5

(* A step that none of the abstract variables depends on.                       *)
LEMMA RpcStutter ==
  ASSUME UNCHANGED <<clientVars, served, pc, clientFds, fdTab, idx, srvEnd, c2s>>
  PROVE  UNCHANGED Rpc!rpcVars
BY DEF clientVars, Rpc!rpcVars, RpcState, RpcCall, RpcDone, RpcRet, RpcStateOf, RpcCallOf, RpcDoneOf,
       RpcRetOf, LastServed, InFlight, Cur

(* A step that is none of the client's drops at most what dead clients have sent. *)
LEMMA RpcDrop ==
  ASSUME UNCHANGED <<clientVars, served>>, \A c \in Conns : InFlight(c)' => InFlight(c)
  PROVE  Rpc!Drop
<1> DEFINE S == {c \in Conns : ~InFlight(c)'}
<1>1. UNCHANGED <<RpcCall, RpcDone, RpcRet>>
  BY DEF clientVars, RpcCall, RpcDone, RpcRet, RpcCallOf, RpcDoneOf, RpcRetOf, LastServed
<1>2. ASSUME NEW c \in Conns
      PROVE  RpcStateOf(c)' = IF c \in S /\ RpcState[c] = "orphan" THEN "gone" ELSE RpcState[c]
  BY DEF clientVars, RpcState, RpcStateOf
<1>3. RpcState' = [c \in Conns |-> IF c \in S /\ RpcState[c] = "orphan" THEN "gone" ELSE RpcState[c]]
  BY <1>2 DEF RpcState
<1>4. S \in SUBSET Conns
  OBVIOUS
<1> QED
  BY <1>1, <1>3, <1>4 DEF Rpc!Drop

(* The server takes no request out of nowhere: what it has in hand came in by     *)
(* the stream of a connection that is open.                                      *)
LEMMA InFlightShrinks ==
  ASSUME TableInv, TalkInv, ServerStep, ~(Handle \/ HandleUnknown), NEW c \in Conns, InFlight(c)'
  PROVE  InFlight(c)
<1>t. /\ c2s \in [Conns -> Seq(ReqPart)] /\ srvEnd \in [Conns -> {"none", "open", "closed"}]
      /\ backlog \in Seq(Conns)
  BY DEF TableInv, TableTypes
<1>1. CASE RecvHdr
  <2>1. Cur \in Conns /\ srvEnd[Cur] = "open" /\ c2s[Cur] # <<>>
    BY <1>1, ServedIsOpen DEF RecvHdr, Serving
  <2>2. UNCHANGED <<clientFds, fdTab, idx, srvEnd>> /\ c2s' = [c2s EXCEPT ![Cur] = Tail(@)]
    BY <1>1 DEF RecvHdr
  <2>3. CASE c = Cur
    BY <2>1, <2>3 DEF InFlight
  <2>4. CASE c # Cur
    <3>1. c2s'[c] = c2s[c] /\ Cur' = Cur
      BY <1>t, <2>1, <2>2, <2>4 DEF Cur
    <3> QED
      BY <2>2, <2>4, <3>1 DEF InFlight
  <2> QED
    BY <2>3, <2>4
<1>2. CASE RecvBody
  <2>1. Cur \in Conns /\ srvEnd[Cur] = "open" /\ pc = "recvBody"
    BY <1>2, ServedIsOpen DEF RecvBody, Serving
  <2>2. UNCHANGED <<clientFds, fdTab, idx, srvEnd>> /\ c2s' = [c2s EXCEPT ![Cur] = Tail(@)]
    BY <1>2 DEF RecvBody
  <2>3. CASE c = Cur
    BY <2>1, <2>3 DEF InFlight
  <2>4. CASE c # Cur
    <3>1. c2s'[c] = c2s[c] /\ Cur' = Cur
      BY <1>t, <2>1, <2>2, <2>4 DEF Cur
    <3> QED
      BY <2>2, <2>4, <3>1 DEF InFlight
  <2> QED
    BY <2>3, <2>4
<1>3. CASE ~(RecvHdr \/ RecvBody)
  <2>1. /\ pc' \notin {"recvBody", "handle"}
        /\ \/ Accept
           \/ UNCHANGED <<srvEnd, c2s>>
           \/ \E S : CloseEnds(S)
    BY <1>3 DEF ServerStep, Run, LoopCheck, LoopExit, Select, SelectTimeout, NoAccept, Accept,
           AcceptFull, ScanSkip, ScanRead, ScanEnd, Destroy, RecvEof, RecvGrowFails, RemoveCur,
           ReplyHdr, ReplyBody, ReplyToGonePeer, NextClient
  <2>2. /\ srvEnd[c] = "closed" => srvEnd'[c] = "closed"
        /\ c2s'[c] = c2s[c] \/ srvEnd'[c] = "closed"
    <3>1. CASE Accept
      <4>1. Head(backlog) = backlog[1] /\ 1 \in 1 .. Len(backlog)
        BY <1>t, <3>1 DEF Accept
      <4>2. srvEnd[backlog[1]] = "none"
        BY <1>t, <4>1 DEF TableInv, BacklogFresh
      <4> QED
        BY <1>t, <3>1, <4>1, <4>2 DEF Accept
    <3>2. CASE \E S : CloseEnds(S)
      BY <3>2, CloseFacts
    <3> QED
      BY <2>1, <3>1, <3>2
  <2> QED
    BY <2>1, <2>2 DEF InFlight
<1> QED
  BY <1>1, <1>2, <1>3

(* The abstract values of a handle that is in step.                             *)
LEMMA RpcValues ==
  ASSUME NEW c \in Conns, ~garbled[c]
  PROVE  /\ RpcState[c] = RpcStateOf(c) /\ RpcDone[c] = RpcDoneOf(c) /\ RpcRet[c] = RpcRetOf(c)
         /\ RpcCall[c] = call[c] /\ RpcCallOf(c) = call[c]
         /\ Executed(c) => RpcDoneOf(c) = Code(c)
         /\ ~Executed(c) => RpcDoneOf(c) = NotRun
BY DEF RpcState, RpcCall, RpcDone, RpcRet, RpcCallOf, RpcDoneOf, LastServed, Executed, Code

(* A client's step concerns its own handle only.                                *)
LEMMA ClientAlone ==
  ASSUME TableInv, TalkInv, NEW c \in Conns, ClientStep(c)
  PROVE  /\ UNCHANGED <<pc, clientFds, fdTab, idx, srvEnd, served>>
         /\ \A d \in Conns \ {c} : /\ cli'[d] = cli[d] /\ call'[d] = call[d]
                                   /\ result'[d] = result[d] /\ served'[d] = served[d]
                                   /\ garbled'[d] = garbled[d]
                                   /\ InFlight(d)' <=> InFlight(d)
<1>t. /\ cli \in [Conns -> ClientStates] /\ call \in [Conns -> 0 .. MaxCalls]
      /\ result \in [Conns -> Int] /\ garbled \in [Conns -> BOOLEAN]
      /\ c2s \in [Conns -> Seq(ReqPart)]
  BY DEF TableInv, TableTypes, TalkInv, TalkTypes
<1>p. UNCHANGED <<pc, clientFds, fdTab, idx, srvEnd, served>>
  BY DEF ClientStep, Connect, ConnectRefused, SendHdr, FinishCall, SendBody, SendFails,
         RecvReplyHdr, ReplyGrowFails, Misread, RecvReplyBody, RecvFails, Leave, Quit, serverVars
<1>1. \A d \in Conns \ {c} : c2s'[d] = c2s[d]
  BY <1>t DEF ClientStep, Connect, ConnectRefused, SendHdr, FinishCall, SendBody, SendFails,
         RecvReplyHdr, ReplyGrowFails, Misread, RecvReplyBody, RecvFails, Leave, Quit
<1>2. \A d \in Conns \ {c} : InFlight(d)' <=> InFlight(d)
  BY <1>p, <1>1 DEF InFlight, Cur
<1>3. \A d \in Conns \ {c} : /\ cli'[d] = cli[d] /\ call'[d] = call[d] /\ result'[d] = result[d]
                             /\ garbled'[d] = garbled[d]
  BY <1>t DEF ClientStep, Connect, ConnectRefused, SendHdr, FinishCall, SendBody, SendFails,
         RecvReplyHdr, ReplyGrowFails, Misread, RecvReplyBody, RecvFails, Leave, Quit
<1> QED
  BY <1>p, <1>2, <1>3

(* Nothing is promised of a handle that is out of step, whatever it does.       *)
LEMMA GarbledRpc ==
  ASSUME TableInv, TalkInv, NEW c \in Conns, ClientStep(c), garbled[c]
  PROVE  UNCHANGED Rpc!rpcVars
<1>1. garbled'[c]
  BY DEF TalkInv, TalkTypes, ClientStep, Connect, ConnectRefused, SendHdr, FinishCall, SendBody, SendFails,
         RecvReplyHdr, ReplyGrowFails, Misread, RecvReplyBody, RecvFails, Leave, Quit
<1>2. /\ RpcStateOf(c)' = RpcStateOf(c) /\ RpcCallOf(c)' = RpcCallOf(c)
      /\ RpcDoneOf(c)' = RpcDoneOf(c) /\ RpcRetOf(c)' = RpcRetOf(c)
  BY <1>1 DEF RpcStateOf, RpcCallOf, RpcDoneOf, RpcRetOf
<1> QED
  BY <1>2, ClientAlone, RpcKept DEF Rpc!rpcVars

(* A reply for which there is no memory breaks the handle: its call was executed. *)
LEMMA BreakRpc ==
  ASSUME TableInv, TalkInv, NEW c \in Conns, ReplyGrowFails(c)
  PROVE  Rpc!Break(c)
<1>t. /\ cli \in [Conns -> ClientStates] /\ garbled \in [Conns -> BOOLEAN]
      /\ result \in [Conns -> Int] /\ s2c \in [Conns -> Seq(RepPart)]
  BY DEF TableInv, TableTypes, TalkInv, TalkTypes
<1>1. /\ cli[c] = "recvHdr" /\ ~garbled[c] /\ s2c[c] # <<>>
      /\ garbled'[c]
  BY <1>t DEF ReplyGrowFails
<1>2. Len(s2c[c]) > 0
  BY <1>1, <1>t, LenFacts
<1>3. HistoryOf(c) /\ Announced(c)
  BY <1>1, <1>2 DEF TalkInv, InStep, Talk, CallOf
<1>4. RpcState[c] = "calling" /\ RpcDone[c] = Code(c)
  BY <1>1, <1>3, RpcValues DEF RpcStateOf, Announced
<1>5. RpcDone[c] # NotRun
  BY <1>3, <1>4, WordAssumption DEF Announced, Executed, HistoryOf, NotRun, UnknownCode
<1>6. /\ RpcStateOf(c)' = "broken" /\ RpcCallOf(c)' = 0
      /\ RpcDoneOf(c)' = NotRun /\ RpcRetOf(c)' = Rpc!ErrRecv
  BY <1>1 DEF RpcStateOf, RpcCallOf, RpcDoneOf, RpcRetOf, ErrRecv, Rpc!ErrRecv
<1>7. ClientStep(c)
  BY DEF ClientStep, FinishCall
<1> QED
  BY <1>4, <1>5, <1>6, <1>7, ClientAlone, RpcUpdate DEF Rpc!Break

(* Any other step of a client that is in step is an abstract step of its handle, *)
(* or none.                                                                     *)
LEMMA ClientRpc ==
  ASSUME TableInv, TalkInv, NEW c \in Conns, ClientStep(c), ~garbled[c], ~ReplyGrowFails(c)
  PROVE  [Rpc!Next]_Rpc!rpcVars
<1>t. /\ cli \in [Conns -> ClientStates] /\ call \in [Conns -> 0 .. MaxCalls]
      /\ result \in [Conns -> Int] /\ s2c \in [Conns -> Seq(RepPart)]
      /\ c2s \in [Conns -> Seq(ReqPart)]
  BY DEF TableInv, TableTypes, TalkInv, TalkTypes
<1>b. garbled' = garbled
  BY DEF ClientStep, Connect, ConnectRefused, SendHdr, FinishCall, SendBody, SendFails,
         RecvReplyHdr, Misread, RecvReplyBody, RecvFails, Leave
<1>k. HistoryOf(c) /\ RequestOf(c) /\ CallOf(c)
  BY DEF TalkInv, InStep, Talk
<1>v. /\ ~garbled[c] /\ ~garbled'[c]
      /\ RpcState[c] = RpcStateOf(c) /\ RpcDone[c] = RpcDoneOf(c) /\ RpcRet[c] = RpcRetOf(c)
      /\ RpcCall[c] = call[c] /\ RpcCallOf(c)' = call'[c]
      /\ Executed(c) => RpcDoneOf(c) = Code(c)
      /\ ~Executed(c) => RpcDoneOf(c) = NotRun
  BY <1>b, RpcValues DEF RpcCallOf
<1>l. /\ s2c[c] \in Seq(RepPart) /\ (s2c[c] # <<>> => Len(s2c[c]) > 0 /\ Head(s2c[c]) = s2c[c][1])
  BY <1>t, LenFacts, TailFacts
<1>p. UNCHANGED <<pc, clientFds, fdTab, idx, srvEnd>>
  BY ClientAlone
<1>o. \A d \in Conns \ {c} : /\ cli'[d] = cli[d] /\ call'[d] = call[d]
                             /\ result'[d] = result[d] /\ served'[d] = served[d]
                             /\ garbled'[d] = garbled[d]
                             /\ InFlight(d)' <=> InFlight(d)
  BY ClientAlone
<1>g. /\ cli[c] \in {"new", "ready"} => ~InFlight(c)
      /\ cli[c] = "sendBody" /\ srvEnd[c] = "closed" => ~InFlight(c)
  <2>1. pc \in {"recvBody", "handle"} /\ Cur = c => Holds(c) /\ srvEnd[c] # "closed"
    BY HeldIsOpen DEF Holds, Holding
  <2>2. Len(c2s[c]) = 0 => c2s[c] = <<>>
    BY <1>t, LenFacts
  <2>3. cli[c] \in {"new", "ready"} => Consumed(c)
    BY <1>k DEF CallOf
  <2> QED
    BY <2>1, <2>2, <2>3 DEF InFlight, Consumed
<1>s. served' = served
  BY ClientAlone
<1>d. /\ call'[c] = call[c] => RpcDoneOf(c)' = RpcDoneOf(c)
      /\ call'[c] = call[c] + 1 => RpcDoneOf(c)' = NotRun
  <2>1. call'[c] = call[c] => RpcDoneOf(c)' = RpcDoneOf(c)
    BY <1>s, <1>v DEF RpcDoneOf, LastServed
  <2>2. ASSUME call'[c] = call[c] + 1 PROVE RpcDoneOf(c)' = NotRun
    <3>1. Len(served[c]) > 0 => served[c][Len(served[c])].call # call[c] + 1
      <4>1. Len(served[c]) > 0 => served[c][Len(served[c])].call \in 1 .. MaxCalls
        <5>1. served[c] \in Seq([call : 1 .. MaxCalls, code : Int])
          BY DEF TalkInv, TalkTypes
        <5>2. Len(served[c]) > 0 => served[c][Len(served[c])] \in [call : 1 .. MaxCalls, code : Int]
          BY <5>1, LenFacts
        <5> QED
          BY <5>2
      <4> QED
        BY <4>1, <1>k, <1>t, SizeAssumption DEF HistoryOf
    <3> QED
      BY <2>2, <3>1, <1>s, <1>v DEF RpcDoneOf, LastServed
  <2> QED
    BY <2>1, <2>2
<1>e. /\ call'[c] = call[c] => RpcDone' = RpcDone /\ RpcCall' = RpcCall
      /\ call'[c] = call[c] + 1 => /\ RpcDone' = [RpcDone EXCEPT ![c] = NotRun]
                                  /\ RpcCall' = [RpcCall EXCEPT ![c] = @ + 1]
  BY <1>d, <1>o, <1>v, RpcUpdate, RpcKept, RpcValues
<1>f. /\ \A st : RpcStateOf(c)' = st => RpcState' = [RpcState EXCEPT ![c] = st]
      /\ \A rt : RpcRetOf(c)' = rt => RpcRet' = [RpcRet EXCEPT ![c] = rt]
      /\ RpcStateOf(c)' = RpcState[c] => RpcState' = RpcState
      /\ RpcRetOf(c)' = RpcRet[c] => RpcRet' = RpcRet
  BY <1>o, <1>v, RpcUpdate, RpcKept
<1> USE DEF RpcStateOf, RpcRetOf
<1>1. CASE Connect(c) \/ SendBody(c)
  <2>1. /\ RpcStateOf(c)' = RpcState[c] /\ RpcRetOf(c)' = RpcRet[c] /\ call' = call
    BY <1>1, <1>t, <1>v DEF Connect, SendBody
  <2>2. UNCHANGED Rpc!rpcVars
    BY <1>1, <2>1, <1>e, <1>f DEF Rpc!rpcVars
  <2> QED
    BY <2>2
<1>2. CASE ConnectRefused(c) \/ Leave(c)
  <2>1. /\ cli[c] # "gone" /\ cli'[c] = "gone" /\ call' = call /\ c2s' = c2s
    BY <1>2, <1>t DEF ConnectRefused, Leave, CliOpen, Quit
  <2>2. (InFlight(c)' <=> InFlight(c)) /\ RpcRetOf(c)' = Pending
    BY <1>p, <1>v, <2>1 DEF InFlight, Cur
  <2>3. CASE cli[c] \in {"new", "ready"}
    <3>1. RpcState[c] = "idle" /\ RpcStateOf(c)' = "gone"
      BY <1>g, <1>v, <2>1, <2>2, <2>3
    <3>2. Rpc!Leave(c)
      BY <2>1, <2>2, <3>1, <1>e, <1>f DEF Rpc!Leave
    <3> QED
      BY <3>2 DEF Rpc!Next
  <2>4. CASE cli[c] \notin {"new", "ready"}
    <3>1. /\ RpcState[c] = "calling" /\ RpcRet[c] = Pending
          /\ RpcStateOf(c)' = "gone" \/ RpcStateOf(c)' = "orphan"
      BY <1>v, <2>1, <2>2, <2>4
    <3>2. Rpc!Die(c)
      BY <2>1, <2>2, <3>1, <1>e, <1>f DEF Rpc!Die
    <3> QED
      BY <3>2 DEF Rpc!Next
  <2> QED
    BY <2>3, <2>4
<1>3. CASE \E svc \in SvcIds, body \in BOOLEAN : SendHdr(c, svc, body)
  <2>1. /\ RpcStateOf(c)' = "calling" /\ RpcRetOf(c)' = Pending /\ RpcState[c] = "idle"
        /\ call[c] < MaxCalls /\ call' = [call EXCEPT ![c] = @ + 1] /\ call'[c] = call[c] + 1
    BY <1>3, <1>t, <1>v DEF SendHdr
  <2>2. Rpc!Begin(c)
    BY <2>1, <1>e, <1>f, <1>v DEF Rpc!Begin, Rpc!NewCall
  <2> QED
    BY <2>2 DEF Rpc!Next
<1>4. CASE SendFails(c)
  <2>0. ~InFlight(c)'
    <3>1. srvEnd[c] = "closed" /\ cli[c] \in {"ready", "sendBody"} /\ c2s' = c2s
      BY <1>4 DEF SendFails
    <3> QED
      BY <1>g, <1>p, <3>1 DEF InFlight, Cur
  <2>1. CASE cli[c] = "ready"
    <3>1. /\ RpcState[c] = "idle" /\ call[c] < MaxCalls
          /\ call' = [call EXCEPT ![c] = @ + 1] /\ call'[c] = call[c] + 1
          /\ \/ RpcStateOf(c)' = "idle" /\ RpcRetOf(c)' = ErrSend
             \/ RpcStateOf(c)' = "gone" /\ RpcRetOf(c)' = Pending
      BY <1>4, <2>0, <2>1, <1>t, <1>v DEF SendFails, Quit
    <3>2. CASE RpcStateOf(c)' = "idle" /\ RpcRetOf(c)' = ErrSend
      <4>1. Rpc!BeginFails(c)
        BY <3>1, <3>2, <1>e, <1>f, <1>v DEF Rpc!BeginFails, Rpc!NewCall, Rpc!ErrSend, ErrSend
      <4> QED
        BY <4>1 DEF Rpc!Next
    <3>3. CASE RpcStateOf(c)' = "gone" /\ RpcRetOf(c)' = Pending
      <4>1. Rpc!Leave(c)
        BY <3>1, <3>3, <1>e, <1>f, <1>v DEF Rpc!Leave, Rpc!NewCall
      <4> QED
        BY <4>1 DEF Rpc!Next
    <3> QED
      BY <3>1, <3>2, <3>3
  <2>2. CASE cli[c] = "sendBody"
    <3>1. /\ RpcState[c] = "calling" /\ RpcDone[c] = NotRun /\ RpcRet[c] = Pending /\ call' = call
          /\ \/ RpcStateOf(c)' = "idle" /\ RpcRetOf(c)' = ErrSend
             \/ RpcStateOf(c)' = "gone" /\ RpcRetOf(c)' = Pending
      BY <1>4, <2>0, <2>2, <1>t, <1>v, <1>k DEF SendFails, CallOf, Quit
    <3>2. CASE RpcStateOf(c)' = "idle" /\ RpcRetOf(c)' = ErrSend
      <4>1. Rpc!Return(c)
        BY <3>1, <3>2, <1>e, <1>f DEF Rpc!Return, Rpc!ErrSend, ErrSend
      <4> QED
        BY <4>1 DEF Rpc!Next
    <3>3. CASE RpcStateOf(c)' = "gone" /\ RpcRetOf(c)' = Pending
      <4>1. Rpc!Die(c)
        BY <3>1, <3>3, <1>e, <1>f DEF Rpc!Die
      <4> QED
        BY <4>1 DEF Rpc!Next
    <3> QED
      BY <3>1, <3>2, <3>3
  <2> QED
    BY <1>4, <2>1, <2>2 DEF SendFails
<1>5. CASE RecvReplyHdr(c)
  <2>1. /\ cli[c] = "recvHdr" /\ call' = call /\ Len(s2c[c]) > 0 /\ Head(s2c[c]) = s2c[c][1]
    BY <1>5, <1>l DEF RecvReplyHdr
  <2>2. Announced(c)
    BY <2>1, <1>k DEF CallOf
  <2>3. /\ RpcState[c] = "calling" /\ RpcRet[c] = Pending /\ RpcDone[c] = Code(c)
        /\ FromStatus(s2c[c][1].status) = Code(c)
    BY <2>1, <2>2, <1>v DEF Announced
  <2>4. CASE s2c[c][1].body
    <3>1. RpcStateOf(c)' = RpcState[c] /\ RpcRetOf(c)' = RpcRet[c]
      BY <1>5, <2>1, <2>3, <2>4, <1>t, <1>v DEF RecvReplyHdr
    <3>2. UNCHANGED Rpc!rpcVars
      BY <2>1, <3>1, <1>e, <1>f DEF Rpc!rpcVars
    <3> QED
      BY <3>2
  <2>5. CASE ~s2c[c][1].body
    <3>1. RpcStateOf(c)' = "idle" /\ RpcRetOf(c)' = RpcDone[c]
      BY <1>5, <2>1, <2>3, <2>5, <1>t, <1>v DEF RecvReplyHdr
    <3>2. RpcDone[c] # NotRun
      BY <2>2, <2>3, <1>k, WordAssumption DEF Announced, Executed, HistoryOf, NotRun, UnknownCode
    <3>3. Rpc!Return(c)
      BY <2>1, <2>3, <3>1, <3>2, <1>e, <1>f DEF Rpc!Return
    <3> QED
      BY <3>3 DEF Rpc!Next
  <2> QED
    BY <2>4, <2>5
<1>6. CASE RecvReplyBody(c)
  <2>1. /\ cli[c] = "recvBody" /\ call' = call /\ RpcStateOf(c)' = "idle" /\ RpcRetOf(c)' = result[c]
    BY <1>6, <1>t, <1>v DEF RecvReplyBody
  <2>2. Executed(c) /\ result[c] = Code(c)
    BY <2>1, <1>k DEF CallOf
  <2>3. RpcState[c] = "calling" /\ RpcDone[c] = Code(c)
    BY <2>1, <2>2, <1>v
  <2>4. RpcDone[c] # NotRun
    BY <2>2, <2>3, <1>k, WordAssumption DEF Executed, HistoryOf, NotRun, UnknownCode
  <2>5. Rpc!Return(c)
    BY <2>1, <2>2, <2>3, <2>4, <1>e, <1>f DEF Rpc!Return
  <2> QED
    BY <2>5 DEF Rpc!Next
<1>7. CASE RecvFails(c)
  <2>1. /\ RpcState[c] = "calling" /\ call' = call /\ RpcStateOf(c)' = "idle" /\ RpcRetOf(c)' = ErrRecv
    BY <1>7, <1>t, <1>v DEF RecvFails
  <2>2. Rpc!Return(c)
    BY <2>1, <1>e, <1>f DEF Rpc!Return, Rpc!ErrRecv, ErrRecv
  <2> QED
    BY <2>2 DEF Rpc!Next
<1> QED
  BY <1>1, <1>2, <1>3, <1>4, <1>5, <1>6, <1>7 DEF ClientStep, FinishCall, Misread

(* The handler's run is the abstract execution; of the rest of the server only  *)
(* that it drops what dead clients have sent is visible.                        *)
LEMMA ServerRpc ==
  ASSUME TableInv, TalkInv, ServerStep
  PROVE  [Rpc!Next]_Rpc!rpcVars
<1>0. ASSUME Handle \/ HandleUnknown PROVE Cur \in Conns /\ srvEnd[Cur] = "open"
  BY <1>0, ServedIsOpen DEF Handle, HandleUnknown, Serving
<1>1. ASSUME Handle \/ HandleUnknown, ~garbled[Cur] PROVE Rpc!Next
  <2>c. PICK c \in Conns : c = Cur /\ srvEnd[c] = "open" /\ ~garbled[c]
    BY <1>0, <1>1
  <2>k. HistoryOf(c) /\ RequestOf(c) /\ CallOf(c)
    BY <2>c DEF TalkInv, InStep, Talk
  <2>1. Holds(c) /\ pc = "handle"
    BY <1>1, <2>c DEF Handle, HandleUnknown, Holds, Holding
  <2>2. cur.call = call[c] /\ ~Executed(c) /\ call[c] > 0 /\ cli[c] \notin {"new", "ready"}
    <3>1. cur \in Request
      BY <2>1 DEF TalkInv, TalkTypes, Holds, Holding
    <3>2. cur.call > 0
      BY <3>1, SizeAssumption DEF Request
    <3> QED
      BY <2>1, <2>k, <3>2 DEF RequestOf, CallOf, Consumed
  <2>3. PICK rc \in HandlerRcs \cup {UnknownCode} :
           served' = [served EXCEPT ![c] = Append(@, [call |-> cur.call, code |-> rc])]
    BY <1>1, <2>c DEF Handle, HandleUnknown
  <2>4. UNCHANGED clientVars
    BY <1>1 DEF Handle, HandleUnknown
  <2>5. RpcDoneOf(c)' = rc /\ \A d \in Conns \ {c} : served'[d] = served[d]
    <3> DEFINE e == [call |-> cur.call, code |-> rc]
    <3>4. cur \in Request
      BY <2>1 DEF TalkInv, TalkTypes, Holds, Holding
    <3>5. rc \in Int
      BY <2>3, WordAssumption DEF UnknownCode
    <3>6. e \in [call : 1 .. MaxCalls, code : Int]
      BY <3>4, <3>5 DEF Request
    <3>1. served \in [Conns -> Seq([call : 1 .. MaxCalls, code : Int])] /\ e \in [call : 1 .. MaxCalls, code : Int]
      BY <3>6 DEF TalkInv, TalkTypes
    <3>2. served'[c] = Append(served[c], e)
      BY <2>3, <3>1
    <3>3. Len(served'[c]) > 0 /\ served'[c][Len(served'[c])] = e
      BY <3>1, <3>2, AppendFacts
    <3> QED
      BY <2>c, <2>2, <2>3, <2>4, <3>1, <3>3 DEF RpcDoneOf, LastServed, clientVars
  <2>i. /\ InFlight(c) /\ ~InFlight(c)'
        /\ \A d \in Conns \ {c} : InFlight(d)' <=> InFlight(d)
    <3>1. UNCHANGED <<clientFds, fdTab, idx, srvEnd, c2s>> /\ pc' = "replyHdr"
      BY <1>1 DEF Handle, HandleUnknown
    <3>2. c2s[c] = <<>>
      <4>1. c2s[c] \in Seq(ReqPart) /\ Len(c2s[c]) = 0
        BY <2>1, <2>k DEF TableInv, TableTypes, RequestOf
      <4> QED
        BY <4>1, LenFacts
    <3> QED
      BY <2>1, <2>c, <3>1, <3>2 DEF InFlight, Cur
  <2>6. RpcRetOf(c)' = RpcRet[c] /\ RpcCallOf(c)' = RpcCallOf(c) /\ RpcCall[c] = call[c]
    BY <2>c, <2>4, RpcValues DEF RpcRetOf, RpcCallOf, clientVars
  <2>7. RpcState[c] \in {"calling", "orphan"} /\ RpcDone[c] = NotRun
    BY <2>c, <2>2, <2>i, RpcValues DEF RpcStateOf
  <2>9. RpcStateOf(c)' = IF RpcState[c] = "orphan" THEN "gone" ELSE RpcState[c]
    BY <2>c, <2>2, <2>4, <2>i, RpcValues DEF RpcStateOf, clientVars
  <2>o. \A d \in Conns \ {c} : /\ cli'[d] = cli[d] /\ call'[d] = call[d]
                               /\ result'[d] = result[d] /\ served'[d] = served[d]
                               /\ garbled'[d] = garbled[d]
                               /\ InFlight(d)' <=> InFlight(d)
    BY <2>4, <2>5, <2>i DEF clientVars
  <2>u. RpcCall' = RpcCall /\ RpcRet' = RpcRet
    BY <2>6, <2>o, <2>c, RpcKept, RpcValues
  <2>8. Rpc!Execute(c)
    <3>1. RpcDone' = [RpcDone EXCEPT ![c] = rc]
      BY <2>5, <2>o, RpcUpdate
    <3>2. RpcState' = [RpcState EXCEPT ![c] = IF @ = "orphan" THEN "gone" ELSE @]
      BY <2>9, <2>o, RpcUpdate
    <3> QED
      BY <2>2, <2>3, <2>6, <2>7, <2>u, <3>1, <3>2 DEF Rpc!Execute
  <2> QED
    BY <2>8 DEF Rpc!Next
<1>g. ASSUME Handle \/ HandleUnknown, garbled[Cur] PROVE UNCHANGED Rpc!rpcVars
  <2>c. PICK c \in Conns : c = Cur /\ garbled[c]
    BY <1>0, <1>g
  <2>1. /\ UNCHANGED <<clientVars, clientFds, fdTab, idx, srvEnd, c2s>> /\ pc = "handle" /\ pc' = "replyHdr"
        /\ \A d \in Conns \ {c} : served'[d] = served[d]
    BY <1>g, <2>c DEF Handle, HandleUnknown, TalkInv, TalkTypes
  <2>2. \A d \in Conns \ {c} : InFlight(d)' <=> InFlight(d)
    BY <2>1, <2>c DEF InFlight, Cur
  <2>3. /\ RpcStateOf(c)' = RpcStateOf(c) /\ RpcCallOf(c)' = RpcCallOf(c)
        /\ RpcDoneOf(c)' = RpcDoneOf(c) /\ RpcRetOf(c)' = RpcRetOf(c)
    BY <2>1, <2>c DEF RpcStateOf, RpcCallOf, RpcDoneOf, RpcRetOf, clientVars
  <2> QED
    BY <2>1, <2>2, <2>3, RpcKept DEF Rpc!rpcVars, clientVars
<1>2. CASE ~(Handle \/ HandleUnknown)
  <2>1. UNCHANGED <<clientVars, served>>
    BY <1>2 DEF ServerStep, Run, LoopCheck, LoopExit, Select, SelectTimeout,
           NoAccept, Accept, AcceptFull, ScanSkip, ScanRead, ScanEnd, Destroy,
           RecvHdr, RecvBody, RecvEof, RecvGrowFails, RemoveCur, ReplyHdr, ReplyBody, ReplyToGonePeer
  <2>2. Rpc!Drop
    BY <1>2, <2>1, InFlightShrinks, RpcDrop
  <2> QED
    BY <2>2 DEF Rpc!Next
<1> QED
  BY <1>1, <1>g, <1>2

(* Every behaviour of the transport is one of NovaRpc, under the mapping of      *)
(* NovaIpc: at most one execution per call, none after its return, the code of   *)
(* the execution as the result, up to a reply for which a client finds no memory. *)
(* See CallsAreAtMostOnce.                                                       *)
THEOREM TransportImplementsRpc == Spec => CallsAreAtMostOnce
<1>1. Init => Rpc!Init
  BY DEF Init, Rpc!Init, RpcState, RpcCall, RpcDone, RpcRet, RpcStateOf, RpcCallOf, RpcDoneOf, RpcRetOf
<1>2. CallInv /\ [Next]_vars => [Rpc!Next]_Rpc!rpcVars
  <2> SUFFICES ASSUME TableInv, TalkInv, [Next]_vars PROVE [Rpc!Next]_Rpc!rpcVars
    BY DEF CallInv
  <2>1. CASE Stop
    BY <2>1, RpcStutter DEF Stop
  <2>2. CASE UNCHANGED vars
    BY <2>2, RpcStutter DEF vars, serverVars
  <2>3. ASSUME NEW c \in Conns, ClientStep(c) PROVE [Rpc!Next]_Rpc!rpcVars
    <3>1. CASE garbled[c]
      BY <2>3, <3>1, GarbledRpc
    <3>2. CASE ReplyGrowFails(c)
      BY <3>2, BreakRpc DEF Rpc!Next
    <3>3. CASE ~garbled[c] /\ ~ReplyGrowFails(c)
      BY <2>3, <3>3, ClientRpc
    <3> QED
      BY <3>1, <3>2, <3>3
  <2> QED
    BY <2>1, <2>2, <2>3, ServerRpc DEF Next, Terminated
<1>3. Init => CallInv
  BY InitTable, InitTalk DEF CallInv
<1> QED
  BY <1>1, <1>2, <1>3, NextTalk, PTL DEF Spec, CallsAreAtMostOnce, Rpc!Spec
=============================================================================
